------------------------ MODULE IdentityContext_proofs ------------------------
(***************************************************************************)
(* useIdentityContext over one storage object, for any identities, any     *)
(* number of calls and renders, and any way the calls overlap.             *)
(***************************************************************************)
EXTENDS IdentityContext, SequenceTheorems, TLAPS

CallType == [op : {"load", "refresh", "save", "clear"}, stage : Stages,
             who : Maybe(Identities), db : Maybe(Identities),
             key : Maybe(Identities), sealed : Maybe(Envelope),
             result : Maybe(Context), cancelled : BOOLEAN]

Reads(c) == c.op \in {"load", "refresh"}
Waits(c) == c.stage \in {"reading", "writing"}

(* What a call has in hand at each of its stages. *)
CallOK(c) ==
  /\ c.stage \in {"opening", "loadingKey", "reading", "decrypting"} => Reads(c)
  /\ c.stage \in {"encrypting", "writing"} => ~Reads(c)
  /\ c.stage = "encrypting" => c.op = "save"
  /\ c.stage = "opening" => c.who # None
  /\ c.stage = "decrypting" => c.sealed # None
  /\ Waits(c) => c.db # None
  /\ c.op = "save" /\ c.stage \in {"encrypting", "writing"} =>
       c.sealed # None /\ c.sealed.data.owner = c.who
  /\ c.op = "save" /\ c.stage = "resolved" => c.result # None /\ c.result.owner = c.who
  /\ c.op = "clear" /\ c.stage = "resolved" => c.result = None

GoodCall == {c \in CallType : CallOK(c)}

Types ==
  /\ store \in Fields
  /\ disk \in [Identities -> Database]
  /\ calls \in Seq(GoodCall)
  /\ identity \in Maybe(Identities) /\ prev \in Maybe(Identities)
  /\ context \in Maybe(Context)
  /\ pending \in BOOLEAN /\ isLoaded \in BOOLEAN /\ failed \in BOOLEAN
  /\ overlapped \in BOOLEAN /\ renders \in 0..MaxRenders

(* Exactly the calls that wait for a database are in its queue, once each. *)
Queued(i, n) == \E k \in DOMAIN disk[i].queue : disk[i].queue[k] = n

Queues ==
  /\ \A i \in Identities : \A k \in DOMAIN disk[i].queue :
       /\ disk[i].queue[k] \in DOMAIN calls
       /\ Waits(calls[disk[i].queue[k]])
       /\ calls[disk[i].queue[k]].db = i
       /\ \A j \in DOMAIN disk[i].queue : disk[i].queue[j] = disk[i].queue[k] => j = k
  /\ \A n \in DOMAIN calls : Waits(calls[n]) => Queued(calls[n].db, n)

(* Once the effect of an identity has run, the object is at that identity, *)
(* and what may still commit is a call for it, with its own data.          *)
Settles == ~pending /\ identity # None

Owns ==
  Settles =>
    /\ store.current = identity
    /\ \A n \in InFlight :
         /\ calls[n].op = "load" /\ ~calls[n].cancelled => calls[n].who = identity
         /\ calls[n].op = "refresh" /\ Newest(n) => calls[n].who = identity
         /\ Reads(calls[n]) /\ calls[n].stage = "resolved" /\ calls[n].result # None =>
              calls[n].result.owner = identity

(* A newest load that has left no trace is still on its way. *)
Notices ==
  ~isLoaded =>
    /\ calls = <<>> => pending
    /\ calls # <<>> /\ calls[Len(calls)].op = "load" =>
         calls[Len(calls)].stage # "done" /\ ~calls[Len(calls)].cancelled

(* A lone call works on the database and with the key of one identity, and *)
(* what it has read or written is what is stored.                          *)
LoneCall(c) ==
  LET at == store.current IN
  /\ ~c.cancelled
  /\ ~pending => c.who = identity
  /\ c.stage = "opening" => c.who = at
  /\ c.stage = "loadingKey" => c.key \in {None, at}
  /\ Waits(c) => c.db = at
  /\ c.stage = "decrypting" => c.sealed = disk[at].record
  /\ c.op = "save" /\ c.stage \in {"encrypting", "writing"} =>
       c.sealed.key = at /\ c.sealed.data.owner = at
  /\ c.stage = "resolved" /\ c.result # None =>
       disk[at].record # None /\ disk[at].record.data = c.result

(* While nothing overlaps. *)
Alone ==
  ~overlapped =>
    /\ \A n \in InFlight : Newest(n) /\ LoneCall(calls[n])
    /\ store.db \in {None, store.current}
    /\ store.cacheKey \in {None, store.current}
    /\ Isolated

(* What is shown is stored, or a call is about to show what is.            *)
Shown == context # None => disk[identity].record # None /\ disk[identity].record.data = context

Shows ==
  (~overlapped /\ ~failed /\ Settles) =>
    \/ Shown
    \/ \E n \in InFlight : calls[n].op = "load" \/ calls[n].stage = "resolved"

IInv == Types /\ Queues /\ Owns /\ Notices /\ Alone /\ Shows
-----------------------------------------------------------------------------
(***************************************************************************)
(* How the calls change: one of them, or a new one, becomes c.             *)
(***************************************************************************)
Becomes(n, c) ==
  /\ calls' \in Seq(GoodCall)
  /\ DOMAIN calls' = DOMAIN calls \cup {n}
  /\ calls'[n] = c
  /\ \A m \in DOMAIN calls \ {n} : calls'[m] = calls[m]

LEMMA CallsAre ==
  ASSUME Types
  PROVE  /\ DOMAIN calls = 1..Len(calls) /\ Len(calls) \in Nat
         /\ \A n \in DOMAIN calls : /\ n \in Nat \ {0} /\ n <= Len(calls)
                                      /\ calls[n] \in CallType /\ CallOK(calls[n])
  BY DEF Types, GoodCall

LEMMA Moves ==
  ASSUME Types, NEW n \in DOMAIN calls, NEW c \in GoodCall, calls' = [calls EXCEPT ![n] = c]
  PROVE  /\ Becomes(n, c) /\ DOMAIN calls' = DOMAIN calls /\ Len(calls') = Len(calls)
<1>1. calls \in Seq(GoodCall)
  BY DEF Types
<1>2. /\ calls' \in Seq(GoodCall) /\ DOMAIN calls' = DOMAIN calls /\ Len(calls') = Len(calls)
      /\ calls'[n] = c
  BY <1>1, ExceptSeq
<1>3. \A m \in DOMAIN calls \ {n} : calls'[m] = calls[m]
  OBVIOUS
<1> QED BY <1>2, <1>3 DEF Becomes

LEMMA Begins ==
  ASSUME Types, NEW c \in GoodCall, calls' = Append(calls, c)
  PROVE  /\ Becomes(Len(calls) + 1, c) /\ Len(calls') = Len(calls) + 1
         /\ Len(calls) + 1 \notin DOMAIN calls /\ DOMAIN calls' = 1..(Len(calls) + 1)
<1>1. calls \in Seq(GoodCall)
  BY DEF Types
<1>2. /\ calls' \in Seq(GoodCall) /\ Len(calls') = Len(calls) + 1
      /\ calls'[Len(calls) + 1] = c /\ \A m \in 1..Len(calls) : calls'[m] = calls[m]
  BY <1>1, AppendProperties
<1> QED BY <1>1, <1>2 DEF Becomes

LEMMA ExceptIs ==
  ASSUME NEW S, NEW T, NEW f \in [S -> T], NEW i \in S, NEW v \in T
  PROVE  LET g == [f EXCEPT ![i] = v] IN
         g \in [S -> T] /\ g[i] = v /\ \A j \in S \ {i} : g[j] = f[j]
OBVIOUS

-----------------------------------------------------------------------------
(***************************************************************************)
(* The queues.                                                             *)
(***************************************************************************)
(* Nothing begins or stops to wait. *)
LEMMA QueuesKept ==
  ASSUME Types, Queues,
         \A i \in Identities : disk'[i].queue = disk[i].queue,
         DOMAIN calls \subseteq DOMAIN calls',
         \A m \in DOMAIN calls : /\ Waits(calls'[m]) <=> Waits(calls[m])
                                 /\ Waits(calls[m]) => calls'[m].db = calls[m].db,
         \A m \in DOMAIN calls' \ DOMAIN calls : ~Waits(calls'[m])
  PROVE  Queues'
<1>1. \A n \in DOMAIN calls : Waits(calls[n]) => calls[n].db \in Identities
  BY CallsAre DEF CallOK, CallType, Maybe
<1>2. \A i \in Identities : \A n : Queued(i, n)' <=> Queued(i, n)
  BY DEF Queued
<1>3. ASSUME NEW n \in DOMAIN calls', Waits(calls'[n])
      PROVE  \E k \in DOMAIN disk'[calls'[n].db].queue : disk'[calls'[n].db].queue[k] = n
  <2>1. n \in DOMAIN calls /\ Waits(calls[n]) /\ calls'[n].db = calls[n].db
    BY <1>3
  <2>2. Queued(calls[n].db, n) /\ calls[n].db \in Identities
    BY <1>1, <2>1 DEF Queues
  <2> QED BY <2>1, <2>2 DEF Queued
<1>4. ASSUME NEW i \in Identities, NEW k \in DOMAIN disk'[i].queue
      PROVE  /\ disk'[i].queue[k] \in DOMAIN calls'
             /\ Waits(calls'[disk'[i].queue[k]])
             /\ calls'[disk'[i].queue[k]].db = i
             /\ \A j \in DOMAIN disk'[i].queue : disk'[i].queue[j] = disk'[i].queue[k] => j = k
  <2>1. disk'[i].queue = disk[i].queue /\ k \in DOMAIN disk[i].queue
    OBVIOUS
  <2>2. PICK m : m = disk[i].queue[k]
    OBVIOUS
  <2>3. /\ m \in DOMAIN calls /\ Waits(calls[m]) /\ calls[m].db = i
        /\ \A j \in DOMAIN disk[i].queue : disk[i].queue[j] = m => j = k
    BY <2>1, <2>2 DEF Queues
  <2>4. m \in DOMAIN calls' /\ Waits(calls'[m]) /\ calls'[m].db = i
    BY <2>3
  <2> QED BY <2>1, <2>2, <2>3, <2>4
<1> QED BY <1>3, <1>4 DEF Queues, Queued

(* A call that does not wait for a database is made. *)
LEMMA BeginsQueuesKept ==
  ASSUME Types, Queues, NEW c \in GoodCall, calls' = Append(calls, c), ~Waits(c),
         disk' = disk
  PROVE  Queues'
<1>1. /\ DOMAIN calls' = DOMAIN calls \cup {Len(calls) + 1} /\ Len(calls) + 1 \notin DOMAIN calls
      /\ calls'[Len(calls) + 1] = c /\ \A m \in DOMAIN calls : calls'[m] = calls[m]
  BY Begins DEF Becomes
<1> QED BY <1>1, QueuesKept

(* A call begins to wait. *)
LEMMA Enqueues ==
  ASSUME Types, Queues, NEW n \in Nat, NEW c \in GoodCall, Becomes(n, c),
         n \in DOMAIN calls => ~Waits(calls[n]),
         NEW i \in Identities, Waits(c), c.db = i,
         disk' = [disk EXCEPT ![i].queue = Append(@, n)]
  PROVE  /\ Queues' /\ disk' \in [Identities -> Database]
         /\ \A j \in Identities : disk'[j].record = disk[j].record /\ disk'[j].key = disk[j].key
<1> DEFINE q == disk[i].queue
           r == Append(q, n)
<1>1. /\ q \in Seq(Nat) /\ disk[i] \in Database
  BY DEF Types, Database
<1>2. /\ r \in Seq(Nat) /\ Len(q) \in Nat /\ DOMAIN q = 1..Len(q) /\ DOMAIN r = 1..(Len(q) + 1)
      /\ r[Len(q) + 1] = n /\ \A k \in DOMAIN q : r[k] = q[k]
  BY <1>1, AppendProperties
<1> HIDE DEF r
<1>3. PICK d : d = [disk[i] EXCEPT !.queue = r]
  OBVIOUS
<1>4. /\ d \in Database /\ d.queue = r /\ d.record = disk[i].record /\ d.key = disk[i].key
  BY <1>1, <1>2, <1>3 DEF Database
<1>5. disk' = [disk EXCEPT ![i] = d]
  BY <1>3 DEF r
<1>6. /\ disk' \in [Identities -> Database]
      /\ disk'[i] = d /\ \A j \in Identities \ {i} : disk'[j] = disk[j]
  <2>1. disk \in [Identities -> Database] /\ d \in Database
    BY <1>4 DEF Types
  <2> QED BY <1>5, <2>1, ExceptIs
<1>7. \A k \in DOMAIN q : q[k] # n
  BY DEF Queues
<1>8. ASSUME NEW j \in Identities, NEW k \in DOMAIN disk'[j].queue
      PROVE  /\ disk'[j].queue[k] \in DOMAIN calls'
             /\ Waits(calls'[disk'[j].queue[k]])
             /\ calls'[disk'[j].queue[k]].db = j
             /\ \A l \in DOMAIN disk'[j].queue : disk'[j].queue[l] = disk'[j].queue[k] => l = k
  <2>1. CASE j = i
    <3>1. disk'[j].queue = r
      BY <1>4, <1>6, <2>1
    <3>2. CASE k = Len(q) + 1
      BY <1>2, <1>7, <2>1, <3>1, <3>2 DEF Becomes
    <3>3. CASE k \in DOMAIN q
      <4>1. /\ q[k] \in DOMAIN calls /\ Waits(calls[q[k]]) /\ calls[q[k]].db = i
            /\ \A l \in DOMAIN q : q[l] = q[k] => l = k
        BY <3>3 DEF Queues
      <4>2. /\ r[k] = q[k] /\ q[k] # n
        BY <1>2, <1>7, <3>3
      <4>3. calls'[r[k]] = calls[q[k]] /\ r[k] \in DOMAIN calls'
        BY <4>1, <4>2 DEF Becomes
      <4>4. ASSUME NEW l \in DOMAIN r, r[l] = r[k] PROVE l = k
        <5>1. l # Len(q) + 1
          BY <1>2, <4>2, <4>4
        <5>2. l \in DOMAIN q
          BY <1>2, <5>1
        <5> QED BY <1>2, <4>1, <4>2, <4>4, <5>2
      <4> QED BY <2>1, <3>1, <4>1, <4>3, <4>4
    <3>4. k \in DOMAIN r
      BY <3>1
    <3> QED BY <1>2, <3>2, <3>3, <3>4
  <2>2. CASE j # i
    <3>1. disk'[j].queue = disk[j].queue
      BY <1>6, <2>2
    <3>2. k \in DOMAIN disk[j].queue
      BY <3>1
    <3>3. disk[j].queue[k] \in DOMAIN calls /\ Waits(calls[disk[j].queue[k]])
      BY <3>2 DEF Queues
    <3>4. disk[j].queue[k] # n
      BY <3>3
    <3> QED BY <3>1, <3>3, <3>4 DEF Queues, Becomes
  <2> QED BY <2>1, <2>2
<1>9. ASSUME NEW m \in DOMAIN calls', Waits(calls'[m])
      PROVE  \E k \in DOMAIN disk'[calls'[m].db].queue : disk'[calls'[m].db].queue[k] = m
  <2>1. CASE m = n
    <3>1. Len(q) + 1 \in DOMAIN disk'[i].queue /\ disk'[i].queue[Len(q) + 1] = n
      BY <1>2, <1>4, <1>6
    <3> QED BY <2>1, <3>1 DEF Queued, Becomes
  <2>2. CASE m # n
    <3>1. m \in DOMAIN calls /\ calls'[m] = calls[m]
      BY <2>2 DEF Becomes
    <3>2. PICK k \in DOMAIN disk[calls[m].db].queue : disk[calls[m].db].queue[k] = m
      BY <1>9, <3>1 DEF Queues, Queued
    <3>3. calls[m].db \in Identities
      BY <1>9, <3>1, CallsAre DEF CallOK, CallType, Maybe
    <3>4. k \in DOMAIN disk'[calls[m].db].queue /\ disk'[calls[m].db].queue[k] = m
      <4>1. CASE calls[m].db = i
        <5>1. disk'[i].queue = r
          BY <1>4, <1>6
        <5>2. k \in DOMAIN q /\ q[k] = m
          BY <3>2, <4>1
        <5>3. k \in DOMAIN r /\ r[k] = m
          BY <1>2, <5>2
        <5> QED BY <4>1, <5>1, <5>3
      <4>2. CASE calls[m].db # i
        BY <1>6, <3>2, <3>3, <4>2
      <4> QED BY <4>1, <4>2
    <3> QED BY <3>1, <3>4 DEF Queued
  <2> QED BY <2>1, <2>2
<1>10. \A j \in Identities : disk'[j].record = disk[j].record /\ disk'[j].key = disk[j].key
  BY <1>4, <1>6
<1> QED BY <1>6, <1>8, <1>9, <1>10 DEF Queues, Queued

(* A call's turn is over; d is what its database becomes. *)
LEMMA Dequeues ==
  ASSUME Types, Queues, NEW n \in DOMAIN calls, NEW c \in GoodCall, Becomes(n, c),
         Turn(n), ~Waits(c), NEW d, d.queue = Tail(disk[calls[n].db].queue),
         disk' = [disk EXCEPT ![calls[n].db] = d]
  PROVE  /\ Queues' /\ calls[n].db \in Identities
         /\ disk[calls[n].db].queue \in Seq(Nat) /\ disk[calls[n].db].queue # <<>>
<1> DEFINE i == calls[n].db
           q == disk[i].queue
           r == Tail(q)
<1>0. Waits(calls[n])
  BY DEF Turn, Waits
<1>1. i \in Identities
  BY <1>0, CallsAre DEF CallOK, CallType, Maybe
<1>2. PICK h \in DOMAIN q : q[h] = n
  BY <1>0 DEF Queues, Queued
<1>3. q \in Seq(Nat) /\ q # <<>>
  BY <1>1, <1>2 DEF Types, Database
<1>4. /\ Len(q) \in Nat \ {0} /\ DOMAIN q = 1..Len(q) /\ DOMAIN r = 1..(Len(q) - 1)
      /\ \A k \in DOMAIN r : r[k] = q[k + 1] /\ k + 1 \in DOMAIN q
  BY <1>3, HeadTailProperties
<1>5. q[1] = n /\ 1 \in DOMAIN q
  BY <1>3, <1>4 DEF Turn
<1>6. \A j, k \in DOMAIN q : q[j] = q[k] => j = k
  BY <1>1 DEF Queues
<1> HIDE DEF r
<1>7. \A k \in DOMAIN r : r[k] # n
  <2> SUFFICES ASSUME NEW k \in DOMAIN r, r[k] = n PROVE FALSE
    OBVIOUS
  <2>1. q[k + 1] = q[1] /\ k + 1 \in DOMAIN q
    BY <1>4, <1>5
  <2>2. k + 1 = 1
    BY <1>5, <1>6, <2>1, Zenon
  <2> QED BY <1>4, <2>2
<1>8. \A k \in DOMAIN q : q[k] # n => \E l \in DOMAIN r : r[l] = q[k]
  <2> SUFFICES ASSUME NEW k \in DOMAIN q, q[k] # n PROVE \E l \in DOMAIN r : r[l] = q[k]
    OBVIOUS
  <2>1. k # 1 /\ k - 1 \in DOMAIN r /\ (k - 1) + 1 = k
    BY <1>4, <1>5
  <2> QED BY <1>4, <2>1
<1>9. /\ disk'[i].queue = r /\ \A j \in Identities \ {i} : disk'[j] = disk[j]
  BY <1>1 DEF Types, r
<1>10. ASSUME NEW j \in Identities, NEW k \in DOMAIN disk'[j].queue
       PROVE  /\ disk'[j].queue[k] \in DOMAIN calls'
              /\ Waits(calls'[disk'[j].queue[k]])
              /\ calls'[disk'[j].queue[k]].db = j
              /\ \A l \in DOMAIN disk'[j].queue : disk'[j].queue[l] = disk'[j].queue[k] => l = k
  <2>1. CASE j = i
    <3>1. disk'[j].queue = r
      BY <1>9, <2>1
    <3>2. r[k] = q[k + 1] /\ k + 1 \in DOMAIN q /\ q[k + 1] # n
      BY <1>4, <1>7, <3>1
    <3>3. q[k + 1] \in DOMAIN calls /\ Waits(calls[q[k + 1]]) /\ calls[q[k + 1]].db = i
      BY <1>1, <3>2 DEF Queues
    <3>4. ASSUME NEW l \in DOMAIN r, r[l] = r[k] PROVE l = k
      <4>1. l + 1 = k + 1
        BY <1>4, <1>6, <3>2, <3>4
      <4>2. k \in Int /\ l \in Int
        <5>1. DOMAIN r \subseteq Int
          BY <1>4
        <5> QED BY <3>1, <5>1
      <4> QED BY <4>1, <4>2
    <3> QED BY <2>1, <3>1, <3>2, <3>3, <3>4 DEF Becomes
  <2>2. CASE j # i
    <3>1. disk'[j].queue = disk[j].queue
      BY <1>9, <2>2
    <3>2. disk[j].queue[k] \in DOMAIN calls /\ disk[j].queue[k] # n
      BY <2>2, <3>1 DEF Queues
    <3> QED BY <3>1, <3>2 DEF Queues, Becomes
  <2> QED BY <2>1, <2>2
<1>11. ASSUME NEW m \in DOMAIN calls', Waits(calls'[m])
       PROVE  \E k \in DOMAIN disk'[calls'[m].db].queue : disk'[calls'[m].db].queue[k] = m
  <2>1. m # n /\ m \in DOMAIN calls /\ calls'[m] = calls[m]
    BY <1>11 DEF Becomes
  <2>2. PICK k \in DOMAIN disk[calls[m].db].queue : disk[calls[m].db].queue[k] = m
    BY <1>11, <2>1 DEF Queues, Queued
  <2>3. calls[m].db \in Identities
    BY <1>11, <2>1, CallsAre DEF CallOK, CallType, Maybe
  <2>4. \E l \in DOMAIN disk'[calls[m].db].queue : disk'[calls[m].db].queue[l] = m
    BY <1>8, <1>9, <2>1, <2>2, <2>3
  <2> QED BY <2>1, <2>4 DEF Queued
<1> QED BY <1>1, <1>3, <1>10, <1>11 DEF Queues, Queued

-----------------------------------------------------------------------------
(***************************************************************************)
(* Steps of the storage object: the hook waits, and a call in flight       *)
(* becomes c.                                                              *)
(***************************************************************************)
LEMMA StorageFrame ==
  ASSUME Types, Owns, Notices, Alone, Shows, UNCHANGED hookVars,
         NEW n \in InFlight, NEW c \in GoodCall, Becomes(n, c),
         calls[n].stage # "resolved", c.stage # "done",
         c.op = calls[n].op, c.who = calls[n].who, c.cancelled = calls[n].cancelled,
         store'.current = store.current,
         Settles /\ Reads(c) /\ c.stage = "resolved" /\ c.result # None =>
           c.result.owner = identity,
         ~overlapped => /\ LoneCall(c)'
                        /\ store'.db \in {None, store.current}
                        /\ store'.cacheKey \in {None, store.current}
                        /\ Isolated',
         c.stage = "resolved" \/ \A i \in Identities : disk'[i].record = disk[i].record
  PROVE  Owns' /\ Notices' /\ Alone' /\ Shows'
<1>1. /\ n \in DOMAIN calls /\ DOMAIN calls' = DOMAIN calls /\ Len(calls') = Len(calls)
      /\ calls'[n] = c /\ \A m \in DOMAIN calls \ {n} : calls'[m] = calls[m]
      /\ DOMAIN calls = 1..Len(calls) /\ Len(calls) \in Nat
      /\ calls = <<>> <=> calls' = <<>>
  <2>1. n \in DOMAIN calls /\ DOMAIN calls' = DOMAIN calls
    BY DEF InFlight, Becomes
  <2>2. calls \in Seq(GoodCall) /\ calls' \in Seq(GoodCall)
    BY DEF Types, Becomes
  <2> QED BY <2>1, <2>2 DEF Becomes
<1>2. /\ identity' = identity /\ pending' = pending /\ isLoaded' = isLoaded /\ failed' = failed
      /\ context' = context /\ overlapped' = overlapped
  BY DEF hookVars
<1>3. InFlight' = InFlight
  BY <1>1 DEF InFlight
<1>4. Owns'
  BY <1>1, <1>2, <1>3 DEF Owns, Settles, Newest, Reads, InFlight
<1>5. Notices'
  BY <1>1, <1>2 DEF Notices, InFlight
<1>6. Alone'
  <2> SUFFICES ASSUME ~overlapped PROVE /\ \A m \in InFlight : m = Len(calls') /\ LoneCall(calls[m])'
                                        /\ store'.db \in {None, store'.current}
                                        /\ store'.cacheKey \in {None, store'.current}
                                        /\ Isolated'
    BY <1>2, <1>3, Zenon DEF Alone, Newest
  <2>1. \A m \in InFlight : m = n /\ m = Len(calls')
    BY <1>1 DEF Alone, Newest
  <2>2. LoneCall(calls[n])'
    BY <1>1 DEF LoneCall
  <2> QED BY <2>1, <2>2
<1>7. Shows'
  <2> SUFFICES ASSUME ~overlapped, ~failed, Settles
               PROVE  Shown' \/ \E m \in InFlight : calls'[m].op = "load" \/ calls'[m].stage = "resolved"
    BY <1>2, <1>3 DEF Shows, Settles
  <2>1. CASE c.stage = "resolved"
    BY <1>1, <2>1
  <2>2. CASE \E m \in InFlight : calls[m].op = "load" \/ calls[m].stage = "resolved"
    <3>1. \A m \in InFlight : m = n
      BY <1>1 DEF Alone, Newest
    <3> QED BY <1>1, <2>2, <3>1
  <2>3. CASE Shown /\ \A i \in Identities : disk'[i].record = disk[i].record
    <3>1. identity \in Identities
      BY DEF Settles, Types, Maybe
    <3> QED BY <1>2, <2>3, <3>1 DEF Shown
  <2> QED BY <2>1, <2>2, <2>3 DEF Shows
<1> QED BY <1>4, <1>5, <1>6, <1>7

LEMMA TypesKept ==
  ASSUME Types, UNCHANGED hookVars, store' \in Fields, disk' \in [Identities -> Database],
         calls' \in Seq(GoodCall)
  PROVE  Types'
BY DEF Types, hookVars

(* load's transaction is created, on its identity's connection. *)
LEMMA BeginReadKeeps ==
  ASSUME IInv, UNCHANGED hookVars, NEW n \in DOMAIN calls,
         calls[n].stage \in {"opening", "loadingKey"},
         NEW db \in Identities, NEW key \in Identities, BeginRead(n, db, key),
         store' \in Fields, store'.current = store.current,
         ~overlapped => /\ db = store.current
                        /\ store'.db \in {None, store.current}
                        /\ store'.cacheKey \in {None, store.current}
  PROVE  IInv'
<1>1. /\ calls[n] \in CallType /\ CallOK(calls[n]) /\ n \in Nat /\ n \in InFlight
      /\ ~Waits(calls[n]) /\ calls[n].stage # "resolved"
  BY CallsAre DEF IInv, InFlight, Waits
<1>2. PICK c : c = [calls[n] EXCEPT !.stage = "reading", !.db = db, !.key = key]
  OBVIOUS
<1>3. /\ c \in CallType /\ c.stage = "reading" /\ c.db = db /\ c.op = calls[n].op
      /\ c.who = calls[n].who /\ c.cancelled = calls[n].cancelled
  BY <1>1, <1>2 DEF CallType, Stages, Maybe
<1>4. c \in GoodCall /\ Waits(c)
  BY <1>1, <1>3, NoneIsNoIdentity DEF GoodCall, CallOK, Waits, Reads
<1>5. calls' = [calls EXCEPT ![n] = c] /\ disk' = [disk EXCEPT ![db].queue = Append(@, n)]
  BY <1>2 DEF BeginRead
<1>6. Becomes(n, c) /\ calls' \in Seq(GoodCall)
  BY <1>4, <1>5, Moves DEF IInv, Becomes
<1>7. /\ Queues' /\ disk' \in [Identities -> Database]
      /\ \A j \in Identities : disk'[j].record = disk[j].record /\ disk'[j].key = disk[j].key
  BY <1>1, <1>3, <1>4, <1>5, <1>6, Enqueues DEF IInv
<1>8. Types'
  BY <1>6, <1>7, TypesKept DEF IInv
<1>9. ~overlapped => LoneCall(c)' /\ Isolated'
  <2> SUFFICES ASSUME ~overlapped PROVE LoneCall(c)' /\ Isolated'
    OBVIOUS
  <2>1. Isolated /\ LoneCall(calls[n])
    BY <1>1 DEF IInv, Alone
  <2>2. Isolated'
    BY <1>7, <2>1 DEF Isolated
  <2>3. pending' = pending /\ identity' = identity
    BY DEF hookVars
  <2>4. LoneCall(c)'
    BY <1>3, <2>1, <2>3 DEF LoneCall, Waits
  <2> QED BY <2>2, <2>4
<1>10. Owns' /\ Notices' /\ Alone' /\ Shows'
  BY <1>1, <1>3, <1>4, <1>6, <1>7, <1>9, StorageFrame DEF IInv
<1> QED BY <1>7, <1>8, <1>10 DEF IInv

(* A call that does not wait for a database rejects, or a read resolves to *)
(* nothing.                                                                *)
LEMMA EndKeeps ==
  ASSUME IInv, UNCHANGED hookVars, NEW n \in DOMAIN calls, ~Waits(calls[n]),
         calls[n].stage \notin {"resolved", "done"},
         Reject(n) \/ (Resolve(n, None) /\ Reads(calls[n])),
         disk' = disk, store' \in Fields, store'.current = store.current,
         ~overlapped => /\ store'.db \in {None, store.current}
                        /\ store'.cacheKey \in {None, store.current}
  PROVE  IInv'
<1>1. calls[n] \in CallType /\ CallOK(calls[n]) /\ n \in InFlight
  BY CallsAre DEF IInv, InFlight
<1>2. PICK c : /\ \/ c = [calls[n] EXCEPT !.stage = "rejected"]
                  \/ c = [calls[n] EXCEPT !.stage = "resolved", !.result = None] /\ Reads(calls[n])
               /\ calls' = [calls EXCEPT ![n] = c]
  BY DEF Reject, Resolve
<1>3. /\ c \in CallType /\ c.stage \in {"rejected", "resolved"} /\ c.op = calls[n].op
      /\ c.who = calls[n].who /\ c.cancelled = calls[n].cancelled
      /\ c.stage = "resolved" => c.result = None /\ Reads(c)
  BY <1>1, <1>2 DEF CallType, Stages, Maybe, Reads
<1>4. c \in GoodCall /\ ~Waits(c)
  BY <1>3 DEF GoodCall, CallOK, Waits, Reads
<1>5. Becomes(n, c) /\ calls' \in Seq(GoodCall) /\ DOMAIN calls' = DOMAIN calls
  BY <1>2, <1>4, Moves DEF IInv, Becomes
<1>6. Types'
  BY <1>5, TypesKept DEF IInv, Types
<1>7. Queues'
  <2>1. \A m \in DOMAIN calls : (Waits(calls'[m]) <=> Waits(calls[m])) /\ calls'[m].db = calls[m].db
    <3>1. c.db = calls[n].db
      BY <1>1, <1>2 DEF CallType
    <3> QED BY <1>4, <1>5, <3>1 DEF Becomes
  <2> QED BY <1>5, <2>1, QueuesKept DEF IInv
<1>8. ~overlapped => LoneCall(c)' /\ Isolated'
  <2> SUFFICES ASSUME ~overlapped PROVE LoneCall(c)' /\ Isolated'
    OBVIOUS
  <2>1. Isolated /\ LoneCall(calls[n])
    BY <1>1 DEF IInv, Alone
  <2>2. pending' = pending /\ identity' = identity
    BY DEF hookVars
  <2> QED BY <1>3, <2>1, <2>2 DEF LoneCall, Waits, Isolated
<1>9. Owns' /\ Notices' /\ Alone' /\ Shows'
  BY <1>1, <1>3, <1>4, <1>5, <1>8, StorageFrame DEF IInv
<1> QED BY <1>6, <1>7, <1>9 DEF IInv

LEMMA OpenedKeeps ==
  ASSUME IInv, UNCHANGED hookVars, NEW n \in DOMAIN calls, Opened(n)
  PROVE  IInv'
<1>1. /\ calls[n] \in CallType /\ CallOK(calls[n]) /\ calls[n].stage = "opening" /\ n \in InFlight
      /\ ~Waits(calls[n])
  BY CallsAre DEF IInv, InFlight, Opened, Waits
<1>2. PICK who \in Identities : who = calls[n].who
  BY <1>1 DEF CallOK, CallType, Maybe
<1>3. /\ store' \in Fields /\ store'.current = store.current /\ store'.db = who
      /\ store'.cacheKey = store.cacheKey /\ store.cacheKey \in Maybe(Identities)
  BY <1>2 DEF IInv, Types, Fields, Opened, Maybe
<1>4. ~overlapped => /\ who = store.current /\ disk[who].key \in {None, store.current}
                     /\ store'.db \in {None, store.current}
                     /\ store'.cacheKey \in {None, store.current}
                     /\ LoneCall(calls[n]) /\ Isolated
  BY <1>1, <1>2, <1>3 DEF IInv, Alone, LoneCall, Isolated
<1>5. CASE store.cacheKey # None
  <2>1. BeginRead(n, who, store.cacheKey) /\ store.cacheKey \in Identities
    BY <1>2, <1>3, <1>5 DEF Opened, Maybe
  <2> QED BY <1>1, <1>3, <1>4, <2>1, BeginReadKeeps
<1>6. CASE store.cacheKey = None
  <2>1. PICK c : c = [calls[n] EXCEPT !.stage = "loadingKey", !.key = disk[who].key]
    OBVIOUS
  <2>2. disk' = disk /\ calls' = [calls EXCEPT ![n] = c]
    BY <1>2, <1>6, <2>1 DEF Opened
  <2>3. disk[who].key \in Maybe(Identities)
    BY DEF IInv, Types, Database
  <2>4. /\ c \in CallType /\ c.stage = "loadingKey" /\ c.op = calls[n].op
        /\ c.who = calls[n].who /\ c.cancelled = calls[n].cancelled
        /\ c.db = calls[n].db /\ c.key = disk[who].key
    BY <1>1, <2>1, <2>3 DEF CallType, Stages
  <2>5. c \in GoodCall /\ ~Waits(c)
    BY <1>1, <2>4 DEF GoodCall, CallOK, Waits, Reads
  <2>6. Becomes(n, c) /\ calls' \in Seq(GoodCall) /\ DOMAIN calls' = DOMAIN calls
    BY <2>2, <2>5, Moves DEF IInv, Becomes
  <2>7. Types'
    BY <1>3, <2>2, <2>6, TypesKept DEF IInv, Types
  <2>8. Queues'
    <3>1. \A m \in DOMAIN calls : (Waits(calls'[m]) <=> Waits(calls[m])) /\ calls'[m].db = calls[m].db
      BY <1>1, <2>4, <2>5, <2>6 DEF Becomes
    <3> QED BY <2>2, <2>6, <3>1, QueuesKept DEF IInv
  <2>9. ~overlapped => LoneCall(c)' /\ Isolated'
    <3>1. pending' = pending /\ identity' = identity
      BY DEF hookVars
    <3> QED BY <1>3, <1>4, <2>2, <2>4, <3>1 DEF LoneCall, Waits, Isolated
  <2>10. Owns' /\ Notices' /\ Alone' /\ Shows'
    BY <1>1, <1>3, <1>4, <2>2, <2>4, <2>5, <2>6, <2>9, StorageFrame DEF IInv
  <2> QED BY <2>7, <2>8, <2>10 DEF IInv
<1> QED BY <1>5, <1>6

LEMMA OpenFailsKeeps ==
  ASSUME IInv, UNCHANGED hookVars, NEW n \in DOMAIN calls, OpenFails(n)
  PROVE  IInv'
<1>1. /\ calls[n].stage = "opening" /\ ~Waits(calls[n]) /\ Reject(n) /\ disk' = disk /\ store' = store
  BY DEF OpenFails, Waits
<1>2. store \in Fields /\ (~overlapped => /\ store.db \in {None, store.current}
                                          /\ store.cacheKey \in {None, store.current})
  BY DEF IInv, Types, Alone
<1>3. /\ store' \in Fields /\ store'.current = store.current /\ calls[n].stage \notin {"resolved", "done"}
      /\ ~overlapped => /\ store'.db \in {None, store.current}
                        /\ store'.cacheKey \in {None, store.current}
  BY <1>1, <1>2
<1> QED BY <1>1, <1>3, EndKeeps

LEMMA KeyLoadedKeeps ==
  ASSUME IInv, UNCHANGED hookVars, NEW n \in DOMAIN calls, KeyLoaded(n)
  PROVE  IInv'
<1>1. /\ calls[n] \in CallType /\ CallOK(calls[n]) /\ calls[n].stage = "loadingKey"
      /\ n \in InFlight /\ ~Waits(calls[n]) /\ Reads(calls[n])
  BY CallsAre DEF IInv, InFlight, KeyLoaded, Waits, CallOK
<1>2. PICK key \in Maybe(Identities) : key = calls[n].key
  BY <1>1 DEF CallType
<1>3. store \in Fields /\ (~overlapped => /\ store.db \in {None, store.current}
                                          /\ store.cacheKey \in {None, store.current}
                                          /\ key \in {None, store.current})
  BY <1>1, <1>2 DEF IInv, Types, Alone, LoneCall
<1>4. CASE key = None
  <2>1. Resolve(n, None) /\ store' = store /\ disk' = disk
    BY <1>2, <1>4 DEF KeyLoaded
  <2> QED BY <1>1, <1>3, <2>1, EndKeeps
<1>5. CASE key # None
  <2>1. /\ store' = [store EXCEPT !.cacheKey = key]
        /\ \/ store.db = None /\ Reject(n) /\ disk' = disk
           \/ store.db # None /\ BeginRead(n, store.db, key)
    BY <1>2, <1>5 DEF KeyLoaded
  <2>2. /\ store' \in Fields /\ store'.current = store.current /\ store'.db = store.db
        /\ store'.cacheKey = key /\ store.db \in Maybe(Identities)
    BY <1>2, <1>3, <2>1 DEF Fields
  <2>3. CASE Reject(n) /\ disk' = disk
    BY <1>1, <1>3, <2>2, <2>3, EndKeeps
  <2>4. CASE store.db # None /\ BeginRead(n, store.db, key)
    <3>1. store.db \in Identities /\ key \in Identities
      BY <1>2, <1>5, <2>2, <2>4 DEF Maybe
    <3> QED BY <1>1, <1>3, <2>2, <2>4, <3>1, BeginReadKeeps
  <2> QED BY <2>1, <2>3, <2>4
<1> QED BY <1>4, <1>5

LEMMA EncryptedKeeps ==
  ASSUME IInv, UNCHANGED hookVars, NEW n \in DOMAIN calls, Encrypted(n)
  PROVE  IInv'
<1>1. /\ calls[n] \in CallType /\ CallOK(calls[n]) /\ calls[n].stage = "encrypting"
      /\ n \in Nat /\ n \in InFlight /\ ~Waits(calls[n]) /\ store' = store
  BY CallsAre DEF IInv, InFlight, Encrypted, Waits
<1>2. /\ store \in Fields /\ store' \in Fields /\ store'.current = store.current
      /\ ~overlapped => /\ store.db \in {None, store.current} /\ store'.db \in {None, store.current}
                        /\ store'.cacheKey \in {None, store.current}
                        /\ LoneCall(calls[n]) /\ Isolated
  BY <1>1 DEF IInv, Types, Alone
<1>3. CASE Reject(n) /\ disk' = disk
  <2>1. calls[n].stage \notin {"resolved", "done"}
    BY <1>1
  <2> QED BY <1>1, <1>2, <1>3, <2>1, EndKeeps
<1>4. CASE /\ store.db # None
           /\ calls' = [calls EXCEPT ![n].stage = "writing", ![n].db = store.db]
           /\ disk' = [disk EXCEPT ![store.db].queue = Append(@, n)]
  <2>1. PICK db \in Identities : db = store.db
    BY <1>2, <1>4 DEF Fields, Maybe
  <2>2. PICK c : c = [calls[n] EXCEPT !.stage = "writing", !.db = db]
    OBVIOUS
  <2>3. /\ c \in CallType /\ c.stage = "writing" /\ c.db = db /\ c.op = calls[n].op
        /\ c.who = calls[n].who /\ c.cancelled = calls[n].cancelled /\ c.sealed = calls[n].sealed
    BY <1>1, <2>2 DEF CallType, Stages, Maybe
  <2>4. c \in GoodCall /\ Waits(c)
    BY <1>1, <2>3, NoneIsNoIdentity DEF GoodCall, CallOK, Waits, Reads
  <2>5. calls' = [calls EXCEPT ![n] = c] /\ disk' = [disk EXCEPT ![db].queue = Append(@, n)]
    BY <1>4, <2>1, <2>2
  <2>6. Becomes(n, c) /\ calls' \in Seq(GoodCall)
    BY <2>4, <2>5, Moves DEF IInv, Becomes
  <2>7. /\ Queues' /\ disk' \in [Identities -> Database]
        /\ \A j \in Identities : disk'[j].record = disk[j].record /\ disk'[j].key = disk[j].key
    BY <1>1, <2>3, <2>4, <2>5, <2>6, Enqueues DEF IInv
  <2>8. Types'
    BY <1>2, <2>6, <2>7, TypesKept DEF IInv
  <2>9. ~overlapped => LoneCall(c)' /\ Isolated'
    <3> SUFFICES ASSUME ~overlapped PROVE LoneCall(c)' /\ Isolated'
      OBVIOUS
    <3>1. pending' = pending /\ identity' = identity
      BY DEF hookVars
    <3>2. Isolated'
      BY <1>2, <2>7 DEF Isolated
    <3>3. calls[n].op = "save" /\ calls[n].sealed.key = store.current
          /\ calls[n].sealed.data.owner = store.current
      BY <1>1, <1>2 DEF LoneCall, CallOK
    <3>4. LoneCall(c)'
      BY <1>2, <2>1, <2>3, <3>1, <3>3, NoneIsNoIdentity DEF LoneCall, Waits
    <3> QED BY <3>2, <3>4
  <2>10. Owns' /\ Notices' /\ Alone' /\ Shows'
    BY <1>1, <1>2, <2>3, <2>4, <2>6, <2>7, <2>9, StorageFrame DEF IInv
  <2> QED BY <2>7, <2>8, <2>10 DEF IInv
<1> QED BY <1>3, <1>4 DEF Encrypted

LEMMA DecryptedKeeps ==
  ASSUME IInv, UNCHANGED hookVars, NEW n \in DOMAIN calls, Decrypted(n)
  PROVE  IInv'
<1>1. /\ calls[n] \in CallType /\ CallOK(calls[n]) /\ calls[n].stage = "decrypting"
      /\ n \in InFlight /\ ~Waits(calls[n]) /\ Reads(calls[n])
      /\ store' = store /\ disk' = disk
  BY CallsAre DEF IInv, InFlight, Decrypted, Waits, CallOK
<1>2. PICK data \in Maybe(Context) :
        /\ data = OpenedContext(n)
        /\ data # None => data = calls[n].sealed.data /\ data.owner = store.current
  BY <1>1 DEF OpenedContext, CallType, CallOK, Maybe, Envelope
<1>3. PICK c : c = [calls[n] EXCEPT !.stage = "resolved", !.result = data]
  OBVIOUS
<1>4. /\ c \in CallType /\ c.stage = "resolved" /\ c.db = calls[n].db /\ c.op = calls[n].op
      /\ c.who = calls[n].who /\ c.cancelled = calls[n].cancelled /\ c.result = data
  BY <1>1, <1>3 DEF CallType, Stages
<1>5. c \in GoodCall /\ ~Waits(c)
  BY <1>1, <1>4 DEF GoodCall, CallOK, Waits, Reads
<1>6. calls' = [calls EXCEPT ![n] = c]
  BY <1>2, <1>3 DEF Decrypted, Resolve
<1>7. Becomes(n, c) /\ calls' \in Seq(GoodCall) /\ DOMAIN calls' = DOMAIN calls
  BY <1>5, <1>6, Moves DEF IInv, Becomes
<1>8. Types'
  BY <1>1, <1>7, TypesKept DEF IInv, Types
<1>9. Queues'
  <2>1. \A m \in DOMAIN calls : (Waits(calls'[m]) <=> Waits(calls[m])) /\ calls'[m].db = calls[m].db
    BY <1>1, <1>4, <1>5, <1>7 DEF Becomes
  <2> QED BY <1>1, <1>7, <2>1, QueuesKept DEF IInv
<1>10. Settles /\ data # None => data.owner = identity
  BY <1>2 DEF IInv, Owns
<1>11. ~overlapped => /\ LoneCall(c)' /\ Isolated' /\ store'.db \in {None, store.current}
                      /\ store'.cacheKey \in {None, store.current}
  <2> SUFFICES ASSUME ~overlapped PROVE LoneCall(c)' /\ Isolated' /\ store'.db \in {None, store.current}
                                        /\ store'.cacheKey \in {None, store.current}
    OBVIOUS
  <2>1. Isolated /\ LoneCall(calls[n]) /\ store.db \in {None, store.current}
        /\ store.cacheKey \in {None, store.current}
    BY <1>1 DEF IInv, Alone
  <2>2. pending' = pending /\ identity' = identity
    BY DEF hookVars
  <2>3. calls[n].sealed = disk[store.current].record /\ calls[n].sealed # None
    BY <1>1, <2>1 DEF LoneCall, CallOK
  <2>4. LoneCall(c)'
    BY <1>1, <1>2, <1>4, <2>1, <2>2, <2>3 DEF LoneCall, Waits
  <2> QED BY <1>1, <2>1, <2>4 DEF Isolated
<1>12. Owns' /\ Notices' /\ Alone' /\ Shows'
  BY <1>1, <1>4, <1>5, <1>7, <1>10, <1>11, StorageFrame DEF IInv
<1> QED BY <1>8, <1>9, <1>12 DEF IInv

(* A transaction ends: what the call becomes, and its database. *)
LEMMA TurnKeeps ==
  ASSUME IInv, UNCHANGED hookVars, NEW n \in DOMAIN calls, Turn(n), store' = store,
         NEW record \in Maybe(Envelope),
         disk' = [disk EXCEPT ![calls[n].db].record = record, ![calls[n].db].queue = Tail(@)],
         NEW c \in GoodCall, ~Waits(c), c.stage # "done",
         c.op = calls[n].op, c.who = calls[n].who, c.cancelled = calls[n].cancelled,
         calls' = [calls EXCEPT ![n] = c],
         record = disk[calls[n].db].record \/ c.stage = "resolved",
         c.stage = "resolved" /\ Reads(c) => c.result = None,
         ~overlapped =>
           LET at == store.current IN
           /\ record # None => record.key = at /\ record.data.owner = at
           /\ c.stage = "decrypting" => c.sealed = record
           /\ c.stage = "resolved" /\ c.result # None => record # None /\ record.data = c.result
           /\ c.stage \in {"decrypting", "resolved", "rejected"}
  PROVE  IInv'
<1> DEFINE db == calls[n].db
<1>1. /\ calls[n] \in CallType /\ CallOK(calls[n]) /\ Waits(calls[n]) /\ n \in InFlight
      /\ calls[n].stage # "resolved"
  BY CallsAre DEF IInv, InFlight, Turn, Waits
<1>2. Becomes(n, c) /\ calls' \in Seq(GoodCall)
  BY Moves DEF IInv, Becomes
<1>3. db \in Identities
  BY <1>1 DEF CallOK, CallType, Maybe
<1>4. PICK d : d = [disk[db] EXCEPT !.record = record, !.queue = Tail(disk[db].queue)]
  OBVIOUS
<1>5. disk[db] \in Database
  BY <1>3 DEF IInv, Types
<1>6. d.queue = Tail(disk[db].queue) /\ d.record = record /\ d.key = disk[db].key
  BY <1>4, <1>5 DEF Database
<1>7. disk' = [disk EXCEPT ![db] = d]
  BY <1>4
<1>8. Queues' /\ disk[db].queue \in Seq(Nat) /\ disk[db].queue # <<>>
  BY <1>2, <1>6, <1>7, Dequeues DEF IInv
<1>9. d \in Database
  <2>1. Tail(disk[db].queue) \in Seq(Nat)
    BY <1>8, HeadTailProperties
  <2> QED BY <1>4, <1>5, <2>1 DEF Database
<1>10. disk' \in [Identities -> Database] /\ disk'[db] = d /\ \A j \in Identities \ {db} : disk'[j] = disk[j]
  <2>1. disk \in [Identities -> Database]
    BY DEF IInv, Types
  <2> QED BY <1>3, <1>7, <1>9, <2>1, Zenon
<1>11. Types'
  BY <1>2, <1>10, TypesKept DEF IInv, Types
<1>12. ~overlapped => /\ LoneCall(c)' /\ Isolated' /\ store'.db \in {None, store.current}
                      /\ store'.cacheKey \in {None, store.current}
  <2> SUFFICES ASSUME ~overlapped PROVE LoneCall(c)' /\ Isolated' /\ store'.db \in {None, store.current}
                                        /\ store'.cacheKey \in {None, store.current}
    OBVIOUS
  <2>1. Isolated /\ LoneCall(calls[n]) /\ store.db \in {None, store.current}
        /\ store.cacheKey \in {None, store.current}
    BY <1>1 DEF IInv, Alone
  <2>2. pending' = pending /\ identity' = identity
    BY DEF hookVars
  <2>3. db = store.current
    BY <1>1, <2>1 DEF LoneCall
  <2>4. Isolated'
    BY <1>6, <1>10, <2>1, <2>3 DEF Isolated
  <2>5. LoneCall(c)'
    BY <1>6, <1>10, <2>1, <2>2, <2>3 DEF LoneCall, Waits
  <2> QED BY <2>1, <2>4, <2>5
<1>13. c.stage = "resolved" \/ \A i \in Identities : disk'[i].record = disk[i].record
  BY <1>6, <1>10
<1>14. Owns' /\ Notices' /\ Alone' /\ Shows'
  BY <1>1, <1>2, <1>12, <1>13, StorageFrame DEF IInv
<1> QED BY <1>8, <1>11, <1>14 DEF IInv

LEMMA ReadDoneKeeps ==
  ASSUME IInv, UNCHANGED hookVars, NEW n \in DOMAIN calls, ReadDone(n)
  PROVE  IInv'
<1> DEFINE db == calls[n].db
<1>1. /\ calls[n] \in CallType /\ CallOK(calls[n]) /\ calls[n].stage = "reading"
      /\ n \in InFlight /\ Reads(calls[n]) /\ Turn(n) /\ store' = store /\ db \in Identities
  BY CallsAre DEF IInv, InFlight, ReadDone, Waits, CallOK, CallType, Maybe
<1>2. PICK record \in Maybe(Envelope) : record = disk[db].record
  BY <1>1 DEF IInv, Types, Database
<1>3. disk[db] \in Database
  BY <1>1 DEF IInv, Types
<1>4. disk' = [disk EXCEPT ![db].record = record, ![db].queue = Tail(@)]
  <2>1. [disk[db] EXCEPT !.queue = Tail(disk[db].queue)]
          = [disk[db] EXCEPT !.record = record, !.queue = Tail(disk[db].queue)]
    BY <1>2, <1>3 DEF Database
  <2> QED BY <2>1 DEF ReadDone
<1>5. PICK c : /\ c = IF record = None THEN [calls[n] EXCEPT !.stage = "resolved", !.result = None]
                      ELSE [calls[n] EXCEPT !.stage = "decrypting", !.sealed = record]
               /\ calls' = [calls EXCEPT ![n] = c]
  BY <1>2 DEF ReadDone, Resolve
<1>6. /\ c \in CallType /\ c.op = calls[n].op /\ c.who = calls[n].who
      /\ c.cancelled = calls[n].cancelled
      /\ \/ c.stage = "resolved" /\ c.result = None
         \/ c.stage = "decrypting" /\ c.sealed = record /\ record # None
  <2>1. CASE record = None
    BY <1>1, <1>5, <2>1 DEF CallType, Stages, Maybe
  <2>2. CASE record # None
    BY <1>1, <1>5, <2>2 DEF CallType, Stages, Maybe
  <2> QED BY <2>1, <2>2
<1>7. c \in GoodCall /\ ~Waits(c) /\ Reads(c)
  BY <1>1, <1>6 DEF GoodCall, CallOK, Waits, Reads
<1>8. ~overlapped => (record # None => record.key = store.current /\ record.data.owner = store.current)
  <2>1. ~overlapped => db = store.current /\ Isolated
    BY <1>1 DEF IInv, Alone, LoneCall, Waits
  <2> QED BY <1>1, <1>2, <2>1 DEF Isolated
<1> QED BY <1>1, <1>2, <1>4, <1>5, <1>6, <1>7, <1>8, TurnKeeps

LEMMA WriteDoneKeeps ==
  ASSUME IInv, UNCHANGED hookVars, NEW n \in DOMAIN calls, WriteDone(n)
  PROVE  IInv'
<1>1. /\ calls[n] \in CallType /\ CallOK(calls[n]) /\ calls[n].stage = "writing"
      /\ n \in InFlight /\ Turn(n) /\ store' = store /\ calls[n].op \in {"save", "clear"}
  BY CallsAre DEF IInv, InFlight, WriteDone, CallOK, Reads, CallType
<1>2. CASE calls[n].op = "save"
  <2>1. PICK record \in Envelope : record = calls[n].sealed
    BY <1>1, <1>2 DEF CallOK, CallType, Maybe
  <2>2. disk' = [disk EXCEPT ![calls[n].db].record = record, ![calls[n].db].queue = Tail(@)]
    BY <1>2, <2>1 DEF WriteDone, Written
  <2>3. PICK c : c = [calls[n] EXCEPT !.stage = "resolved", !.result = record.data]
    OBVIOUS
  <2>4. calls' = [calls EXCEPT ![n] = c]
    BY <1>2, <2>1, <2>3 DEF WriteDone, Resolve
  <2>5. record.data \in Context /\ record # None /\ record \in Maybe(Envelope)
    <3>1. record # None
      BY <1>1, <1>2, <2>1 DEF CallOK
    <3> QED BY <2>1, <3>1 DEF Envelope, Maybe
  <2>6. /\ c \in CallType /\ c.op = calls[n].op /\ c.who = calls[n].who
        /\ c.cancelled = calls[n].cancelled /\ c.stage = "resolved" /\ c.result = record.data
    BY <1>1, <2>3, <2>5 DEF CallType, Stages, Maybe
  <2>7. record.data # None /\ record.data.owner = calls[n].who
    <3>1. record.data.owner = calls[n].who
      BY <1>1, <1>2, <2>1 DEF CallOK
    <3> QED BY <2>5, <3>1, NoneIsNoData
  <2>8. c \in GoodCall /\ ~Waits(c) /\ ~Reads(c)
    BY <1>2, <2>6, <2>7 DEF GoodCall, CallOK, Waits, Reads
  <2>9. ~overlapped => record.key = store.current /\ record.data.owner = store.current
    BY <1>1, <1>2, <2>1 DEF IInv, Alone, LoneCall
  <2> QED BY <1>1, <2>2, <2>4, <2>5, <2>6, <2>8, <2>9, TurnKeeps
<1>3. CASE calls[n].op = "clear"
  <2>1. disk' = [disk EXCEPT ![calls[n].db].record = None, ![calls[n].db].queue = Tail(@)]
    BY <1>3 DEF WriteDone, Written
  <2>2. PICK c : c = [calls[n] EXCEPT !.stage = "resolved", !.result = None]
    OBVIOUS
  <2>3. calls' = [calls EXCEPT ![n] = c]
    BY <1>3, <2>2 DEF WriteDone, Resolve
  <2>4. /\ c \in CallType /\ c.op = calls[n].op /\ c.who = calls[n].who
        /\ c.cancelled = calls[n].cancelled /\ c.stage = "resolved" /\ c.result = None
    BY <1>1, <2>2 DEF CallType, Stages, Maybe
  <2>5. c \in GoodCall /\ ~Waits(c) /\ ~Reads(c) /\ None \in Maybe(Envelope)
    BY <1>3, <2>4 DEF GoodCall, CallOK, Waits, Reads, Maybe
  <2> QED BY <1>1, <2>1, <2>3, <2>4, <2>5, TurnKeeps
<1> QED BY <1>1, <1>2, <1>3

LEMMA TransactionFailsKeeps ==
  ASSUME IInv, UNCHANGED hookVars, NEW n \in DOMAIN calls, TransactionFails(n)
  PROVE  IInv'
<1> DEFINE db == calls[n].db
<1>1. /\ calls[n] \in CallType /\ CallOK(calls[n]) /\ Waits(calls[n])
      /\ n \in InFlight /\ Turn(n) /\ store' = store /\ db \in Identities
  BY CallsAre DEF IInv, InFlight, TransactionFails, Turn, Waits, CallOK, CallType, Maybe
<1>2. PICK record \in Maybe(Envelope) : record = disk[db].record
  BY <1>1 DEF IInv, Types, Database
<1>3. disk[db] \in Database
  BY <1>1 DEF IInv, Types
<1>4. disk' = [disk EXCEPT ![db].record = record, ![db].queue = Tail(@)]
  <2>1. [disk[db] EXCEPT !.queue = Tail(disk[db].queue)]
          = [disk[db] EXCEPT !.record = record, !.queue = Tail(disk[db].queue)]
    BY <1>2, <1>3 DEF Database
  <2> QED BY <2>1 DEF TransactionFails
<1>5. PICK c : c = [calls[n] EXCEPT !.stage = "rejected"] /\ calls' = [calls EXCEPT ![n] = c]
  BY DEF TransactionFails, Reject
<1>6. /\ c \in CallType /\ c.op = calls[n].op /\ c.who = calls[n].who
      /\ c.cancelled = calls[n].cancelled /\ c.stage = "rejected"
  BY <1>1, <1>5 DEF CallType, Stages
<1>7. c \in GoodCall /\ ~Waits(c)
  BY <1>6 DEF GoodCall, CallOK, Waits
<1>8. ~overlapped => (record # None => record.key = store.current /\ record.data.owner = store.current)
  <2>1. ~overlapped => db = store.current /\ Isolated
    BY <1>1 DEF IInv, Alone, LoneCall, Waits
  <2> QED BY <1>1, <1>2, <2>1 DEF Isolated
<1> QED BY <1>1, <1>2, <1>4, <1>5, <1>6, <1>7, <1>8, TurnKeeps

LEMMA StorageStepKeeps ==
  ASSUME IInv, UNCHANGED hookVars, NEW n \in DOMAIN calls, StorageStep(n)
  PROVE  IInv'
BY OpenedKeeps, OpenFailsKeeps, KeyLoadedKeeps, EncryptedKeeps, ReadDoneKeeps,
   DecryptedKeeps, WriteDoneKeeps, TransactionFailsKeeps DEF StorageStep

(* The login sets or persists the key of the identity whose effect has run. *)
LEMMA LoginKeeps ==
  ASSUME IInv, UNCHANGED hookVars, identity # None, ~pending,
         SetCacheKey(identity) \/ PersistCacheKey
  PROVE  IInv'
<1>1. /\ store \in Fields /\ disk \in [Identities -> Database] /\ identity \in Identities
      /\ store.current = identity /\ calls' = calls
  BY DEF IInv, Types, Owns, Settles, Maybe, SetCacheKey, PersistCacheKey
<1>2. /\ store' \in Fields /\ store'.current = store.current /\ store'.db = store.db
      /\ store'.cacheKey \in {store.cacheKey, identity}
      /\ disk' \in [Identities -> Database]
      /\ \A i \in Identities : /\ disk'[i].record = disk[i].record /\ disk'[i].queue = disk[i].queue
                               /\ \/ disk'[i].key = disk[i].key
                                  \/ /\ i = store.db /\ disk'[i].key = store.cacheKey
                                     /\ store.cacheKey # None
  <2>1. CASE SetCacheKey(identity)
    <3>1. disk' = disk /\ store' = [store EXCEPT !.cacheKey = identity]
      BY <2>1 DEF SetCacheKey
    <3> QED BY <1>1, <3>1 DEF Fields, Maybe
  <2>2. CASE PersistCacheKey
    <3>1. PICK db \in Identities, key \in Identities : db = store.db /\ key = store.cacheKey
      BY <1>1, <2>2 DEF PersistCacheKey, Fields, Maybe
    <3>2. PICK d : d = [disk[db] EXCEPT !.key = key]
      OBVIOUS
    <3>3. store' = store /\ disk' = [disk EXCEPT ![db] = d]
      BY <2>2, <3>1, <3>2 DEF PersistCacheKey
    <3>4. /\ d \in Database /\ d.record = disk[db].record /\ d.queue = disk[db].queue /\ d.key = key
      BY <1>1, <3>1, <3>2 DEF Database, Maybe
    <3>5. disk' \in [Identities -> Database] /\ disk'[db] = d /\ \A i \in Identities \ {db} : disk'[i] = disk[i]
      BY <1>1, <3>3, <3>4, ExceptIs, Zenon
    <3>6. store.cacheKey # None
      BY <2>2 DEF PersistCacheKey
    <3> QED BY <1>1, <3>1, <3>3, <3>4, <3>5, <3>6
  <2> QED BY <2>1, <2>2
<1>3. /\ identity' = identity /\ pending' = pending /\ isLoaded' = isLoaded /\ failed' = failed
      /\ context' = context /\ overlapped' = overlapped
  BY DEF hookVars
<1>4. Types'
  BY <1>1, <1>2, TypesKept DEF IInv, Types
<1>5. Queues'
  BY <1>1, <1>2, QueuesKept DEF IInv
<1>6. InFlight' = InFlight
  BY <1>1 DEF InFlight
<1>7. Owns' /\ Notices'
  BY <1>1, <1>2, <1>3, <1>6 DEF IInv, Owns, Notices, Settles, Newest
<1>8. Alone'
  <2> SUFFICES ASSUME ~overlapped
               PROVE  /\ \A n \in InFlight : Newest(n) /\ LoneCall(calls[n])'
                      /\ store'.db \in {None, store'.current}
                      /\ store'.cacheKey \in {None, store'.current}
                      /\ Isolated'
    BY <1>1, <1>3, <1>6 DEF Alone, Newest
  <2>1. /\ Isolated /\ store.db \in {None, store.current} /\ store.cacheKey \in {None, store.current}
        /\ \A n \in InFlight : Newest(n) /\ LoneCall(calls[n])
    BY DEF IInv, Alone
  <2>2. Isolated'
    <3>1. ASSUME NEW i \in Identities PROVE disk'[i].key \in {None, i}
      <4>1. disk[i].key \in {None, i}
        BY <2>1 DEF Isolated
      <4>2. i = store.db /\ store.cacheKey # None => store.cacheKey = i
        BY <2>1, NoneIsNoIdentity
      <4> QED BY <1>2, <4>1, <4>2
    <3>2. \A i \in Identities : disk'[i].record # None =>
            disk'[i].record.key = i /\ disk'[i].record.data.owner = i
      BY <1>2, <2>1 DEF Isolated
    <3> QED BY <3>1, <3>2 DEF Isolated
  <2>3. ASSUME NEW n \in InFlight PROVE LoneCall(calls[n])'
    BY <1>1, <1>2, <1>3, <2>1 DEF LoneCall, Waits
  <2> QED BY <1>1, <1>2, <2>1, <2>2, <2>3
<1>9. Shows'
  BY <1>1, <1>2, <1>3, <1>6 DEF IInv, Shows, Shown, Settles
<1> QED BY <1>4, <1>5, <1>7, <1>8, <1>9 DEF IInv

-----------------------------------------------------------------------------
(***************************************************************************)
(* Steps of the hook.                                                      *)
(***************************************************************************)
LEMMA RenderKeeps ==
  ASSUME IInv, NEW id \in Maybe(Identities), Render(id)
  PROVE  IInv'
<1>1. /\ store' = store /\ disk' = disk /\ calls' = calls /\ identity' = id /\ pending'
      /\ prev' = prev /\ context' = context /\ isLoaded' = isLoaded /\ failed' = failed
      /\ overlapped' = overlapped /\ renders' = renders + 1 /\ renders < MaxRenders /\ pending' = TRUE
  BY DEF Render, storageVars
<1>2. Types'
  BY <1>1, ContextBoundsAreNat DEF IInv, Types
<1>3. Queues'
  BY <1>1, QueuesKept DEF IInv
<1>4. InFlight' = InFlight
  BY <1>1 DEF InFlight
<1>5. Owns' /\ Notices' /\ Shows'
  BY <1>1, <1>4 DEF IInv, Owns, Notices, Shows, Settles
<1>6. Alone'
  <2> SUFFICES ASSUME ~overlapped
               PROVE  /\ \A n \in InFlight : n = Len(calls) /\ LoneCall(calls[n])'
                      /\ store.db \in {None, store.current}
                      /\ store.cacheKey \in {None, store.current}
                      /\ Isolated
    BY <1>1, <1>4 DEF Alone, Newest, Isolated
  <2>1. \A n \in InFlight : Newest(n) /\ LoneCall(calls[n])
    BY DEF IInv, Alone
  <2>2. ASSUME NEW n \in InFlight PROVE LoneCall(calls[n])'
    BY <1>1, <2>1 DEF LoneCall, Waits
  <2> QED BY <2>1, <2>2 DEF IInv, Alone, Newest
<1> QED BY <1>2, <1>3, <1>5, <1>6 DEF IInv

(* What Cancelled leaves alone. *)
LEMMA CancelledKeeps ==
  ASSUME Types
  PROVE  /\ Cancelled(calls) \in Seq(GoodCall) /\ Len(Cancelled(calls)) = Len(calls)
         /\ \A n \in DOMAIN calls :
              /\ Cancelled(calls)[n].op = calls[n].op
              /\ Cancelled(calls)[n].stage = calls[n].stage
              /\ Cancelled(calls)[n].db = calls[n].db
              /\ calls[n].op = "load" => Cancelled(calls)[n].cancelled
<1>1. /\ calls \in Seq(GoodCall) /\ DOMAIN calls = 1..Len(calls) /\ Len(calls) \in Nat
      /\ DOMAIN Cancelled(calls) = DOMAIN calls
  BY DEF Types, Cancelled
<1>2. ASSUME NEW n \in DOMAIN calls
      PROVE  LET c == Cancelled(calls)[n] IN
             /\ c \in GoodCall /\ c.op = calls[n].op /\ c.stage = calls[n].stage
             /\ c.db = calls[n].db /\ (calls[n].op = "load" => c.cancelled)
  <2>1. PICK b \in BOOLEAN : b = (calls[n].cancelled \/ calls[n].op = "load")
    <3>1. (calls[n].cancelled \/ calls[n].op = "load") \in BOOLEAN
      BY Zenon
    <3> QED BY <3>1, Zenon
  <2>2. PICK c : c = [calls[n] EXCEPT !.cancelled = b]
    OBVIOUS
  <2>3. Cancelled(calls)[n] = c
    BY <2>1, <2>2 DEF Cancelled
  <2>4. calls[n] \in CallType /\ CallOK(calls[n])
    BY CallsAre
  <2>5. /\ c \in CallType /\ c.cancelled = b /\ c.op = calls[n].op /\ c.stage = calls[n].stage
        /\ c.who = calls[n].who /\ c.db = calls[n].db /\ c.key = calls[n].key
        /\ c.sealed = calls[n].sealed /\ c.result = calls[n].result
    BY <2>2, <2>4 DEF CallType
  <2>6. c \in GoodCall
    BY <2>4, <2>5 DEF GoodCall, CallOK, Waits, Reads
  <2>7. calls[n].op = "load" => b
    BY <2>1
  <2> QED BY <2>3, <2>5, <2>6, <2>7
<1>3. Cancelled(calls) \in Seq(GoodCall) /\ Len(Cancelled(calls)) = Len(calls)
  <2>1. Cancelled(calls) = [n \in 1..Len(calls) |-> Cancelled(calls)[n]]
    BY <1>1 DEF Cancelled
  <2>2. \A n \in 1..Len(calls) : Cancelled(calls)[n] \in GoodCall
    BY <1>1, <1>2
  <2> HIDE DEF Cancelled
  <2>3. Cancelled(calls) \in Seq(GoodCall)
    BY <1>1, <2>1, <2>2, IsASeq
  <2> QED BY <1>1, <2>3
<1> QED BY <1>2, <1>3

LEMMA EffectWithoutKeeps ==
  ASSUME IInv, Effect, EffectWithout
  PROVE  IInv'
<1>1. /\ store' = store /\ disk' = disk /\ calls' = Cancelled(calls) /\ identity' = identity
      /\ pending' = FALSE /\ prev' = prev /\ context' = None /\ isLoaded' = TRUE /\ failed' = FALSE
      /\ overlapped' = (overlapped \/ InFlight # {} \/ FALSE) /\ renders' = renders
      /\ identity = None
  BY DEF Effect, EffectWithout, Overlaps
<1>2. overlapped' \in BOOLEAN
  BY <1>1, Zenon
<1>3. calls' \in Seq(GoodCall) /\ Len(calls') = Len(calls) /\ DOMAIN calls' = DOMAIN calls
  BY <1>1, CancelledKeeps DEF IInv, Types
<1>4. Types'
  BY <1>1, <1>2, <1>3 DEF IInv, Types, Maybe
<1>5. Queues'
  <2>1. \A m \in DOMAIN calls : calls'[m].stage = calls[m].stage /\ calls'[m].db = calls[m].db
    BY <1>1, CancelledKeeps DEF IInv
  <2> QED BY <1>1, <1>3, <2>1, QueuesKept DEF IInv, Waits
<1>6. Owns' /\ Notices' /\ Shows'
  BY <1>1 DEF Owns, Notices, Shows, Settles
<1>7. Alone'
  <2> SUFFICES ASSUME ~overlapped'
               PROVE  /\ InFlight' = {}
                      /\ store.db \in {None, store.current}
                      /\ store.cacheKey \in {None, store.current}
                      /\ Isolated
    BY <1>1 DEF Alone, Isolated
  <2>1. ~overlapped /\ InFlight = {}
    BY <1>1
  <2>2. \A m \in DOMAIN calls : calls'[m].stage = calls[m].stage
    BY <1>1, CancelledKeeps DEF IInv
  <2>3. InFlight' = {}
    BY <1>3, <2>1, <2>2 DEF InFlight
  <2> QED BY <2>1, <2>3 DEF IInv, Alone
<1> QED BY <1>4, <1>5, <1>6, <1>7 DEF IInv

(* open() leaves the object at id, with nothing of another identity. *)
LEMMA AfterOpenIs ==
  ASSUME NEW s \in Fields, NEW id \in Identities
  PROVE  LET t == AfterOpen(s, id) IN
         /\ t \in Fields /\ t.current = id
         /\ \/ t.db = s.db /\ t.cacheKey = s.cacheKey /\ s.current \in {None, id}
            \/ t.db = None /\ t.cacheKey = None
<1>1. CASE s.current \in {None, id}
  <2>1. AfterOpen(s, id) = [s EXCEPT !.current = id]
    BY <1>1 DEF AfterOpen
  <2> QED BY <1>1, <2>1 DEF Fields, Maybe
<1>2. CASE s.current \notin {None, id}
  <2>1. AfterOpen(s, id) = [Closed EXCEPT !.current = id]
    BY <1>2 DEF AfterOpen, AfterClose
  <2> QED BY <2>1 DEF Fields, Maybe, Closed
<1> QED BY <1>1, <1>2

(* A call other than a load begins: it supersedes what is in flight, and   *)
(* overlaps unless nothing is.                                             *)
LEMMA BeginFrame ==
  ASSUME Types, Owns, Notices, Alone, Shows,
         NEW c \in GoodCall, calls' = Append(calls, c),
         c.op # "load", c.stage \notin {"resolved", "done"}, c.who = identity,
         identity' = identity, pending' = pending, context' = context,
         isLoaded' = isLoaded, failed' = failed, Overlaps(pending),
         \A i \in Identities : disk'[i].record = disk[i].record,
         Settles => store'.current = identity,
         ~overlapped /\ ~pending => /\ LoneCall(c)'
                                    /\ store'.db \in {None, store'.current}
                                    /\ store'.cacheKey \in {None, store'.current}
                                    /\ Isolated'
  PROVE  Owns' /\ Notices' /\ Alone' /\ Shows'
<1>0. PICK N : N = Len(calls) + 1
  OBVIOUS
<1>1. /\ Len(calls) \in Nat /\ DOMAIN calls = 1..Len(calls) /\ DOMAIN calls' = DOMAIN calls \cup {N}
      /\ Len(calls') = N /\ calls'[N] = c /\ \A m \in DOMAIN calls : m # N /\ calls'[m] = calls[m]
  <2>1. Becomes(N, c) /\ Len(calls') = N /\ N \notin DOMAIN calls
    BY <1>0, Begins
  <2> QED BY <1>0, <2>1, CallsAre DEF Becomes
<1>2. InFlight' = InFlight \cup {N}
  BY <1>1 DEF InFlight
<1>3. Owns'
  <2> SUFFICES ASSUME Settles, NEW n \in InFlight'
               PROVE  /\ store'.current = identity
                      /\ calls'[n].op = "load" /\ ~calls'[n].cancelled => calls'[n].who = identity
                      /\ calls'[n].op = "refresh" /\ n = N => calls'[n].who = identity
                      /\ Reads(calls'[n]) /\ calls'[n].stage = "resolved" /\ calls'[n].result # None =>
                           calls'[n].result.owner = identity
    BY <1>1, <1>2 DEF Owns, Settles, Newest
  <2>1. CASE n = N
    BY <1>1, <2>1
  <2>2. CASE n \in InFlight
    <3>1. calls'[n] = calls[n] /\ n # N
      BY <1>1, <2>2 DEF InFlight
    <3> QED BY <2>2, <3>1 DEF Owns
  <2> QED BY <1>2, <2>1, <2>2
<1>4. Notices'
  <2>1. calls' # <<>>
    BY <1>1
  <2> QED BY <1>1, <2>1 DEF Notices
<1>5. ~overlapped' => ~overlapped /\ InFlight = {} /\ ~pending
  BY DEF Overlaps
<1>6. Alone'
  <2> SUFFICES ASSUME ~overlapped'
               PROVE  /\ \A n \in InFlight' : n = N /\ LoneCall(calls[n])'
                      /\ store'.db \in {None, store'.current}
                      /\ store'.cacheKey \in {None, store'.current}
                      /\ Isolated'
    BY <1>1, Zenon DEF Alone, Newest
  <2>1. InFlight' = {N} /\ LoneCall(c)'
    BY <1>2, <1>5
  <2>2. LoneCall(calls[N])'
    BY <1>1, <2>1 DEF LoneCall
  <2> QED BY <1>5, <2>1, <2>2
<1>7. Shows'
  <2> SUFFICES ASSUME ~overlapped', ~failed, Settles PROVE Shown'
    BY DEF Shows, Settles
  <2>1. Shown
    BY <1>5 DEF Shows
  <2>2. identity \in Identities
    BY DEF Settles, Types, Maybe
  <2> QED BY <2>1, <2>2 DEF Shown
<1> QED BY <1>3, <1>4, <1>6, <1>7

LEMMA SaveKeeps ==
  ASSUME IInv, Save
  PROVE  IInv'
<1> DEFINE data == [owner |-> identity, version |-> Len(calls) + 1]
           sealed == [key |-> store.cacheKey, data |-> data]
<1>1. /\ store' = store /\ disk' = disk /\ identity' = identity /\ pending' = pending /\ prev' = prev
      /\ context' = context /\ isLoaded' = isLoaded /\ failed' = failed /\ renders' = renders
      /\ identity \in Identities /\ Overlaps(pending) /\ Len(calls) \in Nat
  BY CallsAre DEF Save, IInv, Types, Maybe
<1>2. PICK c : /\ calls' = Append(calls, c)
               /\ \/ store.cacheKey = None /\ c = Call("save", identity, "rejected", None)
                  \/ store.cacheKey # None /\ c = Call("save", identity, "encrypting", sealed)
  BY DEF Save
<1>3. store.cacheKey # None => /\ sealed \in Envelope /\ sealed # None /\ sealed \in Maybe(Envelope)
                               /\ sealed.key = store.cacheKey /\ sealed.data.owner = identity
  <2>1. data \in Context
    BY <1>1 DEF Context
  <2>2. store.cacheKey # None => store.cacheKey \in Identities
    BY DEF IInv, Types, Fields, Maybe
  <2> QED BY <2>1, <2>2, NoneIsNoData DEF Envelope, Maybe
<1> HIDE DEF sealed
<1>4. /\ c \in CallType /\ c.op = "save" /\ c.who = identity /\ c.cancelled = FALSE
      /\ \/ c.stage = "rejected"
         \/ c.stage = "encrypting" /\ c.sealed = sealed /\ store.cacheKey # None
  <2>1. None \in Maybe(Envelope) /\ identity \in Maybe(Identities)
    BY <1>1 DEF Maybe
  <2>2. CASE store.cacheKey = None
    <3>1. c = Call("save", identity, "rejected", None)
      BY <1>2, <2>2
    <3> QED BY <2>1, <3>1 DEF Call, CallType, Stages, Maybe
  <2>3. CASE store.cacheKey # None
    <3>1. c = Call("save", identity, "encrypting", sealed)
      BY <1>2, <2>3
    <3> QED BY <1>3, <2>1, <2>3, <3>1 DEF Call, CallType, Stages, Maybe
  <2> QED BY <2>2, <2>3
<1>5. c \in GoodCall /\ ~Waits(c)
  BY <1>3, <1>4 DEF GoodCall, CallOK, Waits, Reads
<1>6. calls' \in Seq(GoodCall)
  BY <1>2, <1>5, Begins DEF IInv, Becomes
<1>7. Types'
  <2>1. overlapped' \in BOOLEAN
    BY <1>1 DEF Overlaps
  <2> QED BY <1>1, <1>6, <2>1 DEF IInv, Types
<1>8. Queues'
  BY <1>1, <1>2, <1>5, BeginsQueuesKept DEF IInv
<1>9. ~overlapped /\ ~pending =>
        /\ LoneCall(c)'
        /\ store'.db \in {None, store'.current} /\ store'.cacheKey \in {None, store'.current}
        /\ Isolated'
  <2> SUFFICES ASSUME ~overlapped, ~pending
               PROVE  /\ LoneCall(c)'
                      /\ store.db \in {None, store.current} /\ store.cacheKey \in {None, store.current}
                      /\ Isolated'
    BY <1>1
  <2>1. /\ store.db \in {None, store.current} /\ store.cacheKey \in {None, store.current} /\ Isolated
        /\ store.current = identity
    BY <1>1, NoneIsNoIdentity DEF IInv, Alone, Owns, Settles
  <2>2. LoneCall(c)'
    BY <1>1, <1>3, <1>4, <2>1 DEF LoneCall, Waits
  <2> QED BY <1>1, <2>1, <2>2 DEF Isolated
<1>10. Owns' /\ Notices' /\ Alone' /\ Shows'
  <2>1. Settles => store'.current = identity
    BY <1>1 DEF IInv, Owns
  <2>2. c.op # "load" /\ c.stage \notin {"resolved", "done"} /\ c.who = identity
    BY <1>4
  <2> QED BY <1>1, <1>2, <1>5, <1>9, <2>1, <2>2, BeginFrame DEF IInv
<1> QED BY <1>7, <1>8, <1>10 DEF IInv

LEMMA ClearKeeps ==
  ASSUME IInv, Clear
  PROVE  IInv'
<1>1. /\ store' = store /\ identity' = identity /\ pending' = pending /\ prev' = prev
      /\ context' = context /\ isLoaded' = isLoaded /\ failed' = failed /\ renders' = renders
      /\ identity \in Maybe(Identities) /\ Overlaps(pending) /\ Len(calls) \in Nat
      /\ overlapped' \in BOOLEAN
  BY CallsAre DEF Clear, IInv, Types, Overlaps
<1>2. PICK b : b = Call("clear", identity, "writing", None)
  OBVIOUS
<1>3. /\ b \in CallType /\ b.op = "clear" /\ b.stage = "writing" /\ b.who = identity
      /\ b.cancelled = FALSE
  <2>1. None \in Maybe(Envelope)
    BY DEF Maybe
  <2> QED BY <1>1, <1>2, <2>1 DEF Call, CallType, Stages, Maybe
<1>4. CASE store.db = None
  <2>1. PICK c : c = Call("clear", identity, "rejected", None) /\ calls' = Append(calls, c)
    BY <1>4 DEF Clear
  <2>2. disk' = disk
    BY <1>4 DEF Clear
  <2>3. /\ c \in CallType /\ c.op = "clear" /\ c.stage = "rejected" /\ c.who = identity
        /\ c.cancelled = FALSE
    <3>1. None \in Maybe(Envelope)
      BY DEF Maybe
    <3> QED BY <1>1, <2>1, <3>1 DEF Call, CallType, Stages, Maybe
  <2>4. c \in GoodCall /\ ~Waits(c)
    BY <2>3 DEF GoodCall, CallOK, Waits, Reads
  <2>5. Types'
    <3>1. calls' \in Seq(GoodCall)
      BY <2>1, <2>4, Begins DEF IInv, Becomes
    <3> QED BY <1>1, <2>2, <3>1 DEF IInv, Types
  <2>6. Queues'
    BY <2>1, <2>2, <2>4, BeginsQueuesKept DEF IInv
  <2>7. ~overlapped /\ ~pending =>
          /\ LoneCall(c)'
          /\ store'.db \in {None, store'.current} /\ store'.cacheKey \in {None, store'.current}
          /\ Isolated'
    BY <1>1, <2>2, <2>3 DEF IInv, Alone, LoneCall, Waits, Isolated
  <2>8. Owns' /\ Notices' /\ Alone' /\ Shows'
    <3>1. Settles => store'.current = identity
      BY <1>1 DEF IInv, Owns
    <3>2. c.op # "load" /\ c.stage \notin {"resolved", "done"} /\ c.who = identity
      BY <2>3
    <3> QED BY <1>1, <2>1, <2>2, <2>4, <2>7, <3>1, <3>2, BeginFrame DEF IInv
  <2> QED BY <2>5, <2>6, <2>8 DEF IInv
<1>5. CASE store.db # None
  <2>1. PICK c : c = [b EXCEPT !.db = store.db]
    OBVIOUS
  <2>2. PICK i \in Identities : i = store.db
    BY <1>5 DEF IInv, Types, Fields, Maybe
  <2>3. calls' = Append(calls, c) /\ disk' = [disk EXCEPT ![i].queue = Append(@, Len(calls) + 1)]
    BY <1>2, <1>5, <2>1, <2>2 DEF Clear
  <2>4. /\ c \in CallType /\ c.op = "clear" /\ c.stage = "writing" /\ c.who = identity
        /\ c.cancelled = FALSE /\ c.db = i
    BY <1>3, <2>1, <2>2 DEF CallType, Maybe
  <2>5. c \in GoodCall /\ Waits(c)
    BY <2>2, <2>4, NoneIsNoIdentity DEF GoodCall, CallOK, Waits, Reads
  <2>6. PICK n \in Nat : n = Len(calls) + 1 /\ Becomes(n, c) /\ n \notin DOMAIN calls
    BY <1>1, <2>3, <2>5, Begins DEF IInv
  <2>7. /\ Queues' /\ disk' \in [Identities -> Database]
        /\ \A j \in Identities : disk'[j].record = disk[j].record /\ disk'[j].key = disk[j].key
    BY <1>1, <2>3, <2>4, <2>5, <2>6, Enqueues DEF IInv
  <2>8. Types'
    BY <1>1, <2>6, <2>7 DEF IInv, Types, Becomes
  <2>9. ~overlapped /\ ~pending =>
          /\ LoneCall(c)'
          /\ store'.db \in {None, store'.current} /\ store'.cacheKey \in {None, store'.current}
          /\ Isolated'
    <3> SUFFICES ASSUME ~overlapped, ~pending
                 PROVE  /\ LoneCall(c)'
                        /\ store.db \in {None, store.current} /\ store.cacheKey \in {None, store.current}
                        /\ Isolated'
      BY <1>1
    <3>1. /\ store.db \in {None, store.current} /\ store.cacheKey \in {None, store.current} /\ Isolated
      BY DEF IInv, Alone
    <3>2. i = store.current
      BY <1>5, <2>2, <3>1
    <3>3. LoneCall(c)'
      BY <1>1, <2>4, <3>2 DEF LoneCall, Waits
    <3>4. Isolated'
      BY <2>7, <3>1 DEF Isolated
    <3> QED BY <3>1, <3>3, <3>4
  <2>10. Owns' /\ Notices' /\ Alone' /\ Shows'
    <3>1. Settles => store'.current = identity
      BY <1>1 DEF IInv, Owns
    <3>2. c.op # "load" /\ c.stage \notin {"resolved", "done"} /\ c.who = identity
      BY <2>4
    <3> QED BY <1>1, <2>3, <2>5, <2>7, <2>9, <3>1, <3>2, BeginFrame DEF IInv
  <2> QED BY <2>7, <2>8, <2>10 DEF IInv
<1> QED BY <1>4, <1>5

LEMMA RefreshKeeps ==
  ASSUME IInv, Refresh
  PROVE  IInv'
<1>1. /\ disk' = disk /\ identity' = identity /\ pending' = pending /\ prev' = prev
      /\ context' = context /\ isLoaded' = isLoaded /\ failed' = failed /\ renders' = renders
      /\ identity \in Identities /\ Overlaps(pending) /\ store' = AfterOpen(store, identity)
      /\ overlapped' \in BOOLEAN
  BY DEF Refresh, IInv, Types, Maybe, Overlaps
<1>2. PICK c : c = Call("refresh", identity, "opening", None) /\ calls' = Append(calls, c)
  BY DEF Refresh
<1>3. /\ c \in CallType /\ c.op = "refresh" /\ c.stage = "opening" /\ c.who = identity
      /\ c.cancelled = FALSE
  <2>1. None \in Maybe(Envelope) /\ identity \in Maybe(Identities)
    BY <1>1 DEF Maybe
  <2> QED BY <1>2, <2>1 DEF Call, CallType, Stages, Maybe
<1>4. c \in GoodCall /\ ~Waits(c)
  BY <1>1, <1>3, NoneIsNoIdentity DEF GoodCall, CallOK, Waits, Reads
<1>5. /\ store' \in Fields /\ store'.current = identity
      /\ \/ store'.db = store.db /\ store'.cacheKey = store.cacheKey /\ store.current \in {None, identity}
         \/ store'.db = None /\ store'.cacheKey = None
  BY <1>1, AfterOpenIs DEF IInv, Types
<1>6. Types'
  <2>1. calls' \in Seq(GoodCall)
    BY <1>2, <1>4, Begins DEF IInv, Becomes
  <2> QED BY <1>1, <1>5, <2>1 DEF IInv, Types
<1>7. Queues'
  BY <1>1, <1>2, <1>4, BeginsQueuesKept DEF IInv
<1>8. ~overlapped /\ ~pending =>
        /\ LoneCall(c)'
        /\ store'.db \in {None, store'.current} /\ store'.cacheKey \in {None, store'.current}
        /\ Isolated'
  <2> SUFFICES ASSUME ~overlapped
               PROVE  /\ LoneCall(c)'
                      /\ store'.db \in {None, identity} /\ store'.cacheKey \in {None, identity}
                      /\ Isolated'
    BY <1>5
  <2>1. store.db \in {None, store.current} /\ store.cacheKey \in {None, store.current} /\ Isolated
    BY DEF IInv, Alone
  <2>2. LoneCall(c)'
    BY <1>1, <1>3, <1>5 DEF LoneCall, Waits
  <2> QED BY <1>1, <1>5, <2>1, <2>2 DEF Isolated
<1>9. Owns' /\ Notices' /\ Alone' /\ Shows'
  <2>1. c.op # "load" /\ c.stage \notin {"resolved", "done"}
    BY <1>3
  <2> QED BY <1>1, <1>2, <1>3, <1>4, <1>5, <1>8, <2>1, BeginFrame DEF IInv
<1> QED BY <1>6, <1>7, <1>9 DEF IInv

(* The effect of an identity cancels the loads before it and makes its own. *)
LEMMA EffectWithKeeps ==
  ASSUME IInv, ~AnySettled, Effect, EffectWith
  PROVE  IInv'
<1>1. /\ disk' = disk /\ identity' = identity /\ pending' = FALSE /\ prev' = identity
      /\ context' = context /\ isLoaded' = isLoaded /\ failed' = failed /\ renders' = renders
      /\ identity \in Identities /\ Overlaps(FALSE) /\ overlapped' \in BOOLEAN
  BY DEF Effect, EffectWith, IInv, Types, Maybe, Overlaps
<1>2. PICK c : c = Call("load", identity, "opening", None)
  OBVIOUS
<1>3. /\ c \in CallType /\ c.op = "load" /\ c.stage = "opening" /\ c.who = identity
      /\ c.cancelled = FALSE
  <2>1. None \in Maybe(Envelope) /\ identity \in Maybe(Identities)
    BY <1>1 DEF Maybe
  <2> QED BY <1>2, <2>1 DEF Call, CallType, Stages, Maybe
<1>4. c \in GoodCall /\ ~Waits(c)
  BY <1>1, <1>3, NoneIsNoIdentity DEF GoodCall, CallOK, Waits, Reads
<1>5. PICK cs : cs = Cancelled(calls)
  OBVIOUS
<1>6. /\ cs \in Seq(GoodCall) /\ Len(cs) = Len(calls)
      /\ \A n \in DOMAIN calls : /\ cs[n].op = calls[n].op /\ cs[n].stage = calls[n].stage
                                 /\ cs[n].db = calls[n].db
                                 /\ calls[n].op = "load" => cs[n].cancelled
  BY <1>5, CancelledKeeps DEF IInv
<1>7. PICK N : N = Len(calls) + 1
  OBVIOUS
<1>8. /\ calls' \in Seq(GoodCall) /\ Len(calls') = N /\ calls'[N] = c
      /\ DOMAIN calls' = DOMAIN calls \cup {N} /\ calls' # <<>>
      /\ \A n \in DOMAIN calls : n # N /\ calls'[n] = cs[n]
  <2>1. calls' = Append(cs, c)
    BY <1>2, <1>5 DEF EffectWith
  <2>2. DOMAIN calls = 1..Len(calls) /\ Len(calls) \in Nat
    BY CallsAre DEF IInv
  <2>3. /\ Append(cs, c) \in Seq(GoodCall) /\ Len(Append(cs, c)) = Len(cs) + 1
        /\ Append(cs, c)[Len(cs) + 1] = c /\ \A m \in 1..Len(cs) : Append(cs, c)[m] = cs[m]
    BY <1>4, <1>6, AppendProperties
  <2> QED BY <1>6, <1>7, <2>1, <2>2, <2>3
<1>9. PICK s \in Fields : s \in {store, Closed} /\ store' = AfterOpen(s, identity)
  <2>1. store \in Fields /\ Closed \in Fields
    BY DEF IInv, Types, Fields, Closed, Maybe
  <2>2. store' = AfterOpen(IF prev \in {None, identity} THEN store ELSE Closed, identity)
    BY DEF EffectWith, AfterClose
  <2> QED BY <2>1, <2>2
<1>10. /\ store' \in Fields /\ store'.current = identity
       /\ \/ store'.db = s.db /\ store'.cacheKey = s.cacheKey /\ s.current \in {None, identity}
          \/ store'.db = None /\ store'.cacheKey = None
  BY <1>1, <1>9, AfterOpenIs
<1>11. Types'
  <2>1. prev' \in Maybe(Identities) /\ pending' \in BOOLEAN
    BY <1>1 DEF Maybe
  <2> QED BY <1>1, <1>8, <1>10, <2>1 DEF IInv, Types
<1>12. Queues'
  <2>1. \A m \in DOMAIN calls : /\ Waits(calls'[m]) <=> Waits(calls[m])
                                /\ Waits(calls[m]) => calls'[m].db = calls[m].db
    BY <1>6, <1>8 DEF Waits
  <2>2. \A m \in DOMAIN calls' \ DOMAIN calls : ~Waits(calls'[m])
    BY <1>4, <1>8
  <2> QED BY <1>1, <1>8, <2>1, <2>2, QueuesKept DEF IInv
<1>13. InFlight' = InFlight \cup {N}
  BY <1>3, <1>6, <1>8 DEF InFlight
<1>14. Owns'
  <2> SUFFICES ASSUME NEW n \in InFlight'
               PROVE  /\ calls'[n].op = "load" /\ ~calls'[n].cancelled => calls'[n].who = identity
                      /\ calls'[n].op = "refresh" /\ n = N => calls'[n].who = identity
                      /\ Reads(calls'[n]) /\ calls'[n].stage = "resolved" /\ calls'[n].result # None =>
                           calls'[n].result.owner = identity
    BY <1>1, <1>8, <1>10 DEF Owns, Newest
  <2>1. CASE n = N
    BY <1>3, <1>8, <2>1
  <2>2. CASE n \in InFlight
    <3>1. n \in DOMAIN calls /\ n # N /\ calls[n].stage # "resolved"
      BY <1>8, <2>2 DEF InFlight, AnySettled, Settled
    <3> QED BY <1>6, <1>8, <3>1
  <2> QED BY <1>13, <2>1, <2>2
<1>15. Notices'
  BY <1>3, <1>8 DEF Notices
<1>16. Alone'
  <2> SUFFICES ASSUME ~overlapped'
               PROVE  /\ \A n \in InFlight' : n = N /\ LoneCall(calls[n])'
                      /\ store'.db \in {None, identity} /\ store'.cacheKey \in {None, identity}
                      /\ Isolated
    BY <1>1, <1>8, <1>10 DEF Alone, Newest, Isolated
  <2>1. ~overlapped /\ InFlight = {}
    BY DEF Effect, Overlaps
  <2>2. store.db \in {None, store.current} /\ store.cacheKey \in {None, store.current} /\ Isolated
    BY <2>1 DEF IInv, Alone
  <2>3. LoneCall(calls[N])'
    BY <1>1, <1>3, <1>8, <1>10 DEF LoneCall, Waits
  <2>4. store'.db \in {None, identity} /\ store'.cacheKey \in {None, identity}
    BY <1>9, <1>10, <2>2 DEF Closed
  <2> QED BY <1>13, <2>1, <2>2, <2>3, <2>4
<1>17. Shows'
  BY <1>3, <1>8, <1>13 DEF Shows
<1> QED BY <1>11, <1>12, <1>14, <1>15, <1>16, <1>17 DEF IInv

(***************************************************************************)
(* The continuation of a settled call: what has to be shown of it is that  *)
(* a newest load is noticed, and that the hook shows what is stored.       *)
(***************************************************************************)
LEMMA ContinueFrame ==
  ASSUME IInv, NEW n \in DOMAIN calls, Settled(n), Finish(n),
         UNCHANGED <<store, disk, identity, pending, prev, renders, overlapped>>,
         context' \in Maybe(Context), isLoaded' \in BOOLEAN, failed' \in BOOLEAN,
         isLoaded => isLoaded',
         Newest(n) /\ calls[n].op = "load" /\ ~calls[n].cancelled => isLoaded',
         ~overlapped /\ ~failed' /\ Settles => Shown'
  PROVE  IInv'
<1>1. /\ calls[n] \in CallType /\ n \in InFlight
      /\ calls[n].stage \in {"resolved", "rejected"} /\ ~Waits(calls[n])
  BY CallsAre DEF IInv, Settled, InFlight, Waits
<1>2. PICK c : c = Call(calls[n].op, None, "done", None)
  OBVIOUS
<1>3. c \in CallType /\ c.op = calls[n].op /\ c.stage = "done"
  BY <1>1, <1>2 DEF Call, CallType, Stages, Maybe
<1>4. c \in GoodCall /\ ~Waits(c)
  BY <1>3 DEF GoodCall, CallOK, Waits
<1>5. /\ calls' \in Seq(GoodCall) /\ DOMAIN calls' = DOMAIN calls /\ Len(calls') = Len(calls)
      /\ calls'[n] = c /\ \A m \in DOMAIN calls \ {n} : calls'[m] = calls[m]
  BY <1>2, <1>4, Moves DEF IInv, Becomes, Finish
<1>6. Types'
  BY <1>5 DEF IInv, Types
<1>7. Queues'
  BY <1>1, <1>4, <1>5, QueuesKept DEF IInv
<1>8. InFlight' = InFlight \ {n}
  BY <1>3, <1>5 DEF InFlight
<1>9. Owns'
  <2> SUFFICES ASSUME Settles, NEW m \in InFlight'
               PROVE  /\ store.current = identity
                      /\ calls'[m].op = "load" /\ ~calls'[m].cancelled => calls'[m].who = identity
                      /\ calls'[m].op = "refresh" /\ Newest(m) => calls'[m].who = identity
                      /\ Reads(calls'[m]) /\ calls'[m].stage = "resolved" /\ calls'[m].result # None =>
                           calls'[m].result.owner = identity
    BY <1>5 DEF IInv, Owns, Settles, Newest
  <2>1. m \in InFlight /\ calls'[m] = calls[m]
    BY <1>5, <1>8 DEF InFlight
  <2> QED BY <2>1 DEF IInv, Owns
<1>10. Notices'
  <2> SUFFICES ASSUME ~isLoaded'
               PROVE  /\ calls' = <<>> => pending
                      /\ calls' # <<>> /\ calls'[Len(calls)].op = "load" =>
                           calls'[Len(calls)].stage # "done" /\ ~calls'[Len(calls)].cancelled
    BY <1>5 DEF Notices
  <2>1. calls # <<>> /\ calls' # <<>> /\ Len(calls) \in DOMAIN calls
    BY <1>5 DEF IInv, Types
  <2>2. calls[Len(calls)].op = "load" =>
          calls[Len(calls)].stage # "done" /\ ~calls[Len(calls)].cancelled
    BY <2>1 DEF IInv, Notices
  <2>3. CASE n = Len(calls)
    BY <1>3, <1>5, <2>1, <2>2, <2>3 DEF Newest
  <2>4. CASE n # Len(calls)
    BY <1>5, <2>1, <2>2, <2>4
  <2> QED BY <2>3, <2>4
<1>11. Alone'
  <2>1. ~overlapped => InFlight' = {}
    BY <1>1, <1>8 DEF IInv, Alone, Newest
  <2> QED BY <2>1 DEF IInv, Alone, Isolated
<1>12. Shows'
  BY DEF Shows, Settles
<1> QED BY <1>6, <1>7, <1>9, <1>10, <1>11, <1>12 DEF IInv

(* While nothing overlaps a settled call is the only one in flight. *)
LEMMA SettledAlone ==
  ASSUME IInv, NEW n \in DOMAIN calls, Settled(n), ~overlapped
  PROVE  /\ Newest(n) /\ LoneCall(calls[n]) /\ \A m \in InFlight : m = n
BY CallsAre DEF IInv, Alone, Settled, InFlight, Newest

LEMMA CommitKeeps ==
  ASSUME IInv, NEW n \in DOMAIN calls, Commit(n)
  PROVE  IInv'
<1>1. /\ calls[n] \in CallType /\ calls[n].stage = "resolved" /\ Settled(n) /\ Finish(n)
      /\ UNCHANGED <<store, disk, identity, pending, prev, renders, overlapped>>
      /\ context' = calls[n].result
  BY CallsAre DEF IInv, Commit, Settled
<1>2. /\ isLoaded' \in BOOLEAN /\ failed' \in BOOLEAN /\ (isLoaded => isLoaded')
      /\ calls[n].op = "load" => isLoaded'
  <2>1. isLoaded' = (isLoaded \/ calls[n].op = "load")
    BY DEF Commit
  <2>2. failed' = (failed /\ calls[n].op = "refresh")
    BY DEF Commit
  <2> QED BY <2>1, <2>2, Zenon
<1>3. context' \in Maybe(Context)
  BY <1>1 DEF CallType
<1>4. ~overlapped /\ ~failed' /\ Settles => Shown'
  <2> SUFFICES ASSUME ~overlapped, Settles
               PROVE  context' # None => /\ disk[identity].record # None
                                         /\ disk[identity].record.data = context'
    BY <1>1 DEF Shown
  <2>1. store.current = identity /\ LoneCall(calls[n])
    BY <1>1, SettledAlone DEF IInv, Owns
  <2> QED BY <1>1, <2>1 DEF LoneCall
<1> QED BY <1>1, <1>2, <1>3, <1>4, ContinueFrame

LEMMA DropKeeps ==
  ASSUME IInv, NEW n \in DOMAIN calls, Drop(n)
  PROVE  IInv'
<1>1. /\ calls[n] \in CallType /\ Settled(n) /\ Finish(n)
      /\ UNCHANGED <<store, disk, identity, pending, prev, renders, overlapped>>
      /\ context' = context /\ isLoaded' = isLoaded /\ failed' = failed
  BY CallsAre DEF IInv, Drop, Settled
<1>2. /\ context' \in Maybe(Context) /\ isLoaded' \in BOOLEAN /\ failed' \in BOOLEAN
  BY <1>1 DEF IInv, Types
<1>3. ~(Newest(n) /\ calls[n].op = "load" /\ ~calls[n].cancelled)
  BY DEF Drop, MayCommit
<1>4. ~overlapped /\ ~failed' /\ Settles => Shown'
  <2> SUFFICES ASSUME ~overlapped, ~failed, Settles PROVE Shown
    BY <1>1 DEF Shown
  <2>1. Newest(n) /\ LoneCall(calls[n]) /\ \A m \in InFlight : m = n
    BY <1>1, SettledAlone
  <2>2. ~calls[n].cancelled /\ calls[n].who = identity
    BY <2>1 DEF LoneCall, Settles
  <2>3. MayCommit(n)
    BY <1>1, <2>1, <2>2 DEF MayCommit, CallType
  <2>4. calls[n].stage = "rejected" /\ calls[n].op # "load"
    BY <2>2, <2>3 DEF Drop
  <2> QED BY <2>1, <2>4 DEF IInv, Shows
<1> QED BY <1>1, <1>2, <1>3, <1>4, ContinueFrame

LEMMA FailKeeps ==
  ASSUME IInv, NEW n \in DOMAIN calls, Fail(n)
  PROVE  IInv'
<1>1. /\ Settled(n) /\ Finish(n)
      /\ UNCHANGED <<store, disk, identity, pending, prev, renders, overlapped>>
      /\ context' = context /\ isLoaded' = TRUE /\ failed' = TRUE
  BY DEF Fail, Settled, LoadedAfterFailure
<1>2. context' \in Maybe(Context)
  BY <1>1 DEF IInv, Types
<1> QED BY <1>1, <1>2, ContinueFrame

-----------------------------------------------------------------------------
LEMMA Initially == Init => IInv
<1> SUFFICES ASSUME Init PROVE IInv
  OBVIOUS
<1>1. /\ store = Closed /\ calls = <<>> /\ identity \in Maybe(Identities) /\ pending = TRUE
      /\ prev = None /\ context = None /\ isLoaded = FALSE /\ failed = FALSE
      /\ renders = 0 /\ overlapped = FALSE
  BY DEF Init, StorageInit
<1>2. /\ disk \in [Identities -> Database]
      /\ \A i \in Identities : /\ disk[i].queue = <<>>
                               /\ disk[i].key \in {None, i}
                               /\ disk[i].record # None =>
                                    disk[i].record.key = i /\ disk[i].record.data.owner = i
  <2>1. PICK warm \in SUBSET Identities :
          disk = [i \in Identities |->
            IF i \in warm
              THEN [record |-> [key |-> i, data |-> [owner |-> i, version |-> 0]],
                    key |-> i, queue |-> <<>>]
              ELSE [record |-> None, key |-> None, queue |-> <<>>]]
    BY DEF Init, StorageInit
  <2>2. \A i \in Identities :
          LET w == [record |-> [key |-> i, data |-> [owner |-> i, version |-> 0]],
                    key |-> i, queue |-> <<>>]
          IN  /\ w \in Database /\ w.queue = <<>> /\ w.key = i
              /\ w.record.key = i /\ w.record.data.owner = i
    <3>1. \A i \in Identities : [owner |-> i, version |-> 0] \in Context
      BY DEF Context
    <3>2. \A i \in Identities : [key |-> i, data |-> [owner |-> i, version |-> 0]] \in Envelope
      BY <3>1 DEF Envelope
    <3>3. <<>> \in Seq(Nat)
      OBVIOUS
    <3> QED BY <3>2, <3>3 DEF Database, Maybe
  <2>3. LET v == [record |-> None, key |-> None, queue |-> <<>>]
        IN  v \in Database /\ v.queue = <<>> /\ v.key = None /\ v.record = None
    <3>1. <<>> \in Seq(Nat)
      OBVIOUS
    <3> QED BY <3>1 DEF Database, Maybe
  <2> QED BY <2>1, <2>2, <2>3
<1>3. Types
  <2>1. calls \in Seq(GoodCall)
    BY <1>1
  <2>2. store \in Fields
    BY <1>1 DEF Closed, Fields, Maybe
  <2>3. 0 \in 0..MaxRenders
    BY ContextBoundsAreNat
  <2>4. None \in Maybe(Identities) /\ None \in Maybe(Context)
    BY DEF Maybe
  <2> QED BY <1>1, <1>2, <2>1, <2>2, <2>3, <2>4 DEF Types
<1>4. Queues
  BY <1>1, <1>2 DEF Queues
<1>5. Owns /\ Notices /\ Shows
  BY <1>1 DEF Owns, Notices, Shows, Settles
<1>6. Alone
  BY <1>1, <1>2 DEF Alone, Isolated, Closed, InFlight
<1> QED BY <1>3, <1>4, <1>5, <1>6 DEF IInv

LEMMA Step == IInv /\ [Next]_vars => IInv'
<1> SUFFICES ASSUME IInv, [Next]_vars PROVE IInv'
  OBVIOUS
<1>1. ASSUME NEW id \in Maybe(Identities), Render(id) PROVE IInv'
  BY <1>1, RenderKeeps
<1>2. CASE ~AnySettled /\ Effect
  BY <1>2, EffectWithoutKeeps, EffectWithKeeps DEF Effect
<1>3. CASE Save \/ Clear \/ Refresh
  BY <1>3, SaveKeeps, ClearKeeps, RefreshKeeps
<1>4. ASSUME NEW n \in DOMAIN calls, StorageStep(n), UNCHANGED hookVars PROVE IInv'
  BY <1>4, StorageStepKeeps
<1>5. CASE /\ identity # None /\ ~pending /\ (SetCacheKey(identity) \/ PersistCacheKey)
           /\ UNCHANGED hookVars
  BY <1>5, LoginKeeps
<1>6. ASSUME NEW n \in DOMAIN calls, Continue(n) PROVE IInv'
  BY <1>6, CommitKeeps, DropKeeps, FailKeeps DEF Continue
<1>7. CASE UNCHANGED vars
  <2>1. /\ store' = store /\ disk' = disk /\ calls' = calls /\ UNCHANGED hookVars
        /\ identity' = identity /\ pending' = pending /\ context' = context
        /\ isLoaded' = isLoaded /\ failed' = failed /\ overlapped' = overlapped
    BY <1>7 DEF vars, storageVars, hookVars
  <2>2. InFlight' = InFlight
    BY <2>1 DEF InFlight
  <2>3. Types'
    BY <2>1, TypesKept DEF IInv, Types
  <2>4. Queues'
    BY <2>1, QueuesKept DEF IInv
  <2>5. Owns' /\ Notices' /\ Shows'
    BY <2>1, <2>2 DEF IInv, Owns, Notices, Shows, Shown, Settles, Newest
  <2>6. Alone'
    <3>1. ASSUME NEW n, LoneCall(calls[n]) PROVE LoneCall(calls[n])'
      BY <2>1, <3>1 DEF LoneCall
    <3> QED BY <2>1, <2>2, <3>1 DEF IInv, Alone, Newest, Isolated
  <2> QED BY <2>3, <2>4, <2>5, <2>6 DEF IInv
<1> QED BY <1>1, <1>2, <1>3, <1>4, <1>5, <1>6, <1>7 DEF Next, Event

-----------------------------------------------------------------------------
(* The invariant holds in every state: only waiting calls are in a queue,  *)
(* each once; an effect that has run leaves nothing in flight that could   *)
(* commit for another identity; and what overlaps nothing stays with one   *)
(* identity's database.                                                    *)
THEOREM Invariance == Spec => []IInv
  BY Initially, Step, PTL DEF Spec

(* The state has its types, and a transaction that waits in a database's   *)
(* queue is that of a call that reads or writes there.                     *)
THEOREM TypeCorrect == Spec => []TypeOK
<1>1. IInv => TypeOK
  <2> SUFFICES ASSUME IInv PROVE TypeOK
    OBVIOUS
  <2>1. calls \in Seq(CallType)
    <3>1. calls \in Seq(GoodCall) /\ \A c \in GoodCall : c \in CallType
      BY DEF IInv, Types, GoodCall
    <3> QED BY <3>1
  <2>2. \A i \in Identities : \A k \in DOMAIN disk[i].queue :
          LET n == disk[i].queue[k] IN
          calls[n].stage \in {"reading", "writing"} /\ calls[n].db = i
    BY DEF IInv, Queues, Waits
  <2> QED BY <2>1, <2>2 DEF IInv, Types, TypeOK, CallType
<1> QED BY <1>1, Invariance, PTL

(* As long as nothing is begun while a call is in flight, every database   *)
(* keeps to its own identity's data, under its own key.                    *)
THEOREM IsolationCorrect == Spec => []IsolatedIfAwaited
<1>1. IInv => IsolatedIfAwaited
  BY DEF IInv, Alone, IsolatedIfAwaited
<1> QED BY <1>1, Invariance, PTL

(* As long as nothing is begun while a call is in flight, the hook shows   *)
(* what is stored once all has settled, unless it reported a failure.      *)
THEOREM StoredCorrect == Spec => []StoredIfAwaited
<1>1. IInv => StoredIfAwaited
  BY DEF IInv, Shows, Shown, Settles, Quiet, ShownIsStored, StoredIfAwaited
<1> QED BY <1>1, Invariance, PTL

(* Once all has settled the hook is loaded, or a newer call superseded the *)
(* load, however loads fail, are cancelled and overlap.                    *)
THEOREM LoadCorrect == Spec => []LoadIsNoticed
<1>1. IInv => LoadIsNoticed
  <2> SUFFICES ASSUME IInv, Quiet, ~isLoaded PROVE calls[Len(calls)].op # "load"
    BY DEF LoadIsNoticed
  <2>1. calls # <<>>
    BY DEF IInv, Notices, Quiet
  <2>2. Len(calls) \in DOMAIN calls
    BY <2>1 DEF IInv, Types
  <2> QED BY <2>1, <2>2 DEF IInv, Notices, Quiet, InFlight
<1> QED BY <1>1, Invariance, PTL

(* Once the effect of an identity has run, what the hook shows only        *)
(* changes by a call made for it, to a context of its own.                 *)
THEOREM CommitCorrect == Spec => CommitIsOwn
<1> DEFINE Own == (context' # context /\ identity # None /\ ~pending) =>
                    /\ \E n \in DOMAIN calls :
                         calls[n].stage = "resolved" /\ calls[n].who = identity
                    /\ context' # None => context'.owner = identity
<1>1. IInv /\ [Next]_vars => Own
  <2> SUFFICES ASSUME IInv, Next, context' # context, identity # None, ~pending
               PROVE  /\ \E n \in DOMAIN calls :
                           calls[n].stage = "resolved" /\ calls[n].who = identity
                      /\ context' # None => context'.owner = identity
    BY DEF vars, hookVars
  <2>1. ~Event
    BY DEF Event, Render, Effect, Save, Clear, Refresh, hookVars
  <2>2. PICK n \in DOMAIN calls : Commit(n)
    BY <2>1 DEF Next, Continue, Drop, Fail
  <2>3. /\ calls[n] \in CallType /\ CallOK(calls[n]) /\ calls[n].stage = "resolved"
        /\ n \in InFlight /\ MayCommit(n) /\ context' = calls[n].result
    BY <2>2, CallsAre DEF IInv, Commit, InFlight
  <2>4. calls[n].who = identity
    BY <2>3 DEF IInv, Owns, Settles, MayCommit, CallType
  <2>5. context' # None => context'.owner = identity
    BY <2>3, <2>4 DEF IInv, Owns, Settles, Reads, CallOK, CallType
  <2> QED BY <2>3, <2>4, <2>5
<1> QED BY <1>1, Invariance, PTL DEF Spec, CommitIsOwn
-----------------------------------------------------------------------------
(***************************************************************************)
(* The refinement of PerIdentityStore: how the abstract state moves.       *)
(***************************************************************************)
RequestType == [op : {"none", "load", "save", "clear"}, who : Maybe(Identities),
                data : Maybe(Context), answered : BOOLEAN]

LEMMA RequestIs ==
  ASSUME NEW c \in CallType, CallOK(c)
  PROVE  /\ Request(c) \in RequestType
         /\ c.stage \in {"rejected", "done"} => Request(c) = Nothing
         /\ c.stage \notin {"rejected", "done"} =>
              /\ Request(c).op = IF Reads(c) THEN "load" ELSE c.op
              /\ Request(c).who = c.who
              /\ Request(c).answered <=> c.stage = "resolved"
              /\ Request(c).data = Payload(c)
<1>1. CASE c.stage \in {"rejected", "done"}
  <2>1. Request(c) = Nothing
    BY <1>1 DEF Request
  <2>2. Nothing \in RequestType
    BY DEF Nothing, RequestType, Maybe
  <2> QED BY <1>1, <2>1, <2>2
<1>2. CASE c.stage \notin {"rejected", "done"}
  <2>1. PICK data : data = Payload(c)
    OBVIOUS
  <2>2. data \in Maybe(Context)
    <3>1. c.stage # "resolved" /\ c.op = "save" => c.sealed \in Envelope
      BY <1>2 DEF CallType, CallOK, Reads, Stages, Maybe
    <3> QED BY <2>1, <3>1 DEF Payload, CallType, Envelope, Maybe
  <2>3. PICK op : op = IF c.op = "refresh" THEN "load" ELSE c.op
    OBVIOUS
  <2>4. op = (IF Reads(c) THEN "load" ELSE c.op) /\ op \in {"load", "save", "clear"}
    BY <2>3 DEF Reads, CallType
  <2>5. PICK b \in BOOLEAN : b = (c.stage = "resolved")
    <3>1. (c.stage = "resolved") \in BOOLEAN
      BY Zenon
    <3> QED BY <3>1, Zenon
  <2>6. Request(c) = [op |-> op, who |-> c.who, data |-> data, answered |-> b]
    BY <1>2, <2>1, <2>3, <2>5, Zenon DEF Request
  <2> HIDE DEF Request
  <2>7. Request(c) \in RequestType
    BY <2>2, <2>4, <2>6 DEF RequestType, CallType
  <2>8. /\ Request(c).op = op /\ Request(c).who = c.who /\ Request(c).data = data
        /\ Request(c).answered = b
    BY <2>6
  <2>9. Request(c).answered <=> c.stage = "resolved"
    BY <2>5, <2>8, Zenon
  <2> QED BY <1>2, <2>1, <2>4, <2>7, <2>8, <2>9
<1> QED BY <1>1, <1>2

LEMMA CellsStay ==
  ASSUME \A i \in Identities : disk'[i].record = disk[i].record
  PROVE  Cells' = Cells
BY DEF Cells

(* The last call becomes c. *)
LEMMA LastMoves ==
  ASSUME Types, NEW n \in DOMAIN calls, Newest(n), NEW c \in GoodCall,
         calls' = [calls EXCEPT ![n] = c]
  PROVE  /\ LastRequest = Request(calls[n]) /\ LastRequest' = Request(c)
         /\ Request(calls[n]) \in RequestType /\ Request(c) \in RequestType
<1>1. /\ calls # <<>> /\ calls' # <<>> /\ Len(calls') = Len(calls) /\ n = Len(calls)
      /\ calls'[n] = c
  BY Moves DEF Types, Newest, Becomes
<1>2. LastRequest = Request(calls[n])
  BY <1>1 DEF LastRequest
<1>3. LastRequest' = Request(c)
  BY <1>1 DEF LastRequest, Request, Payload
<1>4. calls[n] \in CallType /\ CallOK(calls[n]) /\ c \in CallType /\ CallOK(c)
  BY CallsAre DEF GoodCall
<1> QED BY <1>2, <1>3, <1>4, RequestIs

(* c is a new call. *)
LEMMA LastBegins ==
  ASSUME NEW cs \in Seq(GoodCall), NEW c \in GoodCall, calls' = Append(cs, c)
  PROVE  LastRequest' = Request(c) /\ c \in CallType /\ CallOK(c)
<1>1. Len(calls') = Len(cs) + 1 /\ calls'[Len(cs) + 1] = c /\ calls' # <<>>
  BY AppendProperties
<1>2. LastRequest' = Request(c)
  BY <1>1 DEF LastRequest, Request, Payload
<1>3. c \in CallType /\ CallOK(c)
  BY DEF GoodCall
<1> QED BY <1>2, <1>3

(* Nothing is in flight. *)
LEMMA NothingAsked ==
  ASSUME Types, InFlight = {}
  PROVE  LastRequest = Nothing
<1>1. ASSUME calls # <<>> PROVE Request(calls[Len(calls)]) = Nothing
  <2>1. Len(calls) \in DOMAIN calls
    BY <1>1 DEF Types
  <2>2. calls[Len(calls)].stage = "done" /\ calls[Len(calls)] \in CallType /\ CallOK(calls[Len(calls)])
    BY <2>1, CallsAre DEF InFlight
  <2> QED BY <2>2, RequestIs
<1> QED BY <1>1 DEF LastRequest

-----------------------------------------------------------------------------
(***************************************************************************)
(* A call in flight, alone, takes effect, fails, or goes on.               *)
(***************************************************************************)
Stutters == UNCHANGED <<identity, store.current, Cells, LastRequest, context, overlapped>>

(* It rejects. *)
LEMMA FailsIs ==
  ASSUME Types, UNCHANGED hookVars, NEW n \in DOMAIN calls, Newest(n),
         calls[n].stage \notin {"resolved", "rejected", "done"}, Reject(n),
         store'.current = store.current,
         \A i \in Identities : disk'[i].record = disk[i].record
  PROVE  Promise!Fail
<1>1. calls[n] \in CallType /\ CallOK(calls[n])
  BY CallsAre
<1>2. PICK c : c = [calls[n] EXCEPT !.stage = "rejected"] /\ calls' = [calls EXCEPT ![n] = c]
  BY DEF Reject
<1>3. c \in GoodCall /\ c \in CallType /\ CallOK(c) /\ c.stage = "rejected"
  BY <1>1, <1>2 DEF GoodCall, CallOK, CallType, Stages, Reads, Waits
<1>4. LastRequest = Request(calls[n]) /\ LastRequest' = Request(c)
  BY <1>2, <1>3, LastMoves
<1>5. LastRequest' = Nothing /\ ~LastRequest.answered /\ LastRequest.op # "none"
  BY <1>1, <1>3, <1>4, RequestIs DEF CallType
<1>6. LastRequest # Nothing
  BY <1>5 DEF Nothing
<1>7. Cells' = Cells
  BY CellsStay
<1> QED BY <1>5, <1>6, <1>7 DEF Promise!Fail, Promise!Idle, Nothing, hookVars

(* It goes on, without effect. *)
LEMMA GoesOn ==
  ASSUME Types, UNCHANGED hookVars, NEW n \in DOMAIN calls, Newest(n), NEW c \in GoodCall,
         calls' = [calls EXCEPT ![n] = c],
         calls[n].stage \notin {"resolved", "rejected", "done"},
         c.stage \notin {"resolved", "rejected", "done"},
         c.op = calls[n].op, c.who = calls[n].who,
         c.op = "save" => c.sealed = calls[n].sealed,
         store'.current = store.current,
         \A i \in Identities : disk'[i].record = disk[i].record
  PROVE  Stutters
<1>1. calls[n] \in CallType /\ CallOK(calls[n]) /\ c \in CallType /\ CallOK(c)
  BY CallsAre DEF GoodCall
<1>2. /\ LastRequest = Request(calls[n]) /\ LastRequest' = Request(c)
      /\ Request(calls[n]) \in RequestType /\ Request(c) \in RequestType
  BY LastMoves
<1>3. /\ Request(c).op = Request(calls[n]).op /\ Request(c).who = Request(calls[n]).who
      /\ Request(c).data = Request(calls[n]).data
      /\ Request(c).answered = Request(calls[n]).answered
  BY <1>1, <1>2, RequestIs DEF Reads, RequestType, Payload
<1>4. Request(c) = Request(calls[n])
  BY <1>2, <1>3 DEF RequestType
<1>5. Cells' = Cells
  BY CellsStay
<1> QED BY <1>2, <1>4, <1>5 DEF Stutters, hookVars

(* It has its result. *)
LEMMA Answers ==
  ASSUME Types, UNCHANGED hookVars, NEW n \in DOMAIN calls, Newest(n), NEW c \in GoodCall,
         calls' = [calls EXCEPT ![n] = c], c.stage = "resolved",
         calls[n].stage \notin {"resolved", "rejected", "done"},
         c.op = calls[n].op, c.who = calls[n].who,
         store'.current = store.current,
         NEW result, result = c.result
  PROVE  /\ Promise!Answer(result)
         /\ LastRequest.op = (IF Reads(c) THEN "load" ELSE c.op)
         /\ c.op = "save" => LastRequest.data = calls[n].sealed.data
         /\ c.op = "clear" => LastRequest.data = None
<1>1. calls[n] \in CallType /\ CallOK(calls[n]) /\ c \in CallType /\ CallOK(c)
  BY CallsAre DEF GoodCall
<1>2. PICK q \in RequestType, r \in RequestType :
        /\ q = Request(calls[n]) /\ r = Request(c)
        /\ LastRequest = q /\ LastRequest' = r
  BY LastMoves
<1>3. /\ r.op = q.op /\ r.who = q.who /\ r.data = result /\ ~q.answered /\ r.answered
      /\ q.op = (IF Reads(c) THEN "load" ELSE c.op)
      /\ c.op = "save" => q.data = calls[n].sealed.data
      /\ c.op = "clear" => q.data = None
  BY <1>1, <1>2, RequestIs DEF Reads, Payload
<1>4. r = [q EXCEPT !.data = result, !.answered = TRUE]
  BY <1>2, <1>3 DEF RequestType
<1>5. q # Nothing
  BY <1>1, <1>3 DEF Nothing, CallType
<1>6. UNCHANGED <<identity, store.current, context, overlapped>>
  BY DEF hookVars
<1> QED BY <1>2, <1>3, <1>4, <1>5, <1>6 DEF Promise!Answer, Promise!Idle, Nothing
-----------------------------------------------------------------------------
(* A lone call is at the identity the storage is open for. *)
LEMMA LoneIs ==
  ASSUME IInv, ~overlapped, NEW n \in DOMAIN calls, calls[n].stage # "done"
  PROVE  /\ Newest(n) /\ LoneCall(calls[n]) /\ calls[n] \in CallType /\ CallOK(calls[n])
         /\ n \in InFlight /\ \A m \in InFlight : m = n
BY CallsAre DEF IInv, Alone, InFlight, Newest

LEMMA CellIs ==
  ASSUME IInv, NEW i \in Identities
  PROVE  /\ Cells[i] = IF disk[i].record = None THEN None ELSE disk[i].record.data
         /\ disk[i].record \in Maybe(Envelope)
BY DEF Cells, IInv, Types, Database

LEMMA BeginReadIs ==
  ASSUME IInv, ~overlapped, UNCHANGED hookVars, NEW n \in DOMAIN calls,
         calls[n].stage \in {"opening", "loadingKey"},
         NEW db \in Identities, NEW key \in Identities, BeginRead(n, db, key),
         store'.current = store.current
  PROVE  Stutters
<1>1. Newest(n) /\ calls[n] \in CallType /\ CallOK(calls[n]) /\ Reads(calls[n])
  BY LoneIs DEF CallOK
<1>2. PICK c : /\ c = [calls[n] EXCEPT !.stage = "reading", !.db = db, !.key = key]
               /\ calls' = [calls EXCEPT ![n] = c]
  BY DEF BeginRead
<1>3. /\ c \in CallType /\ c.stage = "reading" /\ c.db = db /\ c.op = calls[n].op
      /\ c.who = calls[n].who /\ c.sealed = calls[n].sealed
  BY <1>1, <1>2 DEF CallType, Stages, Maybe
<1>4. c \in GoodCall
  BY <1>1, <1>3, NoneIsNoIdentity DEF GoodCall, CallOK, Waits, Reads
<1>5. \A i \in Identities : disk'[i].record = disk[i].record
  BY DEF BeginRead, IInv, Types, Database
<1> QED BY <1>1, <1>2, <1>3, <1>4, <1>5, GoesOn DEF IInv

LEMMA OpenedIs ==
  ASSUME IInv, ~overlapped, UNCHANGED hookVars, NEW n \in DOMAIN calls, Opened(n)
  PROVE  Stutters
<1>1. /\ Newest(n) /\ calls[n] \in CallType /\ CallOK(calls[n])
      /\ calls[n].stage = "opening" /\ Reads(calls[n])
  BY LoneIs DEF CallOK, Opened
<1>2. PICK who \in Identities : who = calls[n].who
  BY <1>1 DEF CallOK, CallType, Maybe
<1>3. store'.current = store.current /\ store.cacheKey \in Maybe(Identities)
  BY DEF IInv, Types, Fields, Opened
<1>4. CASE store.cacheKey # None
  <2>1. BeginRead(n, who, store.cacheKey) /\ store.cacheKey \in Identities
    BY <1>2, <1>3, <1>4 DEF Opened, Maybe
  <2> QED BY <1>1, <1>3, <2>1, BeginReadIs
<1>5. CASE store.cacheKey = None
  <2>1. PICK c : c = [calls[n] EXCEPT !.stage = "loadingKey", !.key = disk[who].key]
    OBVIOUS
  <2>2. disk' = disk /\ calls' = [calls EXCEPT ![n] = c]
    BY <1>2, <1>5, <2>1 DEF Opened
  <2>3. disk[who].key \in Maybe(Identities)
    BY DEF IInv, Types, Database
  <2>4. /\ c \in CallType /\ c.stage = "loadingKey" /\ c.op = calls[n].op
        /\ c.who = calls[n].who /\ c.sealed = calls[n].sealed
    BY <1>1, <2>1, <2>3 DEF CallType, Stages
  <2>5. c \in GoodCall
    BY <1>1, <2>4 DEF GoodCall, CallOK, Waits, Reads
  <2> QED BY <1>1, <1>3, <2>2, <2>4, <2>5, GoesOn DEF IInv
<1> QED BY <1>4, <1>5

(* A read that resolves is Read. *)
LEMMA ReadsIs ==
  ASSUME IInv, ~overlapped, UNCHANGED hookVars, NEW n \in DOMAIN calls,
         Reads(calls[n]), calls[n].stage \notin {"resolved", "rejected", "done"},
         NEW result \in Maybe(Context), Resolve(n, result),
         result = None \/ result = Cells[store.current],
         store'.current = store.current,
         \A i \in Identities : disk'[i].record = disk[i].record
  PROVE  Promise!Read
<1>1. Newest(n) /\ calls[n] \in CallType
  BY LoneIs
<1>2. PICK c : /\ c = [calls[n] EXCEPT !.stage = "resolved", !.result = result]
               /\ calls' = [calls EXCEPT ![n] = c]
  BY DEF Resolve
<1>3. /\ c \in CallType /\ c.stage = "resolved" /\ c.op = calls[n].op
      /\ c.who = calls[n].who /\ c.result = result
  BY <1>1, <1>2 DEF CallType, Stages
<1>4. c \in GoodCall /\ Reads(c)
  BY <1>3 DEF GoodCall, CallOK, Waits, Reads
<1>5. Promise!Answer(result) /\ LastRequest.op = "load"
  BY <1>1, <1>2, <1>3, <1>4, Answers DEF IInv
<1>6. Cells' = Cells
  BY CellsStay
<1> QED BY <1>5, <1>6 DEF Promise!Read

LEMMA KeyLoadedIs ==
  ASSUME IInv, ~overlapped, UNCHANGED hookVars, NEW n \in DOMAIN calls, KeyLoaded(n)
  PROVE  Stutters \/ Promise!Read \/ Promise!Fail
<1>1. /\ Newest(n) /\ calls[n] \in CallType /\ calls[n].stage = "loadingKey"
      /\ Reads(calls[n])
  BY LoneIs DEF CallOK, KeyLoaded
<1>2. PICK key \in Maybe(Identities) : key = calls[n].key
  BY <1>1 DEF CallType
<1>3. CASE key = None
  <2>1. Resolve(n, None) /\ store' = store /\ disk' = disk /\ None \in Maybe(Context)
    BY <1>2, <1>3 DEF KeyLoaded, Maybe
  <2> QED BY <1>1, <2>1, ReadsIs
<1>4. CASE key # None
  <2>1. /\ store' = [store EXCEPT !.cacheKey = key]
        /\ \/ store.db = None /\ Reject(n) /\ disk' = disk
           \/ store.db # None /\ BeginRead(n, store.db, key)
    BY <1>2, <1>4 DEF KeyLoaded
  <2>2. store'.current = store.current /\ store.db \in Maybe(Identities)
    BY <1>2, <2>1 DEF IInv, Types, Fields
  <2>3. CASE Reject(n) /\ disk' = disk
    BY <1>1, <2>2, <2>3, FailsIs DEF IInv
  <2>4. CASE store.db # None /\ BeginRead(n, store.db, key)
    <3>1. store.db \in Identities /\ key \in Identities
      BY <1>2, <1>4, <2>2, <2>4 DEF Maybe
    <3> QED BY <1>1, <2>2, <2>4, <3>1, BeginReadIs
  <2> QED BY <2>1, <2>3, <2>4
<1> QED BY <1>3, <1>4

LEMMA EncryptedIs ==
  ASSUME IInv, ~overlapped, UNCHANGED hookVars, NEW n \in DOMAIN calls, Encrypted(n)
  PROVE  Stutters \/ Promise!Fail
<1>1. /\ Newest(n) /\ calls[n] \in CallType /\ CallOK(calls[n])
      /\ calls[n].stage = "encrypting" /\ store' = store
  BY LoneIs DEF Encrypted
<1>2. CASE Reject(n) /\ disk' = disk
  BY <1>1, <1>2, FailsIs DEF IInv
<1>3. CASE /\ store.db # None
           /\ calls' = [calls EXCEPT ![n].stage = "writing", ![n].db = store.db]
           /\ disk' = [disk EXCEPT ![store.db].queue = Append(@, n)]
  <2>1. PICK db \in Identities : db = store.db
    BY <1>3 DEF IInv, Types, Fields, Maybe
  <2>2. PICK c : /\ c = [calls[n] EXCEPT !.stage = "writing", !.db = db]
                 /\ calls' = [calls EXCEPT ![n] = c]
    BY <1>3, <2>1
  <2>3. /\ c \in CallType /\ c.stage = "writing" /\ c.db = db /\ c.op = calls[n].op
        /\ c.who = calls[n].who /\ c.sealed = calls[n].sealed
    BY <1>1, <2>2 DEF CallType, Stages, Maybe
  <2>4. c \in GoodCall
    BY <1>1, <2>3, NoneIsNoIdentity DEF GoodCall, CallOK, Waits, Reads
  <2>5. \A i \in Identities : disk'[i].record = disk[i].record
    BY <1>3, <2>1 DEF IInv, Types, Database
  <2> QED BY <1>1, <2>2, <2>3, <2>4, <2>5, GoesOn DEF IInv
<1> QED BY <1>2, <1>3 DEF Encrypted

LEMMA ReadDoneIs ==
  ASSUME IInv, ~overlapped, UNCHANGED hookVars, NEW n \in DOMAIN calls, ReadDone(n)
  PROVE  Stutters \/ Promise!Read
<1>1. /\ Newest(n) /\ calls[n] \in CallType /\ CallOK(calls[n])
      /\ calls[n].stage = "reading" /\ Reads(calls[n]) /\ store' = store
  BY LoneIs DEF CallOK, ReadDone
<1>2. PICK db \in Identities : db = calls[n].db
  BY <1>1 DEF CallOK, CallType, Waits, Maybe
<1>3. \A i \in Identities : disk'[i].record = disk[i].record
  BY <1>2 DEF ReadDone, IInv, Types, Database
<1>4. CASE disk[db].record = None /\ Resolve(n, None)
  BY <1>1, <1>3, <1>4, ReadsIs DEF Maybe
<1>5. CASE /\ disk[db].record # None
           /\ calls' = [calls EXCEPT ![n].stage = "decrypting", ![n].sealed = disk[db].record]
  <2>1. PICK record \in Envelope : record = disk[db].record /\ record # None
    BY <1>5, CellIs DEF Maybe
  <2>2. PICK c : /\ c = [calls[n] EXCEPT !.stage = "decrypting", !.sealed = record]
                 /\ calls' = [calls EXCEPT ![n] = c]
    BY <1>5, <2>1
  <2>3. /\ c \in CallType /\ c.stage = "decrypting" /\ c.op = calls[n].op
        /\ c.who = calls[n].who /\ c.sealed # None
    BY <1>1, <2>1, <2>2 DEF CallType, Stages, Maybe
  <2>4. c \in GoodCall /\ c.op # "save"
    BY <1>1, <2>3 DEF GoodCall, CallOK, Waits, Reads
  <2> QED BY <1>1, <1>3, <2>2, <2>3, <2>4, GoesOn DEF IInv
<1> QED BY <1>2, <1>4, <1>5 DEF ReadDone

LEMMA DecryptedIs ==
  ASSUME IInv, ~overlapped, UNCHANGED hookVars, NEW n \in DOMAIN calls, Decrypted(n)
  PROVE  Promise!Read
<1>1. /\ Newest(n) /\ LoneCall(calls[n]) /\ calls[n] \in CallType /\ CallOK(calls[n])
      /\ calls[n].stage = "decrypting" /\ Reads(calls[n]) /\ store' = store /\ disk' = disk
  BY LoneIs DEF CallOK, Decrypted
<1>2. PICK record \in Envelope : record = calls[n].sealed /\ record # None
  BY <1>1 DEF CallOK, CallType, Maybe
<1>3. PICK result \in Maybe(Context) :
        /\ result = OpenedContext(n) /\ Resolve(n, result)
        /\ result # None => result = record.data /\ record.data.owner = store.current
  BY <1>2 DEF OpenedContext, Decrypted, Envelope, Maybe
<1>4. record = disk[store.current].record
  BY <1>1, <1>2 DEF LoneCall
<1>5. result = None \/ result = Cells[store.current]
  <2> SUFFICES ASSUME result # None PROVE result = Cells[store.current]
    OBVIOUS
  <2>1. store.current \in Identities
    BY <1>2, <1>3 DEF Envelope, Context
  <2> QED BY <1>2, <1>3, <1>4, <2>1, CellIs
<1> QED BY <1>1, <1>3, <1>5, ReadsIs

LEMMA WriteDoneIs ==
  ASSUME IInv, ~overlapped, UNCHANGED hookVars, NEW n \in DOMAIN calls, WriteDone(n)
  PROVE  Promise!Write
<1>1. /\ Newest(n) /\ LoneCall(calls[n]) /\ calls[n] \in CallType /\ CallOK(calls[n])
      /\ calls[n].stage = "writing" /\ ~Reads(calls[n]) /\ store' = store
  BY LoneIs DEF CallOK, WriteDone
<1>2. PICK db \in Identities : db = calls[n].db /\ db = store.current
  BY <1>1 DEF CallOK, CallType, LoneCall, Waits, Maybe
<1>3. calls[n].op \in {"save", "clear"}
  BY <1>1 DEF Reads, CallType
<1>4. PICK record \in Maybe(Envelope), result \in Maybe(Context) :
        /\ record = Written(calls[n])
        /\ result = IF record = None THEN None ELSE record.data
        /\ calls[n].op = "save" => record = calls[n].sealed /\ result = calls[n].sealed.data
                                   /\ record # None /\ result # None /\ result.owner = calls[n].who
        /\ calls[n].op = "clear" => record = None /\ result = None
  <2>1. CASE calls[n].op = "save"
    <3>1. calls[n].sealed \in Envelope /\ calls[n].sealed # None
          /\ calls[n].sealed.data.owner = calls[n].who
      BY <1>1, <2>1 DEF CallOK, CallType, Maybe
    <3>2. calls[n].sealed.data \in Context /\ calls[n].sealed.data # None
      BY <3>1, NoneIsNoData DEF Envelope
    <3> QED BY <2>1, <3>1, <3>2 DEF Written, Maybe
  <2>2. CASE calls[n].op = "clear"
    BY <2>2 DEF Written, Maybe
  <2> QED BY <1>3, <2>1, <2>2
<1>5. PICK c : /\ c = [calls[n] EXCEPT !.stage = "resolved", !.result = result]
               /\ calls' = [calls EXCEPT ![n] = c]
  BY <1>3, <1>4 DEF WriteDone, Resolve
<1>6. /\ c \in CallType /\ c.stage = "resolved" /\ c.op = calls[n].op
      /\ c.who = calls[n].who /\ c.result = result
  BY <1>1, <1>5 DEF CallType, Stages
<1>7. c \in GoodCall /\ ~Reads(c)
  BY <1>1, <1>3, <1>4, <1>6 DEF GoodCall, CallOK, Waits, Reads
<1>8. Promise!Answer(result) /\ LastRequest.op \in {"save", "clear"} /\ LastRequest.data = result
  <2>1. /\ Promise!Answer(result)
        /\ LastRequest.op = (IF Reads(c) THEN "load" ELSE c.op)
        /\ c.op = "save" => LastRequest.data = calls[n].sealed.data
        /\ c.op = "clear" => LastRequest.data = None
    BY <1>1, <1>5, <1>6, <1>7, Answers DEF IInv
  <2> QED BY <1>3, <1>4, <1>6, <1>7, <2>1
<1>9. Cells' = [Cells EXCEPT ![db] = result]
  <2>1. /\ disk'[db].record = record
        /\ \A i \in Identities \ {db} : disk'[i].record = disk[i].record
    BY <1>2, <1>4 DEF WriteDone, IInv, Types, Database
  <2> QED BY <1>4, <2>1 DEF Cells
<1> QED BY <1>2, <1>8, <1>9 DEF Promise!Write

LEMMA TransactionFailsIs ==
  ASSUME IInv, ~overlapped, UNCHANGED hookVars, NEW n \in DOMAIN calls, TransactionFails(n)
  PROVE  Promise!Fail
<1>1. /\ calls[n].stage \in {"reading", "writing"} /\ Reject(n) /\ store' = store
      /\ disk' = [disk EXCEPT ![calls[n].db].queue = Tail(@)]
  BY DEF TransactionFails, Turn
<1>2. Newest(n) /\ calls[n] \in CallType /\ CallOK(calls[n])
  BY <1>1, LoneIs
<1>3. PICK db \in Identities : db = calls[n].db
  BY <1>1, <1>2 DEF CallOK, CallType, Waits, Maybe
<1>4. \A i \in Identities : disk'[i].record = disk[i].record
  BY <1>1, <1>3 DEF IInv, Types, Database
<1> QED BY <1>1, <1>2, <1>4, FailsIs DEF IInv

LEMMA StorageStepIs ==
  ASSUME IInv, ~overlapped, UNCHANGED hookVars, NEW n \in DOMAIN calls, StorageStep(n)
  PROVE  Stutters \/ Promise!Read \/ Promise!Write \/ Promise!Fail
<1>1. CASE OpenFails(n)
  <2>1. /\ calls[n].stage = "opening" /\ Reject(n) /\ store' = store /\ disk' = disk
    BY <1>1 DEF OpenFails
  <2>2. Newest(n)
    BY <2>1, LoneIs
  <2> QED BY <2>1, <2>2, FailsIs DEF IInv
<1> QED BY <1>1, OpenedIs, KeyLoadedIs, EncryptedIs, ReadDoneIs, DecryptedIs, WriteDoneIs,
           TransactionFailsIs DEF StorageStep
-----------------------------------------------------------------------------
(***************************************************************************)
(* What the hook does.                                                     *)
(***************************************************************************)
(* While nothing overlaps, a step that may begin a call finds nothing in   *)
(* flight.                                                                 *)
LEMMA NothingOverlaps ==
  ASSUME IInv, IInv', NEW early, Overlaps(early), ~overlapped'
  PROVE  /\ InFlight = {} /\ ~early /\ ~overlapped /\ overlapped' = overlapped
         /\ LastRequest = Nothing
<1>1. InFlight = {} /\ ~early /\ ~overlapped
  BY DEF Overlaps
<1>2. overlapped \in BOOLEAN /\ overlapped' \in BOOLEAN
  BY DEF IInv, Types
<1>3. overlapped' = overlapped
  BY <1>1, <1>2
<1> QED BY <1>1, <1>3, NothingAsked DEF IInv

(* A call that begins asks. *)
LEMMA AsksIs ==
  ASSUME LastRequest = Nothing, NEW cs \in Seq(GoodCall), NEW c \in GoodCall,
         calls' = Append(cs, c), c.who = identity,
         c.stage \notin {"resolved", "rejected", "done"},
         UNCHANGED <<identity, Cells, context, overlapped>>,
         NEW op, op = IF Reads(c) THEN "load" ELSE c.op, NEW data, data = Payload(c)
  PROVE  Promise!Ask(op, data) /\ LastRequest'.data = data
<1>1. LastRequest' = Request(c) /\ c \in CallType /\ CallOK(c)
  BY LastBegins
<1>2. PICK q \in RequestType :
        /\ q = Request(c) /\ q.op = op /\ q.who = identity /\ q.data = data /\ ~q.answered
  BY <1>1, RequestIs
<1>3. q = [op |-> op, who |-> identity, data |-> data, answered |-> FALSE]
  BY <1>2 DEF RequestType
<1> QED BY <1>1, <1>2, <1>3 DEF Promise!Ask, Promise!Asked, Promise!Idle, Nothing

(* One that is rejected as it begins does not. *)
LEMMA RejectedIs ==
  ASSUME LastRequest = Nothing, NEW cs \in Seq(GoodCall), NEW c \in GoodCall,
         calls' = Append(cs, c), c.stage = "rejected"
  PROVE  LastRequest' = LastRequest
BY LastBegins, RequestIs

LEMMA RenderIs ==
  ASSUME NEW id \in Maybe(Identities), Render(id)
  PROVE  Promise!Switch
<1>1. UNCHANGED <<store, disk, calls, context, overlapped>> /\ identity' \in Maybe(Identities)
  BY DEF Render, storageVars
<1>2. Cells' = Cells /\ LastRequest' = LastRequest
  BY <1>1 DEF Cells, LastRequest, Request, Payload
<1> QED BY <1>1, <1>2 DEF Promise!Switch, Maybe

LEMMA EffectIs ==
  ASSUME IInv, IInv', Effect, ~overlapped'
  PROVE  Promise!Leave \/ Promise!Load
<1>1. /\ LastRequest = Nothing /\ InFlight = {} /\ overlapped' = overlapped
      /\ identity' = identity
  BY NothingOverlaps DEF Effect
<1>2. /\ Cancelled(calls) \in Seq(GoodCall) /\ Len(Cancelled(calls)) = Len(calls)
      /\ \A n \in DOMAIN calls : Cancelled(calls)[n].stage = calls[n].stage
  BY CancelledKeeps DEF IInv
<1>3. CASE EffectWithout
  <2>1. /\ identity = None /\ calls' = Cancelled(calls) /\ context' = None
        /\ store' = store /\ disk' = disk
    BY <1>3 DEF EffectWithout
  <2>2. InFlight' = {}
    <3>1. DOMAIN calls' = DOMAIN calls
      BY <2>1 DEF Cancelled
    <3> QED BY <1>1, <1>2, <2>1, <3>1 DEF InFlight
  <2>3. LastRequest' = Nothing
    <3>1. Types' /\ InFlight' = {}
      BY <2>2 DEF IInv
    <3>2. ASSUME calls' # <<>> PROVE Request(calls[Len(calls)])' = Nothing
      <4>1. Len(calls') \in DOMAIN calls' /\ calls'[Len(calls')].stage = "done"
        BY <3>1, <3>2 DEF Types, InFlight
      <4> QED BY <4>1 DEF Request
    <3> QED BY <3>2 DEF LastRequest
  <2>4. Cells' = Cells
    BY <2>1, CellsStay
  <2> QED BY <1>1, <2>1, <2>3, <2>4 DEF Promise!Leave, Promise!Idle, Nothing
<1>4. CASE EffectWith
  <2>1. PICK id \in Identities : id = identity
    BY <1>4 DEF EffectWith, IInv, Types, Maybe
  <2>2. PICK c : c = Call("load", id, "opening", None) /\ calls' = Append(Cancelled(calls), c)
    BY <1>4, <2>1 DEF EffectWith
  <2>3. /\ c \in CallType /\ c.op = "load" /\ c.stage = "opening" /\ c.who = id
    BY <2>2 DEF Call, CallType, Stages, Maybe
  <2>4. c \in GoodCall /\ Reads(c)
    BY <2>3, NoneIsNoIdentity DEF GoodCall, CallOK, Waits, Reads
  <2>5. disk' = disk /\ context' = context /\ identity # None
    BY <1>4 DEF EffectWith
  <2>6. Cells' = Cells /\ Payload(c) = None
    BY <2>3, <2>5, CellsStay DEF Payload
  <2>7. store'.current = identity
    <3>1. PICK s \in Fields : store' = AfterOpen(s, id)
      <4>1. store \in Fields /\ AfterClose(store) \in Fields
        BY DEF IInv, Types, AfterClose, Closed, Fields, Maybe
      <4> QED BY <1>4, <2>1, <4>1 DEF EffectWith
    <3> QED BY <2>1, <3>1, AfterOpenIs
  <2>8. Promise!Ask("load", None)
    BY <1>1, <1>2, <2>1, <2>2, <2>3, <2>4, <2>5, <2>6, AsksIs
  <2> QED BY <2>5, <2>7, <2>8 DEF Promise!Load
<1> QED BY <1>3, <1>4 DEF Effect

LEMMA RefreshIs ==
  ASSUME IInv, IInv', Refresh, ~overlapped'
  PROVE  Promise!Load
<1>1. LastRequest = Nothing /\ overlapped' = overlapped /\ calls \in Seq(GoodCall)
  BY NothingOverlaps DEF Refresh, IInv, Types
<1>2. PICK id \in Identities : id = identity
  BY DEF Refresh, IInv, Types, Maybe
<1>3. PICK c : c = Call("refresh", id, "opening", None) /\ calls' = Append(calls, c)
  BY <1>2 DEF Refresh
<1>4. /\ c \in CallType /\ c.op = "refresh" /\ c.stage = "opening" /\ c.who = id
  BY <1>3 DEF Call, CallType, Stages, Maybe
<1>5. c \in GoodCall /\ Reads(c)
  BY <1>4, NoneIsNoIdentity DEF GoodCall, CallOK, Waits, Reads
<1>6. disk' = disk /\ context' = context /\ identity' = identity /\ identity # None
  BY DEF Refresh
<1>7. Cells' = Cells /\ Payload(c) = None
  BY <1>4, <1>6, CellsStay DEF Payload
<1>8. store'.current = identity
  BY <1>2, AfterOpenIs DEF Refresh, IInv, Types
<1>9. Promise!Ask("load", None)
  BY <1>1, <1>2, <1>3, <1>4, <1>5, <1>6, <1>7, AsksIs
<1> QED BY <1>6, <1>8, <1>9 DEF Promise!Load

LEMMA SaveIs ==
  ASSUME IInv, IInv', Save, ~overlapped'
  PROVE  Promise!Save \/ Stutters
<1>1. /\ LastRequest = Nothing /\ ~pending /\ overlapped' = overlapped
      /\ calls \in Seq(GoodCall) /\ Len(calls) \in Nat
  BY NothingOverlaps DEF Save, IInv, Types
<1>2. PICK id \in Identities : id = identity
  BY DEF Save, IInv, Types, Maybe
<1>3. /\ store' = store /\ disk' = disk /\ context' = context /\ identity' = identity
      /\ identity # None
  BY DEF Save
<1>4. Cells' = Cells
  BY <1>3, CellsStay
<1>5. CASE store.cacheKey = None
  <2>1. PICK c : c = Call("save", id, "rejected", None) /\ calls' = Append(calls, c)
    BY <1>2, <1>5 DEF Save
  <2>2. c \in CallType /\ c.stage = "rejected"
    BY <2>1 DEF Call, CallType, Stages, Maybe
  <2>3. c \in GoodCall
    BY <2>2 DEF GoodCall, CallOK, Waits
  <2> QED BY <1>1, <1>3, <1>4, <2>1, <2>2, <2>3, RejectedIs DEF Stutters
<1>6. CASE store.cacheKey # None
  <2>1. PICK data \in Context : data = [owner |-> id, version |-> Len(calls) + 1]
    <3>1. [owner |-> id, version |-> Len(calls) + 1] \in Context
      BY <1>1 DEF Context
    <3> QED BY <3>1
  <2>2. PICK sealed \in Envelope : sealed = [key |-> store.cacheKey, data |-> data]
    BY <1>6 DEF Envelope, IInv, Types, Fields, Maybe
  <2>3. PICK c : c = Call("save", id, "encrypting", sealed) /\ calls' = Append(calls, c)
    BY <1>2, <1>6, <2>1, <2>2 DEF Save
  <2>4. /\ c \in CallType /\ c.op = "save" /\ c.stage = "encrypting" /\ c.who = id
        /\ c.sealed = sealed
    BY <2>3 DEF Call, CallType, Stages, Maybe
  <2>5. sealed.data = data /\ data.owner = id /\ sealed # None /\ data # None
    BY <2>1, <2>2, NoneIsNoData
  <2>6. c \in GoodCall /\ ~Reads(c) /\ Payload(c) = data
    BY <2>4, <2>5 DEF GoodCall, CallOK, Waits, Reads, Payload
  <2>7. Promise!Ask("save", data) /\ LastRequest'.data = data
    BY <1>1, <1>2, <1>3, <1>4, <2>3, <2>4, <2>6, AsksIs
  <2>8. store.current = identity /\ store'.current = store.current
    BY <1>1, <1>3 DEF IInv, Owns, Settles
  <2> QED BY <1>2, <1>3, <2>5, <2>7, <2>8 DEF Promise!Save
<1> QED BY <1>5, <1>6

LEMMA ClearIs ==
  ASSUME IInv, IInv', Clear, ~overlapped'
  PROVE  Promise!Clear \/ Stutters
<1>1. /\ LastRequest = Nothing /\ ~pending /\ ~overlapped /\ overlapped' = overlapped
      /\ calls \in Seq(GoodCall) /\ Len(calls) \in Nat
  BY NothingOverlaps DEF Clear, IInv, Types
<1>2. /\ store' = store /\ context' = context /\ identity' = identity
      /\ identity \in Maybe(Identities)
  BY DEF Clear, IInv, Types
<1>3. CASE store.db = None
  <2>1. PICK c : c = Call("clear", identity, "rejected", None) /\ calls' = Append(calls, c)
    BY <1>3 DEF Clear
  <2>2. c \in CallType /\ c.stage = "rejected"
    BY <1>2, <2>1 DEF Call, CallType, Stages, Maybe
  <2>3. c \in GoodCall
    BY <2>2 DEF GoodCall, CallOK, Waits
  <2>4. Cells' = Cells
    BY <1>3, CellsStay DEF Clear
  <2> QED BY <1>1, <1>2, <2>1, <2>2, <2>3, <2>4, RejectedIs DEF Stutters
<1>4. CASE store.db # None
  <2>1. PICK db \in Identities : db = store.db /\ db = store.current
    BY <1>1, <1>4 DEF IInv, Types, Alone, Fields, Maybe
  <2>2. PICK b : b = Call("clear", identity, "writing", None)
    OBVIOUS
  <2>3. PICK c : c = [b EXCEPT !.db = db] /\ calls' = Append(calls, c)
    BY <1>4, <2>1, <2>2 DEF Clear
  <2>4. /\ b \in CallType /\ b.op = "clear" /\ b.stage = "writing" /\ b.who = identity
    BY <1>2, <2>2 DEF Call, CallType, Stages, Maybe
  <2>5. /\ c \in CallType /\ c.op = "clear" /\ c.stage = "writing" /\ c.who = identity
        /\ c.db = db
    BY <2>3, <2>4 DEF CallType, Maybe
  <2>6. c \in GoodCall /\ ~Reads(c) /\ Payload(c) = None
    BY <2>5, NoneIsNoIdentity DEF GoodCall, CallOK, Waits, Reads, Payload
  <2>7. Cells' = Cells
    <3>1. disk' = [disk EXCEPT ![db].queue = Append(@, Len(calls) + 1)]
      BY <1>4, <2>1 DEF Clear
    <3>2. \A i \in Identities : disk'[i].record = disk[i].record
      BY <3>1 DEF IInv, Types, Database
    <3> QED BY <3>2, CellsStay
  <2>8. Promise!Ask("clear", None)
    BY <1>1, <1>2, <2>3, <2>5, <2>6, <2>7, AsksIs
  <2>9. store.current # None /\ identity \in {None, store.current}
    BY <1>1, <1>2, <2>1, NoneIsNoIdentity DEF IInv, Owns, Settles
  <2> QED BY <1>2, <2>8, <2>9 DEF Promise!Clear
<1> QED BY <1>3, <1>4

(* A settled call is shown, or dropped when its user has left. *)
LEMMA ContinueIs ==
  ASSUME IInv, ~overlapped, NEW n \in DOMAIN calls, Continue(n)
  PROVE  Promise!Show \/ Stutters
<1>1. /\ calls[n].stage \in {"resolved", "rejected"} /\ Finish(n)
      /\ UNCHANGED <<store, disk, identity, overlapped>>
  BY DEF Continue, Commit, Drop, Fail
<1>2. /\ Newest(n) /\ LoneCall(calls[n]) /\ calls[n] \in CallType /\ CallOK(calls[n])
  BY <1>1, LoneIs
<1>3. PICK c : c = Call(calls[n].op, None, "done", None) /\ calls' = [calls EXCEPT ![n] = c]
  BY <1>1 DEF Finish
<1>4. c \in CallType /\ c.stage = "done"
  BY <1>2, <1>3 DEF Call, CallType, Stages, Maybe
<1>5. c \in GoodCall
  BY <1>4 DEF GoodCall, CallOK, Waits
<1>6. /\ LastRequest = Request(calls[n]) /\ LastRequest' = Nothing
  BY <1>2, <1>3, <1>4, <1>5, LastMoves, RequestIs DEF IInv, GoodCall
<1>7. Cells' = Cells
  BY <1>1, CellsStay
<1>8. CASE calls[n].stage = "rejected"
  <2>1. LastRequest = Nothing
    BY <1>2, <1>6, <1>8, RequestIs
  <2>2. context' = context
    BY <1>8 DEF Continue, Commit, Drop, Fail
  <2> QED BY <1>1, <1>6, <1>7, <2>1, <2>2 DEF Stutters
<1>9. CASE calls[n].stage = "resolved"
  <2>1. PICK q \in RequestType :
          /\ q = LastRequest
          /\ q.op = IF Reads(calls[n]) THEN "load" ELSE calls[n].op
          /\ q.who = calls[n].who /\ q.answered /\ q.data = calls[n].result
    BY <1>2, <1>6, <1>9, RequestIs DEF Payload
  <2>2. q # Nothing
    BY <1>2, <2>1 DEF Nothing, CallType
  <2>3. MayCommit(n) <=> q.op = "load" \/ q.who = identity
    BY <1>2, <2>1 DEF MayCommit, Reads, CallType, LoneCall
  <2>4. context' = IF q.op = "load" \/ q.who = identity THEN q.data ELSE context
    BY <1>9, <2>1, <2>3 DEF Continue, Commit, Drop, Fail
  <2> QED BY <1>1, <1>6, <1>7, <2>1, <2>2, <2>4 DEF Promise!Show, Promise!Idle, Nothing
<1> QED BY <1>1, <1>8, <1>9

LEMMA LoginIs ==
  ASSUME IInv, UNCHANGED hookVars, identity # None, SetCacheKey(identity) \/ PersistCacheKey
  PROVE  Stutters
<1>1. calls' = calls /\ store'.current = store.current
  BY DEF SetCacheKey, PersistCacheKey, IInv, Types, Fields
<1>2. \A i \in Identities : disk'[i].record = disk[i].record
  <2>1. CASE SetCacheKey(identity)
    BY <2>1 DEF SetCacheKey
  <2>2. CASE PersistCacheKey
    <3>1. PICK db \in Identities : db = store.db
      BY <2>2 DEF PersistCacheKey, IInv, Types, Fields, Maybe
    <3>2. disk' = [disk EXCEPT ![db].key = store.cacheKey]
      BY <2>2, <3>1 DEF PersistCacheKey
    <3> QED BY <3>1, <3>2 DEF IInv, Types, Database
  <2> QED BY <2>1, <2>2
<1>3. Cells' = Cells /\ LastRequest' = LastRequest
  BY <1>1, <1>2, CellsStay DEF LastRequest, Request, Payload
<1> QED BY <1>1, <1>3 DEF Stutters, hookVars

(* Every step is one of PerIdentityStore or leaves its state as it is. *)
LEMMA PromiseStep ==
  ASSUME IInv, IInv', [Next]_vars
  PROVE  Promise!Next \/ Stutters
<1> SUFFICES ASSUME ~overlapped' PROVE Promise!Next \/ Stutters
  BY DEF Promise!Next, Promise!Misuse
<1>1. ASSUME NEW id \in Maybe(Identities), Render(id) PROVE Promise!Next
  BY <1>1, RenderIs DEF Promise!Next
<1>2. CASE Effect \/ Save \/ Clear \/ Refresh
  BY <1>2, EffectIs, SaveIs, ClearIs, RefreshIs DEF Promise!Next
<1>3. ASSUME NEW n \in DOMAIN calls, StorageStep(n), UNCHANGED hookVars
      PROVE  Promise!Next \/ Stutters
  <2>1. ~overlapped
    BY <1>3 DEF hookVars
  <2> QED BY <1>3, <2>1, StorageStepIs DEF Promise!Next
<1>4. CASE /\ identity # None /\ ~pending /\ (SetCacheKey(identity) \/ PersistCacheKey)
           /\ UNCHANGED hookVars
  BY <1>4, LoginIs
<1>5. ASSUME NEW n \in DOMAIN calls, Continue(n) PROVE Promise!Next \/ Stutters
  <2>1. ~overlapped
    BY <1>5 DEF Continue, Commit, Drop, Fail
  <2> QED BY <1>5, <2>1, ContinueIs DEF Promise!Next
<1>6. CASE UNCHANGED vars
  BY <1>6 DEF vars, storageVars, hookVars, Stutters, Cells, LastRequest, Request, Payload
<1> QED BY <1>1, <1>2, <1>3, <1>4, <1>5, <1>6 DEF Next, Event

(* The storage object and the hook implement PerIdentityStore: as long as  *)
(* nothing is begun while a call is in flight, for any identities, calls,  *)
(* failures and logins, each call takes effect once or fails, on the cell  *)
(* of the identity the storage is open for, and what is written is shown   *)
(* to nobody but who wrote it.                                             *)
THEOREM ContextKeepsPromise == Spec => KeepsPromise
<1>1. Init => Promise!Init
  <2> SUFFICES ASSUME Init PROVE Promise!Init
    OBVIOUS
  <2>1. IInv
    BY Initially
  <2>2. /\ store.current = None /\ LastRequest = Nothing /\ context = None
        /\ overlapped = FALSE /\ identity \in Maybe(Identities)
    BY DEF Init, StorageInit, Closed, LastRequest
  <2>3. \A i \in Identities : Cells[i] # None => Cells[i].owner = i
    BY <2>1, <2>2, CellIs DEF IInv, Alone, Isolated
  <2> QED BY <2>2, <2>3 DEF Promise!Init, Promise!Idle, Nothing, Maybe
<1>2. IInv /\ IInv' /\ [Next]_vars =>
        [Promise!Next]_<<identity, store.current, Cells, LastRequest, context, overlapped>>
  BY PromiseStep DEF Stutters
<1> QED BY <1>1, <1>2, Invariance, PTL DEF Spec, KeepsPromise, Promise!Spec
=============================================================================
