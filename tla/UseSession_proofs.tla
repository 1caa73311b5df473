-------------------------- MODULE UseSession_proofs --------------------------
(***************************************************************************)
(* The invariants of UseSession, for any number of sources, creations and  *)
(* lifetimes.                                                              *)
(*                                                                         *)
(* HandleFollowsSource is inductive.  The other two are not: they rest on  *)
(* what holds while sessions are being created, however many.  The newest  *)
(* of them is of the handle rendered, and no timer is pending, since every *)
(* renew clears the one timer there is.                                    *)
(***************************************************************************)
EXTENDS UseSession, SequenceTheorems, FiniteSetTheorems, TLAPS

Handles == {NoHandle} \cup 1..MaxSources
Closure == [handle : Handles, auto : BOOLEAN]
Call == [closure : [handle : 1..MaxSources, auto : BOOLEAN], ttl : Nat]
IsTimer(t) == t.closure \in Closure /\ t.due \in Nat \ {0}
Session == [handle : 1..MaxSources, expiresAt : Int, made : Nat]

(* The types the invariants need; SessionTypeOK follows. *)
TypeInv ==
  /\ sources \in 0..MaxSources /\ source \in 0..sources
  /\ deriving \subseteq 1..sources
  /\ handle \in Handles
  /\ rendered \in Closure
  /\ auto \in BOOLEAN /\ ttl \in Ttls
  /\ session \in {NoSession} \cup Session
  /\ session # NoSession => session.made <= now
  /\ creating \in Seq(Call)
  /\ creates \in 0..MaxCreates /\ Len(creating) <= creates
  /\ \A t \in timers : IsTimer(t)
  /\ timerRef # 0 => \E t \in timers : t.id = timerRef
  /\ mounted \in BOOLEAN /\ failed \in BOOLEAN /\ strayed \in BOOLEAN /\ late \in BOOLEAN
  /\ now \in 0..MaxNow

Newest(calls) == calls[Len(calls)]

(* The newest session in the making is of the handle rendered. *)
NewestIsRendered ==
  mounted /\ ~strayed /\ creating # <<>> =>
    /\ rendered.handle # NoHandle
    /\ Newest(creating).closure.handle = rendered.handle

(* No timer is pending while a session is in the making. *)
NoTimerMeanwhile == ~late /\ creating # <<>> => timers = {}

SessionInv == NewestIsRendered /\ SessionFollowsHandle /\ NoTimerMeanwhile /\ TimerIsOwn

IInv == TypeInv /\ HandleFollowsSource /\ SessionInv

-----------------------------------------------------------------------------
LEMMA InitEstablishes == SessionInit => IInv
<1> SUFFICES ASSUME SessionInit PROVE IInv
  OBVIOUS
<1>1. TypeInv
  <2>1. creating \in Seq(Call) /\ Len(creating) = 0
    BY DEF SessionInit
  <2>2. rendered \in Closure /\ handle \in Handles
    BY DEF SessionInit, Handles, Closure
  <2>3. session = NoSession /\ timers = {} /\ deriving = {}
    BY DEF SessionInit
  <2>4. mounted \in BOOLEAN /\ failed \in BOOLEAN /\ strayed \in BOOLEAN /\ late \in BOOLEAN
        /\ auto \in BOOLEAN
    BY DEF SessionInit
  <2>5. /\ ttl \in Ttls /\ source \in 0..sources /\ sources \in 0..MaxSources
        /\ creates \in 0..MaxCreates /\ creates = 0 /\ timerRef = 0 /\ now \in 0..MaxNow
    BY SessionBoundsAreNat DEF SessionInit
  <2> QED BY <2>1, <2>2, <2>3, <2>4, <2>5 DEF TypeInv
<1>2. HandleFollowsSource
  BY DEF SessionInit, HandleFollowsSource
<1>3. NewestIsRendered /\ NoTimerMeanwhile /\ SessionFollowsHandle
  BY DEF SessionInit, NewestIsRendered, NoTimerMeanwhile, SessionFollowsHandle
<1>4. TimerIsOwn
  <2>1. Cardinality(timers) = 0
    BY FS_EmptySet DEF SessionInit
  <2> QED BY <2>1 DEF SessionInit, TimerIsOwn
<1> QED BY <1>1, <1>2, <1>3, <1>4 DEF IInv, SessionInv

(* renew keeps the types of what it changes. *)
LEMMA RenewTypes ==
  ASSUME NEW closure \in Closure, NEW pending \in SUBSET timers,
         TypeInv, Renew(closure, pending)
  PROVE  /\ session' \in {NoSession, session}
         /\ creating' \in Seq(Call)
         /\ creates' \in 0..MaxCreates /\ Len(creating') <= creates'
         /\ (\A t \in timers' : IsTimer(t)) /\ timerRef' = 0
         /\ strayed' \in BOOLEAN /\ late' \in BOOLEAN
<1>1. /\ (\A t \in timers' : IsTimer(t)) /\ timerRef' = 0
      /\ strayed' \in BOOLEAN /\ late' \in BOOLEAN
  BY DEF Renew, ClearTimer, TypeInv
<1>2. CASE closure.handle = NoHandle
  BY <1>1, <1>2 DEF Renew, TypeInv
<1>3. CASE closure.handle # NoHandle
  <2> DEFINE call == [closure |-> closure, ttl |-> ttl]
  <2>1. call \in Call
    BY <1>3, UseSessionAssumption DEF Call, Closure, Handles, TypeInv
  <2>2. creating' = Append(creating, call) /\ creates' = creates + 1
        /\ creates < MaxCreates /\ session' = session
    BY <1>3 DEF Renew
  <2> HIDE DEF call
  <2>3. creating' \in Seq(Call) /\ Len(creating') = Len(creating) + 1
    BY <2>1, <2>2, AppendProperties DEF TypeInv
  <2>4. Len(creating) \in Nat
    BY LenProperties DEF TypeInv
  <2> QED BY <1>1, <2>2, <2>3, <2>4, SessionBoundsAreNat DEF TypeInv
<1> QED BY <1>2, <1>3

(* After a renew no timer is pending: it clears the one there was. *)
LEMMA RenewClears ==
  ASSUME NEW closure \in Closure, NEW pending \in SUBSET timers,
         TypeInv, NoTimerMeanwhile, TimerIsOwn, Renew(closure, pending), ~late'
  PROVE  timers' = {}
<1>1. ~late /\ timers' = {t \in pending : t.id # timerRef}
  BY DEF Renew, ClearTimer
<1>2. \A t \in timers : t.id = timerRef
  BY <1>1 DEF NoTimerMeanwhile, TimerIsOwn
<1> QED BY <1>1, <1>2

(* A renew begins a session, the newest then in the making; without a      *)
(* handle it ends the last.                                                *)
LEMMA RenewLast ==
  ASSUME NEW closure \in Closure, NEW pending \in SUBSET timers,
         TypeInv, Renew(closure, pending)
  PROVE  /\ closure.handle = NoHandle =>
              creating' = creating /\ session' = IF mounted THEN NoSession ELSE session
         /\ closure.handle # NoHandle =>
              creating' # <<>> /\ Newest(creating').closure = closure
<1>1. CASE closure.handle = NoHandle
  BY <1>1 DEF Renew
<1>2. CASE closure.handle # NoHandle
  <2> DEFINE call == [closure |-> closure, ttl |-> ttl]
  <2>1. call \in Call /\ call.closure = closure
    BY <1>2, UseSessionAssumption DEF Call, Closure, Handles, TypeInv
  <2>2. creating' = Append(creating, call)
    BY <1>2 DEF Renew
  <2> HIDE DEF call
  <2>3. /\ creating' \in Seq(Call) /\ Len(creating') = Len(creating) + 1
        /\ creating'[Len(creating) + 1] = call
    BY <2>1, <2>2, AppendProperties DEF TypeInv
  <2>4. Len(creating) \in Nat
    BY LenProperties DEF TypeInv
  <2>5. creating' # <<>>
    BY <2>3, <2>4
  <2> QED BY <1>2, <2>1, <2>3, <2>5 DEF Newest
<1> QED BY <1>1, <1>2

-----------------------------------------------------------------------------
(* What useHandle does leaves the session and its timers alone. *)
LEMMA Framed ==
  ASSUME IInv, UNCHANGED <<rendered, mounted>>, UNCHANGED timeVars
  PROVE  SessionInv'
<1>1. /\ rendered' = rendered /\ mounted' = mounted /\ session' = session
      /\ creating' = creating /\ timers' = timers /\ timerRef' = timerRef
      /\ strayed' = strayed /\ late' = late
  BY DEF timeVars
<1>2. NewestIsRendered' /\ NoTimerMeanwhile'
  BY <1>1 DEF IInv, SessionInv, NewestIsRendered, NoTimerMeanwhile, Newest
<1>3. SessionFollowsHandle'
  BY <1>1 DEF IInv, SessionInv, SessionFollowsHandle
<1>4. TimerIsOwn'
  BY <1>1 DEF IInv, SessionInv, TimerIsOwn, HalfLifeOf
<1> QED BY <1>2, <1>3, <1>4 DEF SessionInv

(* Nor does what happens to the session touch useHandle. *)
LEMMA HookFramed ==
  ASSUME IInv, UNCHANGED hookVars, mounted' => mounted
  PROVE  HandleFollowsSource'
<1>1. /\ source' = source /\ sources' = sources /\ deriving' = deriving
      /\ handle' = handle /\ failed' = failed
  BY DEF hookVars
<1> QED BY <1>1 DEF IInv, HandleFollowsSource

LEMMA SetSourceKeeps ==
  ASSUME IInv, NEW n, SetSource(n)
  PROVE  IInv'
<1>1. /\ sources' = sources + 1 /\ sources < MaxSources /\ n \in {0, sources'}
      /\ source' = n /\ failed' = FALSE
      /\ n = 0 => handle' = NoHandle /\ deriving' = deriving
      /\ n # 0 => handle' = handle /\ deriving' = deriving \cup {n}
      /\ UNCHANGED <<rendered, auto, ttl, mounted, now>> /\ UNCHANGED timeVars
  BY DEF SetSource
<1>2. SessionInv'
  BY <1>1, Framed
<1>3. /\ sources' \in 0..MaxSources /\ source' \in 0..sources'
      /\ deriving' \subseteq 1..sources' /\ handle' \in Handles
  <2>1. /\ sources \in Nat /\ sources' \in 0..MaxSources /\ n \in 0..sources'
        /\ n # 0 => n \in 1..sources'
    BY <1>1, SessionBoundsAreNat DEF IInv, TypeInv
  <2>2. deriving \subseteq 1..sources'
    BY <1>1, <2>1 DEF IInv, TypeInv
  <2>3. handle' \in Handles
    BY <1>1 DEF IInv, TypeInv, Handles
  <2> QED BY <1>1, <2>1, <2>2, <2>3
<1>4. failed' \in BOOLEAN
  BY <1>1
<1>5. TypeInv'
  BY <1>1, <1>3, <1>4 DEF IInv, TypeInv, timeVars
<1>6. HandleFollowsSource'
  BY <1>1 DEF HandleFollowsSource
<1> QED BY <1>2, <1>5, <1>6 DEF IInv

LEMMA DerivedKeeps ==
  ASSUME IInv, NEW n, Derived(n)
  PROVE  IInv'
<1>1. /\ n \in deriving /\ deriving' = deriving \ {n}
      /\ handle' = IF Cancelled(n) THEN handle ELSE n
      /\ UNCHANGED <<source, sources, failed, rendered, auto, ttl, mounted, now>>
      /\ UNCHANGED timeVars
  BY DEF Derived
<1>2. SessionInv'
  BY <1>1, Framed
<1>3. deriving' \subseteq 1..sources' /\ handle' \in Handles
  BY <1>1, SessionBoundsAreNat DEF IInv, TypeInv, Handles
<1>4. TypeInv'
  BY <1>1, <1>3 DEF IInv, TypeInv, timeVars
<1>5. HandleFollowsSource'
  BY <1>1 DEF IInv, TypeInv, HandleFollowsSource, Cancelled
<1> QED BY <1>2, <1>4, <1>5 DEF IInv

LEMMA DeriveFailsKeeps ==
  ASSUME IInv, NEW n, DeriveFails(n)
  PROVE  IInv'
<1>1. /\ n \in deriving /\ deriving' = deriving \ {n}
      /\ failed' = (failed \/ ~Cancelled(n))
      /\ UNCHANGED <<source, sources, handle, rendered, auto, ttl, mounted, now>>
      /\ UNCHANGED timeVars
  BY DEF DeriveFails
<1>2. SessionInv'
  BY <1>1, Framed
<1>3. failed' \in BOOLEAN /\ deriving' \subseteq 1..sources'
  BY <1>1 DEF IInv, TypeInv
<1>4. TypeInv'
  BY <1>1, <1>3 DEF IInv, TypeInv, timeVars
<1>5. HandleFollowsSource'
  BY <1>1 DEF IInv, HandleFollowsSource, Cancelled
<1> QED BY <1>2, <1>4, <1>5 DEF IInv

-----------------------------------------------------------------------------
(* A renew, of whatever closure, keeps what holds of sessions and timers. *)
LEMMA RenewKeeps ==
  ASSUME IInv, NEW closure \in Closure, NEW pending \in SUBSET timers,
         Renew(closure, pending), mounted' = mounted
  PROVE  SessionInv'
<1>1. /\ closure.handle = NoHandle =>
           creating' = creating /\ session' = IF mounted THEN NoSession ELSE session
      /\ closure.handle # NoHandle =>
           creating' # <<>> /\ Newest(creating').closure = closure
  BY RenewLast DEF IInv
<1>2. creating' = <<>> => ~mounted' \/ session' = NoSession
  BY <1>1
<1>3. ~late' => timers' = {}
  BY RenewClears DEF IInv, SessionInv
<1>4. NewestIsRendered'
  <2>1. ~strayed' => /\ closure.handle = rendered'.handle
                     /\ closure.handle = NoHandle => creating = <<>>
    BY DEF Renew
  <2> QED BY <1>1, <2>1 DEF NewestIsRendered
<1>5. SessionFollowsHandle' /\ NoTimerMeanwhile'
  BY <1>2, <1>3 DEF SessionFollowsHandle, NoTimerMeanwhile
<1>6. TimerIsOwn'
  <2>1. timers' = {} => Cardinality(timers') = 0
    BY FS_EmptySet
  <2> QED BY <1>2, <1>3, <2>1 DEF TimerIsOwn
<1> QED BY <1>4, <1>5, <1>6 DEF SessionInv

(* A step that renews, from a timer or otherwise. *)
LEMMA RenewingKeeps ==
  ASSUME IInv, NEW closure \in Closure, NEW pending \in SUBSET timers,
         Renew(closure, pending),
         UNCHANGED <<rendered, auto, ttl, mounted, now>>, UNCHANGED hookVars
  PROVE  IInv'
<1>1. SessionInv'
  BY RenewKeeps
<1>2. HandleFollowsSource'
  BY HookFramed
<1>3. /\ session' \in {NoSession, session}
      /\ creating' \in Seq(Call)
      /\ creates' \in 0..MaxCreates /\ Len(creating') <= creates'
      /\ (\A t \in timers' : IsTimer(t)) /\ timerRef' = 0
      /\ strayed' \in BOOLEAN /\ late' \in BOOLEAN
  BY RenewTypes DEF IInv
<1>4. TypeInv'
  BY <1>3 DEF IInv, TypeInv, hookVars
<1> QED BY <1>1, <1>2, <1>4 DEF IInv

LEMMA CommitKeeps ==
  ASSUME IInv, NEW newTtl \in Ttls, NEW newAuto \in BOOLEAN, Commit(newTtl, newAuto)
  PROVE  IInv'
<1>1. /\ ttl' = newTtl /\ auto' = newAuto
      /\ rendered' = [handle |-> handle, auto |-> newAuto]
      /\ UNCHANGED hookVars /\ UNCHANGED <<mounted, now>>
  BY DEF Commit
<1>2. HandleFollowsSource'
  BY <1>1, HookFramed
<1>3. rendered' \in Closure
  BY <1>1 DEF Closure, IInv, TypeInv
<1>4. CASE rendered' # rendered
  <2>1. Renew(rendered', timers)
    BY <1>4 DEF Commit
  <2>2. SessionInv'
    BY <1>1, <1>3, <2>1, RenewKeeps
  <2>3. /\ session' \in {NoSession, session}
        /\ creating' \in Seq(Call)
        /\ creates' \in 0..MaxCreates /\ Len(creating') <= creates'
        /\ (\A t \in timers' : IsTimer(t)) /\ timerRef' = 0
        /\ strayed' \in BOOLEAN /\ late' \in BOOLEAN
    BY <1>3, <2>1, RenewTypes DEF IInv
  <2>4. TypeInv'
    BY <1>1, <1>3, <2>3 DEF IInv, TypeInv, hookVars
  <2> QED BY <1>2, <2>2, <2>4 DEF IInv
<1>5. CASE rendered' = rendered
  <2>1. UNCHANGED timeVars
    BY <1>5 DEF Commit
  <2>2. SessionInv'
    BY <1>1, <1>5, <2>1, Framed
  <2>3. TypeInv'
    BY <1>1, <1>3, <2>1 DEF IInv, TypeInv, hookVars, timeVars
  <2> QED BY <1>2, <2>2, <2>3 DEF IInv
<1> QED BY <1>4, <1>5

LEMMA TimerFiresKeeps ==
  ASSUME IInv, NEW t \in timers, TimerFires(t)
  PROVE  IInv'
<1>1. /\ Renew(t.closure, timers \ {t})
      /\ UNCHANGED <<rendered, auto, ttl, mounted, now>> /\ UNCHANGED hookVars
  BY DEF TimerFires
<1>2. t.closure \in Closure
  BY DEF IInv, TypeInv, IsTimer
<1> QED BY <1>1, <1>2, RenewingKeeps

-----------------------------------------------------------------------------
(* The delay of a timer, with ms the half of what the session has to live. *)
LEMMA DelayProperties ==
  ASSUME NEW ms \in Int
  PROVE  /\ Delay(ms) \in Nat \ {0}
         /\ ms <= MaxDelay => Delay(ms) >= ms
         /\ Delay(ms) <= Second \/ Delay(ms) <= ms
BY UseSessionAssumption DEF Delay, Larger

LEMMA CreatedKeeps ==
  ASSUME IInv, Created
  PROVE  IInv'
<1> DEFINE call == Head(creating)
           exp == Seconds(now) + call.ttl
           new == [handle |-> call.closure.handle, expiresAt |-> exp, made |-> now]
           life == exp * Second - now
           due == now + Delay(HalfLife(exp))
<1>1. /\ creating # <<>> /\ creating' = Tail(creating)
      /\ UNCHANGED <<creates, strayed, rendered, auto, ttl, mounted, now>>
      /\ UNCHANGED hookVars
  BY DEF Created
<1>2. /\ call \in Call /\ creating' \in Seq(Call) /\ Len(creating') = Len(creating) - 1
      /\ Len(creating) \in Nat /\ call = creating[1]
      /\ Len(creating) = 1 <=> creating' = <<>>
      /\ creating' # <<>> => Newest(creating') = Newest(creating)
  <2>1. /\ creating' \in Seq(Call) /\ Len(creating') = Len(creating) - 1
        /\ call \in Call /\ call = creating[1]
    BY <1>1, HeadTailProperties DEF IInv, TypeInv
  <2>2. Len(creating) \in Nat
    BY LenProperties DEF IInv, TypeInv
  <2>3. Len(creating) = 1 <=> creating' = <<>>
    BY <2>1, <2>2, EmptySeq
  <2>4. creating' # <<>> => Newest(creating') = Newest(creating)
    BY <1>1, <2>1, <2>2, <2>3, HeadTailProperties DEF IInv, TypeInv, Newest
  <2> QED BY <2>1, <2>2, <2>3, <2>4
<1>3. /\ now \in Nat /\ exp \in Int /\ life \in Int
      /\ new \in Session
  <2>1. now \in Nat /\ call.ttl \in Nat
    BY <1>2 DEF IInv, TypeInv, Call
  <2>2. exp \in Int
    BY <2>1, UseSessionAssumption DEF Seconds
  <2>3. call.closure.handle \in 1..MaxSources
    BY <1>2 DEF Call
  <2>4. life \in Int
    BY <2>1, <2>2, UseSessionAssumption
  <2> HIDE DEF call, exp
  <2> QED BY <2>1, <2>2, <2>3, <2>4 DEF Session
<1>4. HalfLife(exp) = life \div 2
  BY DEF HalfLife
<1>5. /\ due \in Nat \ {0}
      /\ life \div 2 <= MaxDelay => due >= now + life \div 2
      /\ life >= 2 * Second => due < now + life
  <2> HIDE DEF exp, life
  <2>1. life \div 2 \in Int
    BY <1>3
  <2>2. Delay(life \div 2) \in Nat \ {0}
        /\ (life \div 2 <= MaxDelay => Delay(life \div 2) >= life \div 2)
        /\ (Delay(life \div 2) <= Second \/ Delay(life \div 2) <= life \div 2)
    BY <2>1, DelayProperties
  <2> QED BY <1>3, <1>4, <2>1, <2>2, UseSessionAssumption
<1> HIDE DEF exp, due, new, life
<1>6. NewestIsRendered'
  BY <1>1, <1>2 DEF IInv, SessionInv, NewestIsRendered
<1>7. HandleFollowsSource'
  BY <1>1, HookFramed
<1>9. CASE ~mounted
  <2>1. session' = session /\ timers' = timers /\ timerRef' = timerRef /\ late' = late
    BY <1>9 DEF Created
  <2>2. TypeInv'
    BY <1>1, <1>2, <2>1 DEF IInv, TypeInv, hookVars
  <2>3. SessionFollowsHandle'
    BY <1>1, <1>9 DEF SessionFollowsHandle
  <2>4. ~late' => timers' = {}
    <3>1. NoTimerMeanwhile
      BY DEF IInv, SessionInv
    <3> QED BY <1>1, <2>1, <3>1 DEF NoTimerMeanwhile
  <2>5. NoTimerMeanwhile'
    BY <2>4 DEF NoTimerMeanwhile
  <2>6. timers' = {} => Cardinality(timers') = 0
    BY FS_EmptySet
  <2>7. TimerIsOwn'
    BY <1>1, <1>9, <2>4, <2>6 DEF TimerIsOwn
  <2> QED BY <1>6, <1>7, <2>2, <2>3, <2>5, <2>7 DEF IInv, SessionInv
<1>10. CASE mounted
  <2>1. /\ session' = new /\ Schedule(call, exp)
        /\ late' = (late \/ Len(creating) > 1 \/ call.closure # rendered)
    BY <1>10 DEF Created, new, exp
  <2>2. new # NoSession /\ new.made = now /\ new.handle = call.closure.handle
        /\ new.expiresAt = exp
    BY <1>2, <1>3, UseSessionAssumption DEF new, NoSession, Call
  <2>3. ~late' => creating' = <<>> /\ timers = {} /\ call.closure = rendered
    <3>1. ~late' => ~late /\ ~(Len(creating) > 1) /\ call.closure = rendered
      BY <2>1
    <3>2. ~late' => Len(creating) = 1
      BY <1>1, <1>2, <3>1, EmptySeq DEF IInv, TypeInv
    <3>3. ~late => timers = {}
      BY <1>1 DEF IInv, SessionInv, NoTimerMeanwhile
    <3> QED BY <1>2, <3>1, <3>2, <3>3
  <2>4. NoTimerMeanwhile'
    BY <2>3 DEF NoTimerMeanwhile
  <2>5. SessionFollowsHandle'
    <3>1. ~strayed /\ creating' = <<>> => call.closure.handle = rendered.handle
      BY <1>1, <1>2, <1>10 DEF IInv, SessionInv, NewestIsRendered, Newest
    <3> QED BY <1>1, <2>1, <2>2, <3>1 DEF SessionFollowsHandle
  <2>6. late' \in BOOLEAN
    BY <2>1 DEF IInv, TypeInv
  <2> DEFINE Scheduled == call.closure.auto /\ life \div 2 > 0
  <2>7. CASE Scheduled
    <3>1. PICK id : timers' = timers \cup {[id |-> id, closure |-> call.closure, due |-> due]}
                    /\ timerRef' = id
      BY <1>4, <2>1, <2>7 DEF Schedule, due
    <3> DEFINE t == [id |-> id, closure |-> call.closure, due |-> due]
    <3>2. IsTimer(t)
      BY <1>2, <1>5 DEF IsTimer, Call, Closure, Handles
    <3>3. timers' = timers \cup {t} /\ t.id = timerRef'
          /\ t.closure = call.closure /\ t.due = due
      BY <3>1
    <3> HIDE DEF t
    <3>4. TypeInv'
      BY <1>1, <1>2, <1>3, <2>1, <2>2, <2>6, <3>2, <3>3 DEF IInv, TypeInv, hookVars
    <3>5. TimerIsOwn'
      <4> SUFFICES ASSUME ~late' PROVE TimerIsOwn'
        BY DEF TimerIsOwn
      <4>1. timers' = {t} /\ t.closure = rendered' /\ rendered'.auto
        BY <1>1, <2>7, <2>3, <3>3
      <4>2. Cardinality(timers') = 1
        BY <4>1, FS_Singleton
      <4>3. session'.expiresAt * Second - session'.made = life
            /\ session'.expiresAt * Second = now + life
        BY <1>3, <2>1, <2>2, UseSessionAssumption DEF life
      <4>4. HalfLifeOf(session)' = life \div 2
        BY <4>3 DEF HalfLifeOf
      <4>5. /\ life >= 2 * Second => t.due < session'.expiresAt * Second
            /\ HalfLifeOf(session)' <= MaxDelay => t.due >= session'.made + HalfLifeOf(session)'
        BY <1>5, <2>1, <2>2, <3>3, <4>3, <4>4
      <4> QED BY <1>1, <1>10, <2>1, <2>2, <3>3, <4>1, <4>2, <4>3, <4>5 DEF TimerIsOwn
    <3> QED BY <1>6, <1>7, <2>4, <2>5, <3>4, <3>5 DEF IInv, SessionInv
  <2>8. CASE ~Scheduled
    <3>1. UNCHANGED <<timers, timerRef>>
      BY <1>4, <2>1, <2>8 DEF Schedule
    <3>2. TypeInv'
      BY <1>1, <1>2, <1>3, <2>1, <2>2, <2>6, <3>1 DEF IInv, TypeInv, hookVars
    <3>3. TimerIsOwn'
      <4> SUFFICES ASSUME ~late' PROVE TimerIsOwn'
        BY DEF TimerIsOwn
      <4>1. timers' = {} /\ call.closure = rendered'
        BY <1>1, <2>3, <3>1
      <4>2. Cardinality(timers') = 0
        BY <4>1, FS_EmptySet
      <4>3. session'.expiresAt * Second = now + life /\ session'.made = now
        BY <1>3, <2>1, <2>2, UseSessionAssumption DEF life
      <4>4. ~(rendered'.auto /\ life > 1)
        BY <1>3, <2>8, <4>1
      <4> QED BY <1>3, <4>1, <4>2, <4>3, <4>4 DEF TimerIsOwn
    <3> QED BY <1>6, <1>7, <2>4, <2>5, <3>2, <3>3 DEF IInv, SessionInv
  <2> QED BY <2>7, <2>8
<1> QED BY <1>9, <1>10

LEMMA CreateFailsKeeps ==
  ASSUME IInv, NEW i, CreateFails(i)
  PROVE  IInv'
<1>1. /\ i \in DOMAIN creating /\ creating' = Without(creating, i)
      /\ session' = IF mounted THEN NoSession ELSE session
      /\ strayed' = (strayed \/ (i > 1 /\ i = Len(creating)))
      /\ UNCHANGED <<creates, timers, timerRef, late, rendered, auto, ttl, mounted, now>>
      /\ UNCHANGED hookVars
  BY DEF CreateFails, SessionAfterFailure
<1> DEFINE n == Len(creating)
           a == SubSeq(creating, 1, i - 1)
           b == SubSeq(creating, i + 1, n)
<1>2. n \in Nat /\ i \in 1..n /\ \A k \in 1..n : creating[k] \in Call
  BY <1>1, LenProperties, ElementOfSeq DEF IInv, TypeInv
<1>3. a \in Seq(Call) /\ Len(a) = i - 1
  <2>1. \A k \in 1..(i - 1) : creating[k] \in Call
    BY <1>2
  <2>2. 1 \in Int /\ i - 1 \in Int
    BY <1>2
  <2> QED BY <1>2, <2>1, <2>2, SubSeqProperties DEF IInv, TypeInv
<1>4. b \in Seq(Call) /\ Len(b) = n - i /\ (i < n => b[n - i] = creating[n])
  <2>1. \A k \in (i + 1)..n : creating[k] \in Call
    BY <1>2
  <2>2. i + 1 \in Int /\ n \in Int
    BY <1>2
  <2> HIDE DEF n
  <2>3. /\ b \in Seq(Call) /\ Len(b) = n - i
        /\ \A k \in 1..(n - i) : b[k] = creating[i + k]
    BY <1>2, <2>1, <2>2, SubSeqProperties DEF IInv, TypeInv
  <2> HIDE DEF b
  <2> QED BY <1>2, <2>3
<1>5. /\ creating' \in Seq(Call) /\ Len(creating') = n - 1
      /\ i < n => creating'[n - 1] = creating[n]
  <2>1. creating' = a \o b
    BY <1>1 DEF Without
  <2> HIDE DEF a, b, n
  <2>2. /\ a \o b \in Seq(Call) /\ Len(a \o b) = Len(a) + Len(b)
        /\ \A k \in 1..Len(a) + Len(b) :
             (a \o b)[k] = IF k <= Len(a) THEN a[k] ELSE b[k - Len(a)]
    BY <1>3, <1>4, ConcatProperties
  <2>3. n \in Int /\ i \in Int
    BY <1>2
  <2> QED BY <1>2, <1>3, <1>4, <2>1, <2>2, <2>3
<1>6. n = 1 => creating' = <<>>
  BY <1>5, EmptySeq
<1>7. NewestIsRendered'
  <2>1. creating' # <<>> /\ ~strayed' => i < n
    <3>1. ~strayed' => ~(i > 1 /\ i = n)
      BY <1>1
    <3>2. creating' # <<>> => n # 1
      BY <1>6
    <3> HIDE DEF n
    <3> QED BY <1>2, <3>1, <3>2
  <2>2. creating # <<>>
    BY <1>2, EmptySeq
  <2>3. creating' # <<>> /\ ~strayed' => Newest(creating') = Newest(creating)
    BY <1>5, <2>1 DEF Newest
  <2> QED BY <1>1, <2>2, <2>3 DEF IInv, SessionInv, NewestIsRendered
<1>8. ~late' => timers' = {}
  <2>1. creating # <<>>
    BY <1>2, EmptySeq
  <2> QED BY <1>1, <2>1 DEF IInv, SessionInv, NoTimerMeanwhile
<1>9. strayed' \in BOOLEAN
  BY <1>1 DEF IInv, TypeInv
<1> HIDE DEF n, a, b
<1>10. TypeInv'
  BY <1>1, <1>2, <1>5, <1>9 DEF IInv, TypeInv, hookVars, n
<1>11. HandleFollowsSource'
  BY <1>1, HookFramed
<1>12. NoTimerMeanwhile' /\ SessionFollowsHandle'
  BY <1>1, <1>8 DEF NoTimerMeanwhile, SessionFollowsHandle
<1>13. TimerIsOwn'
  <2>1. timers' = {} => Cardinality(timers') = 0
    BY FS_EmptySet
  <2> QED BY <1>1, <1>8, <2>1 DEF TimerIsOwn
<1> QED BY <1>7, <1>10, <1>11, <1>12, <1>13 DEF IInv, SessionInv

LEMMA UnmountKeeps ==
  ASSUME IInv, Unmount
  PROVE  IInv'
<1>1. /\ mounted /\ mounted' = FALSE /\ timers' = ClearTimer(timers) /\ timerRef' = 0
      /\ UNCHANGED <<rendered, auto, ttl, now, session, creating, creates, strayed, late>>
      /\ UNCHANGED hookVars
  BY DEF Unmount
<1>2. ~late' => timers' = {}
  BY <1>1 DEF IInv, SessionInv, NoTimerMeanwhile, TimerIsOwn, ClearTimer
<1>3. mounted' \in BOOLEAN /\ \A t \in timers' : IsTimer(t)
  BY <1>1 DEF IInv, TypeInv, ClearTimer
<1>4. TypeInv'
  BY <1>1, <1>3 DEF IInv, TypeInv, hookVars
<1>5. HandleFollowsSource' /\ SessionFollowsHandle' /\ NewestIsRendered'
  BY <1>1 DEF HandleFollowsSource, SessionFollowsHandle, NewestIsRendered
<1>6. NoTimerMeanwhile'
  BY <1>2 DEF NoTimerMeanwhile
<1>7. TimerIsOwn'
  <2>1. timers' = {} => Cardinality(timers') = 0
    BY FS_EmptySet
  <2> QED BY <1>1, <1>2, <2>1 DEF TimerIsOwn
<1> QED BY <1>4, <1>5, <1>6, <1>7 DEF IInv, SessionInv

LEMMA TickKeeps ==
  ASSUME IInv, Tick
  PROVE  IInv'
<1>1. /\ now' = now + 1 /\ now < MaxNow /\ UNCHANGED <<rendered, auto, ttl, mounted>>
      /\ UNCHANGED hookVars /\ UNCHANGED timeVars
  BY DEF Tick
<1>2. SessionInv'
  BY <1>1, Framed
<1>3. HandleFollowsSource'
  BY <1>1, HookFramed
<1>4. now' \in 0..MaxNow /\ (session' # NoSession => session'.made <= now')
  BY <1>1, SessionBoundsAreNat DEF IInv, TypeInv, Session, timeVars
<1>5. TypeInv'
  BY <1>1, <1>4 DEF IInv, TypeInv, hookVars, timeVars
<1> QED BY <1>2, <1>3, <1>5 DEF IInv

-----------------------------------------------------------------------------
LEMMA StepKeeps == IInv /\ [SessionNext]_sessionVars => IInv'
<1> SUFFICES ASSUME IInv, [SessionNext]_sessionVars PROVE IInv'
  OBVIOUS
<1>1. ASSUME NEW n \in 0..MaxSources, SetSource(n) \/ Derived(n) \/ DeriveFails(n)
      PROVE  IInv'
  BY <1>1, SetSourceKeeps, DerivedKeeps, DeriveFailsKeeps
<1>2. ASSUME NEW newTtl \in Ttls, NEW newAuto \in BOOLEAN, Commit(newTtl, newAuto)
      PROVE  IInv'
  BY <1>2, CommitKeeps
<1>3. CASE Created
  BY <1>3, CreatedKeeps
<1>4. ASSUME NEW i \in 1..MaxCreates, CreateFails(i)
      PROVE  IInv'
  BY <1>4, CreateFailsKeeps
<1>5. CASE RenewByApp \/ BecomesVisible
  <2>1. rendered \in Closure
    BY DEF IInv, TypeInv
  <2>2. /\ Renew(rendered, timers)
        /\ UNCHANGED <<rendered, auto, ttl, mounted, now>> /\ UNCHANGED hookVars
    BY <1>5 DEF RenewByApp, BecomesVisible
  <2> QED BY <2>1, <2>2, RenewingKeeps
<1>6. ASSUME NEW t \in timers, TimerFires(t)
      PROVE  IInv'
  BY <1>6, TimerFiresKeeps
<1>7. CASE Unmount
  BY <1>7, UnmountKeeps
<1>8. CASE Tick
  BY <1>8, TickKeeps
<1>9. CASE UNCHANGED sessionVars
  <2>1. /\ UNCHANGED <<rendered, auto, ttl, mounted, now>> /\ UNCHANGED hookVars
        /\ UNCHANGED timeVars
    BY <1>9 DEF sessionVars, hookVars, timeVars
  <2>2. TypeInv'
    BY <2>1 DEF IInv, TypeInv, hookVars, timeVars
  <2> QED BY <2>1, <2>2, Framed, HookFramed DEF IInv
<1> QED BY <1>1, <1>2, <1>3, <1>4, <1>5, <1>6, <1>7, <1>8, <1>9 DEF SessionNext

(* The inductive invariant: the newest session in the making is of the     *)
(* handle rendered, and no timer is pending meanwhile.                     *)
THEOREM Invariance == SessionSpec => []IInv
BY InitEstablishes, StepKeeps, PTL DEF SessionSpec

(* Every reachable state is well typed; the timer that timerRef names is   *)
(* pending, and a session was not made in the future.                      *)
THEOREM TypeCorrect == SessionSpec => []SessionTypeOK
<1>1. ASSUME IInv PROVE SessionTypeOK
  <2>1. /\ source \in 0..sources /\ sources \in 0..MaxSources
        /\ deriving \subseteq 1..MaxSources
    BY <1>1, SessionBoundsAreNat DEF IInv, TypeInv
  <2>2. session # NoSession => session.handle \in 1..MaxSources /\ session.made \in 0..now
    BY <1>1, SessionBoundsAreNat DEF IInv, TypeInv, Session
  <2>3. \A t \in timers : t.due > 0
    BY <1>1 DEF IInv, TypeInv, IsTimer
  <2> QED BY <1>1, <2>1, <2>2, <2>3 DEF IInv, TypeInv, SessionTypeOK, Handles
<1> QED BY Invariance, <1>1, PTL

(* A mounted useHandle shows the handle of its source once the derivation  *)
(* for it has succeeded; while that is pending, and after it failed, it    *)
(* keeps the handle it had (useHandle.ts, useSubHandle.ts).                *)
THEOREM HandleCorrect == SessionSpec => []HandleFollowsSource
<1>1. IInv => HandleFollowsSource
  BY DEF IInv
<1> QED BY Invariance, <1>1, PTL

(* No derivation of an earlier source, however late it finishes, changes   *)
(* the handle useHandle shows: it only moves to that of the present        *)
(* source, and no more once unmounted (useHandle.ts, useSubHandle.ts).     *)
THEOREM HandleNeverStale == SessionSpec => HandleIsNeverStale
<1> DEFINE Own == handle' # handle =>
                    /\ mounted
                    /\ handle' = IF source' = 0 THEN NoHandle ELSE source'
<1>1. ASSUME IInv, SessionNext PROVE Own
  <2>1. ASSUME NEW n, SetSource(n), handle' # handle
        PROVE  mounted /\ source' = 0 /\ handle' = NoHandle
    BY <2>1 DEF SetSource
  <2>2. ASSUME NEW n, Derived(n), handle' # handle
        PROVE  mounted /\ source' = n /\ n # 0 /\ handle' = n
    BY <1>1, <2>2 DEF Derived, Cancelled, IInv, TypeInv
  <2>3. ASSUME NEW n, DeriveFails(n) PROVE handle' = handle
    BY <2>3 DEF DeriveFails
  <2>4. ASSUME UNCHANGED hookVars PROVE handle' = handle
    BY <2>4 DEF hookVars
  <2>5. \/ \E n \in 0..MaxSources : SetSource(n) \/ Derived(n) \/ DeriveFails(n)
        \/ UNCHANGED hookVars
    BY <1>1 DEF SessionNext, Commit, Created, CreateFails, RenewByApp, TimerFires,
                BecomesVisible, Unmount, Tick
  <2> QED BY <2>1, <2>2, <2>3, <2>4, <2>5
<1>2. ASSUME UNCHANGED sessionVars PROVE Own
  BY <1>2 DEF sessionVars
<1>3. IInv /\ [SessionNext]_sessionVars => [Own]_sessionVars
  BY <1>1, <1>2
<1> QED BY Invariance, <1>3, PTL DEF SessionSpec, HandleIsNeverStale

(* Once no session is in the making, the session useSession shows belongs  *)
(* to the handle rendered, after changes of the handle and renewals during *)
(* creations too, but for the three cases SessionFollowsHandle excepts; in *)
(* between an earlier session may be shown (useSession.ts).                *)
THEOREM SessionCorrect == SessionSpec => []SessionFollowsHandle
<1>1. IInv => SessionFollowsHandle
  BY DEF IInv, SessionInv
<1> QED BY Invariance, <1>1, PTL

(* Unless a creation succeeded after it had been overtaken, the timer      *)
(* pending at rest is the session's own and fires between its half-life    *)
(* and its end, and none survives the component; a creation overtaken sets *)
(* a timer that does survive it (useSession.ts).                           *)
THEOREM TimerCorrect == SessionSpec => []TimerIsOwn
<1>1. IInv => TimerIsOwn
  BY DEF IInv, SessionInv
<1> QED BY Invariance, <1>1, PTL
=============================================================================
