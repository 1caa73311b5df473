---------------------------- MODULE Channel_proofs ----------------------------
(***************************************************************************)
(* The window, replay and authenticity invariants of Channel, for every    *)
(* window size, number of channels and number of overlapping calls; and    *)
(* that Channel used serially implements ReplayProtection.                 *)
(***************************************************************************)
EXTENDS SerialChannel, SequenceTheorems, TLAPS

-----------------------------------------------------------------------------
(* The most recent entries, one by one. *)
LEMMA RecentProperties ==
  ASSUME NEW S, NEW s \in Seq(S), NEW n \in 0..Len(s)
  PROVE  /\ Recent(s, n) \in Seq(S)
         /\ Len(Recent(s, n)) = IF n > WindowSize THEN WindowSize ELSE n
         /\ \A i \in 1..Len(Recent(s, n)) :
              Recent(s, n)[i] =
                s[i + (IF n > WindowSize THEN n - WindowSize ELSE 0)]
<1> DEFINE m == IF n > WindowSize THEN n - WindowSize + 1 ELSE 1
<1>1. m \in Int /\ n \in Int /\ m >= 1
  BY WindowSizeIsPos, LenProperties
<1>2. \A i \in m..n : s[i] \in S
  BY <1>1, ElementOfSeq, LenProperties
<1>3. /\ SubSeq(s, m, n) \in Seq(S)
      /\ Len(SubSeq(s, m, n)) = IF m <= n THEN n - m + 1 ELSE 0
      /\ \A i \in 1..(n - m + 1) : SubSeq(s, m, n)[i] = s[m + i - 1]
  <2> HIDE DEF m
  <2> QED BY <1>1, <1>2, SubSeqProperties
<1>4. Recent(s, n) = SubSeq(s, m, n)
  BY DEF Recent
<1>5. Len(Recent(s, n)) = IF n > WindowSize THEN WindowSize ELSE n
  BY <1>3, <1>4, WindowSizeIsPos, LenProperties
<1>6. ASSUME NEW i \in 1..Len(Recent(s, n))
      PROVE  Recent(s, n)[i] =
               s[i + (IF n > WindowSize THEN n - WindowSize ELSE 0)]
  <2>1. i \in 1..(n - m + 1)
    BY <1>5, WindowSizeIsPos, LenProperties
  <2>2. m + i - 1 = i + (IF n > WindowSize THEN n - WindowSize ELSE 0)
    BY <2>1, WindowSizeIsPos, LenProperties
  <2> QED BY <1>3, <1>4, <2>1, <2>2
<1> QED BY <1>3, <1>4, <1>5, <1>6

(* What the log held when it had n entries does not change as it grows. *)
LEMMA RecentOfLonger ==
  ASSUME NEW S, NEW s \in Seq(S), NEW q \in S, NEW n \in 0..Len(s)
  PROVE  Recent(Append(s, q), n) = Recent(s, n)
<1> DEFINE t == Append(s, q)
<1>1. /\ t \in Seq(S)
      /\ Len(t) = Len(s) + 1
      /\ \A i \in 1..Len(s) : t[i] = s[i]
  BY AppendProperties
<1>2. n \in 0..Len(t)
  BY <1>1, LenProperties
<1> HIDE DEF t
<1>3. /\ Recent(t, n) \in Seq(S)
      /\ Len(Recent(t, n)) = Len(Recent(s, n))
  BY <1>1, <1>2, RecentProperties
<1>4. ASSUME NEW i \in 1..Len(Recent(t, n))
      PROVE  Recent(t, n)[i] = Recent(s, n)[i]
  <2> DEFINE k == i + (IF n > WindowSize THEN n - WindowSize ELSE 0)
  <2>1. Recent(t, n)[i] = t[k] /\ Recent(s, n)[i] = s[k]
    BY <1>1, <1>2, <1>3, RecentProperties
  <2>2. Len(Recent(t, n)) = IF n > WindowSize THEN WindowSize ELSE n
    BY <1>1, <1>2, RecentProperties
  <2>3. k \in 1..Len(s)
    BY <2>2, WindowSizeIsPos, LenProperties
  <2> QED BY <1>1, <2>1, <2>3
<1>5. Recent(t, n) = Recent(s, n)
  BY <1>1, <1>2, <1>3, <1>4, RecentProperties, SeqEqual
<1> QED BY <1>5 DEF t

-----------------------------------------------------------------------------
(* What Slide returns: entries of the window and the new one, and never    *)
(* more than WindowSize of them.                                           *)
LEMMA SlideType ==
  ASSUME NEW S, NEW w \in Seq(S), NEW q \in S, Len(w) <= WindowSize
  PROVE  /\ Slide(w, q) \in Seq(S)
         /\ Len(Slide(w, q)) <= WindowSize
         /\ \A i \in DOMAIN Slide(w, q) :
              Slide(w, q)[i] = q \/ \E j \in DOMAIN w : w[j] = Slide(w, q)[i]
<1> DEFINE t == Append(w, q)
<1>1. /\ t \in Seq(S)
      /\ t # <<>>
      /\ Len(t) = Len(w) + 1
      /\ \A i \in 1..Len(w) : t[i] = w[i]
      /\ t[Len(w) + 1] = q
  BY AppendProperties
<1>2. \A i \in DOMAIN t : t[i] = q \/ \E j \in DOMAIN w : w[j] = t[i]
  BY <1>1, LenProperties
<1>3. /\ Tail(t) \in Seq(S)
      /\ Len(Tail(t)) = Len(t) - 1
      /\ \A i \in 1..Len(Tail(t)) : Tail(t)[i] = t[i + 1]
  BY <1>1, HeadTailProperties
<1>4. \A i \in DOMAIN Tail(t) :
        Tail(t)[i] = q \/ \E j \in DOMAIN w : w[j] = Tail(t)[i]
  <2>1. \A i \in 1..Len(Tail(t)) : i + 1 \in DOMAIN t
    BY <1>1, <1>3, LenProperties
  <2> QED BY <1>2, <1>3, <2>1, LenProperties
<1>5. Slide(w, q) = w \/ (Slide(w, q) = t /\ Len(t) <= WindowSize)
        \/ Slide(w, q) = Tail(t)
  <2>1. Len(w) \in Nat /\ Len(t) \in Nat
    BY <1>1, LenProperties
  <2>2. CASE Has(w, q)
    BY <2>1, <2>2, WindowSizeIsPos DEF Slide
  <2>3. CASE ~Has(w, q)
    <3>1. Slide(w, q) = IF Len(t) > WindowSize THEN Tail(t) ELSE t
      BY <2>3 DEF Slide
    <3> QED BY <2>1, <3>1, WindowSizeIsPos
  <2> QED BY <2>2, <2>3
<1>6. Len(Tail(t)) <= WindowSize
  BY <1>1, <1>3, LenProperties, WindowSizeIsPos
<1> HIDE DEF t
<1>7. CASE Slide(w, q) = w
  BY <1>7
<1>8. CASE Slide(w, q) = t /\ Len(t) <= WindowSize
  BY <1>1, <1>2, <1>8
<1>9. CASE Slide(w, q) = Tail(t)
  BY <1>3, <1>4, <1>6, <1>9
<1> QED BY <1>5, <1>7, <1>8, <1>9

(* A window that holds the most recent of the log, and slides over a       *)
(* sequence it lacks, holds the most recent of the longer log.             *)
LEMMA SlideIsRecent ==
  ASSUME NEW S, NEW s \in Seq(S), NEW q \in S,
         ~Has(Recent(s, Len(s)), q)
  PROVE  Slide(Recent(s, Len(s)), q) = Recent(Append(s, q), Len(s) + 1)
<1> DEFINE n == Len(s)
           w == Recent(s, n)
           t == Append(w, q)
           l == Append(s, q)
           k == n + 1
           u == Recent(l, k)
<1>1. n \in Nat /\ WindowSize \in Nat /\ WindowSize > 0
  BY LenProperties, WindowSizeIsPos
<1>2. /\ w \in Seq(S)
      /\ Len(w) = IF n > WindowSize THEN WindowSize ELSE n
      /\ \A i \in 1..Len(w) :
           w[i] = s[i + (IF n > WindowSize THEN n - WindowSize ELSE 0)]
  BY <1>1, RecentProperties
<1>3. /\ l \in Seq(S)
      /\ Len(l) = n + 1
      /\ \A i \in 1..n : l[i] = s[i]
      /\ l[n + 1] = q
  BY AppendProperties
<1>4. /\ t \in Seq(S)
      /\ t # <<>>
      /\ Len(t) = Len(w) + 1
      /\ \A i \in 1..Len(w) : t[i] = w[i]
      /\ t[Len(w) + 1] = q
  <2> HIDE DEF w
  <2> QED BY <1>2, AppendProperties
<1>5. /\ Tail(t) \in Seq(S)
      /\ Len(Tail(t)) = Len(t) - 1
      /\ \A i \in 1..Len(Tail(t)) : Tail(t)[i] = t[i + 1]
  <2> HIDE DEF t
  <2> QED BY <1>4, HeadTailProperties
<1>6. Slide(w, q) = IF Len(t) > WindowSize THEN Tail(t) ELSE t
  BY DEF Slide
<1> HIDE DEF l, w, t, n
<1>7. k = n + 1 /\ k \in 0..Len(l)
  BY <1>1, <1>3
<1> HIDE DEF k
<1>8. /\ u \in Seq(S)
      /\ Len(u) = IF k > WindowSize THEN WindowSize ELSE k
      /\ \A i \in 1..Len(u) :
           u[i] = l[i + (IF k > WindowSize THEN k - WindowSize ELSE 0)]
  BY <1>3, <1>7, RecentProperties
<1> HIDE DEF u
<1>9. Slide(w, q) = u
  <2>1. CASE n < WindowSize
    <3>1. Slide(w, q) = t /\ Len(t) = n + 1 /\ Len(w) = n /\ Len(u) = n + 1
      BY <1>1, <1>2, <1>4, <1>6, <1>7, <1>8, <2>1
    <3>2. ASSUME NEW i \in 1..Len(t) PROVE t[i] = u[i]
      <4>1. u[i] = l[i]
        BY <1>1, <1>7, <1>8, <2>1, <3>1
      <4>2. CASE i <= n
        <5>1. i \in 1..n /\ t[i] = w[i] /\ w[i] = s[i] /\ l[i] = s[i]
          BY <1>1, <1>2, <1>3, <1>4, <2>1, <3>1, <4>2
        <5> QED BY <4>1, <5>1
      <4>3. CASE i = n + 1
        BY <1>3, <1>4, <3>1, <4>1, <4>3
      <4> QED BY <1>1, <3>1, <4>2, <4>3
    <3>3. t = u
      BY <1>4, <1>8, <3>1, <3>2, SeqEqual
    <3> QED BY <3>1, <3>3
  <2>2. CASE n >= WindowSize
    <3>1. /\ Slide(w, q) = Tail(t)
          /\ Len(Tail(t)) = WindowSize
          /\ Len(w) = WindowSize
          /\ Len(u) = WindowSize
      BY <1>1, <1>2, <1>4, <1>5, <1>6, <1>7, <1>8, <2>2
    <3>2. ASSUME NEW i \in 1..Len(Tail(t)) PROVE Tail(t)[i] = u[i]
      <4>1. Tail(t)[i] = t[i + 1]
        BY <1>5
      <4>2. u[i] = l[i + (n + 1 - WindowSize)]
        BY <1>1, <1>7, <1>8, <2>2, <3>1
      <4>3. CASE i < WindowSize
        <5>1. i + 1 \in 1..Len(w) /\ i + (n + 1 - WindowSize) \in 1..n
          BY <1>1, <2>2, <3>1, <4>3
        <5>2. w[i + 1] = s[i + 1 + (IF n > WindowSize THEN n - WindowSize ELSE 0)]
          BY <1>2, <5>1
        <5>3. i + 1 + (IF n > WindowSize THEN n - WindowSize ELSE 0)
                = i + (n + 1 - WindowSize)
          BY <1>1, <2>2, <3>1
        <5> QED BY <1>3, <1>4, <4>1, <4>2, <5>1, <5>2, <5>3
      <4>4. CASE i = WindowSize
        <5>1. i + 1 = Len(w) + 1 /\ i + (n + 1 - WindowSize) = n + 1
          BY <1>1, <3>1, <4>4
        <5> QED BY <1>3, <1>4, <4>1, <4>2, <5>1
      <4> QED BY <1>1, <3>1, <4>3, <4>4
    <3>3. Tail(t) = u
      BY <1>5, <1>8, <3>1, <3>2, SeqEqual
    <3> QED BY <3>1, <3>3
  <2> QED BY <1>1, <2>1, <2>2
<1> QED BY <1>9 DEF u, k, w, n, l
-----------------------------------------------------------------------------
(***************************************************************************)
(* The inductive invariant.  What a decrypt call looked at before its      *)
(* first await still stands when it finishes, in the terms of the          *)
(* histories: its object exists, its message has that object's epoch, and  *)
(* its sequence was not among the recent ones when it began.               *)
(***************************************************************************)
CallsExist == \A d \in Calls : calls[d] # Idle => Exists(calls[d].chan)

DecryptHolds(d) ==
  LET c == calls[d].chan
      m == calls[d].msg
  IN  /\ m \in Arrivals
      /\ m.epoch = chan[c].epoch
      /\ calls[d].began \in 0..Len(recorded[c])
      /\ ~Has(Recent(recorded[c], calls[d].began), m.sequence)

CallsHold == \A d \in Calls : calls[d].op = "decrypt" => DecryptHolds(d)

(* A message on the wire is sealed under the key of its epoch and sequence. *)
WireIsSealed == \A m \in wire : m.sealed = MessageKey(m.epoch, m.sequence)

UnusedIsEmpty == \A c \in Channels :
  ~Exists(c) => recorded[c] = <<>> /\ delivered[c] = <<>>

BeganInPast == \A c \in Channels : \A i \in DOMAIN delivered[c] :
  delivered[c][i].began \in 0..Len(recorded[c])

IInv ==
  /\ TypeOK
  /\ CallsExist
  /\ CallsHold
  /\ WireIsSealed
  /\ UnusedIsEmpty
  /\ BeganInPast
  /\ WindowIsRecent
  /\ WindowHoldsDelivered
  /\ RecordedIsNotReplayed
  /\ DeliveredIsAuthentic

(* The fields of an object and of a call in flight. *)
LEMMA ChannelFields ==
  ASSUME TypeOK, NEW c \in Channels, Exists(c)
  PROVE  /\ chan[c] \in ChannelState
         /\ chan[c].role \in Roles
         /\ chan[c].epoch \in Nat
         /\ chan[c].live \in BOOLEAN
         /\ chan[c].seenSeqs \in Seq(SeqNumbers)
         /\ Len(chan[c].seenSeqs) <= WindowSize
  BY DEF TypeOK, Exists, ChannelState

(* What a decrypt call in flight holds. *)
LEMMA DecryptFields ==
  ASSUME TypeOK, NEW d \in Calls, calls[d].op = "decrypt"
  PROVE  /\ calls[d] # Idle
         /\ calls[d].chan \in Channels
         /\ calls[d].msg \in ChannelMessage
         /\ calls[d].msg.sequence \in SeqNumbers
         /\ calls[d].began \in Nat
  BY DEF TypeOK, CallState, Idle, ChannelMessage

(* What a rotate call in flight holds. *)
LEMMA RotateFields ==
  ASSUME TypeOK, NEW d \in Calls, calls[d].op = "rotate"
  PROVE  /\ calls[d] # Idle
         /\ calls[d].chan \in Channels
  BY DEF TypeOK, CallState, Idle

(* What arrives has the form of a message, altered or not. *)
LEMMA ArrivalsType ==
  ASSUME TypeOK
  PROVE  Arrivals \subseteq ChannelMessage
<1>1. 0..MaxEpoch \subseteq Nat
  BY ChannelBoundsAreNat
<1>2. {m.sealed : m \in wire} \subseteq (Nat \X Nat) \cup {NoSeal}
  BY DEF TypeOK, ChannelMessage
<1> QED BY <1>1, <1>2 DEF Arrivals, ChannelMessage

(* A new object has a window no longer than WindowSize. *)
LEMMA FreshType ==
  ASSUME NEW role \in Roles, NEW epoch \in Nat
  PROVE  /\ Fresh(role, epoch) \in ChannelState
         /\ Fresh(role, epoch) # Unused
         /\ Fresh(role, epoch).seenSeqs = <<>>
         /\ Fresh(role, epoch).epoch = epoch
  BY DEF Fresh, ChannelState, Unused

-----------------------------------------------------------------------------
(* Before the first channel is established nothing was received. *)
LEMMA InitInv == Init => IInv
<1> SUFFICES ASSUME Init PROVE IInv
  OBVIOUS
<1> USE DEF Init
<1>1. \A c \in Channels : ~Exists(c)
  BY DEF Exists
<1>2. TypeOK
  BY <1>1, EmptySeq DEF TypeOK, Unused, Idle
<1>3. CallsExist /\ CallsHold /\ WireIsSealed
  BY DEF CallsExist, CallsHold, WireIsSealed, Idle
<1>4. UnusedIsEmpty
  BY DEF UnusedIsEmpty
<1>5. BeganInPast /\ RecordedIsNotReplayed /\ DeliveredIsAuthentic
  BY DEF BeganInPast, RecordedIsNotReplayed, DeliveredIsAuthentic
<1>6. WindowIsRecent /\ WindowHoldsDelivered
  BY <1>1 DEF WindowIsRecent, WindowHoldsDelivered, Live
<1> QED BY <1>2, <1>3, <1>4, <1>5, <1>6 DEF IInv

(* What a finishing decrypt does to the object it works on. *)
LEMMA DeliverEffect ==
  ASSUME TypeOK, CallsExist, NEW d \in Calls, Deliver(d)
  PROVE  LET c == calls[d].chan
             q == calls[d].msg.sequence
             w == chan[c].seenSeqs
         IN  /\ c \in Channels
             /\ Exists(c)
             /\ q \in SeqNumbers
             /\ w \in Seq(SeqNumbers)
             /\ Slide(w, q) \in Seq(SeqNumbers)
             /\ Len(Slide(w, q)) <= WindowSize
             /\ chan'[c] = [chan[c] EXCEPT !.seenSeqs = Slide(w, q)]
             /\ chan'[c] \in ChannelState
             /\ chan'[c].seenSeqs = Slide(w, q)
             /\ chan'[c].epoch = chan[c].epoch
             /\ chan'[c].live = chan[c].live
             /\ \A b \in Channels : b # c => chan'[b] = chan[b]
             /\ \A b \in Channels : Exists(b)' <=> Exists(b)
<1> DEFINE c == calls[d].chan
           q == calls[d].msg.sequence
           w == chan[c].seenSeqs
<1>1. calls[d].op = "decrypt"
  BY DEF Deliver
<1>2. c \in Channels /\ q \in SeqNumbers /\ calls[d] # Idle
  BY <1>1, DecryptFields
<1>3. Exists(c)
  BY <1>2 DEF CallsExist
<1>4. /\ chan[c] \in ChannelState
      /\ w \in Seq(SeqNumbers)
      /\ Len(w) <= WindowSize
  BY <1>2, <1>3, ChannelFields
<1>5. Slide(w, q) \in Seq(SeqNumbers) /\ Len(Slide(w, q)) <= WindowSize
  BY <1>2, <1>4, SlideType
<1>6. chan' = [chan EXCEPT ![c] = [chan[c] EXCEPT !.seenSeqs = Slide(w, q)]]
  BY DEF Deliver
<1>7. chan \in [Channels -> ChannelState \cup {Unused}]
  BY DEF TypeOK
<1>8. chan'[c] = [chan[c] EXCEPT !.seenSeqs = Slide(w, q)]
  BY <1>2, <1>6, <1>7
<1>9. /\ chan'[c] \in ChannelState
      /\ chan'[c].seenSeqs = Slide(w, q)
      /\ chan'[c].epoch = chan[c].epoch
      /\ chan'[c].live = chan[c].live
  BY <1>4, <1>5, <1>8 DEF ChannelState
<1>10. \A b \in Channels : b # c => chan'[b] = chan[b]
  BY <1>6, <1>7
<1>11. Unused \notin ChannelState
  BY DEF Unused, ChannelState
<1>12. \A b \in Channels : Exists(b)' <=> Exists(b)
  BY <1>3, <1>9, <1>10, <1>11 DEF Exists
<1> QED BY <1>2, <1>3, <1>4, <1>5, <1>8, <1>9, <1>10, <1>12

(* A failing decrypt leaves every object as it is. *)
LEMMA RejectEffect ==
  ASSUME TypeOK, CallsExist, NEW d \in Calls, Reject(d)
  PROVE  chan' = chan
<1> DEFINE c == calls[d].chan
<1>1. c \in Channels /\ Exists(c)
  BY DecryptFields DEF Reject, CallsExist
<1>2. chan[c] \in ChannelState /\ chan \in [Channels -> ChannelState \cup {Unused}]
  BY <1>1, ChannelFields DEF TypeOK
<1>3. chan' = [chan EXCEPT ![c] =
                 [chan[c] EXCEPT !.seenSeqs = chan[c].seenSeqs]]
  BY DEF Reject, AfterFailure
<1>4. [chan[c] EXCEPT !.seenSeqs = chan[c].seenSeqs] = chan[c]
  BY <1>2 DEF ChannelState
<1> QED BY <1>1, <1>2, <1>3, <1>4

(* What the end of a rotation does. *)
LEMMA RotateEffect ==
  ASSUME TypeOK, CallsExist, NEW d \in Calls, NEW new \in Channels,
         FinishRotate(d, new)
  PROVE  LET old == calls[d].chan
         IN  /\ old \in Channels
             /\ old # new
             /\ Exists(old)
             /\ ~Exists(new)
             /\ chan'[old] = [chan[old] EXCEPT !.live = FALSE]
             /\ chan'[old] \in ChannelState
             /\ chan'[old].live = FALSE
             /\ chan'[old].seenSeqs = chan[old].seenSeqs
             /\ chan'[old].epoch = chan[old].epoch
             /\ chan'[new] \in ChannelState
             /\ chan'[new].seenSeqs = <<>>
             /\ \A b \in Channels \ {old, new} : chan'[b] = chan[b]
             /\ \A b \in Channels : Exists(b) => Exists(b)'
             /\ \A b \in Channels : Exists(b)' => Exists(b) \/ b = new
<1> DEFINE old == calls[d].chan
<1>1. old \in Channels /\ Exists(old)
  BY RotateFields DEF FinishRotate, CallsExist
<1>2. ~Exists(new) /\ old # new
  BY <1>1 DEF FinishRotate
<1>3. /\ chan[old] \in ChannelState
      /\ chan[old].role \in Roles
      /\ chan[old].epoch \in Nat
      /\ chan \in [Channels -> ChannelState \cup {Unused}]
  BY <1>1, ChannelFields DEF TypeOK
<1>4. chan' = [chan EXCEPT ![old] = RotatedAway(chan[old]),
                           ![new] = Successor(chan[old])]
  BY DEF FinishRotate
<1>5. /\ chan'[old] = [chan[old] EXCEPT !.live = FALSE]
      /\ chan'[new] = Fresh(chan[old].role, chan[old].epoch + 1)
      /\ \A b \in Channels \ {old, new} : chan'[b] = chan[b]
  BY <1>1, <1>2, <1>3, <1>4 DEF RotatedAway, Successor
<1>6. /\ chan'[old] \in ChannelState
      /\ chan'[old].live = FALSE
      /\ chan'[old].seenSeqs = chan[old].seenSeqs
      /\ chan'[old].epoch = chan[old].epoch
  BY <1>3, <1>5 DEF ChannelState
<1>7. chan[old].epoch + 1 \in Nat
  BY <1>3
<1>8. chan'[new] \in ChannelState /\ chan'[new].seenSeqs = <<>>
  BY <1>3, <1>5, <1>7, FreshType
<1>9. Unused \notin ChannelState
  BY DEF Unused, ChannelState
<1>10. \A b \in Channels : /\ Exists(b) => Exists(b)'
                           /\ Exists(b)' => Exists(b) \/ b = new
  BY <1>1, <1>5, <1>6, <1>8, <1>9 DEF Exists
<1> QED BY <1>1, <1>2, <1>5, <1>6, <1>8, <1>10

(* A channel is established with an empty window and nothing received. *)
LEMMA EstablishEffect ==
  ASSUME TypeOK, NEW c \in Channels, NEW role \in Roles, Establish(c, role)
  PROVE  /\ ~Exists(c)
         /\ chan'[c] \in ChannelState
         /\ chan'[c].seenSeqs = <<>>
         /\ \A b \in Channels : b # c => chan'[b] = chan[b]
         /\ \A b \in Channels : Exists(b)' <=> Exists(b) \/ b = c
<1>1. chan \in [Channels -> ChannelState \cup {Unused}]
  BY DEF TypeOK
<1>2. chan' = [chan EXCEPT ![c] = Fresh(role, 0)]
  BY DEF Establish
<1>3. /\ Fresh(role, 0) \in ChannelState
      /\ Fresh(role, 0) # Unused
      /\ Fresh(role, 0).seenSeqs = <<>>
  BY FreshType
<1> QED BY <1>1, <1>2, <1>3 DEF Establish, Exists

(* A destroyed channel keeps its place and stops being live. *)
LEMMA DestroyEffect ==
  ASSUME TypeOK, NEW c \in Channels, Destroy(c)
  PROVE  /\ Exists(c)
         /\ chan'[c] \in ChannelState
         /\ chan'[c].live = FALSE
         /\ chan'[c].seenSeqs = <<>>
         /\ chan'[c].epoch = chan[c].epoch
         /\ \A b \in Channels : b # c => chan'[b] = chan[b]
         /\ \A b \in Channels : Exists(b)' <=> Exists(b)
<1>1. chan \in [Channels -> ChannelState \cup {Unused}]
  BY DEF TypeOK
<1>2. Exists(c)
  BY DEF Destroy, Live
<1>3. chan[c] \in ChannelState
  BY <1>2, ChannelFields
<1>4. chan' = [chan EXCEPT ![c] =
                 [chan[c] EXCEPT !.live = FALSE, !.seenSeqs = <<>>]]
  BY <1>1, <1>3 DEF Destroy
<1>5. chan'[c] = [chan[c] EXCEPT !.live = FALSE, !.seenSeqs = <<>>]
  BY <1>1, <1>4
<1>6. /\ chan'[c] \in ChannelState
      /\ chan'[c].live = FALSE
      /\ chan'[c].seenSeqs = <<>>
      /\ chan'[c].epoch = chan[c].epoch
  BY <1>3, <1>5, EmptySeq DEF ChannelState
<1>7. \A b \in Channels : b # c => chan'[b] = chan[b]
  BY <1>1, <1>4
<1>8. Unused \notin ChannelState
  BY DEF Unused, ChannelState
<1>9. \A b \in Channels : Exists(b)' <=> Exists(b)
  BY <1>2, <1>6, <1>7, <1>8 DEF Exists
<1> QED BY <1>2, <1>6, <1>7, <1>9

-----------------------------------------------------------------------------
(* Every step keeps the types and the bound on the windows.                *)
LEMMA TypeStep ==
  ASSUME TypeOK, CallsExist, Next
  PROVE  TypeOK'
<1> DEFINE Bounded == \A c \in Channels :
             Exists(c) => Len(chan[c].seenSeqs) <= WindowSize
<1>0. /\ chan \in [Channels -> ChannelState \cup {Unused}]
      /\ calls \in [Calls -> CallState \cup {Idle}]
      /\ wire \subseteq ChannelMessage
      /\ recorded \in [Channels -> Seq(SeqNumbers)]
      /\ delivered \in
           [Channels -> Seq([msg : ChannelMessage, began : Nat])]
      /\ Bounded
  BY DEF TypeOK
<1>e. Len(<<>>) <= WindowSize
  BY WindowSizeIsPos
<1>1. ASSUME NEW c \in Channels, NEW role \in Roles, Establish(c, role)
      PROVE  TypeOK'
  <2>1. chan' \in [Channels -> ChannelState \cup {Unused}]
    BY <1>0, <1>1, EstablishEffect DEF Establish
  <2>2. Bounded'
    <3> SUFFICES ASSUME NEW b \in Channels, Exists(b)'
                 PROVE  Len(chan'[b].seenSeqs) <= WindowSize
      OBVIOUS
    <3>1. CASE b = c
      BY <1>e, <1>1, <3>1, EstablishEffect
    <3>2. CASE b # c
      <4>1. chan'[b] = chan[b] /\ Exists(b)
        BY <1>1, <3>2, EstablishEffect
      <4> QED BY <1>0, <4>1
    <3> QED BY <3>1, <3>2
  <2> QED BY <1>0, <1>1, <2>1, <2>2 DEF TypeOK, Establish
<1>2. ASSUME NEW c \in Channels, NEW q \in SeqNumbers, Encrypt(c, q)
      PROVE  TypeOK'
  <2>1. chan[c].epoch \in Nat
    BY <1>2, ChannelFields DEF Encrypt, Live
  <2>2. q % SeqMod \in Nat
    BY SeqModIsPos, SeqNumbersAreNat
  <2>3. [epoch |-> chan[c].epoch, sequence |-> q,
         sealed |-> MessageKey(chan[c].epoch, q)] \in ChannelMessage
    BY <2>1, <2>2 DEF ChannelMessage, MessageKey
  <2>4. wire' \subseteq ChannelMessage
    BY <1>0, <1>2, <2>3 DEF Encrypt
  <2> QED BY <1>0, <1>2, <2>4 DEF TypeOK, Encrypt, Exists
<1>3. ASSUME NEW d \in Calls, NEW c \in Channels, NEW m \in Arrivals,
             BeginDecrypt(d, c, m)
      PROVE  TypeOK'
  <2>1. m \in ChannelMessage
    BY ArrivalsType
  <2>2. Len(recorded[c]) \in Nat
    BY <1>0, LenProperties
  <2>3. [op |-> "decrypt", chan |-> c, msg |-> m,
         began |-> Len(recorded[c])] \in CallState
    BY <2>1, <2>2 DEF CallState
  <2>4. calls' \in [Calls -> CallState \cup {Idle}]
    BY <1>0, <1>3, <2>3 DEF BeginDecrypt
  <2> QED BY <1>0, <1>3, <2>4 DEF TypeOK, BeginDecrypt, Exists
<1>4. ASSUME NEW d \in Calls, Deliver(d)
      PROVE  TypeOK'
  <2> DEFINE c == calls[d].chan
             m == calls[d].msg
             e == [msg |-> m, began |-> calls[d].began]
  <2>1. /\ c \in Channels
        /\ m \in ChannelMessage
        /\ m.sequence \in SeqNumbers
        /\ calls[d].began \in Nat
    BY <1>4, DecryptFields DEF Deliver
  <2>2. chan' \in [Channels -> ChannelState \cup {Unused}]
    BY <1>0, <1>4, DeliverEffect DEF Deliver
  <2>3. Bounded'
    BY <1>0, <1>4, DeliverEffect DEF Exists
  <2>4. recorded' \in [Channels -> Seq(SeqNumbers)]
    <3>1. Append(recorded[c], m.sequence) \in Seq(SeqNumbers)
      BY <1>0, <2>1, AppendProperties
    <3> QED BY <1>0, <1>4, <2>1, <3>1 DEF Deliver
  <2>5. delivered' \in [Channels -> Seq([msg : ChannelMessage, began : Nat])]
    <3>1. e \in [msg : ChannelMessage, began : Nat]
      BY <2>1
    <3>2. Append(delivered[c], e) \in Seq([msg : ChannelMessage, began : Nat])
      BY <1>0, <2>1, <3>1, AppendProperties
    <3> QED BY <1>0, <1>4, <2>1, <3>2 DEF Deliver
  <2>6. calls' \in [Calls -> CallState \cup {Idle}]
    BY <1>0, <1>4 DEF Deliver
  <2> QED BY <1>0, <1>4, <2>2, <2>3, <2>4, <2>5, <2>6 DEF TypeOK, Deliver
<1>5. ASSUME NEW d \in Calls, Reject(d)
      PROVE  TypeOK'
  <2>1. chan' = chan
    BY <1>5, RejectEffect
  <2>2. calls' \in [Calls -> CallState \cup {Idle}]
    BY <1>0, <1>5 DEF Reject
  <2> QED BY <1>0, <1>5, <2>1, <2>2 DEF TypeOK, Reject, Exists
<1>6. ASSUME NEW d \in Calls, NEW c \in Channels, BeginRotate(d, c)
      PROVE  TypeOK'
  <2>1. [op |-> "rotate", chan |-> c] \in CallState
    BY DEF CallState
  <2>2. calls' \in [Calls -> CallState \cup {Idle}]
    BY <1>0, <1>6, <2>1 DEF BeginRotate
  <2> QED BY <1>0, <1>6, <2>2 DEF TypeOK, BeginRotate, Exists
<1>7. ASSUME NEW d \in Calls, NEW new \in Channels, FinishRotate(d, new)
      PROVE  TypeOK'
  <2>1. chan' \in [Channels -> ChannelState \cup {Unused}]
    <3>1. chan' \in [Channels -> ChannelState \cup {Unused}]
            <=> \A b \in Channels : chan'[b] \in ChannelState \cup {Unused}
      BY <1>0, <1>7 DEF FinishRotate
    <3> QED BY <1>0, <1>7, <3>1, RotateEffect
  <2>2. Bounded'
    <3> SUFFICES ASSUME NEW b \in Channels, Exists(b)'
                 PROVE  Len(chan'[b].seenSeqs) <= WindowSize
      OBVIOUS
    <3>1. CASE b = new
      BY <1>e, <1>7, <3>1, RotateEffect
    <3>2. CASE b # new
      <4>1. chan'[b].seenSeqs = chan[b].seenSeqs /\ Exists(b)
        BY <1>7, <3>2, RotateEffect
      <4> QED BY <1>0, <4>1
    <3> QED BY <3>1, <3>2
  <2>3. calls' \in [Calls -> CallState \cup {Idle}]
    BY <1>0, <1>7 DEF FinishRotate
  <2> QED BY <1>0, <1>7, <2>1, <2>2, <2>3 DEF TypeOK, FinishRotate
<1>8. ASSUME NEW c \in Channels, Destroy(c)
      PROVE  TypeOK'
  <2>1. chan' \in [Channels -> ChannelState \cup {Unused}]
    BY <1>0, <1>8, DestroyEffect DEF Destroy
  <2>2. Bounded'
    <3> SUFFICES ASSUME NEW b \in Channels, Exists(b)'
                 PROVE  Len(chan'[b].seenSeqs) <= WindowSize
      OBVIOUS
    <3>1. CASE b = c
      BY <1>e, <1>8, <3>1, DestroyEffect
    <3>2. CASE b # c
      <4>1. chan'[b] = chan[b] /\ Exists(b)
        BY <1>8, <3>2, DestroyEffect
      <4> QED BY <1>0, <4>1
    <3> QED BY <3>1, <3>2
  <2> QED BY <1>0, <1>8, <2>1, <2>2 DEF TypeOK, Destroy
<1> QED BY <1>1, <1>2, <1>3, <1>4, <1>5, <1>6, <1>7, <1>8 DEF Next

-----------------------------------------------------------------------------
(* The histories a finishing decrypt extends. *)
LEMMA DeliverHistory ==
  ASSUME TypeOK, CallsExist, NEW d \in Calls, Deliver(d)
  PROVE  LET c == calls[d].chan
             m == calls[d].msg
         IN  /\ recorded'[c] = IF Has(chan[c].seenSeqs, m.sequence)
                                 THEN recorded[c]
                                 ELSE Append(recorded[c], m.sequence)
             /\ delivered'[c] = Append(delivered[c],
                                       [msg |-> m, began |-> calls[d].began])
             /\ \A b \in Channels \ {c} : /\ recorded'[b] = recorded[b]
                                          /\ delivered'[b] = delivered[b]
<1>1. calls[d].chan \in Channels
  BY DecryptFields DEF Deliver
<1>2. /\ recorded \in [Channels -> Seq(SeqNumbers)]
      /\ delivered \in [Channels -> Seq([msg : ChannelMessage, began : Nat])]
  BY DEF TypeOK
<1> QED BY <1>1, <1>2 DEF Deliver

(* A log of recorded sequences only grows, so what was recent when it had  *)
(* n entries stays so.                                                     *)
LEMMA LogGrows ==
  ASSUME TypeOK, CallsExist, Next, NEW c \in Channels,
         NEW n \in 0..Len(recorded[c])
  PROVE  /\ n \in 0..Len(recorded'[c])
         /\ Recent(recorded'[c], n) = Recent(recorded[c], n)
<1>1. recorded[c] \in Seq(SeqNumbers) /\ Len(recorded[c]) \in Nat
  BY LenProperties DEF TypeOK
<1>2. CASE \E d \in Calls : Deliver(d)
  <2>1. PICK d \in Calls : Deliver(d)
    BY <1>2
  <2> DEFINE q == calls[d].msg.sequence
  <2>2. q \in SeqNumbers
    BY <2>1, DecryptFields DEF Deliver
  <2>3. recorded'[c] = recorded[c] \/ recorded'[c] = Append(recorded[c], q)
    BY <2>1, DeliverHistory
  <2>4. Len(Append(recorded[c], q)) = Len(recorded[c]) + 1
    BY <1>1, <2>2, AppendProperties
  <2>5. Recent(Append(recorded[c], q), n) = Recent(recorded[c], n)
    BY <1>1, <2>2, RecentOfLonger
  <2>6. n \in 0..Len(Append(recorded[c], q))
    BY <1>1, <2>4
  <2>7. CASE recorded'[c] = recorded[c]
    BY <2>7
  <2>8. CASE recorded'[c] = Append(recorded[c], q)
    <3> HIDE DEF q
    <3> QED BY <2>5, <2>6, <2>8
  <2> QED BY <2>3, <2>7, <2>8
<1>3. CASE ~\E d \in Calls : Deliver(d)
  <2>1. recorded' = recorded
    BY <1>3 DEF Next, Establish, Encrypt, BeginDecrypt, Reject, BeginRotate,
                FinishRotate, Destroy
  <2> QED BY <2>1
<1> QED BY <1>2, <1>3

(* Objects never cease to exist, and keep their epoch. *)
LEMMA ObjectsPersist ==
  ASSUME TypeOK, CallsExist, Next, NEW c \in Channels, Exists(c)
  PROVE  Exists(c)' /\ chan'[c].epoch = chan[c].epoch
<1>1. CASE chan' = chan
  BY <1>1 DEF Exists
<1>2. CASE \E b \in Channels, role \in Roles : Establish(b, role)
  <2>1. PICK b \in Channels, role \in Roles : Establish(b, role)
    BY <1>2
  <2>2. b # c /\ chan'[c] = chan[c] /\ Exists(c)'
    BY <2>1, EstablishEffect
  <2> QED BY <2>2
<1>3. CASE \E d \in Calls : Deliver(d)
  <2>1. PICK d \in Calls : Deliver(d)
    BY <1>3
  <2>2. Exists(c)'
    BY <2>1, DeliverEffect
  <2>3. chan'[c].epoch = chan[c].epoch
    BY <2>1, DeliverEffect
  <2> QED BY <2>2, <2>3
<1>4. CASE \E d \in Calls : Reject(d)
  BY <1>1, <1>4, RejectEffect
<1>5. CASE \E d \in Calls, new \in Channels : FinishRotate(d, new)
  <2>1. PICK d \in Calls, new \in Channels : FinishRotate(d, new)
    BY <1>5
  <2>2. Exists(c)' /\ c # new
    BY <2>1, RotateEffect
  <2>3. chan'[c].epoch = chan[c].epoch
    BY <2>1, <2>2, RotateEffect
  <2> QED BY <2>2, <2>3
<1>6. CASE \E b \in Channels : Destroy(b)
  <2>1. PICK b \in Channels : Destroy(b)
    BY <1>6
  <2>2. Exists(c)'
    BY <2>1, DestroyEffect
  <2>3. chan'[c].epoch = chan[c].epoch
    BY <2>1, DestroyEffect
  <2> QED BY <2>2, <2>3
<1>7. \/ chan' = chan
      \/ \E b \in Channels, role \in Roles : Establish(b, role)
      \/ \E d \in Calls : Deliver(d)
      \/ \E d \in Calls : Reject(d)
      \/ \E d \in Calls, new \in Channels : FinishRotate(d, new)
      \/ \E b \in Channels : Destroy(b)
  BY DEF Next, Encrypt, BeginDecrypt, BeginRotate
<1> QED BY <1>1, <1>2, <1>3, <1>4, <1>5, <1>6, <1>7

(* A call is where it was, ends, or begins with a live object and, if it   *)
(* is a decrypt, a message that object finds acceptable.                   *)
LEMMA CallsMove ==
  ASSUME TypeOK, Next, NEW d \in Calls
  PROVE  \/ calls'[d] = calls[d]
         \/ calls'[d] = Idle
         \/ /\ calls'[d].op = "rotate"
            /\ calls'[d].chan \in Channels
            /\ Exists(calls'[d].chan)
         \/ \E c \in Channels, m \in Arrivals :
              /\ Live(c)
              /\ Acceptable(c, m)
              /\ calls'[d] = [op |-> "decrypt", chan |-> c, msg |-> m,
                              began |-> Len(recorded[c])]
              /\ UNCHANGED <<chan, wire, recorded, delivered>>
<1>1. calls \in [Calls -> CallState \cup {Idle}]
  BY DEF TypeOK
<1>2. CASE \E e \in Calls : Deliver(e) \/ Reject(e)
  BY <1>1, <1>2 DEF Deliver, Reject
<1>3. CASE \E e \in Calls, new \in Channels : FinishRotate(e, new)
  BY <1>1, <1>3 DEF FinishRotate
<1>4. CASE \E e \in Calls, c \in Channels : BeginRotate(e, c)
  BY <1>1, <1>4 DEF BeginRotate, Live
<1>5. CASE \E e \in Calls, c \in Channels, m \in Arrivals :
             BeginDecrypt(e, c, m)
  BY <1>1, <1>5 DEF BeginDecrypt
<1>6. CASE UNCHANGED calls
  BY <1>6
<1> QED BY <1>2, <1>3, <1>4, <1>5, <1>6 DEF Next, Establish, Encrypt, Destroy

-----------------------------------------------------------------------------
(* A call in flight is a call on a channel that exists. *)
LEMMA CallsExistStep ==
  ASSUME IInv, Next
  PROVE  CallsExist'
<1> USE DEF IInv
<1> SUFFICES ASSUME NEW d \in Calls, calls'[d] # Idle
             PROVE  Exists(calls[d].chan)'
  BY DEF CallsExist
<1>1. CASE calls'[d] = calls[d]
  <2>1. calls[d].chan \in Channels
    BY <1>1 DEF TypeOK, CallState
  <2>2. Exists(calls[d].chan)
    BY <1>1 DEF CallsExist
  <2> QED BY <1>1, <2>1, <2>2, ObjectsPersist
<1>2. CASE /\ calls'[d].op = "rotate"
           /\ calls'[d].chan \in Channels
           /\ Exists(calls'[d].chan)
  BY <1>2, ObjectsPersist
<1>3. CASE \E c \in Channels, m \in Arrivals :
             /\ Live(c)
             /\ Acceptable(c, m)
             /\ calls'[d] = [op |-> "decrypt", chan |-> c, msg |-> m,
                             began |-> Len(recorded[c])]
             /\ UNCHANGED <<chan, wire, recorded, delivered>>
  <2>1. calls'[d].chan \in Channels /\ Exists(calls'[d].chan)
    BY <1>3 DEF Live
  <2> QED BY <2>1, ObjectsPersist
<1> QED BY <1>1, <1>2, <1>3, CallsMove

(* The window of a live object, seen through the log: what is not in the   *)
(* one is not among the recent of the other.                               *)
LEMMA CallsHoldStep ==
  ASSUME IInv, Next
  PROVE  CallsHold'
<1> USE DEF IInv
<1> SUFFICES ASSUME NEW d \in Calls, calls'[d].op = "decrypt"
             PROVE  DecryptHolds(d)'
  BY DEF CallsHold
<1>0. Arrivals \subseteq Arrivals'
  <2>1. wire \subseteq wire'
    BY DEF Next, Establish, Encrypt, BeginDecrypt, Deliver, Reject,
           BeginRotate, FinishRotate, Destroy
  <2>2. {m.sealed : m \in wire} \subseteq {m.sealed : m \in wire'}
    BY <2>1
  <2> QED BY <2>2 DEF Arrivals
<1>1. CASE calls'[d] = calls[d]
  <2> DEFINE c == calls[d].chan
             m == calls[d].msg
             n == calls[d].began
  <2>1. calls[d].op = "decrypt"
    BY <1>1
  <2>2. /\ c \in Channels
        /\ m \in Arrivals
        /\ m.epoch = chan[c].epoch
        /\ n \in 0..Len(recorded[c])
        /\ ~Has(Recent(recorded[c], n), m.sequence)
        /\ Exists(c)
    BY <2>1, DecryptFields DEF CallsHold, DecryptHolds, CallsExist
  <2>3. chan'[c].epoch = chan[c].epoch
    BY <2>2, ObjectsPersist
  <2>4. /\ n \in 0..Len(recorded'[c])
        /\ Recent(recorded'[c], n) = Recent(recorded[c], n)
    BY <2>2, LogGrows
  <2> QED BY <1>0, <1>1, <2>2, <2>3, <2>4 DEF DecryptHolds
<1>2. CASE \E c \in Channels, m \in Arrivals :
             /\ Live(c)
             /\ Acceptable(c, m)
             /\ calls'[d] = [op |-> "decrypt", chan |-> c, msg |-> m,
                             began |-> Len(recorded[c])]
             /\ UNCHANGED <<chan, wire, recorded, delivered>>
  <2>1. PICK c \in Channels, m \in Arrivals :
             /\ Live(c)
             /\ Acceptable(c, m)
             /\ calls'[d] = [op |-> "decrypt", chan |-> c, msg |-> m,
                             began |-> Len(recorded[c])]
             /\ UNCHANGED <<chan, wire, recorded, delivered>>
    BY <1>2
  <2>2. ~Has(Recent(recorded[c], Len(recorded[c])), m.sequence)
    BY <2>1 DEF WindowIsRecent, Acceptable
  <2>3. Len(recorded[c]) \in 0..Len(recorded[c])
    BY LenProperties DEF TypeOK
  <2> QED BY <1>0, <2>1, <2>2, <2>3 DEF DecryptHolds, Acceptable
<1>3. TypeOK
  OBVIOUS
<1>4. calls'[d] # Idle
  BY DEF Idle
<1> HIDE DEF IInv
<1> QED BY <1>1, <1>2, <1>3, <1>4, CallsMove

(* encryptChannelMessage seals under the key of its epoch and sequence. *)
LEMMA WireIsSealedStep ==
  ASSUME IInv, Next
  PROVE  WireIsSealed'
<1>1. CASE \E c \in Channels, q \in SeqNumbers : Encrypt(c, q)
  <2>1. PICK c \in Channels, q \in SeqNumbers : Encrypt(c, q)
    BY <1>1
  <2> QED BY <2>1 DEF Encrypt, IInv, WireIsSealed, MessageKey
<1>2. CASE ~\E c \in Channels, q \in SeqNumbers : Encrypt(c, q)
  <2>1. wire' = wire
    BY <1>2 DEF Next, Establish, BeginDecrypt, Deliver, Reject,
                BeginRotate, FinishRotate, Destroy
  <2> QED BY <2>1 DEF IInv, WireIsSealed, MessageKey
<1> QED BY <1>1, <1>2

(* What opens under the key of an epoch and a sequence was encrypted in    *)
(* that epoch, under a sequence that agrees modulo SeqMod.                 *)
LEMMA OpenedWasEncrypted ==
  ASSUME IInv, NEW d \in Calls, calls[d].op = "decrypt",
         Opens(calls[d].chan, calls[d].msg)
  PROVE  \E m \in wire :
           /\ m.sealed = calls[d].msg.sealed
           /\ m.epoch = chan[calls[d].chan].epoch
           /\ m.sequence % SeqMod = calls[d].msg.sequence % SeqMod
<1> USE DEF IInv
<1>1. PICK c, x : c = calls[d].chan /\ x = calls[d].msg
  OBVIOUS
<1>2. /\ c \in Channels /\ Exists(c)
      /\ x \in ChannelMessage /\ x \in Arrivals
  BY <1>1, DecryptFields DEF CallsHold, DecryptHolds, CallsExist
<1>3. x.sealed = MessageKey(chan[c].epoch, x.sequence)
  BY <1>1 DEF Opens
<1>4. chan[c].epoch \in Nat /\ x.sequence \in Nat
  BY <1>2, ChannelFields, SeqNumbersAreNat DEF ChannelMessage
<1>5. x.sequence % SeqMod \in Nat
  BY <1>4, SeqModIsPos
<1>6. x.sealed # NoSeal
  BY <1>3, <1>4, <1>5, NoSealIsNoSeal DEF MessageKey
<1>7. PICK m \in wire : m.sealed = x.sealed
  BY <1>2, <1>6 DEF Arrivals
<1>8. m.sealed = MessageKey(m.epoch, m.sequence)
  BY DEF WireIsSealed
<1>9. m.epoch = chan[c].epoch /\ m.sequence % SeqMod = x.sequence % SeqMod
  BY <1>3, <1>7, <1>8 DEF MessageKey
<1> QED BY <1>1, <1>7, <1>9

(* Nothing is received on a channel that does not exist yet. *)
LEMMA UnusedIsEmptyStep ==
  ASSUME IInv, Next
  PROVE  UnusedIsEmpty'
<1> USE DEF IInv
<1> SUFFICES ASSUME NEW c \in Channels, ~Exists(c)'
             PROVE  recorded'[c] = <<>> /\ delivered'[c] = <<>>
  BY DEF UnusedIsEmpty
<1>1. ~Exists(c)
  BY ObjectsPersist
<1>2. recorded[c] = <<>> /\ delivered[c] = <<>>
  BY <1>1 DEF UnusedIsEmpty
<1>3. CASE \E d \in Calls : Deliver(d)
  <2>1. PICK d \in Calls : Deliver(d)
    BY <1>3
  <2>2. calls[d].chan # c
    BY <1>1, <2>1, DeliverEffect
  <2> QED BY <1>2, <2>1, <2>2, DeliverHistory
<1>4. CASE ~\E d \in Calls : Deliver(d)
  BY <1>2, <1>4 DEF Next, Establish, Encrypt, BeginDecrypt, Reject,
                    BeginRotate, FinishRotate, Destroy
<1> QED BY <1>3, <1>4

(* What a delivery adds to the history has the three properties of the     *)
(* entries already there.                                                  *)
LEMMA DeliveredStep ==
  ASSUME IInv, Next
  PROVE  BeganInPast' /\ RecordedIsNotReplayed' /\ DeliveredIsAuthentic'
<1> USE DEF IInv
<1> DEFINE Good(c, e) ==
      /\ e.began \in 0..Len(recorded[c])
      /\ ~Has(Recent(recorded[c], e.began), e.msg.sequence)
      /\ \E m \in wire : /\ m.sealed = e.msg.sealed
                         /\ m.epoch = chan[c].epoch
                         /\ m.sequence % SeqMod = e.msg.sequence % SeqMod
           GoodNext(c, e) ==
      /\ e.began \in 0..Len(recorded'[c])
      /\ ~Has(Recent(recorded'[c], e.began), e.msg.sequence)
      /\ \E m \in wire' : /\ m.sealed = e.msg.sealed
                          /\ m.epoch = chan'[c].epoch
                          /\ m.sequence % SeqMod = e.msg.sequence % SeqMod
<1>1. \A c \in Channels : \A i \in DOMAIN delivered[c] : Good(c, delivered[c][i])
  BY DEF BeganInPast, RecordedIsNotReplayed, DeliveredIsAuthentic
<1>2. wire \subseteq wire'
  BY DEF Next, Establish, Encrypt, BeginDecrypt, Deliver, Reject,
         BeginRotate, FinishRotate, Destroy
<1>3. ASSUME NEW c \in Channels, NEW e, Good(c, e), Exists(c)
      PROVE  GoodNext(c, e)
  <2>1. chan'[c].epoch = chan[c].epoch
    BY <1>3, ObjectsPersist
  <2>2. /\ e.began \in 0..Len(recorded'[c])
        /\ Recent(recorded'[c], e.began) = Recent(recorded[c], e.began)
    BY <1>3, LogGrows
  <2> QED BY <1>2, <1>3, <2>1, <2>2
<1>4. ASSUME NEW c \in Channels, NEW i \in DOMAIN delivered'[c]
      PROVE  GoodNext(c, delivered'[c][i])
  <2>1. CASE \E d \in Calls : Deliver(d)
    <3>1. PICK d \in Calls : Deliver(d)
      BY <2>1
    <3> DEFINE b == calls[d].chan
               e == [msg |-> calls[d].msg, began |-> calls[d].began]
    <3>2. b \in Channels /\ Exists(b)
      BY <3>1, DeliverEffect
    <3>3. CASE c # b
      <4>1. delivered'[c] = delivered[c]
        BY <3>1, <3>3, DeliverHistory
      <4>2. Exists(c)
        BY <4>1 DEF UnusedIsEmpty
      <4> QED BY <1>1, <1>3, <4>1, <4>2
    <3>4. CASE c = b
      <4>1. calls[d].op = "decrypt" /\ Opens(b, calls[d].msg)
        BY <3>1 DEF Deliver
      <4>2. DecryptHolds(d) /\ e.msg \in ChannelMessage /\ e.began \in Nat
        BY <4>1, DecryptFields DEF CallsHold
      <4>3. \E m \in wire : /\ m.sealed = e.msg.sealed
                            /\ m.epoch = chan[b].epoch
                            /\ m.sequence % SeqMod = e.msg.sequence % SeqMod
        BY <4>1, OpenedWasEncrypted
      <4>4. Good(b, e)
        BY <4>2, <4>3 DEF DecryptHolds
      <4>5. GoodNext(b, e)
        BY <1>3, <3>2, <4>4
      <4>6. delivered'[b] = Append(delivered[b], e)
        BY <3>1, DeliverHistory
      <4>7. delivered[b] \in Seq([msg : ChannelMessage, began : Nat])
        BY <3>2 DEF TypeOK
      <4>8. e \in [msg : ChannelMessage, began : Nat]
        BY <4>2
      <4>9. \/ delivered'[b][i] = e
            \/ i \in DOMAIN delivered[b] /\ delivered'[b][i] = delivered[b][i]
        <5> HIDE DEF e
        <5> QED BY <3>4, <4>6, <4>7, <4>8, AppendProperties, LenProperties
      <4>10. CASE delivered'[b][i] = e
        BY <3>4, <4>5, <4>10
      <4>11. CASE i \in DOMAIN delivered[b] /\ delivered'[b][i] = delivered[b][i]
        <5>1. Good(b, delivered[b][i])
          BY <1>1, <3>2, <4>11
        <5>2. GoodNext(b, delivered[b][i])
          BY <1>3, <3>2, <5>1
        <5> QED BY <3>4, <4>11, <5>2
      <4> QED BY <4>9, <4>10, <4>11
    <3> QED BY <3>3, <3>4
  <2>2. CASE ~\E d \in Calls : Deliver(d)
    <3>1. delivered' = delivered
      BY <2>2 DEF Next, Establish, Encrypt, BeginDecrypt, Reject,
                  BeginRotate, FinishRotate, Destroy
    <3>2. Exists(c)
      BY <3>1 DEF UnusedIsEmpty
    <3> QED BY <1>1, <1>3, <3>1, <3>2
  <2> QED BY <2>1, <2>2
<1> QED BY <1>4 DEF BeganInPast, RecordedIsNotReplayed, DeliveredIsAuthentic

(* Every step leaves the window with the most recent of the log. *)
LEMMA WindowIsRecentStep ==
  ASSUME IInv, Next
  PROVE  WindowIsRecent'
<1> USE DEF IInv
<1> SUFFICES ASSUME NEW c \in Channels, Live(c)'
             PROVE  chan'[c].seenSeqs = Recent(recorded'[c], Len(recorded'[c]))
  BY DEF WindowIsRecent
<1>0. Recent(<<>>, Len(<<>>)) = <<>>
  BY SubSeqEmpty DEF Recent
<1>1. CASE \E d \in Calls : Deliver(d)
  <2>1. PICK d \in Calls : Deliver(d)
    BY <1>1
  <2> DEFINE b == calls[d].chan
             q == calls[d].msg.sequence
  <2>2. CASE c # b
    <3>1. chan'[c] = chan[c] /\ recorded'[c] = recorded[c]
      BY <2>1, <2>2, DeliverEffect, DeliverHistory
    <3>2. Live(c)
      BY <3>1 DEF Live, Exists
    <3> QED BY <3>1, <3>2 DEF WindowIsRecent
  <2>3. CASE c = b
    <3>1. /\ Exists(c)
          /\ q \in SeqNumbers
          /\ chan'[c].seenSeqs = Slide(chan[c].seenSeqs, q)
          /\ chan'[c].live = chan[c].live
          /\ recorded'[c] = IF Has(chan[c].seenSeqs, q)
                              THEN recorded[c]
                              ELSE Append(recorded[c], q)
      BY <2>1, <2>3, DeliverEffect, DeliverHistory
    <3>2. chan[c].seenSeqs = Recent(recorded[c], Len(recorded[c]))
      BY <3>1 DEF WindowIsRecent, Live
    <3>3. recorded[c] \in Seq(SeqNumbers)
      BY DEF TypeOK
    <3>4. CASE Has(chan[c].seenSeqs, q)
      <4>1. Len(chan[c].seenSeqs) <= WindowSize
        BY <3>1, ChannelFields
      <4>2. Len(chan[c].seenSeqs) \in Nat
        BY <3>1, ChannelFields, LenProperties
      <4>3. Slide(chan[c].seenSeqs, q) = chan[c].seenSeqs
        BY <3>4, <4>1, <4>2, WindowSizeIsPos DEF Slide
      <4> QED BY <3>1, <3>2, <3>4, <4>3
    <3>5. CASE ~Has(chan[c].seenSeqs, q)
      <4>1. Slide(chan[c].seenSeqs, q)
              = Recent(Append(recorded[c], q), Len(recorded[c]) + 1)
        BY <3>1, <3>2, <3>3, <3>5, SlideIsRecent
      <4>2. Len(Append(recorded[c], q)) = Len(recorded[c]) + 1
        BY <3>1, <3>3, AppendProperties
      <4> QED BY <3>1, <3>5, <4>1, <4>2
    <3> QED BY <3>4, <3>5
  <2> QED BY <2>2, <2>3
<1>2. CASE ~\E d \in Calls : Deliver(d)
  <2>1. recorded' = recorded
    BY <1>2 DEF Next, Establish, Encrypt, BeginDecrypt, Reject, BeginRotate,
                FinishRotate, Destroy
  <2>2. CASE Exists(c) /\ chan'[c] = chan[c]
    BY <2>1, <2>2 DEF WindowIsRecent, Live, Exists
  <2>3. CASE ~Exists(c) /\ chan'[c].seenSeqs = <<>>
    BY <1>0, <2>1, <2>3 DEF UnusedIsEmpty
  <2>4. CASE chan' = chan
    BY <2>2, <2>4 DEF Live, Exists
  <2>5. CASE \E b \in Channels, role \in Roles : Establish(b, role)
    <3>1. PICK b \in Channels, role \in Roles : Establish(b, role)
      BY <2>5
    <3>2. \/ Exists(c) /\ chan'[c] = chan[c]
          \/ ~Exists(c) /\ chan'[c].seenSeqs = <<>>
      BY <3>1, EstablishEffect DEF Live
    <3> QED BY <2>2, <2>3, <3>2
  <2>6. CASE \E d \in Calls : Reject(d)
    BY <2>4, <2>6, RejectEffect
  <2>7. CASE \E d \in Calls, new \in Channels : FinishRotate(d, new)
    <3>1. PICK d \in Calls, new \in Channels : FinishRotate(d, new)
      BY <2>7
    <3>2. chan'[c].live
      BY DEF Live
    <3>3. c # calls[d].chan
      BY <3>1, <3>2, RotateEffect
    <3>4. \/ Exists(c) /\ chan'[c] = chan[c]
          \/ ~Exists(c) /\ chan'[c].seenSeqs = <<>>
      <4>1. CASE c = new
        BY <3>1, <4>1, RotateEffect
      <4>2. CASE c # new
        <5> DEFINE old == calls[d].chan
        <5>0. \A b \in Channels \ {old, new} : chan'[b] = chan[b]
          BY <3>1, RotateEffect
        <5>1. chan'[c] = chan[c]
          BY <3>3, <4>2, <5>0
        <5> QED BY <5>1 DEF Live, Exists
      <4> QED BY <4>1, <4>2
    <3> QED BY <2>2, <2>3, <3>4
  <2>8. CASE \E b \in Channels : Destroy(b)
    <3>1. PICK b \in Channels : Destroy(b)
      BY <2>8
    <3>2. c # b /\ chan'[c] = chan[c]
      BY <3>1, DestroyEffect DEF Live
    <3>3. Exists(c)
      BY <3>2 DEF Live, Exists
    <3> QED BY <2>2, <3>2, <3>3
  <2>9. \/ chan' = chan
        \/ \E b \in Channels, role \in Roles : Establish(b, role)
        \/ \E d \in Calls : Reject(d)
        \/ \E d \in Calls, new \in Channels : FinishRotate(d, new)
        \/ \E b \in Channels : Destroy(b)
    BY <1>2 DEF Next, Encrypt, BeginDecrypt, BeginRotate
  <2> QED BY <2>4, <2>5, <2>6, <2>7, <2>8, <2>9
<1> QED BY <1>1, <1>2

(* Every step leaves only delivered sequences in the window. *)
LEMMA WindowHoldsDeliveredStep ==
  ASSUME IInv, Next
  PROVE  WindowHoldsDelivered'
<1> USE DEF IInv
<1> DEFINE Held(w, log) == \A i \in DOMAIN w : \E j \in DOMAIN log :
                             log[j].msg.sequence = w[i]
<1>1. \A c \in Channels : Exists(c) => Held(chan[c].seenSeqs, delivered[c])
  BY DEF WindowHoldsDelivered
<1>2. ASSUME NEW log PROVE Held(<<>>, log)
  OBVIOUS
<1>3. ASSUME NEW c \in Channels, Exists(c)'
      PROVE  Held(chan'[c].seenSeqs, delivered'[c])
  <2>1. CASE \E d \in Calls : Deliver(d)
    <3>1. PICK d \in Calls : Deliver(d)
      BY <2>1
    <3> DEFINE b == calls[d].chan
               q == calls[d].msg.sequence
               w == chan[b].seenSeqs
               e == [msg |-> calls[d].msg, began |-> calls[d].began]
    <3>2. CASE c # b
      <4>1. chan'[c] = chan[c] /\ delivered'[c] = delivered[c] /\ Exists(c)
        BY <1>3, <3>1, <3>2, DeliverEffect, DeliverHistory
      <4>2. Held(chan[c].seenSeqs, delivered[c])
        BY <1>1, <4>1
      <4> HIDE DEF Held
      <4> QED BY <4>1, <4>2
    <3>3. CASE c = b
      <4>1. /\ Exists(b)
            /\ b \in Channels
            /\ q \in SeqNumbers
            /\ w \in Seq(SeqNumbers)
            /\ chan'[b].seenSeqs = Slide(w, q)
            /\ delivered'[b] = Append(delivered[b], e)
        BY <3>1, DeliverEffect, DeliverHistory
      <4>2. Len(w) <= WindowSize
        BY <4>1, ChannelFields
      <4>3. \A i \in DOMAIN Slide(w, q) :
              Slide(w, q)[i] = q \/ \E j \in DOMAIN w : w[j] = Slide(w, q)[i]
        BY <4>1, <4>2, SlideType
      <4>4. Held(w, delivered[b])
        BY <1>1, <4>1
      <4>5. /\ delivered[b] \in Seq([msg : ChannelMessage, began : Nat])
            /\ e \in [msg : ChannelMessage, began : Nat]
        BY <3>1, <4>1, DecryptFields DEF TypeOK, Deliver
      <4>6. e.msg.sequence = q
        OBVIOUS
      <4> DEFINE log == delivered[b]
                 longer == Append(log, e)
      <4>7. /\ Len(longer) = Len(log) + 1
            /\ \A j \in 1..Len(log) : longer[j] = log[j]
            /\ longer[Len(log) + 1] = e
            /\ DOMAIN log = 1..Len(log)
            /\ DOMAIN longer = 1..Len(longer)
            /\ Len(log) \in Nat
        <5> HIDE DEF e, log
        <5>1. log \in Seq([msg : ChannelMessage, began : Nat])
          BY <4>5 DEF log
        <5> QED BY <4>5, <5>1, AppendProperties, LenProperties
      <4> HIDE DEF e, log, longer, w, q
      <4>8. \A j \in DOMAIN log : j \in DOMAIN longer /\ longer[j] = log[j]
        BY <4>7
      <4>9. Len(log) + 1 \in DOMAIN longer
        BY <4>7
      <4>10. ASSUME NEW i \in DOMAIN Slide(w, q)
             PROVE  \E j \in DOMAIN longer :
                      longer[j].msg.sequence = Slide(w, q)[i]
        <5>1. CASE Slide(w, q)[i] = q
          BY <4>6, <4>7, <4>9, <5>1
        <5>2. CASE \E j \in DOMAIN w : w[j] = Slide(w, q)[i]
          <6>1. \E j \in DOMAIN log : log[j].msg.sequence = Slide(w, q)[i]
            BY <4>4, <5>2 DEF log
          <6> QED BY <4>8, <6>1
        <5> QED BY <4>3, <5>1, <5>2
      <4> QED BY <3>3, <4>1, <4>10 DEF longer, log
    <3> QED BY <3>2, <3>3
  <2>2. CASE ~\E d \in Calls : Deliver(d)
    <3>1. delivered' = delivered
      BY <2>2 DEF Next, Establish, Encrypt, BeginDecrypt, Reject,
                  BeginRotate, FinishRotate, Destroy
    <3>2. \/ chan'[c].seenSeqs = <<>>
          \/ Exists(c) /\ chan'[c].seenSeqs = chan[c].seenSeqs
      <4>1. CASE \E b \in Channels, role \in Roles : Establish(b, role)
        BY <1>3, <4>1, EstablishEffect
      <4>2. CASE \E d \in Calls : Reject(d)
        BY <1>3, <4>2, RejectEffect DEF Exists
      <4>3. CASE \E d \in Calls, new \in Channels : FinishRotate(d, new)
        <5>1. PICK d \in Calls, new \in Channels : FinishRotate(d, new)
          BY <4>3
        <5> QED BY <1>3, <5>1, RotateEffect
      <4>4. CASE \E b \in Channels : Destroy(b)
        BY <1>3, <4>4, DestroyEffect
      <4>5. CASE chan' = chan
        BY <1>3, <4>5 DEF Exists
      <4> QED BY <2>2, <4>1, <4>2, <4>3, <4>4, <4>5
              DEF Next, Encrypt, BeginDecrypt, BeginRotate
    <3> QED BY <1>1, <1>2, <3>1, <3>2
  <2> QED BY <2>1, <2>2
<1> QED BY <1>3 DEF WindowHoldsDelivered

-----------------------------------------------------------------------------
(* Every step keeps the invariant. *)
LEMMA NextInv == IInv /\ [Next]_vars => IInv'
<1> SUFFICES ASSUME IInv, [Next]_vars PROVE IInv'
  OBVIOUS
<1>1. CASE Next
  <2>1. TypeOK'
    BY <1>1, TypeStep DEF IInv
  <2>2. CallsExist' /\ CallsHold' /\ WireIsSealed' /\ UnusedIsEmpty'
    BY <1>1, CallsExistStep, CallsHoldStep, WireIsSealedStep, UnusedIsEmptyStep
  <2>3. BeganInPast' /\ RecordedIsNotReplayed' /\ DeliveredIsAuthentic'
    BY <1>1, DeliveredStep
  <2>4. WindowIsRecent' /\ WindowHoldsDelivered'
    BY <1>1, WindowIsRecentStep, WindowHoldsDeliveredStep
  <2> QED BY <2>1, <2>2, <2>3, <2>4 DEF IInv
<1>2. CASE UNCHANGED vars
  BY <1>2 DEF vars, IInv, TypeOK, CallsExist, CallsHold, DecryptHolds, Arrivals,
              WireIsSealed, MessageKey, UnusedIsEmpty, BeganInPast, WindowIsRecent, WindowHoldsDelivered,
              RecordedIsNotReplayed, DeliveredIsAuthentic, Exists, Live
<1> QED BY <1>1, <1>2

(* Every reachable state satisfies the inductive invariant, however many   *)
(* decrypt, rotate and destroy calls overlap.                              *)
THEOREM Invariance == Spec => []IInv
  BY InitInv, NextInv, PTL DEF Spec

(* The state is always well typed, and no window outgrows WindowSize.      *)
THEOREM TypeCorrect == Spec => []TypeOK
<1>1. IInv => TypeOK
  BY DEF IInv
<1> QED BY <1>1, Invariance, PTL

(* decryptChannelMessage: the window of a live channel is its WindowSize   *)
(* most recently recorded sequences, however calls overlap.                *)
THEOREM WindowCorrect == Spec => []WindowIsRecent
<1>1. IInv => WindowIsRecent
  BY DEF IInv
<1> QED BY <1>1, Invariance, PTL

(* decryptChannelMessage: failed attempts consume no slot of the window.   *)
THEOREM FailuresLeaveNoTrace == Spec => []WindowHoldsDelivered
<1>1. IInv => WindowHoldsDelivered
  BY DEF IInv
<1> QED BY <1>1, Invariance, PTL

(* decryptChannelMessage: a sequence recent when a call began is not       *)
(* delivered by it.                                                        *)
THEOREM NoReplayOfRecorded == Spec => []RecordedIsNotReplayed
<1>1. IInv => RecordedIsNotReplayed
  BY DEF IInv
<1> QED BY <1>1, Invariance, PTL

(* decryptChannelMessage returns only what was encrypted in the epoch of   *)
(* the object it was called with, whatever the network makes of the        *)
(* headers and however the call meets a rotation, and under a sequence     *)
(* that agrees modulo SeqMod with the one delivered.                       *)
THEOREM Authenticity == Spec => []DeliveredIsAuthentic
<1>1. IInv => DeliveredIsAuthentic
  BY DEF IInv
<1> QED BY <1>1, Invariance, PTL

(* What is delivered was encrypted under the very sequence delivered. *)
DeliveredAsEncrypted ==
  \A c \in Channels : \A i \in DOMAIN delivered[c] :
    \E m \in wire : /\ m.epoch = chan[c].epoch
                    /\ m.sequence = delivered[c][i].msg.sequence

(* message-keys.ts: 32 bits of the sequence enter the key.  An application *)
(* that neither sends nor accepts sequences which agree modulo SeqMod gets *)
(* what was encrypted under the sequence delivered; the code does not      *)
(* check that it is such an application.                                   *)
THEOREM ExactWithinSeqMod ==
  ASSUME \A p, q \in SeqNumbers : p % SeqMod = q % SeqMod => p = q
  PROVE  Spec => []DeliveredAsEncrypted
<1>1. IInv => DeliveredAsEncrypted
  <2> SUFFICES ASSUME IInv, NEW c \in Channels, NEW i \in DOMAIN delivered[c]
               PROVE  \E m \in wire :
                        /\ m.epoch = chan[c].epoch
                        /\ m.sequence = delivered[c][i].msg.sequence
    BY DEF DeliveredAsEncrypted
  <2>1. PICK m \in wire :
          /\ m.epoch = chan[c].epoch
          /\ m.sequence % SeqMod = delivered[c][i].msg.sequence % SeqMod
    BY DEF IInv, DeliveredIsAuthentic
  <2>2. m.sequence \in SeqNumbers
    BY DEF IInv, TypeOK, ChannelMessage
  <2>3. delivered[c][i] \in [msg : ChannelMessage, began : Nat]
    BY ElementOfSeq, LenProperties DEF IInv, TypeOK
  <2>4. delivered[c][i].msg.sequence \in SeqNumbers
    BY <2>3 DEF ChannelMessage
  <2> QED BY <2>1, <2>2, <2>4
<1> QED BY <1>1, Invariance, PTL
-----------------------------------------------------------------------------
(***************************************************************************)
(* Serial use.  A call in flight is the only one and its object is live,   *)
(* so what a decrypt looked at before its await is still so after it; what *)
(* it delivers it also records, and each role has at most one live object. *)
(***************************************************************************)
OneLive == \A b, c \in Channels :
  Live(b) /\ Live(c) /\ chan[b].role = chan[c].role => b = c

OneCall == \A d, e \in Calls : calls[d] # Idle /\ calls[e] # Idle => d = e

CallIsLive == \A d \in Calls : calls[d] # Idle => Live(calls[d].chan)

StillUnseen == \A d \in Calls : calls[d].op = "decrypt" =>
  ~Has(chan[calls[d].chan].seenSeqs, calls[d].msg.sequence)

LogIsRecorded == \A c \in Channels : recorded[c] = Log(c)

SInv == OneLive /\ OneCall /\ CallIsLive /\ StillUnseen /\ LogIsRecorded

(* The log of what an object delivered, entry by entry. *)
LogsAre ==
  TypeOK => \A c \in Channels :
    /\ Log(c) \in Seq(SeqNumbers)
    /\ Len(Log(c)) = Len(delivered[c])
    /\ \A i \in 1..Len(delivered[c]) : Log(c)[i] = delivered[c][i].msg.sequence

(* The endpoint of a role, by whether it has an object and a live one. *)
EndpointsAre ==
  /\ \A role \in Roles : (\A c \in Channels : Exists(c) => chan[c].role # role)
       => Endpoint(role) = [state |-> "new"]
  /\ \A role \in Roles, c \in Channels :
       /\ Exists(c) /\ chan[c].role = role
       /\ \A b \in Channels : Live(b) => chan[b].role # role
       => Endpoint(role) = [state |-> "closed"]
  /\ \A role \in Roles, c \in Channels : OneLive /\ Live(c) /\ chan[c].role = role
       => Endpoint(role) = [state |-> "open", epoch |-> chan[c].epoch, log |-> Log(c)]

(* A log has the length and the sequences of what was delivered. *)
LEMMA LogProperties == LogsAre /\ LogsAre'
<1>1. LogsAre
  <2> SUFFICES ASSUME TypeOK, NEW c \in Channels
               PROVE  /\ Log(c) \in Seq(SeqNumbers)
                      /\ Len(Log(c)) = Len(delivered[c])
                      /\ \A i \in 1..Len(delivered[c]) :
                           Log(c)[i] = delivered[c][i].msg.sequence
    BY DEF LogsAre
  <2>1. delivered[c] \in Seq([msg : ChannelMessage, began : Nat])
    BY DEF TypeOK
  <2>2. DOMAIN delivered[c] = 1..Len(delivered[c]) /\ Len(delivered[c]) \in Nat
    BY <2>1, LenProperties
  <2>3. \A i \in 1..Len(delivered[c]) : delivered[c][i].msg.sequence \in SeqNumbers
    <3> SUFFICES ASSUME NEW i \in 1..Len(delivered[c])
                 PROVE  delivered[c][i].msg.sequence \in SeqNumbers
      OBVIOUS
    <3>1. delivered[c][i] \in [msg : ChannelMessage, began : Nat]
      BY <2>1, ElementOfSeq
    <3> QED BY <3>1 DEF ChannelMessage
  <2>4. Log(c) = [i \in 1..Len(delivered[c]) |-> delivered[c][i].msg.sequence]
    BY <2>2 DEF Log
  <2>5. Log(c) \in [1..Len(delivered[c]) -> SeqNumbers]
    BY <2>3, <2>4
  <2>6. Log(c) \in Seq(SeqNumbers) /\ Len(Log(c)) = Len(delivered[c])
    BY <2>2, <2>5, SeqDef, LenProperties
  <2> QED BY <2>4, <2>6
<1>2. LogsAre'
  BY <1>1, PTL
<1> QED BY <1>1, <1>2

(* The three states of an endpoint, now and in the next state. *)
LEMMA EndpointIs == EndpointsAre /\ EndpointsAre'
<1>1. EndpointsAre
  <2>1. ASSUME NEW role \in Roles, \A c \in Channels : Exists(c) => chan[c].role # role
        PROVE  Endpoint(role) = [state |-> "new"]
    BY <2>1 DEF Endpoint, Of
  <2>2. ASSUME NEW role \in Roles, NEW c \in Channels, Exists(c), chan[c].role = role,
               \A b \in Channels : Live(b) => chan[b].role # role
        PROVE  Endpoint(role) = [state |-> "closed"]
    BY <2>2 DEF Endpoint, Of, Live
  <2>3. ASSUME NEW role \in Roles, NEW c \in Channels, OneLive, Live(c), chan[c].role = role
        PROVE  Endpoint(role) =
                 [state |-> "open", epoch |-> chan[c].epoch, log |-> Log(c)]
    <3>1. c \in Of(role) /\ chan[c].live
      BY <2>3 DEF Of, Live
    <3>2. Current(role) \in Of(role) /\ chan[Current(role)].live
      BY <3>1 DEF Current
    <3>3. Current(role) = c
      BY <2>3, <3>2 DEF Of, Live, OneLive
    <3> QED BY <3>1, <3>3 DEF Endpoint
  <2> QED BY <2>1, <2>2, <2>3 DEF EndpointsAre
<1>2. EndpointsAre'
  BY <1>1, PTL
<1> QED BY <1>1, <1>2

(* An endpoint none of whose objects changes its life, epoch or log is     *)
(* unchanged.                                                              *)
LEMMA SameEndpoint ==
  ASSUME OneLive, OneLive', NEW role \in Roles,
         \A c \in Channels :
           (Exists(c)' /\ chan'[c].role = role) <=> (Exists(c) /\ chan[c].role = role),
         \A c \in Channels : Exists(c) /\ chan[c].role = role =>
           /\ chan'[c].live = chan[c].live
           /\ chan'[c].epoch = chan[c].epoch
           /\ delivered'[c] = delivered[c]
  PROVE  Endpoint(role)' = Endpoint(role)
<1>1. CASE \A c \in Channels : Exists(c) => chan[c].role # role
  <2>1. Endpoint(role) = [state |-> "new"]
    BY <1>1, EndpointIs DEF EndpointsAre
  <2>2. Endpoint(role)' = [state |-> "new"]
    BY <1>1, EndpointIs DEF EndpointsAre
  <2> QED BY <2>1, <2>2
<1>2. CASE \E c \in Channels : Live(c) /\ chan[c].role = role
  <2>1. PICK c \in Channels : Live(c) /\ chan[c].role = role
    BY <1>2
  <2>2. /\ Live(c)' /\ chan'[c].role = role
        /\ chan'[c].epoch = chan[c].epoch /\ delivered'[c] = delivered[c]
    BY <2>1 DEF Live
  <2>3. Endpoint(role) = [state |-> "open", epoch |-> chan[c].epoch, log |-> Log(c)]
    BY <2>1, EndpointIs DEF EndpointsAre
  <2>4. Endpoint(role)' = [state |-> "open", epoch |-> chan'[c].epoch, log |-> Log(c)']
    BY <2>2, EndpointIs DEF EndpointsAre
  <2>5. Log(c)' = Log(c)
    BY <2>2 DEF Log
  <2> QED BY <2>2, <2>3, <2>4, <2>5
<1>3. CASE /\ \E c \in Channels : Exists(c) /\ chan[c].role = role
           /\ \A c \in Channels : Live(c) => chan[c].role # role
  <2>1. PICK c \in Channels : Exists(c) /\ chan[c].role = role
    BY <1>3
  <2>2. \A b \in Channels : Live(b)' => chan'[b].role # role
    BY <1>3 DEF Live
  <2>3. Endpoint(role) = [state |-> "closed"]
    BY <1>3, <2>1, EndpointIs DEF EndpointsAre
  <2>4. Endpoint(role)' = [state |-> "closed"]
    BY <2>1, <2>2, EndpointIs DEF EndpointsAre
  <2> QED BY <2>3, <2>4
<1> QED BY <1>1, <1>2, <1>3

-----------------------------------------------------------------------------
(* Nothing is in flight, and no object is live, before the first step. *)
LEMMA SerialInit == Init => SInv
<1> SUFFICES ASSUME Init PROVE SInv
  OBVIOUS
<1>1. \A c \in Channels : ~Live(c)
  BY DEF Init, Live, Exists
<1>2. \A d \in Calls : calls[d] = Idle
  BY DEF Init
<1>3. ASSUME NEW c \in Channels PROVE recorded[c] = Log(c)
  <2>1. recorded[c] = <<>> /\ delivered[c] = <<>>
    BY DEF Init
  <2>2. LogsAre /\ TypeOK
    BY LogProperties, InitInv DEF IInv
  <2>3. Log(c) \in Seq(SeqNumbers) /\ Len(Log(c)) = 0
    BY <2>1, <2>2 DEF LogsAre
  <2> QED BY <2>1, <2>3, EmptySeq
<1> QED BY <1>1, <1>2, <1>3
        DEF SInv, OneLive, OneCall, CallIsLive, StillUnseen, LogIsRecorded, Idle

(* A step moves one call at most. *)
LEMMA OneCallMoves ==
  ASSUME TypeOK, Next
  PROVE  \/ calls' = calls
         \/ \E d \in Calls : \A e \in Calls \ {d} : calls'[e] = calls[e]
<1>1. calls \in [Calls -> CallState \cup {Idle}]
  BY DEF TypeOK
<1>2. CASE \E d \in Calls : Deliver(d) \/ Reject(d)
  BY <1>1, <1>2 DEF Deliver, Reject
<1>3. CASE \E d \in Calls, c \in Channels : BeginRotate(d, c) \/ FinishRotate(d, c)
  BY <1>1, <1>3 DEF BeginRotate, FinishRotate
<1>4. CASE \E d \in Calls, c \in Channels, m \in Arrivals : BeginDecrypt(d, c, m)
  BY <1>1, <1>4 DEF BeginDecrypt
<1> QED BY <1>2, <1>3, <1>4 DEF Next, Establish, Encrypt, Destroy

(* In serial use a decrypt that finishes finds its object live and its     *)
(* sequence unseen, and records it.                                        *)
LEMMA SerialDeliver ==
  ASSUME IInv, SInv, NEW d \in Calls, Deliver(d),
         NEW c, c = calls[d].chan, NEW q, q = calls[d].msg.sequence
  PROVE  /\ c \in Channels /\ Live(c) /\ q \in SeqNumbers
         /\ chan[c].role \in Roles
         /\ chan'[c].role = chan[c].role
         /\ ~Has(chan[c].seenSeqs, q)
         /\ recorded'[c] = Append(recorded[c], q)
         /\ Log(c)' = Append(Log(c), q)
<1> USE DEF IInv, SInv
<1> DEFINE e == [msg |-> calls[d].msg, began |-> calls[d].began]
<1>1. calls[d].op = "decrypt"
  BY DEF Deliver
<1>2. /\ c \in Channels /\ Live(c) /\ q \in SeqNumbers
      /\ ~Has(chan[c].seenSeqs, q)
  BY <1>1, DecryptFields DEF CallIsLive, StillUnseen
<1>3. chan[c].role \in Roles /\ chan'[c].role = chan[c].role
  <2>1. chan[c] \in ChannelState /\ chan[c].role \in Roles
    BY <1>2, ChannelFields DEF Live
  <2>2. chan'[c] = [chan[c] EXCEPT !.seenSeqs = Slide(chan[c].seenSeqs, q)]
    BY DeliverEffect
  <2> QED BY <2>1, <2>2 DEF ChannelState
<1>4. /\ recorded'[c] = Append(recorded[c], q)
      /\ delivered'[c] = Append(delivered[c], e)
  BY <1>2, DeliverHistory
<1>5. Log(c)' = Append(Log(c), q)
  <2>1. /\ delivered[c] \in Seq([msg : ChannelMessage, began : Nat])
        /\ e \in [msg : ChannelMessage, began : Nat]
    BY <1>1, <1>2, DecryptFields DEF TypeOK
  <2>2. e.msg.sequence = q
    OBVIOUS
  <2>3. TypeOK'
    <3>1. Next
      BY DEF Next
    <3> QED BY <3>1, TypeStep
  <2>4. /\ Log(c) \in Seq(SeqNumbers) /\ Log(c)' \in Seq(SeqNumbers)
        /\ Len(Log(c)) = Len(delivered[c]) /\ Len(Log(c)') = Len(delivered'[c])
        /\ \A i \in 1..Len(delivered[c]) : Log(c)[i] = delivered[c][i].msg.sequence
        /\ \A i \in 1..Len(delivered'[c]) : Log(c)'[i] = delivered'[c][i].msg.sequence
    BY <1>2, <2>3, LogProperties DEF LogsAre
  <2> DEFINE n == Len(delivered[c])
             l == Log(c)
             lp == Log(c)'
             ds == delivered[c]
  <2>5. /\ Len(delivered'[c]) = n + 1
        /\ \A i \in 1..n : delivered'[c][i] = delivered[c][i]
        /\ delivered'[c][n + 1].msg.sequence = q
        /\ n \in Nat
    <3> HIDE DEF e, ds
    <3>1. ds \in Seq([msg : ChannelMessage, began : Nat])
      BY <2>1 DEF ds
    <3>2. /\ Len(Append(ds, e)) = Len(ds) + 1
          /\ \A i \in 1..Len(ds) : Append(ds, e)[i] = ds[i]
          /\ Append(ds, e)[Len(ds) + 1] = e
          /\ Len(ds) \in Nat
      BY <2>1, <3>1, AppendProperties, LenProperties
    <3> QED BY <1>4, <2>2, <3>2 DEF ds
  <2>6. /\ Append(l, q) \in Seq(SeqNumbers)
        /\ Len(Append(l, q)) = n + 1
        /\ \A i \in 1..n : Append(l, q)[i] = l[i]
        /\ Append(l, q)[n + 1] = q
    <3> HIDE DEF l
    <3> QED BY <1>2, <2>4, AppendProperties DEF l
  <2>7. Len(lp) = n + 1
    BY <2>4, <2>5
  <2>8. ASSUME NEW i \in 1..(n + 1) PROVE lp[i] = Append(l, q)[i]
    <3>1. lp[i] = delivered'[c][i].msg.sequence
      BY <2>4, <2>5
    <3>2. CASE i \in 1..n
      BY <2>4, <2>5, <2>6, <3>1, <3>2
    <3>3. CASE i = n + 1
      BY <2>5, <2>6, <3>1, <3>3
    <3>4. i \in 1..n \/ i = n + 1
      <4> HIDE DEF n
      <4> QED BY <2>5
    <3> QED BY <3>2, <3>3, <3>4
  <2>9. lp \in Seq(SeqNumbers)
    BY <2>4
  <2>10. Len(lp) = Len(Append(l, q)) /\ \A i \in 1..Len(lp) : lp[i] = Append(l, q)[i]
    BY <2>6, <2>7, <2>8
  <2> HIDE DEF l, lp, n
  <2>11. lp = Append(l, q)
    BY <2>6, <2>9, <2>10, SeqEqual
  <2> QED BY <2>11 DEF l, lp
<1> QED BY <1>2, <1>3, <1>4, <1>5

(* In serial use a call in flight finds its object as it left it. *)
LEMMA ObjectWaits ==
  ASSUME IInv, SInv, SerialNext, NEW d \in Calls,
         calls[d] # Idle, calls'[d] # Idle
  PROVE  calls'[d] = calls[d] /\ chan'[calls[d].chan] = chan[calls[d].chan]
<1> USE DEF IInv, SInv
<1> DEFINE c == calls[d].chan
<1>0. calls \in [Calls -> CallState \cup {Idle}]
  BY DEF TypeOK
<1>1. ASSUME NEW e \in Calls, calls[e] # Idle PROVE e = d
  BY <1>1 DEF OneCall
<1>2. c \in Channels /\ Exists(c)
  BY <1>0 DEF CallsExist, CallState
<1>3. CASE \E b \in Channels, role \in Roles : Establish(b, role)
  <2>1. PICK b \in Channels, role \in Roles : Establish(b, role)
    BY <1>3
  <2>2. b # c /\ chan'[c] = chan[c]
    BY <1>2, <2>1, EstablishEffect
  <2> QED BY <2>1, <2>2 DEF Establish
<1>4. CASE \E e \in Calls : Deliver(e) \/ Reject(e)
  BY <1>0, <1>1, <1>4 DEF Deliver, Reject, Idle
<1>5. CASE \E e \in Calls, new \in Channels : FinishRotate(e, new)
  BY <1>0, <1>1, <1>5 DEF FinishRotate, Idle
<1>6. CASE \E b \in Channels : Destroy(b)
  BY <1>6 DEF SerialNext, Awaited
<1>7. CASE \E b \in Channels, q \in SeqNumbers : Encrypt(b, q)
  BY <1>7 DEF Encrypt
<1>8. CASE \E e \in Calls, b \in Channels : BeginRotate(e, b)
  BY <1>0, <1>8 DEF BeginRotate
<1>9. CASE \E e \in Calls, b \in Channels, m \in Arrivals : BeginDecrypt(e, b, m)
  BY <1>0, <1>9 DEF BeginDecrypt
<1> QED BY <1>3, <1>4, <1>5, <1>6, <1>7, <1>8, <1>9 DEF SerialNext, Next

(* A call that begins begins on a live object, with a sequence unseen. *)
LEMMA CallBegins ==
  ASSUME IInv, Next, NEW d \in Calls, calls[d] = Idle, calls'[d] # Idle
  PROVE  /\ Live(calls'[d].chan) /\ UNCHANGED chan
         /\ calls'[d].op = "decrypt" =>
              ~Has(chan[calls'[d].chan].seenSeqs, calls'[d].msg.sequence)
<1> USE DEF IInv
<1>0. calls \in [Calls -> CallState \cup {Idle}]
  BY DEF TypeOK
<1>1. CASE \E e \in Calls, b \in Channels : BeginRotate(e, b)
  BY <1>0, <1>1 DEF BeginRotate
<1>2. CASE \E e \in Calls, b \in Channels, m \in Arrivals : BeginDecrypt(e, b, m)
  BY <1>0, <1>2 DEF BeginDecrypt, Acceptable
<1>3. CASE UNCHANGED calls
  BY <1>3
<1>4. CASE \E e \in Calls : calls' = [calls EXCEPT ![e] = Idle]
  BY <1>0, <1>4
<1> QED BY <1>1, <1>2, <1>3, <1>4
        DEF Next, Establish, Encrypt, Deliver, Reject, FinishRotate, Destroy

(* What becomes of the roles: an object keeps its own, and a new one has   *)
(* that of its establishment or of the object it was rotated from.         *)
LEMMA RotateRoles ==
  ASSUME TypeOK, CallsExist, NEW d \in Calls, NEW new \in Channels,
         FinishRotate(d, new), NEW old, old = calls[d].chan
  PROVE  /\ old \in Channels /\ Exists(old) /\ ~Exists(new)
         /\ chan[old].role \in Roles
         /\ chan'[old].role = chan[old].role
         /\ ~Live(old)'
         /\ Live(new)'
         /\ chan'[new].role = chan[old].role
         /\ chan'[new].epoch = chan[old].epoch + 1
         /\ \A b \in Channels \ {old, new} : chan'[b] = chan[b]
<1>1. /\ old \in Channels /\ Exists(old) /\ ~Exists(new) /\ old # new
      /\ chan'[old] = [chan[old] EXCEPT !.live = FALSE]
      /\ chan'[old].live = FALSE
      /\ \A b \in Channels \ {old, new} : chan'[b] = chan[b]
  BY RotateEffect
<1>2. chan[old] \in ChannelState /\ chan[old].role \in Roles
  BY <1>1, ChannelFields
<1>3. chan'[old].role = chan[old].role
  BY <1>1, <1>2 DEF ChannelState
<1>4. chan'[new] = Fresh(chan[old].role, chan[old].epoch + 1)
  BY <1>1 DEF FinishRotate, Successor, TypeOK
<1>5. /\ Live(new)'
      /\ chan'[new].role = chan[old].role
      /\ chan'[new].epoch = chan[old].epoch + 1
  BY <1>4 DEF Fresh, Live, Exists, Unused
<1> QED BY <1>1, <1>2, <1>3, <1>5 DEF Live

(* The one object of a role that is established. *)
LEMMA EstablishRoles ==
  ASSUME TypeOK, NEW c \in Channels, NEW role \in Roles, Establish(c, role)
  PROVE  /\ ~Exists(c)
         /\ \A b \in Channels : Exists(b) => chan[b].role # role
         /\ Live(c)'
         /\ chan'[c].role = role
         /\ chan'[c].epoch = 0
         /\ \A b \in Channels : b # c => chan'[b] = chan[b]
<1>1. chan'[c] = Fresh(role, 0)
  BY DEF Establish, TypeOK
<1>2. Live(c)' /\ chan'[c].role = role /\ chan'[c].epoch = 0
  BY <1>1 DEF Fresh, Live, Exists, Unused
<1> QED BY <1>2, EstablishEffect DEF Establish

(* A destroyed object keeps its role. *)
LEMMA DestroyRoles ==
  ASSUME TypeOK, NEW c \in Channels, Destroy(c)
  PROVE  /\ Live(c) /\ Exists(c)'
         /\ chan[c].role \in Roles
         /\ chan'[c].role = chan[c].role
         /\ ~Live(c)'
         /\ \A b \in Channels : b # c => chan'[b] = chan[b]
<1>1. /\ Exists(c)
      /\ chan'[c].live = FALSE
      /\ \A b \in Channels : b # c => chan'[b] = chan[b]
      /\ Exists(c)'
  BY DestroyEffect
<1>2. chan[c] \in ChannelState /\ chan[c].role \in Roles
  BY <1>1, ChannelFields
<1>3. chan' = [chan EXCEPT ![c] = [chan[c] EXCEPT !.live = FALSE, !.seenSeqs = <<>>]]
  BY <1>2 DEF Destroy, TypeOK, ChannelState
<1>4. chan'[c].role = chan[c].role
  BY <1>2, <1>3 DEF TypeOK, ChannelState
<1> QED BY <1>1, <1>2, <1>4 DEF Destroy, Live

(* No step gives a role a second live object. *)
LEMMA OneLiveStep ==
  ASSUME IInv, SInv, SerialNext
  PROVE  OneLive'
<1> USE DEF IInv, SInv
<1> SUFFICES ASSUME NEW a \in Channels, NEW b \in Channels,
                    Live(a)', Live(b)', chan'[a].role = chan'[b].role
             PROVE  a = b
  BY DEF OneLive
<1>1. CASE \E c \in Channels, role \in Roles : Establish(c, role)
  <2>1. PICK c \in Channels, role \in Roles : Establish(c, role)
    BY <1>1
  <2> QED BY <2>1, EstablishRoles DEF OneLive, Live, Exists
<1>2. CASE \E d \in Calls : Deliver(d)
  <2>1. PICK d \in Calls : Deliver(d)
    BY <1>2
  <2>2. PICK c \in Channels, q \in SeqNumbers :
          c = calls[d].chan /\ q = calls[d].msg.sequence
    BY <2>1, DeliverEffect
  <2>3. chan'[c].role = chan[c].role /\ chan'[c].live = chan[c].live
    BY <2>1, <2>2, SerialDeliver, DeliverEffect
  <2>4. \A x \in Channels : x # c => chan'[x] = chan[x]
    BY <2>1, <2>2, DeliverEffect
  <2>5. \A x \in Channels : Exists(x)' <=> Exists(x)
    BY <2>1, DeliverEffect
  <2> QED BY <2>3, <2>4, <2>5 DEF OneLive, Live
<1>3. CASE \E d \in Calls, new \in Channels : FinishRotate(d, new)
  <2>1. PICK d \in Calls, new \in Channels : FinishRotate(d, new)
    BY <1>3
  <2>2. PICK old : old = calls[d].chan
    OBVIOUS
  <2>3. Live(old)
    BY <2>1, <2>2, RotateFields DEF CallIsLive, FinishRotate
  <2> QED BY <2>1, <2>2, <2>3, RotateRoles DEF OneLive, Live, Exists
<1>4. CASE \E c \in Channels : Destroy(c)
  <2>1. PICK c \in Channels : Destroy(c)
    BY <1>4
  <2> QED BY <2>1, DestroyRoles DEF OneLive, Live, Exists
<1>5. CASE chan' = chan
  BY <1>5 DEF OneLive, Live, Exists
<1> QED BY <1>1, <1>2, <1>3, <1>4, <1>5, RejectEffect
        DEF SerialNext, Next, Encrypt, BeginDecrypt, BeginRotate

(* A serial step leaves one call at most in flight. *)
LEMMA OneCallStep ==
  ASSUME IInv, SInv, SerialNext
  PROVE  OneCall'
<1> SUFFICES ASSUME NEW d \in Calls, NEW e \in Calls,
                    calls'[d] # Idle, calls'[e] # Idle, d # e
             PROVE  FALSE
  BY DEF OneCall
<1>1. calls[d] = Idle /\ calls[e] = Idle
  BY DEF SerialNext, Awaited
<1>2. TypeOK /\ Next
  BY DEF IInv, SerialNext
<1> QED BY <1>1, <1>2, OneCallMoves

(* A serial step keeps what a call in flight saw. *)
LEMMA CallsWaitStep ==
  ASSUME IInv, SInv, SerialNext
  PROVE  CallIsLive' /\ StillUnseen'
<1>0. Next
  BY DEF SerialNext
<1>1. ASSUME NEW d \in Calls, calls'[d] # Idle
      PROVE  /\ Live(calls[d].chan)'
             /\ calls'[d].op = "decrypt" =>
                  ~Has(chan'[calls'[d].chan].seenSeqs, calls'[d].msg.sequence)
  <2>1. CASE calls[d] # Idle
    <3>1. calls'[d] = calls[d] /\ chan'[calls[d].chan] = chan[calls[d].chan]
      BY <1>1, <2>1, ObjectWaits
    <3> QED BY <2>1, <3>1 DEF SInv, CallIsLive, StillUnseen, Live, Exists
  <2>2. CASE calls[d] = Idle
    <3>1. /\ Live(calls'[d].chan) /\ UNCHANGED chan
          /\ calls'[d].op = "decrypt" =>
               ~Has(chan[calls'[d].chan].seenSeqs, calls'[d].msg.sequence)
      BY <1>0, <1>1, <2>2, CallBegins
    <3> QED BY <3>1 DEF Live, Exists
  <2> QED BY <2>1, <2>2
<1> QED BY <1>1 DEF CallIsLive, StillUnseen, Idle

(* A serial step records what it delivers. *)
LEMMA LogIsRecordedStep ==
  ASSUME IInv, SInv, SerialNext
  PROVE  LogIsRecorded'
<1> SUFFICES ASSUME NEW c \in Channels PROVE recorded'[c] = Log(c)'
  BY DEF LogIsRecorded
<1>1. recorded[c] = Log(c)
  BY DEF SInv, LogIsRecorded
<1>2. CASE \E d \in Calls : Deliver(d)
  <2>1. PICK d \in Calls : Deliver(d)
    BY <1>2
  <2>2. PICK b, q : b = calls[d].chan /\ q = calls[d].msg.sequence
    OBVIOUS
  <2>3. CASE c = b
    <3>1. recorded'[b] = Append(recorded[b], q) /\ Log(b)' = Append(Log(b), q)
      BY <2>1, <2>2, SerialDeliver
    <3> QED BY <1>1, <2>3, <3>1
  <2>4. CASE c # b
    <3>1. recorded'[c] = recorded[c] /\ delivered'[c] = delivered[c]
      BY <2>1, <2>2, <2>4, DeliverHistory DEF IInv
    <3> QED BY <1>1, <3>1 DEF Log
  <2> QED BY <2>3, <2>4
<1>3. CASE ~\E d \in Calls : Deliver(d)
  <2>1. recorded' = recorded /\ delivered' = delivered
    BY <1>3 DEF SerialNext, Next, Establish, Encrypt, BeginDecrypt, Reject,
                BeginRotate, FinishRotate, Destroy
  <2> QED BY <1>1, <2>1 DEF Log
<1> QED BY <1>2, <1>3

(* Both invariants hold throughout serial use. *)
LEMMA SerialInvariance == SerialSpec => [](IInv /\ SInv)
<1>1. Init => IInv /\ SInv
  BY InitInv, SerialInit
<1>2. IInv /\ SInv /\ [SerialNext]_vars => (IInv /\ SInv)'
  <2> SUFFICES ASSUME IInv, SInv, [SerialNext]_vars PROVE IInv' /\ SInv'
    OBVIOUS
  <2>1. IInv'
    BY NextInv DEF SerialNext
  <2>2. CASE SerialNext
    <3>1. SInv'
      BY <2>2, OneLiveStep, OneCallStep, CallsWaitStep, LogIsRecordedStep DEF SInv
    <3> QED BY <2>1, <3>1
  <2>3. CASE UNCHANGED vars
    <3>1. SInv'
      BY <2>3 DEF vars, SInv, OneLive, OneCall, CallIsLive, StillUnseen,
                  LogIsRecorded, Log, Live, Exists
    <3> QED BY <2>1, <3>1
  <2> QED BY <2>2, <2>3
<1> QED BY <1>1, <1>2, PTL DEF SerialSpec

-----------------------------------------------------------------------------
(* The abstract state: the endpoints by role, and what was sent. *)
Endpoints == [role \in Roles |-> Endpoint(role)]

Sent == {<<m.epoch, m.sequence>> : m \in wire}

(* A step that concerns one role leaves the other endpoints as they are. *)
LEMMA OneEndpoint ==
  ASSUME NEW role \in Roles, NEW value, Endpoint(role)' = value,
         \A r \in Roles \ {role} : Endpoint(r)' = Endpoint(r)
  PROVE  Endpoints' = [Endpoints EXCEPT ![role] = value]
BY DEF Endpoints

(* The objects of the other roles do not move. *)
LEMMA OtherEndpoints ==
  ASSUME SInv, SInv', NEW role,
         \A c \in Channels : \/ /\ chan'[c] = chan[c]
                                /\ delivered'[c] = delivered[c]
                             \/ /\ Exists(c) => chan[c].role = role
                                /\ Exists(c)' => chan'[c].role = role
  PROVE  \A r \in Roles \ {role} : Endpoint(r)' = Endpoint(r)
<1> SUFFICES ASSUME NEW r \in Roles, r # role PROVE Endpoint(r)' = Endpoint(r)
  OBVIOUS
<1>1. \A c \in Channels :
        (Exists(c)' /\ chan'[c].role = r) <=> (Exists(c) /\ chan[c].role = r)
  BY DEF Exists
<1>2. \A c \in Channels : Exists(c) /\ chan[c].role = r =>
        /\ chan'[c].live = chan[c].live
        /\ chan'[c].epoch = chan[c].epoch
        /\ delivered'[c] = delivered[c]
  OBVIOUS
<1> QED BY <1>1, <1>2, SameEndpoint DEF SInv

(* establishChannel opens a new endpoint. *)
LEMMA EstablishIs ==
  ASSUME IInv, SInv, IInv', SInv', NEW c \in Channels, NEW role \in Roles,
         Establish(c, role)
  PROVE  Promise!Establish(role)
<1>1. /\ ~Exists(c)
      /\ \A b \in Channels : Exists(b) => chan[b].role # role
      /\ Live(c)' /\ chan'[c].role = role /\ chan'[c].epoch = 0
      /\ \A b \in Channels : b # c => chan'[b] = chan[b]
  BY EstablishRoles DEF IInv
<1>2. delivered' = delivered /\ wire' = wire /\ delivered[c] = <<>>
  BY <1>1 DEF Establish, IInv, UnusedIsEmpty
<1>3. Endpoint(role) = [state |-> "new"]
  BY <1>1, EndpointIs DEF EndpointsAre
<1>4. Log(c)' = <<>>
  <2>1. Log(c)' \in Seq(SeqNumbers) /\ Len(Log(c)') = Len(delivered'[c])
    BY LogProperties DEF LogsAre, IInv
  <2> QED BY <1>2, <2>1, EmptySeq
<1>5. Endpoint(role)' = [state |-> "open", epoch |-> 0, log |-> <<>>]
  BY <1>1, <1>4, EndpointIs DEF EndpointsAre, SInv
<1>6. \A r \in Roles \ {role} : Endpoint(r)' = Endpoint(r)
  BY <1>1, <1>2, OtherEndpoints
<1>7. Endpoints' = [Endpoints EXCEPT ![role] = [state |-> "open", epoch |-> 0, log |-> <<>>]]
  BY <1>5, <1>6, OneEndpoint
<1>8. Endpoints[role] = [state |-> "new"]
  BY <1>3 DEF Endpoints
<1> QED BY <1>2, <1>7, <1>8
        DEF Promise!Establish, Promise!New, Promise!Open, Endpoints, Sent

(* encryptChannelMessage sends in the epoch of the endpoint. *)
LEMMA EncryptIs ==
  ASSUME IInv, SInv, IInv', SInv', NEW c \in Channels, NEW q \in SeqNumbers,
         Encrypt(c, q)
  PROVE  \E role \in Roles : Promise!Send(role)
<1>1. /\ Live(c) /\ chan[c].role \in Roles
      /\ chan' = chan /\ delivered' = delivered
  BY ChannelFields DEF Encrypt, Live, IInv
<1>2. PICK role \in Roles : role = chan[c].role
  BY <1>1
<1>3. Endpoint(role) = [state |-> "open", epoch |-> chan[c].epoch, log |-> Log(c)]
  BY <1>1, <1>2, EndpointIs DEF EndpointsAre, SInv
<1>4. Endpoints' = Endpoints
  <2>1. ASSUME NEW r \in Roles PROVE Endpoint(r)' = Endpoint(r)
    BY <1>1, SameEndpoint DEF SInv, Exists
  <2> QED BY <2>1 DEF Endpoints
<1>5. Sent' = Sent \cup {<<chan[c].epoch, q>>}
  <2>1. PICK m : m = [epoch |-> chan[c].epoch, sequence |-> q,
                      sealed |-> MessageKey(chan[c].epoch, q)]
    OBVIOUS
  <2>2. m.epoch = chan[c].epoch /\ m.sequence = q /\ wire' = wire \cup {m}
    BY <2>1 DEF Encrypt
  <2> QED BY <2>2 DEF Sent
<1>6. Endpoints[role].state = "open" /\ Endpoints[role].epoch = chan[c].epoch
  BY <1>3 DEF Endpoints
<1>7. Promise!Send(role)
  BY <1>4, <1>5, <1>6 DEF Promise!Send, Promise!IsOpen, Endpoints, Sent
<1> QED BY <1>7

(* In serial use a sequence unseen is not among the last WindowSize that   *)
(* the object delivered.                                                   *)
LEMMA UnseenIsOld ==
  ASSUME IInv, SInv, NEW c \in Channels, Live(c), NEW q,
         ~Has(chan[c].seenSeqs, q)
  PROVE  \A i \in DOMAIN Log(c) : Log(c)[i] = q => Len(Log(c)) - i >= WindowSize
<1>1. PICK l : l = Log(c)
  OBVIOUS
<1>2. l \in Seq(SeqNumbers)
  BY <1>1, LogProperties DEF LogsAre, IInv
<1>3. ~Has(Recent(l, Len(l)), q)
  BY <1>1 DEF IInv, SInv, WindowIsRecent, LogIsRecorded
<1>4. Len(l) \in Nat /\ DOMAIN l = 1..Len(l) /\ Len(l) \in 0..Len(l)
  BY <1>2, LenProperties
<1>5. /\ Recent(l, Len(l)) \in Seq(SeqNumbers)
      /\ Len(Recent(l, Len(l))) = IF Len(l) > WindowSize THEN WindowSize ELSE Len(l)
      /\ \A j \in 1..Len(Recent(l, Len(l))) : Recent(l, Len(l))[j] =
           l[j + (IF Len(l) > WindowSize THEN Len(l) - WindowSize ELSE 0)]
  BY <1>2, <1>4, RecentProperties
<1>6. ASSUME NEW i \in 1..Len(l), l[i] = q, ~(Len(l) - i >= WindowSize)
      PROVE  FALSE
  <2> DEFINE k == IF Len(l) > WindowSize THEN Len(l) - WindowSize ELSE 0
  <2>1. k \in Nat /\ i - k \in 1..Len(Recent(l, Len(l))) /\ (i - k) + k = i
    BY <1>4, <1>5, <1>6, WindowSizeIsPos
  <2>2. Recent(l, Len(l))[i - k] = l[(i - k) + k]
    BY <1>5, <2>1
  <2>3. i - k \in DOMAIN Recent(l, Len(l))
    BY <1>5, <2>1, LenProperties
  <2> QED BY <1>3, <1>6, <2>1, <2>2, <2>3 DEF Has
<1> QED BY <1>1, <1>4, <1>6

(* decryptChannelMessage delivers what was sent in its epoch, and nothing  *)
(* among the last it delivered.                                            *)
LEMMA DeliverIs ==
  ASSUME IInv, SInv, IInv', SInv', NEW d \in Calls, Deliver(d)
  PROVE  \E role \in Roles : Promise!Deliver(role)
<1> USE DEF IInv
<1>0. PICK c, q : c = calls[d].chan /\ q = calls[d].msg.sequence
  OBVIOUS
<1>1. /\ c \in Channels /\ Live(c) /\ q \in SeqNumbers
      /\ chan[c].role \in Roles
      /\ chan'[c].role = chan[c].role
      /\ ~Has(chan[c].seenSeqs, q)
      /\ Log(c)' = Append(Log(c), q)
  BY <1>0, SerialDeliver
<1>2. /\ chan'[c].live = chan[c].live /\ chan'[c].epoch = chan[c].epoch
      /\ \A b \in Channels : b # c => chan'[b] = chan[b]
      /\ Exists(c)'
  BY <1>0, <1>1, DeliverEffect DEF Live
<1>3. \A b \in Channels : b # c => delivered'[b] = delivered[b]
  BY <1>0, DeliverHistory
<1>4. PICK role \in Roles : role = chan[c].role
  BY <1>1
<1>5. PICK e : e = [state |-> "open", epoch |-> chan[c].epoch, log |-> Log(c)]
  OBVIOUS
<1>6. Endpoint(role) = e
  BY <1>1, <1>4, <1>5, EndpointIs DEF EndpointsAre, SInv
<1>7. Endpoint(role)' = [e EXCEPT !.log = Append(e.log, q)]
  <2>1. Live(c)'
    BY <1>1, <1>2 DEF Live
  <2>2. Endpoint(role)' = [state |-> "open", epoch |-> chan'[c].epoch, log |-> Log(c)']
    BY <1>1, <1>4, <2>1, EndpointIs DEF EndpointsAre, SInv
  <2>3. [e EXCEPT !.log = Append(e.log, q)] =
          [state |-> "open", epoch |-> chan[c].epoch, log |-> Append(Log(c), q)]
    BY <1>5
  <2> QED BY <1>1, <1>2, <2>2, <2>3
<1>8. \A r \in Roles \ {role} : Endpoint(r)' = Endpoint(r)
  BY <1>1, <1>2, <1>3, <1>4, OtherEndpoints
<1>9. Endpoints' = [Endpoints EXCEPT ![role] = [e EXCEPT !.log = Append(e.log, q)]]
  BY <1>7, <1>8, OneEndpoint
<1>10. Endpoints[role] = e
  BY <1>6 DEF Endpoints
<1>11. PICK p \in Sent : p[1] = chan[c].epoch /\ p[2] % SeqMod = q % SeqMod
  <2>1. PICK m \in wire : /\ m.epoch = chan[c].epoch
                          /\ m.sequence % SeqMod = q % SeqMod
    BY <1>0, OpenedWasEncrypted DEF Deliver
  <2>2. PICK p : p = <<m.epoch, m.sequence>>
    OBVIOUS
  <2>3. p \in Sent /\ p[1] = m.epoch /\ p[2] = m.sequence
    BY <2>2 DEF Sent
  <2> QED BY <2>1, <2>3
<1>12. \A i \in DOMAIN e.log : e.log[i] = q => Len(e.log) - i >= WindowSize
  BY <1>1, <1>5, UnseenIsOld
<1>13. Sent' = Sent
  BY DEF Sent, Deliver
<1>14. e.state = "open" /\ p[1] = e.epoch
  BY <1>5, <1>11
<1>15. [Endpoints EXCEPT ![role].log = Append(@, q)]
         = [Endpoints EXCEPT ![role] = [e EXCEPT !.log = Append(e.log, q)]]
  BY <1>10 DEF Endpoints
<1>16. Promise!Deliver(role)
  <2>1. Endpoints[role].state = "open"
    BY <1>10, <1>14
  <2>2. \E m \in Sent, x \in SeqNumbers : LET log == Endpoints[role].log IN
          /\ m[1] = Endpoints[role].epoch
          /\ m[2] % SeqMod = x % SeqMod
          /\ \A i \in DOMAIN log : log[i] = x => Len(log) - i >= WindowSize
          /\ Endpoints' = [Endpoints EXCEPT ![role].log = Append(@, x)]
    BY <1>1, <1>9, <1>10, <1>11, <1>12, <1>14, <1>15
  <2> QED BY <1>13, <2>1, <2>2 DEF Promise!Deliver, Promise!IsOpen, Endpoints, Sent
<1> QED BY <1>16

(* rotateChannel moves the endpoint to the next epoch, with nothing        *)
(* delivered.                                                              *)
LEMMA RotateIs ==
  ASSUME IInv, SInv, IInv', SInv', NEW d \in Calls, NEW new \in Channels,
         FinishRotate(d, new)
  PROVE  \E role \in Roles : Promise!Rotate(role)
<1> USE DEF IInv
<1>0. PICK old : old = calls[d].chan
  OBVIOUS
<1>1. /\ old \in Channels /\ Exists(old) /\ ~Exists(new)
      /\ chan[old].role \in Roles
      /\ chan'[old].role = chan[old].role
      /\ Live(new)'
      /\ chan'[new].role = chan[old].role
      /\ chan'[new].epoch = chan[old].epoch + 1
      /\ \A b \in Channels \ {old, new} : chan'[b] = chan[b]
  BY <1>0, RotateRoles
<1>2. Live(old)
  BY <1>0, RotateFields DEF FinishRotate, SInv, CallIsLive
<1>3. delivered' = delivered /\ wire' = wire /\ delivered[new] = <<>>
  BY <1>1 DEF FinishRotate, UnusedIsEmpty
<1>4. PICK role \in Roles : role = chan[old].role
  BY <1>1
<1>5. Endpoint(role) = [state |-> "open", epoch |-> chan[old].epoch, log |-> Log(old)]
  BY <1>1, <1>2, <1>4, EndpointIs DEF EndpointsAre, SInv
<1>6. Log(new)' = <<>>
  <2>1. Log(new)' \in Seq(SeqNumbers) /\ Len(Log(new)') = Len(delivered'[new])
    BY LogProperties DEF LogsAre
  <2> QED BY <1>3, <2>1, EmptySeq
<1>7. Endpoint(role)' = [state |-> "open", epoch |-> chan[old].epoch + 1, log |-> <<>>]
  BY <1>1, <1>4, <1>6, EndpointIs DEF EndpointsAre, SInv
<1>8. \A r \in Roles \ {role} : Endpoint(r)' = Endpoint(r)
  BY <1>1, <1>3, <1>4, OtherEndpoints
<1>9. Endpoints' = [Endpoints EXCEPT ![role] =
        [state |-> "open", epoch |-> chan[old].epoch + 1, log |-> <<>>]]
  BY <1>7, <1>8, OneEndpoint
<1>10. Endpoints[role].state = "open" /\ Endpoints[role].epoch = chan[old].epoch
  BY <1>5 DEF Endpoints
<1>11. Sent' = Sent
  BY <1>3 DEF Sent
<1>12. Promise!Rotate(role)
  BY <1>9, <1>10, <1>11
     DEF Promise!Rotate, Promise!IsOpen, Promise!Open, Endpoints, Sent
<1> QED BY <1>12

(* destroyChannel closes the endpoint: no other object of its role lives. *)
LEMMA DestroyIs ==
  ASSUME IInv, SInv, IInv', SInv', NEW c \in Channels, Destroy(c)
  PROVE  \E role \in Roles : Promise!Close(role)
<1> USE DEF IInv
<1>1. /\ Live(c) /\ Exists(c)'
      /\ chan[c].role \in Roles
      /\ chan'[c].role = chan[c].role
      /\ ~Live(c)'
      /\ \A b \in Channels : b # c => chan'[b] = chan[b]
  BY DestroyRoles
<1>2. delivered' = delivered /\ wire' = wire
  BY DEF Destroy
<1>3. PICK role \in Roles : role = chan[c].role
  BY <1>1
<1>4. Endpoint(role) = [state |-> "open", epoch |-> chan[c].epoch, log |-> Log(c)]
  BY <1>1, <1>3, EndpointIs DEF EndpointsAre, SInv
<1>5. \A b \in Channels : Live(b)' => chan'[b].role # role
  BY <1>1, <1>3 DEF SInv, OneLive, Live, Exists
<1>6. Endpoint(role)' = [state |-> "closed"]
  BY <1>1, <1>3, <1>5, EndpointIs DEF EndpointsAre
<1>7. \A r \in Roles \ {role} : Endpoint(r)' = Endpoint(r)
  BY <1>1, <1>2, <1>3, OtherEndpoints DEF Live
<1>8. Endpoints' = [Endpoints EXCEPT ![role] = [state |-> "closed"]]
  BY <1>6, <1>7, OneEndpoint
<1>9. Endpoints[role].state = "open"
  BY <1>4 DEF Endpoints
<1>10. Sent' = Sent
  BY <1>2 DEF Sent
<1>11. Promise!Close(role)
  BY <1>8, <1>9, <1>10
     DEF Promise!Close, Promise!IsOpen, Promise!Closed, Endpoints, Sent
<1> QED BY <1>11

(* A step of a call that neither delivers nor ends a rotation is none of   *)
(* the abstract system.                                                    *)
LEMMA StutterIs ==
  ASSUME SInv, SInv', chan' = chan, delivered' = delivered, wire' = wire
  PROVE  UNCHANGED <<Endpoints, Sent>>
<1>1. ASSUME NEW r \in Roles PROVE Endpoint(r)' = Endpoint(r)
  BY SameEndpoint DEF SInv, Exists
<1> QED BY <1>1 DEF Endpoints, Sent

(* Every step of serial use is a step of ReplayProtection or a stutter. *)
LEMMA StepSimulation ==
  ASSUME IInv, SInv, IInv', SInv', [SerialNext]_vars
  PROVE  [Promise!Next]_<<Endpoints, Sent>>
<1>1. CASE SerialNext
  <2>1. CASE \E c \in Channels, role \in Roles : Establish(c, role)
    BY <2>1, EstablishIs DEF Promise!Next
  <2>2. CASE \E c \in Channels, q \in SeqNumbers : Encrypt(c, q)
    BY <2>2, EncryptIs DEF Promise!Next
  <2>3. CASE \E d \in Calls, c \in Channels, m \in Arrivals : BeginDecrypt(d, c, m)
    BY <2>3, StutterIs DEF BeginDecrypt
  <2>4. CASE \E d \in Calls : Deliver(d)
    BY <2>4, DeliverIs DEF Promise!Next
  <2>5. CASE \E d \in Calls : Reject(d)
    BY <2>5, RejectEffect, StutterIs DEF Reject, IInv
  <2>6. CASE \E d \in Calls, c \in Channels : BeginRotate(d, c)
    BY <2>6, StutterIs DEF BeginRotate
  <2>7. CASE \E d \in Calls, c \in Channels : FinishRotate(d, c)
    BY <2>7, RotateIs DEF Promise!Next
  <2>8. CASE \E c \in Channels : Destroy(c)
    BY <2>8, DestroyIs DEF Promise!Next
  <2> QED BY <1>1, <2>1, <2>2, <2>3, <2>4, <2>5, <2>6, <2>7, <2>8
          DEF SerialNext, Next
<1>2. CASE UNCHANGED vars
  BY <1>2, StutterIs DEF vars
<1> QED BY <1>1, <1>2

(* An application that awaits each call gets what ReplayProtection         *)
(* promises, for every window size and any number of objects and calls:    *)
(* establishChannel, encryptChannelMessage, decryptChannelMessage,         *)
(* rotateChannel and destroyChannel implement it.                          *)
THEOREM SerialUseKeepsPromise == SerialSpec => KeepsPromise
<1>1. Init => Promise!Init
  <2> SUFFICES ASSUME Init PROVE Promise!Init
    OBVIOUS
  <2>1. ASSUME NEW role \in Roles PROVE Endpoint(role) = [state |-> "new"]
    BY EndpointIs DEF EndpointsAre, Init, Exists
  <2> QED BY <2>1 DEF Promise!Init, Promise!New, Init
<1>2. /\ IInv /\ SInv /\ (IInv /\ SInv)' /\ [SerialNext]_vars
      => [Promise!Next]_<<Endpoints, Sent>>
  BY StepSimulation
<1>3. [Promise!Next]_<<Endpoints, Sent>> =>
        [Promise!Next]_<<[role \in Roles |-> Endpoint(role)],
                         {<<m.epoch, m.sequence>> : m \in wire}>>
  BY DEF Endpoints, Sent
<1> QED BY <1>1, <1>2, <1>3, SerialInvariance, PTL
        DEF SerialSpec, KeepsPromise, Promise!Spec
=============================================================================
