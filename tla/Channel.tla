------------------------------- MODULE Channel -------------------------------
(***************************************************************************)
(* The encrypted channels of @me2em/crypto: the two endpoints of one       *)
(* shared secret, the messages between them, the sliding replay window,    *)
(* rotation to a new epoch and destruction.                                *)
(*                                                                         *)
(* Grain of atomicity: decryptChannelMessage and rotateChannel run to      *)
(* their first await, which ends with the root key copied for HKDF, and    *)
(* then from their last await to the end; other calls come in between.     *)
(* encryptChannelMessage reads nothing after its first await, so it is one *)
(* step: its result may only be late, as any message may.  A call that     *)
(* throws before its first await changes nothing and is no step at all.    *)
(***************************************************************************)
EXTENDS Integers, Sequences

CONSTANTS
  Channels,      \* Channel objects
  Roles,         \* the endpoints, each of which establishes one channel
  Calls,         \* decrypt and rotate calls in flight
  SeqNumbers,    \* sequence numbers the application passes
  SeqMod,        \* width of the sequence in the key derivation: setUint32
  WindowSize,    \* REPLAY_WINDOW_SIZE
  MaxEpoch,      \* bound: rotations of a channel
  MaxDelivered,  \* bound: messages a Channel object delivers
  NoSeal

ASSUME SeqNumbersAreNat == SeqNumbers \subseteq Nat
ASSUME SeqModIsPos == SeqMod \in Nat \ {0}
ASSUME WindowSizeIsPos == WindowSize \in Nat \ {0}
ASSUME ChannelBoundsAreNat == MaxEpoch \in Nat /\ MaxDelivered \in Nat
ASSUME NoSealIsNoSeal == NoSeal \notin Nat \X Nat

(* "sealed" is the key the ciphertext authenticates under, NoSeal when it  *)
(* was damaged or made up on the way.                                      *)
ChannelMessage == [epoch : Nat, sequence : SeqNumbers,
                   sealed : (Nat \X Nat) \cup {NoSeal}]

VARIABLES
  chan,      \* chan[c]: the public fields and the internals of c
  calls,     \* calls[d]: the call d is in the middle of
  wire,      \* messages encrypted; what comes of them is Arrivals
  recorded,  \* history: sequences that entered c's window, in order
  delivered  \* history: what c's decrypt calls returned, in order

vars == <<chan, calls, wire, recorded, delivered>>

Unused == [epoch |-> -1]
Idle == [op |-> "idle"]

(* live: the WeakMap has internals for the object.  A call in flight keeps *)
(* hold of the window of an object that is no longer live.                 *)
Exists(c) == chan[c] # Unused
Live(c) == Exists(c) /\ chan[c].live

(***************************************************************************)
(* Both endpoints derive the same root of each epoch, so the root is named *)
(* by its epoch.                                                           *)
(***************************************************************************)
MessageKey(epoch, q) == <<epoch, q % SeqMod>>

(***************************************************************************)
(* The network loses, repeats, reorders, alters and injects.  decryptAead  *)
(* is given no additional data, so a header is not authenticated: whatever *)
(* was encrypted, and ciphertexts that authenticate under no key, arrive   *)
(* under any header.                                                       *)
(***************************************************************************)
Arrivals == [epoch : 0..MaxEpoch, sequence : SeqNumbers,
             sealed : {m.sealed : m \in wire} \cup {NoSeal}]

Has(window, q) == \E i \in DOMAIN window : window[i] = q

(* Mutant: a sequence recorded twice moves to the end of the window. *)
SlideRefresh(window, q) ==
  LET rest == SelectSeq(window, LAMBDA x : x # q)
  IN  IF Len(rest) = WindowSize THEN Append(Tail(rest), q) ELSE Append(rest, q)

(* Mutant: nothing is evicted. *)
SlideKeepAll(window, q) == IF Has(window, q) THEN window ELSE Append(window, q)

(* seenSeqs.add, then the eviction of the oldest entry. *)
Slide(window, q) ==
  LET added == IF Has(window, q) THEN window ELSE Append(window, q)
  IN  IF Len(added) > WindowSize THEN Tail(added) ELSE added

-----------------------------------------------------------------------------
Init ==
  /\ chan = [c \in Channels |-> Unused]
  /\ calls = [d \in Calls |-> Idle]
  /\ wire = {}
  /\ recorded = [c \in Channels |-> <<>>]
  /\ delivered = [c \in Channels |-> <<>>]

Fresh(role, epoch) ==
  [role |-> role, epoch |-> epoch, live |-> TRUE, seenSeqs |-> <<>>]

(* establishChannel, once at each endpoint. *)
Establish(c, role) ==
  /\ ~Exists(c)
  /\ \A b \in Channels : Exists(b) => chan[b].role # role
  /\ chan' = [chan EXCEPT ![c] = Fresh(role, 0)]
  /\ UNCHANGED <<calls, wire, recorded, delivered>>

Encrypt(c, q) ==
  /\ Live(c)
  /\ wire' = wire \cup {[epoch |-> chan[c].epoch, sequence |-> q,
                         sealed |-> MessageKey(chan[c].epoch, q)]}
  /\ UNCHANGED <<chan, calls, recorded, delivered>>

(* Mutant: only the epoch is looked at before the key is derived. *)
AcceptableUnseen(c, m) == m.epoch = chan[c].epoch

Acceptable(c, m) ==
  /\ m.epoch = chan[c].epoch
  /\ ~Has(chan[c].seenSeqs, m.sequence)

(* decryptChannelMessage up to its first await. *)
BeginDecrypt(d, c, m) ==
  /\ calls[d] = Idle
  /\ Live(c)
  /\ Acceptable(c, m)
  /\ Len(delivered[c]) < MaxDelivered
  /\ calls' = [calls EXCEPT ![d] =
                 [op |-> "decrypt", chan |-> c, msg |-> m,
                  began |-> Len(recorded[c])]]
  /\ UNCHANGED <<chan, wire, recorded, delivered>>

(* Mutant: decryption without authentication. *)
OpensAnything(c, m) == TRUE

(* decryptAead under the key derived from c's root. *)
Opens(c, m) == m.sealed = MessageKey(chan[c].epoch, m.sequence)

(* The plaintext is returned and its sequence recorded, in the window the  *)
(* call took hold of when it began.                                        *)
Deliver(d) ==
  LET c == calls[d].chan
      m == calls[d].msg
  IN  /\ calls[d].op = "decrypt"
      /\ Opens(c, m)
      /\ chan' = [chan EXCEPT ![c].seenSeqs = Slide(@, m.sequence)]
      /\ recorded' = IF Has(chan[c].seenSeqs, m.sequence)
                       THEN recorded
                       ELSE [recorded EXCEPT ![c] = Append(@, m.sequence)]
      /\ delivered' = [delivered EXCEPT ![c] =
                         Append(@, [msg |-> m, began |-> calls[d].began])]
      /\ calls' = [calls EXCEPT ![d] = Idle]
      /\ UNCHANGED wire

(* Mutant: the sequence is recorded before the message is authenticated. *)
AfterFailureRecorded(window, m) == Slide(window, m.sequence)

AfterFailure(window, m) == window

(* DECRYPTION_FAILED: nothing is recorded. *)
Reject(d) ==
  LET c == calls[d].chan
      m == calls[d].msg
  IN  /\ calls[d].op = "decrypt"
      /\ ~Opens(c, m)
      /\ chan' = [chan EXCEPT ![c].seenSeqs = AfterFailure(@, m)]
      /\ calls' = [calls EXCEPT ![d] = Idle]
      /\ UNCHANGED <<wire, recorded, delivered>>

-----------------------------------------------------------------------------
(* rotateChannel up to its await. *)
BeginRotate(d, c) ==
  /\ calls[d] = Idle
  /\ Live(c)
  /\ chan[c].epoch < MaxEpoch
  /\ calls' = [calls EXCEPT ![d] = [op |-> "rotate", chan |-> c]]
  /\ UNCHANGED <<chan, wire, recorded, delivered>>

(* Mutant: the internals of the old object are kept. *)
RotatedAwayKept(old) == old

(* dropInternals: the old object is dead, if it is not already.  Its       *)
(* window is not cleared.                                                  *)
RotatedAway(old) == [old EXCEPT !.live = FALSE]

Successor(old) == Fresh(old.role, old.epoch + 1)

FinishRotate(d, new) ==
  LET old == calls[d].chan
  IN  /\ calls[d].op = "rotate"
      /\ ~Exists(new)
      /\ chan' = [chan EXCEPT ![old] = RotatedAway(@),
                              ![new] = Successor(chan[old])]
      /\ calls' = [calls EXCEPT ![d] = Idle]
      /\ UNCHANGED <<wire, recorded, delivered>>

(* destroyChannel clears the window, then drops the internals. *)
Destroy(c) ==
  /\ Live(c)
  /\ chan' = [chan EXCEPT ![c].live = FALSE, ![c].seenSeqs = <<>>]
  /\ UNCHANGED <<calls, wire, recorded, delivered>>

Next ==
  \/ \E c \in Channels, role \in Roles : Establish(c, role)
  \/ \E c \in Channels, q \in SeqNumbers : Encrypt(c, q)
  \/ \E d \in Calls, c \in Channels, m \in Arrivals : BeginDecrypt(d, c, m)
  \/ \E d \in Calls : Deliver(d) \/ Reject(d)
  \/ \E d \in Calls, c \in Channels : BeginRotate(d, c) \/ FinishRotate(d, c)
  \/ \E c \in Channels : Destroy(c)

Spec == Init /\ [][Next]_vars
-----------------------------------------------------------------------------
ChannelState == [role : Roles, epoch : Nat, live : BOOLEAN,
                 seenSeqs : Seq(SeqNumbers)]

CallState ==
       [op : {"decrypt"}, chan : Channels, msg : ChannelMessage, began : Nat]
  \cup [op : {"rotate"}, chan : Channels]

TypeOK ==
  /\ chan \in [Channels -> ChannelState \cup {Unused}]
  /\ calls \in [Calls -> CallState \cup {Idle}]
  /\ wire \subseteq ChannelMessage
  /\ recorded \in [Channels -> Seq(SeqNumbers)]
  /\ delivered \in
       [Channels -> Seq([msg : ChannelMessage, began : Nat])]
  /\ \A c \in Channels : Exists(c) => Len(chan[c].seenSeqs) <= WindowSize

(* The last WindowSize of the first n entries of s. *)
Recent(s, n) == SubSeq(s, IF n > WindowSize THEN n - WindowSize + 1 ELSE 1, n)

(* message-keys.ts: the window of a live channel is exactly its WindowSize *)
(* most recently recorded sequences, oldest first, whatever calls overlap  *)
(* and in whatever order they finish.                                      *)
WindowIsRecent ==
  \A c \in Channels : Live(c) =>
    chan[c].seenSeqs = Recent(recorded[c], Len(recorded[c]))

(* message-keys.ts: "failed attempts must not consume window slots".  Only *)
(* sequences of delivered messages are in a window.                        *)
WindowHoldsDelivered ==
  \A c \in Channels : Exists(c) =>
    \A i \in DOMAIN chan[c].seenSeqs : \E j \in DOMAIN delivered[c] :
      delivered[c][j].msg.sequence = chan[c].seenSeqs[i]

(* A decrypt never returns a message whose sequence was among the last     *)
(* WindowSize recorded when the call began.                                *)
RecordedIsNotReplayed ==
  \A c \in Channels : \A i \in DOMAIN delivered[c] :
    ~Has(Recent(recorded[c], delivered[c][i].began),
         delivered[c][i].msg.sequence)

(* Whatever the network makes of the headers, what an endpoint delivers    *)
(* was encrypted, by the other endpoint or by itself, in the endpoint's    *)
(* own epoch, under a sequence that the derivation of the key does not     *)
(* tell from the one delivered: they agree modulo SeqMod, no more.         *)
DeliveredIsAuthentic ==
  \A c \in Channels : \A i \in DOMAIN delivered[c] :
    \E m \in wire :
      /\ m.sealed = delivered[c][i].msg.sealed
      /\ m.epoch = chan[c].epoch
      /\ m.sequence % SeqMod = delivered[c][i].msg.sequence % SeqMod

(* message-keys.ts: "A duplicate inside the window is rejected": between   *)
(* two deliveries of one sequence lie at least WindowSize others.          *)
DuplicateIsRejected ==
  \A c \in Channels : \A i, j \in DOMAIN delivered[c] :
    (i < j /\ delivered[c][i].msg.sequence = delivered[c][j].msg.sequence)
      => j - i > WindowSize
=============================================================================
