--------------------------- MODULE ReplayProtection ---------------------------
(***************************************************************************)
(* What the channels of @me2em/crypto promise an application that awaits   *)
(* each call before it makes the next: an endpoint is open in one epoch at *)
(* a time, delivers only what was encrypted in that epoch, never delivers  *)
(* under a sequence among the last WindowSize it delivered in that epoch,  *)
(* moves on to the next epoch with nothing delivered, and stays closed     *)
(* once it is closed.  It does not promise the sequence the message was    *)
(* encrypted under, only one that agrees with it modulo SeqMod; so one     *)
(* message may be delivered twice, under two such sequences.               *)
(***************************************************************************)
EXTENDS Integers, Sequences

CONSTANTS Roles, SeqNumbers, SeqMod, WindowSize

VARIABLES
  endpoint, \* endpoint[role]: [state, epoch], sequences delivered in epoch
  sent      \* <<epoch, sequence>> of the messages encrypted

Closed == [state |-> "closed"]
New == [state |-> "new"]
Open(epoch, log) == [state |-> "open", epoch |-> epoch, log |-> log]

IsOpen(role) == endpoint[role].state = "open"

Init ==
  /\ endpoint = [role \in Roles |-> New]
  /\ sent = {}

Establish(role) ==
  /\ endpoint[role] = New
  /\ endpoint' = [endpoint EXCEPT ![role] = Open(0, <<>>)]
  /\ UNCHANGED sent

Send(role) ==
  /\ IsOpen(role)
  /\ \E q \in SeqNumbers : sent' = sent \cup {<<endpoint[role].epoch, q>>}
  /\ UNCHANGED endpoint

Deliver(role) ==
  /\ IsOpen(role)
  /\ \E m \in sent, q \in SeqNumbers : LET log == endpoint[role].log IN
       /\ m[1] = endpoint[role].epoch
       /\ m[2] % SeqMod = q % SeqMod
       /\ \A i \in DOMAIN log : log[i] = q => Len(log) - i >= WindowSize
       /\ endpoint' = [endpoint EXCEPT ![role].log = Append(@, q)]
  /\ UNCHANGED sent

Rotate(role) ==
  /\ IsOpen(role)
  /\ endpoint' =
       [endpoint EXCEPT ![role] = Open(endpoint[role].epoch + 1, <<>>)]
  /\ UNCHANGED sent

Close(role) ==
  /\ IsOpen(role)
  /\ endpoint' = [endpoint EXCEPT ![role] = Closed]
  /\ UNCHANGED sent

Next == \E role \in Roles : \/ Establish(role) \/ Send(role) \/ Deliver(role)
                            \/ Rotate(role) \/ Close(role)

Spec == Init /\ [][Next]_<<endpoint, sent>>
=============================================================================
