----------------------------- MODULE SerialChannel -----------------------------
(***************************************************************************)
(* Channel used by an application that awaits each call before it makes    *)
(* the next, and the promise of ReplayProtection that it then keeps.       *)
(* encryptChannelMessage is one step, so it is never in another's way.     *)
(***************************************************************************)
EXTENDS Channel

(* No decrypt or rotate begins, and nothing is destroyed, while another    *)
(* call is in flight.                                                      *)
Awaited ==
  /\ \A d, e \in Calls : calls[d] # Idle /\ calls'[e] # Idle => d = e
  /\ \A c \in Channels : Destroy(c) => \A d \in Calls : calls[d] = Idle

SerialNext == Next /\ Awaited

SerialSpec == Init /\ [][SerialNext]_vars

(* The endpoint of a role is its live channel; it is new before it has any *)
(* channel, and closed when it has none that is live.                      *)
Of(role) == {c \in Channels : Exists(c) /\ chan[c].role = role}

Current(role) == CHOOSE c \in Of(role) : chan[c].live

Log(c) == [i \in DOMAIN delivered[c] |-> delivered[c][i].msg.sequence]

Endpoint(role) ==
  IF Of(role) = {} THEN [state |-> "new"]
  ELSE IF \A c \in Of(role) : ~chan[c].live THEN [state |-> "closed"]
  ELSE [state |-> "open", epoch |-> chan[Current(role)].epoch,
        log |-> Log(Current(role))]

Promise == INSTANCE ReplayProtection WITH
  endpoint <- [role \in Roles |-> Endpoint(role)],
  sent <- {<<m.epoch, m.sequence>> : m \in wire}

(* Used serially, the channels of an endpoint keep the promise of          *)
(* ReplayProtection whatever the network makes of the headers: no sequence *)
(* twice within the window, nothing of another epoch, one epoch at a time, *)
(* and no life after destruction.                                          *)
KeepsPromise == Promise!Spec
=============================================================================
