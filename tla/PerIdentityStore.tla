--------------------------- MODULE PerIdentityStore ---------------------------
(***************************************************************************)
(* What useIdentityContext promises an application that begins nothing     *)
(* while a call is in flight: a cell of its own for every identity.  A     *)
(* call is asked, takes effect once, in one step, on the cell of the       *)
(* identity the storage is open for, and is then shown; one that fails     *)
(* has no effect.  Connections, keys, transactions, tickets and cancelled  *)
(* effects are left to IdentityContext.                                    *)
(***************************************************************************)
CONSTANTS Identities, None

VARIABLES
  user,    \* the provider's identity
  at,      \* the identity the storage is open for
  cell,    \* cell[i]: the context stored for i, or None
  call,    \* what is asked and not yet shown
  shown,   \* the context the hook returns
  misused  \* something was begun while a call was in flight

Idle == [op |-> "none", who |-> None, data |-> None, answered |-> FALSE]

Asked(op, data) == [op |-> op, who |-> user, data |-> data, answered |-> FALSE]

Init ==
  /\ user \in Identities \cup {None}
  /\ \A i \in Identities : cell[i] # None => cell[i].owner = i
  /\ at = None /\ call = Idle /\ shown = None /\ misused = FALSE

(* The provider's identity changes, also while a call is in flight. *)
Switch ==
  /\ user' \in Identities \cup {None}
  /\ UNCHANGED <<at, cell, call, shown, misused>>

Ask(op, data) ==
  /\ call = Idle
  /\ call' = Asked(op, data)
  /\ UNCHANGED <<user, cell, shown, misused>>

(* The storage is opened for the user, or already is, and loads. *)
Load == user # None /\ Ask("load", None) /\ at' = user

Save ==
  /\ user # None /\ at = user
  /\ Ask("save", call'.data)
  /\ call'.data # None /\ call'.data.owner = user
  /\ at' = at

(* Also after its user has left, while the storage is open. *)
Clear == at # None /\ user \in {None, at} /\ Ask("clear", None) /\ at' = at

Answer(result) ==
  /\ call # Idle /\ ~call.answered
  /\ call' = [call EXCEPT !.data = result, !.answered = TRUE]
  /\ UNCHANGED <<user, at, shown, misused>>

(* The cell, or nothing where there is no key to open it. *)
Read ==
  /\ call.op = "load"
  /\ Answer(cell[at]) \/ Answer(None)
  /\ UNCHANGED cell

Write ==
  /\ call.op \in {"save", "clear"}
  /\ Answer(call.data)
  /\ cell' = [cell EXCEPT ![at] = call.data]

Fail ==
  /\ call # Idle /\ ~call.answered
  /\ call' = Idle
  /\ UNCHANGED <<user, at, cell, shown, misused>>

(* What was loaded, and what the present user has written, is shown. *)
Show ==
  /\ call # Idle /\ call.answered
  /\ shown' = IF call.op = "load" \/ call.who = user THEN call.data ELSE shown
  /\ call' = Idle
  /\ UNCHANGED <<user, at, cell, misused>>

Leave ==
  /\ user = None /\ call = Idle
  /\ shown' = None
  /\ UNCHANGED <<user, at, cell, call, misused>>

(* Nothing is promised once calls overlap. *)
Misuse == misused'

Next ==
  \/ Switch \/ Load \/ Save \/ Clear \/ Read \/ Write \/ Fail \/ Show \/ Leave
  \/ Misuse

Spec == Init /\ [][Next]_<<user, at, cell, call, shown, misused>>
=============================================================================
