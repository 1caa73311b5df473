---------------------------- MODULE IdentitySlot ----------------------------
(***************************************************************************)
(* What Me2emProvider promises whoever activates an identity: one slot,    *)
(* open only to the newest activation, and to none begun before it was     *)
(* last emptied.  An activation is decided once, in one step: it takes the *)
(* slot and is told so, or it leaves nothing behind.  Keys are those       *)
(* somebody still answers for.  Tickets, the order in which microtasks run *)
(* and the hooks that activate are left to Provider and Onboarding.        *)
(***************************************************************************)
EXTENDS Naturals

CONSTANT None

VARIABLES
  begun,      \* how many activations were begun; they are numbered from 1
  open,       \* those not decided yet
  eligible,   \* the one of them that may take the slot, if there is one
  slot,       \* whose identity is active, or None
  keys,       \* the activations whose key material exists
  told        \* those that were told they succeeded

slotVars == <<begun, open, eligible, slot, keys, told>>

Init ==
  /\ begun = 0 /\ slot = None
  /\ open = {} /\ eligible = {} /\ keys = {} /\ told = {}

(* From here on no earlier activation can take the slot. *)
Begin ==
  /\ begun' = begun + 1
  /\ open' = open \cup {begun'}
  /\ eligible' = {begun'}
  /\ keys' \in {keys, keys \cup {begun'}}
  /\ UNCHANGED <<slot, told>>

Decide(n) ==
  /\ n \in open
  /\ open' = open \ {n}
  /\ eligible' = eligible \ {n}
  /\ UNCHANGED begun

(* Its predecessor's keys are destroyed as it takes the slot. *)
Take(n) ==
  /\ Decide(n)
  /\ n \in eligible \cap keys
  /\ slot' = n
  /\ keys' = keys \ {slot}
  /\ told' = told \cup {n}

Refuse(n) ==
  /\ Decide(n)
  /\ n \notin eligible \cap keys
  /\ keys' = keys \ {n}
  /\ UNCHANGED <<slot, told>>

(* Cleared or unmounted: what is open can only be refused. *)
Empty ==
  /\ slot' = None
  /\ keys' = keys \ {slot}
  /\ eligible' = {}
  /\ UNCHANGED <<begun, open, told>>

Next == Begin \/ Empty \/ \E n \in open : Take(n) \/ Refuse(n)

Spec == Init /\ [][Next]_slotVars
=============================================================================
