------------------------------ MODULE Provider ------------------------------
(***************************************************************************)
(* Me2emProvider of @me2em/react: the identity it holds, the generation    *)
(* ticket, and the activations made through it.                            *)
(*                                                                         *)
(* Identity.fromSeed derives before it first waits, so an activation has   *)
(* its object, or has failed, when the call returns; what follows the      *)
(* await is a microtask of its own, and microtasks run in order.  The n-th *)
(* activation stands for the object it derived.                            *)
(***************************************************************************)
EXTENDS Naturals, Sequences

CONSTANTS
  None,
  Seeds,        \* seeds an identity may be activated from
  Callers,      \* who activates
  MaxTickets    \* bound: activations and clears

ASSUME ProviderAssumption == None \notin Nat /\ MaxTickets \in Nat

VARIABLES
  gen,        \* genRef
  current,    \* identityRef, and the identity shown while mounted
  acts,       \* acts[n]: the n-th activation
  live,       \* the objects that have not been disposed
  mounted,
  cleared     \* history: activations made before the last clear or unmount

providerVars == <<gen, current, acts, live, mounted, cleared>>

Activation == [by : Callers, seed : Seeds, ticket : Nat,
               stage : {"settling", "won", "lost"}]

ProviderInit ==
  /\ gen = 0 /\ current = None /\ acts = <<>> /\ live = {}
  /\ mounted = TRUE /\ cleared = 0

Settling == {n \in DOMAIN acts : acts[n].stage = "settling"}

(* activateIdentity up to its await; derives is FALSE for a malformed seed. *)
Activate(by, seed, derives) ==
  /\ gen < MaxTickets
  /\ gen' = gen + 1
  /\ acts' = Append(acts, [by |-> by, seed |-> seed, ticket |-> gen + 1,
                           stage |-> "settling"])
  /\ live' = IF derives THEN live \cup {Len(acts) + 1} ELSE live
  /\ UNCHANGED <<current, mounted, cleared>>

(* Mutant: the ticket is not compared. *)
WinsAlways(n) == n \in live

Wins(n) == n \in live /\ acts[n].ticket = gen

Win(n) ==
  /\ Wins(n)
  /\ acts' = [acts EXCEPT ![n].stage = "won"]
  /\ live' = live \ {current}
  /\ current' = n

(* Mutant: what was superseded is only dropped. *)
LoseUndisposed(n) ==
  /\ ~Wins(n)
  /\ acts' = [acts EXCEPT ![n].stage = "lost"]
  /\ UNCHANGED <<live, current>>

Lose(n) ==
  /\ ~Wins(n)
  /\ acts' = [acts EXCEPT ![n].stage = "lost"]
  /\ live' = live \ {n}
  /\ UNCHANGED current

Settle(n) ==
  /\ acts[n].stage = "settling"
  /\ \A m \in Settling : n <= m
  /\ Win(n) \/ Lose(n)
  /\ UNCHANGED <<gen, mounted, cleared>>

(* The identity is disposed and gone. *)
Dropped ==
  /\ live' = live \ {current}
  /\ current' = None
  /\ cleared' = Len(acts)
  /\ UNCHANGED acts

(* Mutant: a clear does not invalidate activations in flight. *)
ClearUnticketed ==
  /\ gen < MaxTickets
  /\ Dropped
  /\ UNCHANGED <<gen, mounted>>

Clear ==
  /\ gen < MaxTickets
  /\ gen' = gen + 1
  /\ Dropped
  /\ UNCHANGED mounted

(* Mutant: the cleanup does not invalidate activations in flight. *)
UnmountUnticketed ==
  /\ mounted
  /\ mounted' = FALSE
  /\ Dropped
  /\ UNCHANGED gen

Unmount ==
  /\ mounted
  /\ mounted' = FALSE
  /\ gen' = gen + 1
  /\ Dropped
-----------------------------------------------------------------------------
ProviderTypeOK ==
  /\ gen \in Nat
  /\ acts \in Seq(Activation)
  /\ current \in {None} \cup DOMAIN acts
  /\ live \subseteq DOMAIN acts
  /\ mounted \in BOOLEAN
  /\ cleared \in 0..Len(acts)

(* BACKLOG BL-47: no key material outlives its use.  An object that was    *)
(* not disposed is the provider's identity, or its activation is yet to    *)
(* settle.                                                                 *)
KeysAreOwned == \A n \in live : n = current \/ acts[n].stage = "settling"

(* However activations, clears and an unmount overlap, the identity is one *)
(* that was not disposed, none begun later has succeeded, and nothing was  *)
(* cleared or unmounted since it was begun.                                *)
NewestWins ==
  current # None =>
    /\ current \in live /\ acts[current].stage = "won"
    /\ \A n \in DOMAIN acts : n > current => acts[n].stage # "won"
    /\ current > cleared

(* Refinement: the ticket holds the slot open to one activation.           *)
Eligible == {n \in Settling : acts[n].ticket = gen}
Told == {n \in DOMAIN acts : acts[n].stage = "won"}

Promise == INSTANCE IdentitySlot WITH
  begun <- Len(acts),
  open <- Settling,
  eligible <- Eligible,
  slot <- current,
  keys <- live,
  told <- Told

(* However activations, clears and an unmount overlap, and whichever hooks *)
(* make them, the provider implements IdentitySlot: an activation is       *)
(* decided in one step, it takes the slot only if none was begun and       *)
(* nothing emptied since, and one refused leaves no key.                   *)
KeepsPromise == Promise!Spec
=============================================================================
