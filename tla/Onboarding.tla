----------------------------- MODULE Onboarding -----------------------------
(***************************************************************************)
(* useCreateIdentity and useImportSeed of @me2em/react, with the reducer   *)
(* they share, over one provider.                                          *)
(*                                                                         *)
(* Seeds are derived from words by a slow function; derivations end in any *)
(* order.  The reducers' states are kept as dispatched; confirmWords tests *)
(* the state of the last render.  An application may call several          *)
(* operations before the microtasks run; a render, or the end of a         *)
(* derivation, comes after them.                                           *)
(***************************************************************************)
EXTENDS Provider

CONSTANT MaxDerivations    \* bound: seeds derived from words

ASSUME FlowAssumption ==
  /\ MaxDerivations \in Nat
  /\ 0..MaxDerivations \subseteq Seeds /\ None \notin Seeds
  /\ {"create", "import", "app"} \subseteq Callers

VARIABLES
  derivations,   \* derivations[n]: which hook waits for the n-th seed
  create,        \* useCreateIdentity's reducer state
  import,        \* useImportSeed's
  seen,          \* create, as last rendered
  outdated       \* history: confirmWords was called before its state was rendered

flowVars == <<derivations, create, import, seen, outdated>>
vars == <<providerVars, flowVars>>

(* "ready" is declared too, but no transition reaches it. *)
Statuses == {"idle", "seed-generated", "verified", "imported", "error"}

(* The words are there as long as the status is seed-generated, the error  *)
(* when it is error; seed stands for identitySeed.                         *)
FlowState == [status : Statuses, seed : {None} \cup Seeds]

InitialFlow == [status |-> "idle", seed |-> None]

Failed(state) == [status |-> "error", seed |-> None]

(* identityFlowReducer; an unexpected event leaves the state as it is. *)
Dispatched(state, type, seed) ==
  CASE type = "GENERATE" /\ state.status = "idle" ->
         [status |-> "seed-generated", seed |-> seed]
    [] type = "IMPORT" /\ state.status = "idle" ->
         [status |-> "imported", seed |-> seed]
    [] type = "CONFIRM_WORDS" /\ state.status = "seed-generated" ->
         [state EXCEPT !.status = "verified"]
    [] type = "FAIL" /\ state.status # "error" -> Failed(state)
    [] type = "RESET" -> InitialFlow
    [] OTHER -> state

Init ==
  /\ ProviderInit
  /\ derivations = <<>>
  /\ create = InitialFlow /\ import = InitialFlow /\ seen = InitialFlow
  /\ outdated = FALSE

-----------------------------------------------------------------------------
(* The application's calls. *)

Derive(hook) ==
  /\ Len(derivations) < MaxDerivations
  /\ derivations' = Append(derivations, hook)

Generate ==
  /\ Derive("create")
  /\ UNCHANGED <<providerVars, create, import, seen, outdated>>

ConfirmWords ==
  /\ seen.status = "seed-generated"
  /\ create' = Dispatched(create, "CONFIRM_WORDS", None)
  /\ outdated' = (outdated \/ seen # create)
  /\ Activate("create", seen.seed, TRUE)
  /\ UNCHANGED <<derivations, import, seen>>

ImportWords ==
  /\ Derive("import")
  /\ UNCHANGED <<providerVars, create, import, seen, outdated>>

ImportInvalidWords ==
  /\ import' = Dispatched(import, "FAIL", None)
  /\ UNCHANGED <<providerVars, derivations, create, seen, outdated>>

FailCreate ==
  /\ create' = Dispatched(create, "FAIL", None)
  /\ UNCHANGED <<providerVars, derivations, import, seen, outdated>>

ResetCreate ==
  /\ create' = Dispatched(create, "RESET", None)
  /\ Clear
  /\ UNCHANGED <<derivations, import, seen, outdated>>

ResetImport ==
  /\ import' = Dispatched(import, "RESET", None)
  /\ Clear
  /\ UNCHANGED <<derivations, create, seen, outdated>>

ActivateDirect ==
  /\ \E derives \in BOOLEAN : Activate("app", 0, derives)
  /\ UNCHANGED flowVars

ClearDirect == Clear /\ UNCHANGED flowVars

AppCall ==
  /\ mounted
  /\ \/ Generate \/ ConfirmWords \/ ImportWords \/ ImportInvalidWords \/ FailCreate
     \/ ResetCreate \/ ResetImport \/ ActivateDirect \/ ClearDirect
     \/ Unmount /\ UNCHANGED flowVars

-----------------------------------------------------------------------------
(* Mutant: confirmWords does not look at what activateIdentity returns. *)
ConfirmedUnchecked(n) == create

(* The rest of confirmWords, when its activation has settled. *)
Confirmed(n) ==
  IF acts[n].by = "create" /\ ~Wins(n) THEN Dispatched(create, "FAIL", None) ELSE create

ActivationSettles(n) ==
  /\ Settle(n)
  /\ create' = Confirmed(n)
  /\ UNCHANGED <<derivations, import, seen, outdated>>

(* The continuations of the n-th derivation. *)
Generated(n) ==
  /\ derivations[n] = "create"
  /\ \E type \in {"GENERATE", "FAIL"} : create' = Dispatched(create, type, n)
  /\ UNCHANGED <<providerVars, import>>

Imported(n) ==
  /\ derivations[n] = "import"
  /\ import' = Dispatched(import, "IMPORT", n)
  /\ Activate("import", n, TRUE)
  /\ UNCHANGED create

ImportFails(n) ==
  /\ derivations[n] = "import"
  /\ import' = Dispatched(import, "FAIL", None)
  /\ UNCHANGED <<providerVars, create>>

DerivationEnds(n) ==
  /\ Generated(n) \/ Imported(n) \/ ImportFails(n)
  /\ derivations' = [derivations EXCEPT ![n] = "done"]
  /\ UNCHANGED <<seen, outdated>>

Render ==
  /\ mounted
  /\ seen # create
  /\ seen' = create
  /\ UNCHANGED <<providerVars, derivations, create, import, outdated>>

Next ==
  \/ AppCall
  \/ \E n \in DOMAIN acts : ActivationSettles(n)
  \/ Settling = {} /\ (Render \/ \E n \in DOMAIN derivations : DerivationEnds(n))

Spec == Init /\ [][Next]_vars
-----------------------------------------------------------------------------
(* A flow holds a seed exactly when it has one to confirm or has used it. *)
FlowOK(flow) ==
  /\ flow \in FlowState
  /\ flow.seed # None <=> flow.status \in {"seed-generated", "verified", "imported"}

TypeOK ==
  /\ ProviderTypeOK
  /\ derivations \in Seq({"create", "import", "done"})
  /\ Len(derivations) <= MaxDerivations
  /\ FlowOK(create) /\ FlowOK(import) /\ FlowOK(seen)
  /\ outdated \in BOOLEAN

(* Me2emProvider.tsx: the identity is unreachable after unmount and what   *)
(* was in flight is invalidated: once all has settled no key is left but   *)
(* that of an activation begun after the unmount, by an import that was    *)
(* still deriving its seed.                                                *)
UnmountZeroes ==
  ~mounted => \A n \in live :
    acts[n].stage # "settling" => n > cleared /\ acts[n].by = "import"

(* A flow is not verified unless an activation of its very seed succeeded  *)
(* or is about to, whatever else was activated or cleared meanwhile; for   *)
(* an application that lets its calls render.                              *)
VerifiedIsActivated ==
  create.status = "verified" /\ ~outdated =>
    \E n \in DOMAIN acts :
      acts[n].by = "create" /\ acts[n].seed = create.seed /\ acts[n].stage # "lost"
=============================================================================
