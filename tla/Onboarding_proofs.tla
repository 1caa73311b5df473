-------------------------- MODULE Onboarding_proofs --------------------------
(***************************************************************************)
(* The invariants of Onboarding, for any seeds, callers and bounds.        *)
(*                                                                         *)
(* That the newest activation wins rests on the order of tickets: later    *)
(* activations hold higher ones, none above gen, and those begun before a  *)
(* clear or the unmount are below it.  So an activation whose ticket is    *)
(* gen is the last, and was begun since.                                   *)
(***************************************************************************)
EXTENDS Onboarding, SequenceTheorems, TLAPS

TicketsInOrder ==
  \A n \in DOMAIN acts :
    /\ acts[n].ticket <= gen
    /\ n <= cleared => acts[n].ticket < gen
    /\ \A m \in DOMAIN acts : m < n => acts[m].ticket < acts[n].ticket

(* What is not cleared after the unmount was begun by an import. *)
OnlyImports ==
  ~mounted => \A n \in DOMAIN acts : n > cleared => acts[n].by = "import"

ProviderInv ==
  ProviderTypeOK /\ KeysAreOwned /\ NewestWins /\ TicketsInOrder

IInv == TypeOK /\ ProviderInv /\ OnlyImports /\ VerifiedIsActivated

-----------------------------------------------------------------------------
(* What a sequence of activations is, to the provers. *)
LEMMA Activations ==
  ASSUME ProviderTypeOK
  PROVE  /\ Len(acts) \in Nat /\ DOMAIN acts = 1..Len(acts)
         /\ \A n \in DOMAIN acts :
              /\ acts[n] \in Activation
              /\ acts[n].ticket \in Nat
<1>1. Len(acts) \in Nat /\ DOMAIN acts = 1..Len(acts)
  BY LenProperties DEF ProviderTypeOK
<1>2. \A n \in DOMAIN acts : acts[n] \in Activation
  BY <1>1, ElementOfSeq DEF ProviderTypeOK
<1>3. QED
  BY <1>1, <1>2 DEF Activation

(* What appending an activation leaves and adds. *)
LEMMA Appended ==
  ASSUME NEW by \in Callers, NEW seed \in Seeds, NEW derives \in BOOLEAN,
         ProviderTypeOK, Activate(by, seed, derives)
  PROVE  LET N == Len(acts) + 1 IN
         /\ acts' \in Seq(Activation) /\ Len(acts') = N /\ DOMAIN acts' = 1..N
         /\ \A n \in DOMAIN acts : acts'[n] = acts[n]
         /\ acts'[N] = [by |-> by, seed |-> seed, ticket |-> gen + 1,
                        stage |-> "settling"]
<1> DEFINE a == [by |-> by, seed |-> seed, ticket |-> gen + 1, stage |-> "settling"]
<1>1. a \in Activation
  BY DEF Activation, ProviderTypeOK
<1>2. acts' = Append(acts, a)
  BY DEF Activate
<1> HIDE DEF a
<1>3. acts' \in Seq(Activation)
  BY <1>1, <1>2, AppendProperties DEF ProviderTypeOK
<1>4. DOMAIN acts' = 1..Len(acts')
  BY <1>3, LenProperties
<1>5. QED
  BY <1>1, <1>2, <1>3, <1>4, Activations, AppendProperties DEF ProviderTypeOK, a

LEMMA ActivateKeeps ==
  ASSUME NEW by \in Callers, NEW seed \in Seeds, NEW derives \in BOOLEAN,
         ProviderInv, Activate(by, seed, derives)
  PROVE  ProviderInv'
<1> DEFINE N == Len(acts) + 1
           a == [by |-> by, seed |-> seed, ticket |-> gen + 1, stage |-> "settling"]
<1>1. /\ N \in Nat /\ DOMAIN acts = 1..Len(acts) /\ Len(acts) \in Nat
      /\ gen \in Nat /\ cleared \in 0..Len(acts)
      /\ \A n \in DOMAIN acts : acts[n].ticket \in Nat
  BY Activations DEF ProviderInv, ProviderTypeOK
<1>2. /\ gen' = gen + 1 /\ current' = current /\ mounted' = mounted /\ cleared' = cleared
      /\ live' \subseteq live \cup {N}
      /\ live \subseteq live'
  BY DEF Activate
<1>4. /\ acts' \in Seq(Activation) /\ Len(acts') = N /\ DOMAIN acts' = 1..N
      /\ \A n \in DOMAIN acts : acts'[n] = acts[n]
      /\ acts'[N] = a
  BY Appended DEF ProviderInv
<1>5. ProviderTypeOK'
  BY <1>1, <1>2, <1>4 DEF ProviderInv, ProviderTypeOK
<1>6. KeysAreOwned'
  BY <1>1, <1>2, <1>4 DEF ProviderInv, ProviderTypeOK, KeysAreOwned
<1>7. NewestWins'
  <2>1. current # None => current \in DOMAIN acts
    BY DEF ProviderInv, ProviderTypeOK
  <2>2. QED
    BY <1>1, <1>2, <1>4, <2>1 DEF ProviderInv, NewestWins
<1>8. TicketsInOrder'
  <2>1. acts'[N].ticket = gen + 1
    BY <1>4
  <2> HIDE DEF a
  <2>2. QED
    BY <1>1, <1>2, <1>4, <2>1 DEF ProviderInv, TicketsInOrder
<1>9. QED
  BY <1>5, <1>6, <1>7, <1>8 DEF ProviderInv

LEMMA DroppedKeeps ==
  ASSUME ProviderInv, Dropped, gen' = gen + 1, mounted' \in BOOLEAN
  PROVE  ProviderInv'
<1>1. /\ acts' = acts /\ live' = live \ {current} /\ current' = None
      /\ cleared' = Len(acts)
  BY DEF Dropped
<1>2. /\ gen \in Nat /\ Len(acts) \in Nat /\ DOMAIN acts = 1..Len(acts)
      /\ \A n \in DOMAIN acts : acts[n].ticket \in Nat
  BY Activations DEF ProviderInv, ProviderTypeOK
<1>3. ProviderTypeOK'
  BY <1>1, <1>2 DEF ProviderInv, ProviderTypeOK
<1>4. KeysAreOwned'
  BY <1>1 DEF ProviderInv, KeysAreOwned
<1>5. NewestWins'
  BY <1>1 DEF NewestWins
<1>6. TicketsInOrder'
  BY <1>1, <1>2 DEF ProviderInv, TicketsInOrder
<1>7. QED
  BY <1>3, <1>4, <1>5, <1>6 DEF ProviderInv

(* Settling changes the stage of one activation, and nothing else of any. *)
LEMMA Settled ==
  ASSUME ProviderTypeOK, NEW n \in DOMAIN acts, NEW stage \in {"won", "lost"},
         acts' = [acts EXCEPT ![n].stage = stage]
  PROVE  /\ acts' \in Seq(Activation) /\ Len(acts') = Len(acts)
         /\ DOMAIN acts' = DOMAIN acts
         /\ \A m \in DOMAIN acts :
              /\ acts'[m].by = acts[m].by
              /\ acts'[m].seed = acts[m].seed
              /\ acts'[m].ticket = acts[m].ticket
              /\ acts'[m].stage = IF m = n THEN stage ELSE acts[m].stage
<1>1. Len(acts) \in Nat /\ DOMAIN acts = 1..Len(acts)
      /\ \A m \in DOMAIN acts : acts[m] \in Activation
  BY Activations
<1>2. \A m \in DOMAIN acts :
        acts'[m] = IF m = n THEN [acts[m] EXCEPT !.stage = stage] ELSE acts[m]
  BY DEF ProviderTypeOK
<1>3. \A m \in DOMAIN acts :
        /\ acts'[m] \in Activation
        /\ acts'[m].by = acts[m].by
        /\ acts'[m].seed = acts[m].seed
        /\ acts'[m].ticket = acts[m].ticket
        /\ acts'[m].stage = IF m = n THEN stage ELSE acts[m].stage
  BY <1>1, <1>2 DEF Activation
<1>4. DOMAIN acts' = 1..Len(acts) /\ acts' \in [1..Len(acts) -> Activation]
  BY <1>1, <1>3
<1>5. acts' \in Seq(Activation)
  BY <1>1, <1>4, SeqDef
<1>6. Len(acts') \in Nat /\ DOMAIN acts' = 1..Len(acts')
  BY <1>5, LenProperties
<1>7. QED
  BY <1>1, <1>3, <1>4, <1>5, <1>6

(* The winner is the last activation, and was begun since the last clear. *)
LEMMA WinnerIsLast ==
  ASSUME ProviderInv, NEW n \in DOMAIN acts, Wins(n)
  PROVE  n > cleared /\ \A m \in DOMAIN acts : m <= n
<1>1. gen \in Nat /\ cleared \in Nat /\ DOMAIN acts \subseteq Nat
      /\ \A m \in DOMAIN acts : acts[m].ticket \in Nat
  BY Activations DEF ProviderInv, ProviderTypeOK
<1>2. QED
  BY <1>1 DEF ProviderInv, TicketsInOrder, Wins

LEMMA SettleKeeps ==
  ASSUME ProviderInv, NEW n \in DOMAIN acts, Settle(n)
  PROVE  ProviderInv'
<1>1. /\ gen' = gen /\ mounted' = mounted /\ cleared' = cleared
      /\ acts[n].stage = "settling"
  BY DEF Settle
<1>2. ProviderTypeOK /\ KeysAreOwned /\ NewestWins /\ TicketsInOrder
  BY DEF ProviderInv
<1>3. DOMAIN acts \subseteq Nat /\ None \notin DOMAIN acts
  BY <1>2, Activations, ProviderAssumption
<1>4. CASE Win(n)
  <2>1. /\ acts' = [acts EXCEPT ![n].stage = "won"]
        /\ live' = live \ {current} /\ current' = n /\ n \in live
    BY <1>4 DEF Win, Wins
  <2>2. n # current
    BY <1>1, <1>2, <1>3 DEF NewestWins
  <2>3. ProviderTypeOK'
    BY <1>1, <1>2, <2>1, Settled DEF ProviderTypeOK
  <2>4. KeysAreOwned'
    BY <1>2, <2>1, Settled DEF KeysAreOwned, ProviderTypeOK
  <2>5. NewestWins'
    <3>1. n > cleared /\ \A m \in DOMAIN acts : m <= n
      BY <1>4, WinnerIsLast DEF Win
    <3>2. n \in live' /\ acts'[n].stage = "won" /\ DOMAIN acts' = DOMAIN acts
      BY <1>2, <2>1, <2>2, Settled
    <3>3. \A m \in DOMAIN acts : ~(m > n)
      BY <1>3, <3>1
    <3>4. QED
      BY <1>1, <2>1, <3>1, <3>2, <3>3 DEF NewestWins
  <2>6. TicketsInOrder'
    BY <1>1, <1>2, <2>1, Settled DEF TicketsInOrder
  <2>7. QED
    BY <2>3, <2>4, <2>5, <2>6 DEF ProviderInv
<1>5. CASE Lose(n)
  <2>1. /\ acts' = [acts EXCEPT ![n].stage = "lost"]
        /\ live' = live \ {n} /\ current' = current
    BY <1>5 DEF Lose
  <2>2. ProviderTypeOK'
    BY <1>1, <1>2, <2>1, Settled DEF ProviderTypeOK
  <2>3. KeysAreOwned'
    BY <1>2, <2>1, Settled DEF KeysAreOwned, ProviderTypeOK
  <2>4. NewestWins'
    <3>1. current # None => current \in DOMAIN acts /\ current # n
      BY <1>1, <1>2 DEF NewestWins, ProviderTypeOK
    <3>2. QED
      BY <1>1, <1>2, <2>1, <3>1, Settled DEF NewestWins
  <2>5. TicketsInOrder'
    BY <1>1, <1>2, <2>1, Settled DEF TicketsInOrder
  <2>6. QED
    BY <2>2, <2>3, <2>4, <2>5 DEF ProviderInv
<1>6. QED
  BY <1>4, <1>5 DEF Settle
-----------------------------------------------------------------------------
(* The reducer keeps a flow's seed and status together. *)
LEMMA DispatchKeeps ==
  ASSUME NEW flow, FlowOK(flow),
         NEW seed \in Seeds,
         NEW type \in {"GENERATE", "IMPORT", "CONFIRM_WORDS", "FAIL", "RESET"}
  PROVE  FlowOK(Dispatched(flow, type, seed))
BY FlowAssumption DEF FlowOK, FlowState, Statuses, Dispatched, Failed, InitialFlow

LEMMA DispatchNoneKeeps ==
  ASSUME NEW flow, FlowOK(flow), NEW type \in {"CONFIRM_WORDS", "FAIL", "RESET"}
  PROVE  FlowOK(Dispatched(flow, type, None))
BY FlowAssumption DEF FlowOK, FlowState, Statuses, Dispatched, Failed, InitialFlow

LEMMA InitOK == Init => IInv
<1> SUFFICES ASSUME Init PROVE IInv
  OBVIOUS
<1>1. FlowOK(InitialFlow)
  BY FlowAssumption DEF FlowOK, FlowState, Statuses, InitialFlow
<1>2. TypeOK
  <2>1. acts = <<>> /\ derivations = <<>>
    BY DEF Init, ProviderInit
  <2>2. acts \in Seq(Activation) /\ Len(acts) = 0
        /\ derivations \in Seq({"create", "import", "done"}) /\ Len(derivations) = 0
    BY <2>1, EmptySeq
  <2>3. ProviderTypeOK
    BY <2>2 DEF Init, ProviderInit, ProviderTypeOK
  <2>4. FlowOK(create) /\ FlowOK(import) /\ FlowOK(seen) /\ outdated \in BOOLEAN
    <3>1. create = InitialFlow /\ import = InitialFlow /\ seen = InitialFlow
      BY DEF Init
    <3>2. QED
      BY <1>1, <3>1 DEF Init
  <2>5. QED
    BY <2>2, <2>3, <2>4, FlowAssumption DEF TypeOK
<1>3. KeysAreOwned /\ NewestWins /\ TicketsInOrder /\ OnlyImports
  BY DEF Init, ProviderInit, KeysAreOwned, NewestWins, TicketsInOrder, OnlyImports
<1>4. VerifiedIsActivated
  BY DEF Init, InitialFlow, VerifiedIsActivated
<1>5. QED
  BY <1>2, <1>3, <1>4 DEF IInv, ProviderInv, TypeOK
(* The derivations of the hooks. *)
LEMMA DeriveKeeps ==
  ASSUME TypeOK, NEW hook \in {"create", "import"}, Derive(hook)
  PROVE  derivations' \in Seq({"create", "import", "done"})
         /\ Len(derivations') <= MaxDerivations
<1>1. derivations \in Seq({"create", "import", "done"}) /\ Len(derivations) \in Nat
  BY LenProperties DEF TypeOK
<1>2. /\ derivations' = Append(derivations, hook) /\ Len(derivations) < MaxDerivations
      /\ hook \in {"create", "import", "done"}
  BY DEF Derive
<1>3. derivations' \in Seq({"create", "import", "done"})
      /\ Len(derivations') = Len(derivations) + 1
  BY <1>1, <1>2, AppendProperties
<1>4. QED
  BY <1>1, <1>2, <1>3, FlowAssumption

(* What activating leaves of OnlyImports and VerifiedIsActivated. *)
LEMMA ActivateKeepsFlows ==
  ASSUME IInv, NEW by \in Callers, NEW seed \in Seeds, NEW derives \in BOOLEAN,
         Activate(by, seed, derives), mounted \/ by = "import"
  PROVE  /\ OnlyImports'
         /\ create' = create /\ outdated' = outdated => VerifiedIsActivated'
<1>1. ProviderTypeOK
  BY DEF IInv, TypeOK
<1>2. /\ DOMAIN acts = 1..Len(acts) /\ Len(acts) \in Nat
      /\ DOMAIN acts' = 1..(Len(acts) + 1)
      /\ \A n \in DOMAIN acts : acts'[n] = acts[n]
      /\ acts'[Len(acts) + 1].by = by
  <2>1. DOMAIN acts = 1..Len(acts) /\ Len(acts) \in Nat
    BY <1>1, Activations
  <2>2. /\ DOMAIN acts' = 1..(Len(acts) + 1)
        /\ \A n \in DOMAIN acts : acts'[n] = acts[n]
        /\ acts'[Len(acts) + 1] = [by |-> by, seed |-> seed, ticket |-> gen + 1,
                                   stage |-> "settling"]
    BY <1>1, Appended
  <2>3. QED
    BY <2>1, <2>2
<1>3. mounted' = mounted /\ cleared' = cleared
  BY DEF Activate
<1>4. OnlyImports'
  BY <1>2, <1>3 DEF IInv, OnlyImports
<1>5. ASSUME create' = create, outdated' = outdated
      PROVE  VerifiedIsActivated'
  BY <1>2, <1>5 DEF IInv, VerifiedIsActivated
<1>6. QED
  BY <1>4, <1>5

(* A step that clears changes no activation's caller, seed or stage. *)
LEMMA ClearKeeps ==
  ASSUME IInv, Clear
  PROVE  ProviderInv' /\ OnlyImports' /\ acts' = acts
<1>1. ProviderInv /\ OnlyImports /\ ProviderTypeOK
  BY DEF IInv, TypeOK
<1>2. /\ Dropped /\ gen' = gen + 1 /\ mounted' = mounted /\ mounted' \in BOOLEAN
      /\ acts' = acts /\ cleared' = Len(acts)
  BY <1>1 DEF Clear, Dropped, ProviderTypeOK
<1>3. ProviderInv'
  BY <1>1, <1>2, DroppedKeeps
<1>4. OnlyImports'
  BY <1>1, <1>2, Activations DEF OnlyImports
<1>5. QED
  BY <1>2, <1>3, <1>4
LEMMA SettleKeepsFlows ==
  ASSUME IInv, NEW n \in DOMAIN acts, ActivationSettles(n)
  PROVE  IInv'
<1>1. /\ Settle(n) /\ create' = Confirmed(n)
      /\ UNCHANGED <<derivations, import, seen, outdated>>
      /\ mounted' = mounted /\ cleared' = cleared
      /\ ProviderInv /\ ProviderTypeOK /\ TypeOK
  BY DEF ActivationSettles, Settle, IInv, TypeOK
<1>2. PICK stage \in {"won", "lost"} :
        /\ acts' = [acts EXCEPT ![n].stage = stage]
        /\ stage = "lost" => ~Wins(n)
  BY <1>1 DEF Settle, Win, Lose
<1>3. /\ DOMAIN acts' = DOMAIN acts
      /\ \A m \in DOMAIN acts :
           /\ acts'[m].by = acts[m].by
           /\ acts'[m].seed = acts[m].seed
           /\ acts'[m].stage = IF m = n THEN stage ELSE acts[m].stage
  BY <1>1, <1>2, Settled
<1>4. ProviderInv'
  BY <1>1, SettleKeeps
<1>5. OnlyImports'
  BY <1>1, <1>3 DEF IInv, OnlyImports
<1>6. FlowOK(create)'
  <2>1. FlowOK(create) /\ FlowOK(Dispatched(create, "FAIL", None))
    BY <1>1, DispatchNoneKeeps DEF TypeOK
  <2>2. create' = create \/ create' = Dispatched(create, "FAIL", None)
    BY <1>1 DEF Confirmed
  <2>3. QED
    BY <2>1, <2>2 DEF FlowOK
<1>7. VerifiedIsActivated'
  <2>1. CASE acts[n].by = "create" /\ stage = "lost"
    <3>1. create' = Dispatched(create, "FAIL", None)
      BY <1>1, <1>2, <2>1 DEF Confirmed
    <3>2. create'.status = "error"
      BY <3>1, <1>1 DEF Dispatched, Failed, TypeOK, FlowOK, FlowState
    <3>3. QED
      BY <3>2 DEF VerifiedIsActivated
  <2>2. CASE acts[n].by # "create" \/ stage = "won"
    <3>1. create' = create \/ create'.status = "error"
      BY <1>1 DEF Confirmed, Dispatched, Failed, TypeOK, FlowOK, FlowState
    <3>2. QED
      BY <1>1, <1>3, <2>2, <3>1 DEF IInv, VerifiedIsActivated
  <2>3. QED
    BY <2>1, <2>2
<1>8. TypeOK'
  BY <1>1, <1>4, <1>6 DEF TypeOK, ProviderInv, FlowOK
<1>9. QED
  BY <1>4, <1>5, <1>7, <1>8 DEF IInv
LEMMA AppCallKeeps ==
  ASSUME IInv, AppCall
  PROVE  IInv'
<1>1. /\ mounted /\ TypeOK /\ ProviderTypeOK /\ ProviderInv
      /\ OnlyImports /\ VerifiedIsActivated
      /\ FlowOK(create) /\ FlowOK(import) /\ FlowOK(seen)
  BY DEF AppCall, IInv, TypeOK
<1>2. ASSUME providerVars' = providerVars
      PROVE  ProviderInv' /\ OnlyImports'
  BY <1>1, <1>2
     DEF providerVars, ProviderInv, ProviderTypeOK, KeysAreOwned, NewestWins,
         TicketsInOrder, OnlyImports
<1>3. ASSUME NEW hook \in {"create", "import"}, Derive(hook),
             providerVars' = providerVars, UNCHANGED <<create, import, seen, outdated>>
      PROVE  IInv'
  <2>1. VerifiedIsActivated'
    BY <1>1, <1>3 DEF VerifiedIsActivated, providerVars
  <2>2. TypeOK'
    BY <1>1, <1>2, <1>3, DeriveKeeps DEF TypeOK, ProviderInv, FlowOK
  <2>3. QED
    BY <1>2, <1>3, <2>1, <2>2 DEF IInv
<1>4. CASE Generate
  BY <1>3, <1>4 DEF Generate
<1>5. CASE ImportWords
  BY <1>3, <1>5 DEF ImportWords
<1>6. CASE ConfirmWords
  <2>1. /\ seen.status = "seed-generated" /\ seen.seed \in Seeds
        /\ create' = Dispatched(create, "CONFIRM_WORDS", None)
        /\ outdated' = (outdated \/ seen # create)
        /\ Activate("create", seen.seed, TRUE)
        /\ UNCHANGED <<derivations, import, seen>>
    BY <1>1, <1>6 DEF ConfirmWords, FlowOK, FlowState
  <2>2. "create" \in Callers
    BY FlowAssumption
  <2>3. ProviderInv' /\ OnlyImports'
    BY <1>1, <2>1, <2>2, ActivateKeeps, ActivateKeepsFlows
  <2>4. FlowOK(create')
    BY <1>1, <2>1, DispatchNoneKeeps
  <2>5. VerifiedIsActivated'
    <3>1. SUFFICES ASSUME ~outdated' PROVE VerifiedIsActivated'
      BY DEF VerifiedIsActivated
    <3>2. seen = create
      BY <2>1, <3>1
    <3>3. create'.seed = seen.seed
      BY <1>1, <2>1, <3>2 DEF Dispatched, FlowOK, FlowState
    <3>4. DOMAIN acts' = 1..(Len(acts) + 1)
          /\ acts'[Len(acts) + 1] = [by |-> "create", seed |-> seen.seed,
                                     ticket |-> gen + 1, stage |-> "settling"]
      BY <1>1, <2>1, <2>2, Appended
    <3>5. Len(acts) + 1 \in DOMAIN acts'
      BY <1>1, <3>4, Activations
    <3>6. QED
      BY <3>3, <3>4, <3>5 DEF VerifiedIsActivated
  <2>6. TypeOK'
    BY <1>1, <2>1, <2>3, <2>4 DEF TypeOK, ProviderInv, FlowOK
  <2>7. QED
    BY <2>3, <2>5, <2>6 DEF IInv
<1>7. CASE ImportInvalidWords
  <2>1. /\ import' = Dispatched(import, "FAIL", None) /\ providerVars' = providerVars
        /\ UNCHANGED <<derivations, create, seen, outdated>>
    BY <1>7 DEF ImportInvalidWords
  <2>2. FlowOK(import')
    BY <1>1, <2>1, DispatchNoneKeeps
  <2>3. VerifiedIsActivated'
    BY <1>1, <2>1 DEF VerifiedIsActivated, providerVars
  <2>4. TypeOK'
    BY <1>1, <1>2, <2>1, <2>2 DEF TypeOK, ProviderInv, FlowOK
  <2>5. QED
    BY <1>2, <2>1, <2>3, <2>4 DEF IInv
<1>8. CASE FailCreate
  <2>1. /\ create' = Dispatched(create, "FAIL", None) /\ providerVars' = providerVars
        /\ UNCHANGED <<derivations, import, seen, outdated>>
    BY <1>8 DEF FailCreate
  <2>2. FlowOK(create') /\ create'.status = "error"
    BY <1>1, <2>1, DispatchNoneKeeps DEF Dispatched, Failed
  <2>3. VerifiedIsActivated'
    BY <2>2 DEF VerifiedIsActivated
  <2>4. TypeOK'
    BY <1>1, <1>2, <2>1, <2>2 DEF TypeOK, ProviderInv, FlowOK
  <2>5. QED
    BY <1>2, <2>1, <2>3, <2>4 DEF IInv
<1>9. CASE ResetCreate
  <2>1. /\ create' = Dispatched(create, "RESET", None) /\ Clear
        /\ UNCHANGED <<derivations, import, seen, outdated>>
    BY <1>9 DEF ResetCreate
  <2>2. FlowOK(create') /\ create'.status = "idle"
    BY <1>1, <2>1, DispatchNoneKeeps DEF Dispatched, InitialFlow
  <2>3. VerifiedIsActivated'
    BY <2>2 DEF VerifiedIsActivated
  <2>4. ProviderInv' /\ OnlyImports'
    BY <2>1, ClearKeeps
  <2>5. TypeOK'
    BY <1>1, <2>1, <2>2, <2>4 DEF TypeOK, ProviderInv, FlowOK
  <2>6. QED
    BY <2>3, <2>4, <2>5 DEF IInv
<1>10. CASE ResetImport
  <2>1. /\ import' = Dispatched(import, "RESET", None) /\ Clear
        /\ UNCHANGED <<derivations, create, seen, outdated>>
    BY <1>10 DEF ResetImport
  <2>2. FlowOK(import')
    BY <1>1, <2>1, DispatchNoneKeeps
  <2>3. ProviderInv' /\ OnlyImports' /\ acts' = acts
    BY <2>1, ClearKeeps
  <2>4. VerifiedIsActivated'
    BY <1>1, <2>1, <2>3 DEF VerifiedIsActivated
  <2>5. TypeOK'
    BY <1>1, <2>1, <2>2, <2>3 DEF TypeOK, ProviderInv, FlowOK
  <2>6. QED
    BY <2>3, <2>4, <2>5 DEF IInv
<1>11. CASE ActivateDirect
  <2>1. PICK derives \in BOOLEAN : Activate("app", 0, derives)
    BY <1>11 DEF ActivateDirect
  <2>2. UNCHANGED <<derivations, create, import, seen, outdated>>
    BY <1>11 DEF ActivateDirect, flowVars
  <2>3. "app" \in Callers /\ 0 \in Seeds
    BY FlowAssumption
  <2>4. ProviderInv' /\ OnlyImports' /\ VerifiedIsActivated'
    BY <1>1, <2>1, <2>2, <2>3, ActivateKeeps, ActivateKeepsFlows
  <2>5. TypeOK'
    BY <1>1, <2>2, <2>4 DEF TypeOK, ProviderInv, FlowOK
  <2>6. QED
    BY <2>4, <2>5 DEF IInv
<1>12. CASE ClearDirect
  <2>1. Clear /\ UNCHANGED <<derivations, create, import, seen, outdated>>
    BY <1>12 DEF ClearDirect, flowVars
  <2>2. ProviderInv' /\ OnlyImports' /\ acts' = acts
    BY <2>1, ClearKeeps
  <2>3. VerifiedIsActivated'
    BY <1>1, <2>1, <2>2 DEF VerifiedIsActivated
  <2>4. TypeOK'
    BY <1>1, <2>1, <2>2 DEF TypeOK, ProviderInv, FlowOK
  <2>5. QED
    BY <2>2, <2>3, <2>4 DEF IInv
<1>13. CASE Unmount /\ UNCHANGED flowVars
  <2>1. /\ Dropped /\ gen' = gen + 1 /\ mounted' = FALSE
        /\ acts' = acts /\ cleared' = Len(acts)
        /\ UNCHANGED <<derivations, create, import, seen, outdated>>
    BY <1>13 DEF Unmount, Dropped, flowVars
  <2>2. ProviderInv'
    BY <1>1, <2>1, DroppedKeeps
  <2>3. OnlyImports'
    BY <1>1, <2>1, Activations DEF OnlyImports
  <2>4. VerifiedIsActivated'
    BY <1>1, <2>1 DEF VerifiedIsActivated
  <2>5. TypeOK'
    BY <1>1, <2>1, <2>2 DEF TypeOK, ProviderInv, FlowOK
  <2>6. QED
    BY <2>2, <2>3, <2>4, <2>5 DEF IInv
<1>14. QED
  BY <1>4, <1>5, <1>6, <1>7, <1>8, <1>9, <1>10, <1>11, <1>12, <1>13 DEF AppCall
LEMMA DerivationEndsKeeps ==
  ASSUME IInv, NEW n \in DOMAIN derivations, DerivationEnds(n)
  PROVE  IInv'
<1>1. /\ TypeOK /\ ProviderTypeOK /\ ProviderInv /\ OnlyImports /\ VerifiedIsActivated
      /\ FlowOK(create) /\ FlowOK(import) /\ FlowOK(seen)
  BY DEF IInv, TypeOK
<1>2. ASSUME providerVars' = providerVars
      PROVE  ProviderInv' /\ OnlyImports'
  BY <1>1, <1>2
     DEF providerVars, ProviderInv, ProviderTypeOK, KeysAreOwned, NewestWins,
         TicketsInOrder, OnlyImports
<1>3. /\ n \in Seeds
      /\ derivations' \in Seq({"create", "import", "done"})
      /\ Len(derivations') <= MaxDerivations
      /\ UNCHANGED <<seen, outdated>>
  <2>1. /\ derivations \in Seq({"create", "import", "done"})
        /\ Len(derivations) \in Nat /\ DOMAIN derivations = 1..Len(derivations)
        /\ Len(derivations) <= MaxDerivations
    BY <1>1, LenProperties DEF TypeOK
  <2>2. derivations' = [derivations EXCEPT ![n] = "done"]
        /\ UNCHANGED <<seen, outdated>>
    BY DEF DerivationEnds
  <2>3. n \in 1..Len(derivations) /\ n \in Seeds
    BY <2>1, FlowAssumption
  <2>4. derivations' \in Seq({"create", "import", "done"})
        /\ Len(derivations') = Len(derivations)
    BY <2>1, <2>2, <2>3, ExceptSeq
  <2>5. QED
    BY <2>1, <2>2, <2>3, <2>4
<1>4. CASE Generated(n)
  <2>1. PICK type \in {"GENERATE", "FAIL"} : create' = Dispatched(create, type, n)
    BY <1>4 DEF Generated
  <2>2. providerVars' = providerVars /\ import' = import
    BY <1>4 DEF Generated
  <2>3. FlowOK(create')
    BY <1>1, <1>3, <2>1, DispatchKeeps
  <2>4. create' = create \/ create'.status # "verified"
    BY <2>1 DEF Dispatched, Failed
  <2>5. VerifiedIsActivated'
    BY <1>1, <1>3, <2>2, <2>4 DEF VerifiedIsActivated, providerVars
  <2>6. TypeOK'
    BY <1>1, <1>2, <1>3, <2>2, <2>3 DEF TypeOK, ProviderInv, FlowOK
  <2>7. QED
    BY <1>2, <2>2, <2>5, <2>6 DEF IInv
<1>5. CASE Imported(n)
  <2>1. /\ import' = Dispatched(import, "IMPORT", n) /\ Activate("import", n, TRUE)
        /\ create' = create
    BY <1>5 DEF Imported
  <2>2. FlowOK(import')
    BY <1>1, <1>3, <2>1, DispatchKeeps
  <2>3. "import" \in Callers
    BY FlowAssumption
  <2>4. ProviderInv' /\ OnlyImports' /\ VerifiedIsActivated'
    BY <1>1, <1>3, <2>1, <2>3, ActivateKeeps, ActivateKeepsFlows
  <2>5. TypeOK'
    BY <1>1, <1>3, <2>1, <2>2, <2>4 DEF TypeOK, ProviderInv, FlowOK
  <2>6. QED
    BY <2>4, <2>5 DEF IInv
<1>6. CASE ImportFails(n)
  <2>1. /\ import' = Dispatched(import, "FAIL", None) /\ providerVars' = providerVars
        /\ create' = create
    BY <1>6 DEF ImportFails
  <2>2. FlowOK(import')
    BY <1>1, <2>1, DispatchNoneKeeps
  <2>3. VerifiedIsActivated'
    BY <1>1, <1>3, <2>1 DEF VerifiedIsActivated, providerVars
  <2>4. TypeOK'
    BY <1>1, <1>2, <1>3, <2>1, <2>2 DEF TypeOK, ProviderInv, FlowOK
  <2>5. QED
    BY <1>2, <2>1, <2>3, <2>4 DEF IInv
<1>7. QED
  BY <1>4, <1>5, <1>6 DEF DerivationEnds

LEMMA NextOK == IInv /\ [Next]_vars => IInv'
<1> SUFFICES ASSUME IInv, [Next]_vars PROVE IInv'
  OBVIOUS
<1>1. CASE AppCall
  BY <1>1, AppCallKeeps
<1>2. ASSUME NEW n \in DOMAIN acts, ActivationSettles(n)
      PROVE  IInv'
  BY <1>2, SettleKeepsFlows
<1>3. ASSUME NEW n \in DOMAIN derivations, DerivationEnds(n)
      PROVE  IInv'
  BY <1>3, DerivationEndsKeeps
<1>4. ASSUME UNCHANGED <<providerVars, derivations, create, import, outdated>>,
             seen' = seen \/ seen' = create
      PROVE  IInv'
  BY <1>4
     DEF IInv, TypeOK, FlowOK, providerVars, ProviderInv, ProviderTypeOK, KeysAreOwned,
         NewestWins, TicketsInOrder, OnlyImports, VerifiedIsActivated
<1>5. CASE Render
  BY <1>4, <1>5 DEF Render
<1>6. CASE UNCHANGED vars
  BY <1>4, <1>6 DEF vars, flowVars
<1>7. QED
  BY <1>1, <1>2, <1>3, <1>5, <1>6 DEF Next

(* IInv holds whatever overlaps. *)
THEOREM Invariance == Spec => []IInv
BY InitOK, NextOK, PTL DEF Spec

(* The types of the provider and of both hooks. *)
THEOREM TypeCorrect == Spec => []TypeOK
<1>1. IInv => TypeOK
  BY DEF IInv
<1>2. QED
  BY <1>1, Invariance, PTL

(* Me2emProvider: no key material outlives its use. *)
THEOREM NoKeyIsLeaked == Spec => []KeysAreOwned
<1>1. IInv => KeysAreOwned
  BY DEF IInv, ProviderInv
<1>2. QED
  BY <1>1, Invariance, PTL

(* Me2emProvider: the identity is the newest activation's, and none from   *)
(* before a clear.                                                         *)
THEOREM NewestActivationWins == Spec => []NewestWins
<1>1. IInv => NewestWins
  BY DEF IInv, ProviderInv
<1>2. QED
  BY <1>1, Invariance, PTL

(* Me2emProvider: unmounting zeroes what was active or in flight. *)
THEOREM UnmountIsFinal == Spec => []UnmountZeroes
<1>1. IInv => UnmountZeroes
  <2> SUFFICES ASSUME IInv, ~mounted, NEW n \in live, acts[n].stage # "settling"
      PROVE  n > cleared /\ acts[n].by = "import"
    BY DEF UnmountZeroes
  <2>1. n = current /\ n \in DOMAIN acts
    BY DEF IInv, ProviderInv, KeysAreOwned, ProviderTypeOK
  <2>2. current # None
    BY <2>1, Activations, ProviderAssumption DEF IInv, ProviderInv
  <2>3. QED
    BY <2>1, <2>2 DEF IInv, ProviderInv, NewestWins, OnlyImports
<1>2. QED
  BY <1>1, Invariance, PTL

(* useCreateIdentity: no flow is verified whose activation was lost. *)
THEOREM VerifiedHasIdentity == Spec => []VerifiedIsActivated
<1>1. IInv => VerifiedIsActivated
  BY DEF IInv
<1>2. QED
  BY <1>1, Invariance, PTL

-----------------------------------------------------------------------------
(* The refinement of IdentitySlot.  A later ticket is above gen when it is *)
(* drawn, and a clear moves gen past all of them: the activation the slot  *)
(* is open to is the one whose ticket is gen, or none.                     *)
LEMMA BeginIs ==
  ASSUME NEW by \in Callers, NEW seed \in Seeds, NEW derives \in BOOLEAN,
         ProviderInv, Activate(by, seed, derives)
  PROVE  Promise!Begin
<1> DEFINE N == Len(acts) + 1
<1>1. /\ Len(acts) \in Nat /\ gen \in Nat /\ DOMAIN acts = 1..Len(acts)
      /\ \A n \in DOMAIN acts : acts[n].ticket \in Nat /\ acts[n].ticket <= gen
  BY Activations DEF ProviderInv, ProviderTypeOK, TicketsInOrder
<1>2. /\ Len(acts') = N /\ DOMAIN acts' = 1..N
      /\ \A n \in DOMAIN acts : acts'[n] = acts[n]
      /\ acts'[N] = [by |-> by, seed |-> seed, ticket |-> gen + 1, stage |-> "settling"]
  BY Appended DEF ProviderInv
<1>3. gen' = gen + 1 /\ current' = current /\ live' \in {live, live \cup {N}}
  BY DEF Activate
<1> HIDE DEF N
<1>4. N \notin DOMAIN acts /\ DOMAIN acts' = DOMAIN acts \cup {N}
  BY <1>1, <1>2 DEF N
<1>5. Settling' = Settling \cup {N}
  BY <1>2, <1>4 DEF Settling
<1>6. Told' = Told
  BY <1>2, <1>4 DEF Told
<1>7. Eligible' = {N}
  BY <1>1, <1>2, <1>3, <1>4, <1>5 DEF Eligible, Settling
<1> QED BY <1>2, <1>3, <1>5, <1>6, <1>7 DEF Promise!Begin, N

LEMMA EmptyIs ==
  ASSUME ProviderInv, Dropped, gen' = gen + 1
  PROVE  Promise!Empty
<1>1. /\ gen \in Nat
      /\ \A n \in DOMAIN acts : acts[n].ticket \in Nat /\ acts[n].ticket <= gen
  BY Activations DEF ProviderInv, ProviderTypeOK, TicketsInOrder
<1>2. acts' = acts /\ current' = None /\ live' = live \ {current}
  BY DEF Dropped
<1>3. Settling' = Settling /\ Told' = Told /\ Eligible' = {}
  BY <1>1, <1>2 DEF Settling, Told, Eligible
<1> QED BY <1>2, <1>3 DEF Promise!Empty

LEMMA DecisionIs ==
  ASSUME ProviderInv, NEW n \in DOMAIN acts, Settle(n)
  PROVE  Promise!Next
<1>1. ProviderTypeOK /\ gen' = gen /\ n \in Settling
  BY DEF ProviderInv, Settle, Settling
<1>2. Wins(n) <=> n \in Eligible \cap live
  BY <1>1 DEF Wins, Eligible
<1>3. ASSUME NEW stage \in {"won", "lost"},
             acts' = [acts EXCEPT ![n].stage = stage]
      PROVE  /\ Promise!Decide(n)
             /\ Told' = IF stage = "won" THEN Told \cup {n} ELSE Told
  <2>1. /\ Len(acts') = Len(acts) /\ DOMAIN acts' = DOMAIN acts
        /\ \A m \in DOMAIN acts :
             /\ acts'[m].ticket = acts[m].ticket
             /\ acts'[m].stage = IF m = n THEN stage ELSE acts[m].stage
    BY <1>1, <1>3, Settled
  <2>2. Settling' = Settling \ {n}
    BY <2>1 DEF Settling
  <2>3. Eligible' = Eligible \ {n}
    BY <1>1, <2>1, <2>2 DEF Eligible, Settling
  <2>4. Told' = IF stage = "won" THEN Told \cup {n} ELSE Told
    BY <1>1, <2>1 DEF Told, Settling
  <2> QED BY <1>1, <2>1, <2>2, <2>3, <2>4 DEF Promise!Decide
<1>4. CASE Win(n)
  BY <1>1, <1>2, <1>3, <1>4 DEF Win, Promise!Take, Promise!Next
<1>5. CASE Lose(n)
  BY <1>1, <1>2, <1>3, <1>5 DEF Lose, Promise!Refuse, Promise!Next
<1> QED BY <1>4, <1>5 DEF Settle

(* The hooks act on the provider through these three, or not at all. *)
LEMMA PromiseStep ==
  IInv /\ [Next]_vars =>
    [Promise!Next]_<<Len(acts), Settling, Eligible, current, live, Told>>
<1> DEFINE Stutters == UNCHANGED <<Len(acts), Settling, Eligible, current, live, Told>>
<1> SUFFICES ASSUME IInv, [Next]_vars PROVE Promise!Next \/ Stutters
  OBVIOUS
<1>1. /\ ProviderInv /\ FlowOK(seen)
      /\ {"create", "import", "app"} \subseteq Callers /\ 0..MaxDerivations \subseteq Seeds
  BY FlowAssumption DEF IInv, TypeOK
<1>2. ASSUME UNCHANGED providerVars PROVE Stutters
  BY <1>2 DEF providerVars, Settling, Eligible, Told
<1>3. ASSUME Clear PROVE Promise!Next
  BY <1>1, <1>3, EmptyIs DEF Clear, Promise!Next
<1>4. CASE AppCall
  <2>1. CASE ConfirmWords
    <3>1. seen.seed \in Seeds /\ Activate("create", seen.seed, TRUE)
      BY <1>1, <2>1 DEF ConfirmWords, FlowOK, FlowState
    <3> QED BY <1>1, <3>1, BeginIs DEF Promise!Next
  <2>2. CASE ActivateDirect
    <3>1. 0 \in Seeds
      BY <1>1, FlowAssumption
    <3> QED BY <1>1, <2>2, <3>1, BeginIs DEF ActivateDirect, Promise!Next
  <2>3. CASE ResetCreate \/ ResetImport \/ ClearDirect
    BY <1>3, <2>3 DEF ResetCreate, ResetImport, ClearDirect
  <2>4. CASE Unmount
    BY <1>1, <2>4, EmptyIs DEF Unmount, Promise!Next
  <2>5. CASE Generate \/ ImportWords \/ ImportInvalidWords \/ FailCreate
    BY <1>2, <2>5 DEF Generate, ImportWords, ImportInvalidWords, FailCreate
  <2> QED BY <1>4, <2>1, <2>2, <2>3, <2>4, <2>5 DEF AppCall
<1>5. ASSUME NEW n \in DOMAIN acts, ActivationSettles(n) PROVE Promise!Next
  BY <1>1, <1>5, DecisionIs DEF ActivationSettles
<1>6. ASSUME NEW n \in DOMAIN derivations, DerivationEnds(n)
      PROVE  Promise!Next \/ Stutters
  <2>1. n \in Seeds
    <3>1. /\ DOMAIN derivations = 1..Len(derivations) /\ Len(derivations) \in Nat
          /\ Len(derivations) <= MaxDerivations
      BY LenProperties DEF IInv, TypeOK
    <3> QED BY <1>1, <3>1, FlowAssumption
  <2>2. CASE Imported(n)
    BY <1>1, <2>1, <2>2, BeginIs DEF Imported, Promise!Next
  <2>3. CASE Generated(n) \/ ImportFails(n)
    BY <1>2, <2>3 DEF Generated, ImportFails
  <2> QED BY <1>6, <2>2, <2>3 DEF DerivationEnds
<1>7. CASE Render \/ UNCHANGED vars
  BY <1>2, <1>7 DEF Render, vars
<1> QED BY <1>4, <1>5, <1>6, <1>7 DEF Next

(* Me2emProvider implements IdentitySlot: for any number of hooks,         *)
(* activations and clears, overlapping as they may, and the unmount, an    *)
(* activation is decided once, takes the slot only if none was begun and   *)
(* nothing emptied since, and when refused leaves no key behind.           *)
THEOREM ProviderKeepsPromise == Spec => KeepsPromise
<1>1. Init => Promise!Init
  <2> SUFFICES ASSUME Init PROVE Promise!Init
    OBVIOUS
  <2>1. acts = <<>> /\ current = None /\ live = {}
    BY DEF Init, ProviderInit
  <2>2. Len(acts) = 0 /\ DOMAIN acts = {}
    BY <2>1
  <2> QED BY <2>1, <2>2 DEF Promise!Init, Settling, Eligible, Told
<1> QED BY <1>1, PromiseStep, Invariance, PTL DEF Spec, KeepsPromise, Promise!Spec,
             Promise!slotVars
=============================================================================
