-------------------------------- MODULE MCApp --------------------------------
(* An application with one part of the client in use: a component with a     *)
(* session, the adapter registry, the allocation of wallets, or one of the   *)
(* seed screens.  These parts share no state, so one run takes them as       *)
(* alternatives.                                                             *)
EXTENDS UseSession, Wallets, SeedScreens

CONSTANTS x, y, z   \* words

VARIABLE part       \* the part in use

MCOldPaths == {{}, {PaymentPath(0), PaymentPath(2), PaymentPath(9), <<0, 2, 1, 0>>}}
MCPhrases == {<<x, y, z>>, <<x, y, x>>}
MCDecoys == <<"decoy 1", "decoy 2">>
MCValidPhrases == {<<x, y>>, <<y, x>>}

Parts == {"session", "registry", "wallets", "display", "verify", "import"}

(* The choices of a part that is not in use are immaterial: one is enough. *)
OneChoice(p) ==
  CASE p = "session" -> auto /\ ttl = CHOOSE t \in Ttls : TRUE
    [] p = "wallets" -> \A c \in Chains : old[c] = {}
    [] p = "display" -> display.available
    [] p = "verify" -> verify.driver = "component" /\ verify.grid.words = <<x, y, z>> \o MCDecoys
    [] OTHER -> TRUE

AppInit ==
  /\ SessionInit /\ WalletsInit /\ DisplayInit /\ VerifyInit /\ ImportInit
  /\ part \in Parts
  /\ \A p \in Parts \ {part} : OneChoice(p)

screenVars == <<display, verify, import>>

SessionPart ==
  part = "session" /\ SessionNext /\ UNCHANGED <<walletVars, screenVars>>

RegistryPart ==
  part = "registry" /\ RegistryNext /\ UNCHANGED <<sessionVars, screenVars>>

(* An allocation reads whose adapter its chain has: one registration is    *)
(* enough.  Nothing is claimed once its contract is broken, and what is    *)
(* allocated when no attestation can be stored any more is not confirmed.  *)
WalletsPart ==
  /\ part = "wallets" /\ Orderly
  /\ AllocationNext \/ (RegistryNext /\ Len(regs') <= 1)
  /\ Len(stored) = MaxStored => \A i \in Allocations : allocs[i] = Idle => allocs'[i] = Idle
  /\ UNCHANGED <<sessionVars, screenVars>>

ScreenPart ==
  /\ \/ part = "display" /\ DisplayNext /\ UNCHANGED <<verify, import>>
     \/ part = "verify" /\ VerifyNext /\ UNCHANGED <<display, import>>
     \/ part = "import" /\ ImportNext /\ UNCHANGED <<display, verify>>
  /\ UNCHANGED <<sessionVars, walletVars>>

appVars == <<part, sessionVars, walletVars, screenVars>>

AppNext == (SessionPart \/ RegistryPart \/ WalletsPart \/ ScreenPart) /\ UNCHANGED part

AppSpec == AppInit /\ [][AppNext]_appVars

Symmetry == Permutations(Chains) \cup Permutations(Entities) \cup Permutations(Allocations)
=============================================================================
