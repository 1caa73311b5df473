------------------------------- MODULE Wallets -------------------------------
(***************************************************************************)
(* The payment layer: the process-wide registry of wallet adapters, the    *)
(* wallets bound to entity instances (packages/core/src/payment.ts), and   *)
(* the application's use of SolanaWalletTree and attestations to give      *)
(* entities wallets: nextIndex over the paths it stored, deriveWallet,     *)
(* bindWallet, an attestation, and storing its path.                       *)
(***************************************************************************)
EXTENDS Slip10

CONSTANTS
  None,
  Chains,        \* CAIP-2 ids; each is a Solana network
  Entities,
  Allocations,   \* wallets being allocated
  OldPaths,      \* what the store may hold already, for a chain
  MaxRegs,       \* bound: registrations of a process
  MaxStored,     \* bound: attestations stored
  MaxRestarts    \* bound: restarts

ASSUME WalletsAssumption == \A paths \in OldPaths : paths \subseteq Seq(Nat)
ASSUME WalletsBoundsAreNat == {MaxRegs, MaxStored, MaxRestarts} \subseteq Nat

VARIABLES
  registry,    \* chain -> adapter or None
  regs,        \* regs[n]: the n-th registration and its disposer
  treeLive,    \* the wallet tree has not been disposed
  old,         \* old[c]: paths stored before
  stored,      \* attestations stored, in order
  bound,       \* <<entity, chain>> -> the wallet bound to the instance
  allocs,
  restarts,
  allocsOverlapped   \* history: two allocations of a chain overlapped

walletVars == <<registry, regs, treeLive, old, stored, bound, allocs, restarts,
                allocsOverlapped>>
registryVars == <<registry, regs>>
otherVars == <<treeLive, old, stored, bound, allocs, restarts, allocsOverlapped>>

Idle == [stage |-> "idle"]
Seed == "seed"

(* null is no chain and no address. *)
ASSUME NullIsNoValue ==
  /\ None \notin Chains
  /\ \A index \in 0..MaxPlainIndex :
       DeriveWallet(MasterKeyFromSeed(Seed), index).address # None

Fields == {"wallet", "chain", "path"}   \* of an attestation, all optional

WalletsInit ==
  /\ registry = [c \in Chains |-> None] /\ regs = <<>> /\ treeLive = TRUE
  /\ old \in [Chains -> OldPaths] /\ stored = <<>>
  /\ bound = [ec \in Entities \X Chains |-> None]
  /\ allocs = [a \in Allocations |-> Idle]
  /\ restarts = 0 /\ allocsOverlapped = FALSE

(***************************************************************************)
(* The registry.  An adapter is an object: the application has one of its  *)
(* own for each chain, which it may register again; registerSolanaAdapters *)
(* makes new ones.                                                         *)
(***************************************************************************)
OwnAdapter(c) == [chain |-> c, made |-> 0]
SolanaAdapter(c) == [chain |-> c, made |-> Len(regs) + 1]
IsSolana(adapter) == adapter # None /\ adapter.made > 0

(* The addresses of the application's own adapters look otherwise. *)
IsValidAddress(adapter, address) == IsSolana(adapter)

Registered(adapters) ==
  /\ Len(regs) < MaxRegs
  /\ regs' = Append(regs, [adapters |-> adapters, disposed |-> FALSE])
  /\ registry' = [c \in Chains |->
       IF \E a \in adapters : a.chain = c
       THEN CHOOSE a \in adapters : a.chain = c ELSE registry[c]]
  /\ UNCHANGED otherVars

RegisterWalletAdapter(c) == Registered({OwnAdapter(c)})

RegisterSolanaAdapters(networks) == Registered({SolanaAdapter(c) : c \in networks})

(* Mutant: whatever is registered is deleted. *)
DeletedAnyway(adapter) == TRUE

Deletes(adapter) == registry[adapter.chain] = adapter

Dispose(n) ==
  /\ n \in DOMAIN regs /\ ~regs[n].disposed
  /\ regs' = [regs EXCEPT ![n].disposed = TRUE]
  /\ registry' = [c \in Chains |->
       IF \E a \in regs[n].adapters : a.chain = c /\ Deletes(a)
       THEN None ELSE registry[c]]
  /\ UNCHANGED otherVars

(***************************************************************************)
(* Wallets                                                                 *)
(***************************************************************************)
Active(c) == {a \in Allocations : allocs[a] # Idle /\ allocs[a].chain = c}

UsedPaths(c) ==
  old[c] \cup ({stored[k].path : k \in {j \in DOMAIN stored : stored[j].chain = c}} \ {None})

(* deriveWallet runs to its end when it is called; resolveWallet of a      *)
(* Solana adapter does the same with a tree of its own.                    *)
Allocate(a, e, c) ==
  /\ allocs[a] = Idle
  /\ treeLive \/ IsSolana(registry[c])
  /\ LET index == NextPaymentIndex(UsedPaths(c))
         wallet == DeriveWallet(MasterKeyFromSeed(Seed), index)
     IN /\ wallet # Invalid
        /\ allocs' = [allocs EXCEPT ![a] =
             [stage |-> "derived", entity |-> e, chain |-> c, fields |-> {},
              path |-> wallet.derivationPath, address |-> wallet.address]]
  /\ allocsOverlapped' = (allocsOverlapped \/ Active(c) # {})
  /\ UNCHANGED registryVars /\ UNCHANGED <<treeLive, old, stored, bound, restarts>>

BindEntityWallet(e, c, address) ==
  bound' = [bound EXCEPT ![<<e, c>>] = [chain |-> c, address |-> address]]

GetEntityWallet(e, c) == bound[<<e, c>>]

(* validateWalletOpts of the attestation, given some of the three fields.  *)
Paired(fields) ==
  /\ "wallet" \in fields <=> "chain" \in fields
  /\ "path" \in fields => "wallet" \in fields

(* The adapter registered, if any, must take the address. *)
WalletAccepted(fields, c, address) ==
  "wallet" \in fields => registry[c] = None \/ IsValidAddress(registry[c], address)

(* bindWallet, then the attestation of the root identity; a refusal leaves *)
(* the binding.                                                            *)
BindAndAttest(a, fields) ==
  /\ allocs[a] # Idle /\ allocs[a].stage = "derived"
  /\ BindEntityWallet(allocs[a].entity, allocs[a].chain, allocs[a].address)
  /\ allocs' = [allocs EXCEPT ![a] =
       IF Paired(fields) /\ WalletAccepted(fields, @.chain, @.address)
       THEN [@ EXCEPT !.stage = "attested", !.fields = fields] ELSE Idle]
  /\ UNCHANGED registryVars
  /\ UNCHANGED <<treeLive, old, stored, restarts, allocsOverlapped>>

(* The attestation is stored, with the fields it has. *)
Store(a) ==
  /\ allocs[a] # Idle /\ allocs[a].stage = "attested" /\ Len(stored) < MaxStored
  /\ LET Given(field, value) == IF field \in allocs[a].fields THEN value ELSE None
     IN stored' = Append(stored,
          [subject |-> allocs[a].entity, wallet |-> Given("wallet", allocs[a].address),
           chain |-> Given("chain", allocs[a].chain), path |-> Given("path", allocs[a].path)])
  /\ allocs' = [allocs EXCEPT ![a] = Idle]
  /\ UNCHANGED registryVars
  /\ UNCHANGED <<treeLive, old, bound, restarts, allocsOverlapped>>

DisposeTree ==
  /\ treeLive /\ treeLive' = FALSE
  /\ UNCHANGED registryVars
  /\ UNCHANGED <<old, stored, bound, allocs, restarts, allocsOverlapped>>

(* The process restarts: only what is stored is left. *)
Restart ==
  /\ restarts < MaxRestarts /\ restarts' = restarts + 1
  /\ registry' = [c \in Chains |-> None] /\ regs' = <<>> /\ treeLive' = TRUE
  /\ bound' = [ec \in Entities \X Chains |-> None]
  /\ allocs' = [a \in Allocations |-> Idle]
  /\ UNCHANGED <<old, stored, allocsOverlapped>>

(* The application re-binds an entity from an attestation of it.           *)
Rebind(k) ==
  /\ k \in DOMAIN stored /\ stored[k].wallet # None
  /\ BindEntityWallet(stored[k].subject, stored[k].chain, stored[k].wallet)
  /\ UNCHANGED registryVars
  /\ UNCHANGED <<treeLive, old, stored, allocs, restarts, allocsOverlapped>>

RegistryNext ==
  \/ \E c \in Chains : RegisterWalletAdapter(c)
  \/ \E networks \in SUBSET Chains : RegisterSolanaAdapters(networks)
  \/ \E n \in 1..MaxRegs : Dispose(n)

AllocationNext ==
  \/ \E a \in Allocations, e \in Entities, c \in Chains : Allocate(a, e, c)
  \/ \E a \in Allocations, fields \in SUBSET Fields : BindAndAttest(a, fields)
  \/ \E a \in Allocations : Store(a)
  \/ \E k \in 1..MaxStored : Rebind(k)
  \/ DisposeTree \/ Restart

WalletsNext == RegistryNext \/ AllocationNext

WalletsSpec == WalletsInit /\ [][WalletsNext]_walletVars

(* Mutant: whose attestation it is goes unchecked. *)
AnySubject(wallet, e, attestation) == attestation.wallet = wallet.address

(* verifyWalletBinding with the root's key: a stored attestation is signed *)
(* by the root.  The chain is not compared.                                *)
VerifyWalletBinding(wallet, e, attestation) ==
  attestation.subject = e /\ attestation.wallet = wallet.address

(***************************************************************************)
(* Properties                                                              *)
(***************************************************************************)
WalletsTypeOK ==
  /\ Len(regs) <= MaxRegs /\ Len(stored) <= MaxStored
  /\ \A c \in Chains : registry[c] # None => registry[c].chain = c
  /\ \A ec \in Entities \X Chains : bound[ec] # None => bound[ec].chain = ec[2]
  /\ \A a \in Allocations : allocs[a] # Idle =>
       /\ allocs[a].stage \in {"derived", "attested"}
       /\ allocs[a].path[3] \in 0..MaxPlainIndex
       /\ "path" \in allocs[a].fields => "wallet" \in allocs[a].fields

(* The adapter of a chain is the one registered for it last, until that    *)
(* registration is disposed; then there is none, though an earlier one was *)
(* never disposed.  No disposer removes an adapter of another call, unless *)
(* the very same object was registered twice.                              *)
LastWins ==
  \A c \in Chains :
    LET Of(n) == {a \in regs[n].adapters : a.chain = c}
        calls == {n \in DOMAIN regs : Of(n) # {}}
        last == Max(calls)
    IN /\ calls = {} => registry[c] = None
       /\ calls # {} /\ (\A n \in calls \ {last} : Of(n) \cap Of(last) = {}) =>
            registry[c] = IF regs[last].disposed THEN None ELSE CHOOSE a \in Of(last) : TRUE

(* The contract of nextIndex: the allocations of a chain do not overlap,   *)
(* and an attestation with a wallet carries its path.                      *)
Orderly ==
  /\ ~allocsOverlapped
  /\ \A k \in DOMAIN stored : stored[k].wallet # None => stored[k].path # None

(* Under that contract no two attestations stored for a chain have the     *)
(* same path, nor one that was there before: restarts between deriving and *)
(* storing, holes and foreign paths included.                              *)
IndexIsFresh ==
  Orderly =>
    \A j, k \in DOMAIN stored :
      /\ stored[j].path # None => stored[j].path \notin old[stored[j].chain]
      /\ j # k /\ stored[j].path # None /\ stored[j].chain = stored[k].chain =>
           stored[j].path # stored[k].path

(* Under that contract the wallets two entities are bound to on a chain    *)
(* are not both confirmed by verifyWalletBinding with an attestation for   *)
(* that chain when they have one address: a refused or interrupted         *)
(* allocation leaves a binding to an address that is given out again.      *)
AddressHasOneOwner ==
  Orderly =>
    \A e, f \in Entities, c \in Chains :
      LET Confirmed(g) == GetEntityWallet(g, c) # None /\
            \E k \in DOMAIN stored : /\ stored[k].chain = c
                                     /\ VerifyWalletBinding(GetEntityWallet(g, c), g, stored[k])
      IN e # f /\ Confirmed(e) /\ Confirmed(f) =>
           GetEntityWallet(e, c).address # GetEntityWallet(f, c).address
=============================================================================
