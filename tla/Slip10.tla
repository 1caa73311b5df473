------------------------------- MODULE Slip10 -------------------------------
(***************************************************************************)
(* Hardened derivation (packages/crypto/src/core/slip10.ts) and the        *)
(* payment paths of packages/solana/src/wallet-tree.ts.  HMAC-SHA512 is    *)
(* injective: a node is the seed and the indices it was derived with.      *)
(* MaxPlainIndex is 2^31 - 1 in the code; the hardening bit is one more.   *)
(***************************************************************************)
EXTENDS Naturals, Sequences, FiniteSets, SequencesExt, FiniteSetsExt

CONSTANTS
  Invalid,        \* a thrown TypeError
  MaxPlainIndex

ASSUME Slip10Assumption == MaxPlainIndex \in Nat \ {0}

HardenedBit == MaxPlainIndex + 1
MaxIndex == 2 * MaxPlainIndex + 1

MasterKeyFromSeed(seed) == [seed |-> seed, indices |-> <<>>]

DeriveHardenedChild(node, index) ==
  IF index \in HardenedBit..MaxIndex
  THEN [node EXCEPT !.indices = Append(@, index)] ELSE Invalid

(* A path is the sequence of its plain components, all of them hardened:   *)
(* the grammar refuses any other.                                          *)
DerivePath(node, path) ==
  IF \A k \in DOMAIN path : path[k] \in 0..MaxPlainIndex
  THEN FoldLeft(LAMBDA n, plain : DeriveHardenedChild(n, plain + HardenedBit), node, path)
  ELSE Invalid

(* m/44'/501'/index'/0'; the fixed components are numbered 0, 1 and 0. *)
PaymentPath(index) == <<0, 1, index, 0>>

PublicKey(node) == <<"public", node>>

(* Its address is the encoding of its public key, one to one. *)
SolanaDerivedWallet(node, path) ==
  [address |-> PublicKey(node), derivationPath |-> path]

DeriveWallet(master, index) ==
  IF index \in 0..MaxPlainIndex
  THEN SolanaDerivedWallet(DerivePath(master, PaymentPath(index)), PaymentPath(index))
  ELSE Invalid

(* The indices of the paths that match; Number() reads a padded one as it  *)
(* reads the plain one, and what is out of range is ignored.               *)
Parsed(usedPaths) ==
  {p[3] : p \in {q \in usedPaths : Len(q) = 4 /\ q = PaymentPath(q[3])
                                     /\ q[3] <= MaxPlainIndex}}

(* Mutant: the number of paths used. *)
CountedIndex(usedPaths) == Cardinality(Parsed(usedPaths))

NextPaymentIndex(usedPaths) ==
  IF Parsed(usedPaths) = {} THEN 0 ELSE Max(Parsed(usedPaths)) + 1
=============================================================================
