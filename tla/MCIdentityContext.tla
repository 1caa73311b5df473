-------------------------- MODULE MCIdentityContext --------------------------
(* Instances of IdentityContext. *)
EXTENDS IdentityContext, TLC

Symmetry == Permutations(Identities)
=============================================================================
