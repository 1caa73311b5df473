---------------------------- MODULE MCOnboarding ----------------------------
(* An instance of Onboarding. *)
EXTENDS Onboarding

MCSeeds == 0..MaxDerivations
MCCallers == {"create", "import", "app"}
=============================================================================
