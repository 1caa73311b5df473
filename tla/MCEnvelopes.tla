----------------------------- MODULE MCEnvelopes -----------------------------
(* An instance of Envelopes: one file with two chunks, one with none (a key *)
(* that is only wrapped), one recipient with two batches of pre-keys.       *)
EXTENDS Envelopes, TLC

CONSTANTS s1, s2

MCBatches == 1..2
MCContexts == 1..2
MCIndices == s1 :> {0, 1} @@ s2 :> {}

Symmetry == Permutations(Unwraps)

(***************************************************************************)
(* Shares touch no state of one another or of the recipient, who is        *)
(* offline until they settled: they run one after the other, then the      *)
(* unwraps, which overlap freely.  Contexts are alike: shares use the      *)
(* first, and the recipient may give the other.                            *)
(***************************************************************************)
AllSettled(s) == shares[s] = Idle \/ Parts(shares[s]) \subseteq Settled

InTurn ==
  /\ \A s \in Shares : shares[s] = Idle /\ shares'[s] # Idle =>
       /\ \A t \in Shares : AllSettled(t)
       /\ shares'[s].context = 1
       /\ unwraps = [u \in Unwraps |-> Idle]
  /\ unwraps' # unwraps => \A s \in Shares : AllSettled(s)

TurnNext == Next /\ InTurn

TurnSpec == Init /\ [][TurnNext]_vars
=============================================================================
