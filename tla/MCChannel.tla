------------------------------ MODULE MCChannel ------------------------------
(* Instances of Channel, used in any way and used serially. *)
EXTENDS SerialChannel, FiniteSets, TLC

MCSequences == 0..2
MCTwoSequences == 0..1

Symmetry == Permutations(Channels) \cup Permutations(Calls)

(* The application numbers the messages of an epoch in order and below     *)
(* SeqMod: the network reorders and renumbers them anyway.                 *)
InOrder == \A m \in wire' \ wire :
  /\ m.sequence < SeqMod
  /\ \A q \in SeqNumbers : q < m.sequence =>
       \E n \in wire : n.epoch = m.epoch /\ n.sequence = q

(* All that will not open is refused alike, so one damaged ciphertext per  *)
(* header stands for the rest of it.                                       *)
OneFailure == \A d \in Calls :
  calls'[d] # calls[d] /\ calls'[d].op = "decrypt" =>
    calls'[d].msg.sealed = NoSeal \/ Opens(calls'[d].chan, calls'[d].msg)

(* Bound: deliveries by all objects together. *)
MaxInAll == 5

InAll == Cardinality(UNION {{c} \X DOMAIN delivered'[c] : c \in Channels}) <= MaxInAll

Counting == InOrder /\ OneFailure /\ InAll

CountingSpec == Init /\ [][Next /\ Counting]_vars

SerialCountingSpec == Init /\ [][SerialNext /\ Counting]_vars
=============================================================================
