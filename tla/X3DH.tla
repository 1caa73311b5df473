------------------------------- MODULE X3DH -------------------------------
(***************************************************************************)
(* The key agreement of packages/crypto/src/x3dh, with symbolic keys.  A   *)
(* key pair is one name; DH of a private and a public key is the unordered *)
(* pair of their names; HKDF and the joining of secrets are injective.     *)
(***************************************************************************)
EXTENDS Naturals

CONSTANTS
  None,
  Users,      \* holders of an identity
  Batches,    \* pre-key batches each user generated
  OtkCount    \* one-time pre-keys in a batch

ASSUME X3DHAssumption == OtkCount \in 1..1000

IK(user) == <<"ik", user>>
SPK(user, n) == <<"spk", user, n>>
OTK(user, n, i) == <<"otk", user, n, i>>
EK(call) == <<"ek", call>>
Zero == <<"zero">>            \* the bytes of a wiped buffer
BadPoint == <<"bad point">>   \* a public key the curve library refuses

OtksOf(user) == {OTK(user, n, i) : n \in Batches, i \in 0..OtkCount - 1}

(* x25519SharedSecret; the library throws for a bad point. *)
DH(private, public) == {private, public}
Throws(public) == public = BadPoint

(* publishableBundle of the n-th batch; pickOtkIndex may be left out. *)
PublishableBundle(user, n, pickOtkIndex) ==
  [identity |-> IK(user), spk |-> SPK(user, n),
   signature |-> [by |-> IK(user), over |-> SPK(user, n)],
   otk |-> IF pickOtkIndex = None THEN None ELSE OTK(user, n, pickOtkIndex)]

Published(user) ==
  {PublishableBundle(user, n, i) : n \in Batches, i \in {None} \cup 0..OtkCount - 1}

(* What a server may answer for a user: a bundle of theirs, even one it    *)
(* answered before, or one in which a field is somebody else's.            *)
Answers(user) ==
  Published(user) \cup
  UNION {LET b == PublishableBundle(user, n, 0)
             o == PublishableBundle(other, n, 0)
         IN {[b EXCEPT !.identity = o.identity], [b EXCEPT !.spk = o.spk],
             [b EXCEPT !.signature = o.signature], [b EXCEPT !.otk = o.otk]} :
           n \in Batches, other \in Users \ {user}}

VerifySignedPreKey(bundle, identity) ==
  bundle.signature = [by |-> identity, over |-> bundle.spk]

(* The guards of initiateX3DH. *)
MayInitiate(bundle) ==
  VerifySignedPreKey(bundle, bundle.identity) /\ bundle.otk # None

(* Mutant: the identity of the initiator is left out. *)
UnboundIkm(dh1, dh2, dh3, dh4) == <<dh2, dh3, dh4>>

Ikm(dh1, dh2, dh3, dh4) == <<dh1, dh2, dh3, dh4>>

Initiated(identity, ephemeral, bundle) ==
  Ikm(DH(identity, bundle.spk), DH(ephemeral, bundle.identity),
      DH(ephemeral, bundle.spk), DH(ephemeral, bundle.otk))

(* Mutant: the recipient swaps the first two. *)
SwappedCompletion(identity, spk, otk, initiator, ephemeral) ==
  Ikm(DH(identity, ephemeral), DH(spk, initiator),
      DH(spk, ephemeral), DH(otk, ephemeral))

Completed(identity, spk, otk, initiator, ephemeral) ==
  Ikm(DH(spk, initiator), DH(identity, ephemeral),
      DH(spk, ephemeral), DH(otk, ephemeral))
=============================================================================
