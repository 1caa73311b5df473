----------------------------- MODULE Credentials -----------------------------
(***************************************************************************)
(* The data of @me2em/core that travels between issuers and verifiers:     *)
(* keys, grants, attestations and session tokens, and the ordered checks   *)
(* Session.verifyStateless and Session.verifyAttested are made of.         *)
(*                                                                         *)
(* A key is its derivation path: <<root>>, <<root, handle>> or             *)
(* <<root, handle, sub>>.  Derivation is deterministic and collision free, *)
(* so a path stands for the private key, the public key and the id (the    *)
(* Base64URL public key) alike.  A credential's "signer" is the key its    *)
(* signature verifies under; NoKey when it verifies under none, because    *)
(* the payload was altered after it was signed.                            *)
(***************************************************************************)
EXTENDS Integers, Sequences

CONSTANTS
  Keys,       \* the derivation paths in use
  Names,      \* canonical handle and sub-handle names
  Scopes,
  Audiences,
  Jtis,       \* attestation and session ids, one namespace
  Skew,       \* CLOCK_SKEW_SECONDS
  NoKey

ASSUME KeysArePaths == Keys \subseteq UNION {[1..n -> Names] : n \in 1..3}
ASSUME NoKeyIsNoKey == NoKey \notin Keys
ASSUME SkewIsNat == Skew \in Nat

(***************************************************************************)
(* An absent list ("undefined = unrestricted") is the full set, an empty   *)
(* list is the empty set ("deny all"); subNames is the set of names the    *)
(* grant's subNamePatterns match.                                          *)
(***************************************************************************)
Grant == [scopes : SUBSET Scopes, audiences : SUBSET Audiences,
          maxTtl : Nat \ {0}, subNames : SUBSET Names]

Attestation == [signer : Keys \cup {NoKey}, subject : Keys, name : Names,
                grant : Grant, iat : Int, exp : Int, jti : Jtis]

(* hPath is <<>> in the session of a Handle, <<handleName, subName>> in    *)
(* the session of a SubHandle.                                             *)
HPath == {<<>>} \cup (Names \X Names)

SessionToken == [signer : Keys \cup {NoKey}, hId : Keys, hNm : Names,
                 hPath : HPath, aud : Audiences, scp : SUBSET Scopes,
                 iat : Int, exp : Int, jti : Jtis]

(* A copy altered in transit to claim every scope: its signature is void.  *)
TamperedSession(s) == [s EXCEPT !.signer = NoKey, !.scp = Scopes]
TamperedAttestation(a) == [a EXCEPT !.signer = NoKey, !.grant.scopes = Scopes]

-----------------------------------------------------------------------------
(***************************************************************************)
(* Verification is a sequence of checks.  A list of checks is the sequence *)
(* of the errors of those that fail, in order: <<>> when all hold; its     *)
(* head is the error that is thrown.                                       *)
(***************************************************************************)
Codes == {"MALFORMED", "BAD_SIGNATURE", "EXPIRED", "NOT_YET_VALID", "REVOKED",
          "PATH_MISMATCH", "NAME_NOT_PERMITTED", "SCOPE_EXCEEDED",
          "AUDIENCE_NOT_PERMITTED", "TTL_EXCEEDED", "CHAIN_INCOMPLETE",
          "SUBJECT_MISMATCH", "SESSION_OUTLIVES_ATTESTATION",
          "MAX_DEPTH_EXCEEDED", "DISPOSED"}

Levels == {"ROOT", "HANDLE_ATTESTATION", "SUB_ATTESTATION", "SESSION", "FORMAT"}

AttestationError == [code : Codes, level : Levels]

Require(holds, code, level) ==
  IF holds THEN <<>> ELSE << [code |-> code, level |-> level] >>

(* parseSessionToken and Attestation.decode: of what each looks at, only   *)
(* the order of the two dates is not a matter of form.  An absent list is  *)
(* told from an empty one, and neither date may be infinite.               *)
ParseErrors(s) == Require(s.exp > s.iat, "MALFORMED", "FORMAT")

DecodeErrors(a) == Require(a.exp > a.iat, "MALFORMED", "FORMAT")

(* A session's form, audience and time. *)
SessionErrors(s, aud, t) ==
     ParseErrors(s)
  \o Require(s.aud = aud, "AUDIENCE_NOT_PERMITTED", "SESSION")
  \o Require(t <= s.exp + Skew, "EXPIRED", "SESSION")
  \o Require(t >= s.iat - Skew, "NOT_YET_VALID", "SESSION")

(* One attestation per level of the session's path, root first. *)
ChainErrors(s, chain) ==
  Require(Len(chain) = (IF s.hPath = <<>> THEN 1 ELSE 2),
          "CHAIN_INCOMPLETE", "FORMAT")

(* Mutant: the clock skew is granted after the expiry only. *)
AttestationErrorsStrictStart(a, signer, t, level) ==
     DecodeErrors(a)
  \o Require(a.signer = signer, "BAD_SIGNATURE", level)
  \o Require(t <= a.exp + Skew, "EXPIRED", level)
  \o Require(t >= a.iat, "NOT_YET_VALID", level)

(* The form, signature and time of one level of the chain. *)
AttestationErrors(a, signer, t, level) ==
     DecodeErrors(a)
  \o Require(a.signer = signer, "BAD_SIGNATURE", level)
  \o Require(t <= a.exp + Skew, "EXPIRED", level)
  \o Require(t >= a.iat - Skew, "NOT_YET_VALID", level)

(* A Handle session is bound to the subject of the root attestation. *)
SubjectErrors(s, a) ==
  Require(s.hId = a.subject, "SUBJECT_MISMATCH", "ROOT")

(* Mutant: the root's sub-name patterns are not matched. *)
NestingErrorsAnyName(s, a, b) ==
     Require(b.name = s.hPath[2], "PATH_MISMATCH", "HANDLE_ATTESTATION")
  \o Require(a.name = s.hPath[1], "PATH_MISMATCH", "ROOT")
  \o Require(s.hId = b.subject, "SUBJECT_MISMATCH", "SUB_ATTESTATION")
  \o Require(b.grant.scopes \subseteq a.grant.scopes, "SCOPE_EXCEEDED", "ROOT")
  \o Require(b.grant.maxTtl <= a.grant.maxTtl, "TTL_EXCEEDED", "ROOT")

(* The handle attestation b against the root attestation a above it and    *)
(* the session s below it.                                                 *)
NestingErrors(s, a, b) ==
     Require(b.name = s.hPath[2], "PATH_MISMATCH", "HANDLE_ATTESTATION")
  \o Require(a.name = s.hPath[1], "PATH_MISMATCH", "ROOT")
  \o Require(b.name \in a.grant.subNames, "NAME_NOT_PERMITTED", "ROOT")
  \o Require(s.hId = b.subject, "SUBJECT_MISMATCH", "SUB_ATTESTATION")
  \o Require(b.grant.scopes \subseteq a.grant.scopes, "SCOPE_EXCEEDED", "ROOT")
  \o Require(b.grant.maxTtl <= a.grant.maxTtl, "TTL_EXCEEDED", "ROOT")

(* Mutant: the session's own signature is not verified. *)
GrantErrorsUnsigned(s, g, earliestExp) ==
     Require(s.scp \subseteq g.scopes, "SCOPE_EXCEEDED", "SESSION")
  \o Require(s.aud \in g.audiences, "AUDIENCE_NOT_PERMITTED", "SESSION")
  \o Require(s.exp - s.iat <= g.maxTtl, "TTL_EXCEEDED", "SESSION")
  \o Require(s.exp <= earliestExp + Skew,
             "SESSION_OUTLIVES_ATTESTATION", "SESSION")

(* The session against the effective grant g and the earliest expiry of    *)
(* the chain, then its own signature.                                      *)
GrantErrors(s, g, earliestExp) ==
     Require(s.scp \subseteq g.scopes, "SCOPE_EXCEEDED", "SESSION")
  \o Require(s.aud \in g.audiences, "AUDIENCE_NOT_PERMITTED", "SESSION")
  \o Require(s.exp - s.iat <= g.maxTtl, "TTL_EXCEEDED", "SESSION")
  \o Require(s.exp <= earliestExp + Skew,
             "SESSION_OUTLIVES_ATTESTATION", "SESSION")
  \o Require(s.signer = s.hId, "BAD_SIGNATURE", "SESSION")

(* The key verifyStateless reconstructs from the identity it holds. *)
ReconstructedKey(root, s) ==
  IF s.hPath = <<>> THEN <<root[1], s.hNm>> ELSE <<root[1]>> \o s.hPath

ReconstructionErrors(root, s) ==
     Require(s.signer = ReconstructedKey(root, s), "BAD_SIGNATURE", "SESSION")
  \o Require(s.hId = ReconstructedKey(root, s), "SUBJECT_MISMATCH", "SESSION")
=============================================================================
