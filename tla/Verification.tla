---------------------------- MODULE Verification ----------------------------
(***************************************************************************)
(* Session.verifyStateless and Session.verifyAttested, run concurrently by *)
(* a set of verifiers against one revocation store.                        *)
(*                                                                         *)
(* A verification yields while it waits for the revocation checker; the    *)
(* checks between two answers run on immutable tokens and on the "now" it  *)
(* captured when it began, so each answer and the checks after it are one  *)
(* step.  Without a checker the same steps happen and nothing is read.     *)
(***************************************************************************)
EXTENDS Credentials, FiniteSets

CONSTANTS
  Verifiers,
  Services,   \* what a verifier is configured with
  MaxRevoked  \* bound: ids revoked

(* root: the root public key trusted in attested mode, the identity held   *)
(* in stateless mode; checker: whether a RevocationChecker is passed.      *)
Service == [root : Keys, aud : Audiences, checker : BOOLEAN]

ASSUME ServicesAreServices == Services \subseteq Service
ASSUME MaxRevokedIsNat == MaxRevoked \in Nat

VARIABLES
  ver,     \* ver[v]: the verification v runs
  revoked, \* the jtis in the revocation store
  known    \* history: known[v] is revoked as it was when v began

verificationVars == <<ver, revoked, known>>

Answers == {"rootAnswer", "handleAnswer", "sessionAnswer"}

Accepted == [code |-> "ACCEPTED", level |-> "SESSION"]
Undecided == [code |-> "UNDECIDED", level |-> "SESSION"]
CheckerFailed == [code |-> "CHECKER_FAILED", level |-> "SESSION"]

Verdict == AttestationError \cup {Accepted, Undecided, CheckerFailed}

Idle == [stage |-> "idle"]

VerificationInit ==
  /\ ver = [v \in Verifiers |-> Idle]
  /\ revoked = {}
  /\ known = [v \in Verifiers |-> {}]

-----------------------------------------------------------------------------
(* Mutant: a failed check is noticed but the promise does not settle. *)
DecideSilently(v, r, errors, next) ==
  /\ errors = <<>>
  /\ ver' = [ver EXCEPT ![v] =
       [r EXCEPT !.stage = next,
                 !.verdict = IF next = "done" THEN Accepted ELSE Undecided]]

(* All checks hold and the verification goes on to the next stage, or the  *)
(* first that fails decides it.                                            *)
Decide(v, r, errors, next) ==
  \/ /\ errors = <<>>
     /\ ver' = [ver EXCEPT ![v] =
          [r EXCEPT !.stage = next,
                    !.verdict = IF next = "done" THEN Accepted ELSE Undecided]]
  \/ /\ errors # <<>>
     /\ ver' = [ver EXCEPT ![v] =
          [r EXCEPT !.stage = "done", !.verdict = Head(errors)]]

(* Mutant: the checker's promise, not its answer, is taken for the verdict. *)
RevocationErrorsUnawaited(r, jti, level) ==
  Require(~r.checker, "REVOKED", level)

(* The verdict of the checker, when there is one. *)
RevocationErrors(r, jti, level) ==
  Require(~(r.checker /\ jti \in revoked), "REVOKED", level)

IsSubSession(s) == s.hPath # <<>>

Earliest(a, b) == IF a.exp <= b.exp THEN a.exp ELSE b.exp

(* verifyAttested up to the first answer: parsing, audience, session time, *)
(* chain shape, and the root attestation's decoding, signature and time.   *)
BeginAttested(v, r) ==
  Decide(v, r,
    SessionErrors(r.token, r.aud, r.start)
      \o ChainErrors(r.token, r.chain)
      \o (IF ChainErrors(r.token, r.chain) = <<>>
            THEN AttestationErrors(r.chain[1], r.root, r.start, "ROOT")
            ELSE <<>>),
    "rootAnswer")

(* verifyStateless up to its one answer.  The identity it holds derives    *)
(* the handle after the time check, and throws once it is disposed.        *)
BeginStateless(v, r, identityLive) ==
  Decide(v, r,
    SessionErrors(r.token, r.aud, r.start)
      \o Require(identityLive, "DISPOSED", "FORMAT")
      \o ReconstructionErrors(r.root, r.token),
    "sessionAnswer")

Begin(v, mode, service, s, chain, t, identityLive) ==
  LET r == [stage |-> "idle", verdict |-> Undecided, mode |-> mode,
            root |-> service.root, aud |-> service.aud,
            checker |-> service.checker, token |-> s, chain |-> chain,
            start |-> t]
  IN  /\ ver[v] = Idle
      /\ IF mode = "attested" THEN BeginAttested(v, r)
                              ELSE BeginStateless(v, r, identityLive)
      /\ known' = [known EXCEPT ![v] = revoked]
      /\ UNCHANGED revoked

(* The root attestation's revocation is known: a SubHandle session goes on *)
(* with the handle attestation, a Handle session with the grant.           *)
AfterRoot(v, r) ==
  LET a == r.chain[1]
      s == r.token
  IN  IF IsSubSession(s)
        THEN Decide(v, r,
               RevocationErrors(r, a.jti, "ROOT")
                 \o AttestationErrors(r.chain[2], a.subject, r.start,
                                      "HANDLE_ATTESTATION"),
               "handleAnswer")
        ELSE Decide(v, r,
               RevocationErrors(r, a.jti, "ROOT")
                 \o SubjectErrors(s, a)
                 \o GrantErrors(s, a.grant, a.exp),
               "sessionAnswer")

(* Mutant: the root's jti is asked about a second time. *)
AfterHandleRootAgain(v, r) ==
  LET a == r.chain[1]
      b == r.chain[2]
  IN  Decide(v, r,
        RevocationErrors(r, a.jti, "HANDLE_ATTESTATION")
          \o NestingErrors(r.token, a, b)
          \o GrantErrors(r.token, b.grant, Earliest(a, b)),
        "sessionAnswer")

(* The handle attestation's revocation is known. *)
AfterHandle(v, r) ==
  LET a == r.chain[1]
      b == r.chain[2]
  IN  Decide(v, r,
        RevocationErrors(r, b.jti, "HANDLE_ATTESTATION")
          \o NestingErrors(r.token, a, b)
          \o GrantErrors(r.token, b.grant, Earliest(a, b)),
        "sessionAnswer")

AfterSession(v, r) ==
  Decide(v, r, RevocationErrors(r, r.token.jti, "SESSION"), "done")

RootAnswer(v) ==
  /\ ver[v].stage = "rootAnswer"
  /\ AfterRoot(v, ver[v])
  /\ UNCHANGED <<revoked, known>>

HandleAnswer(v) ==
  /\ ver[v].stage = "handleAnswer"
  /\ AfterHandle(v, ver[v])
  /\ UNCHANGED <<revoked, known>>

SessionAnswer(v) ==
  /\ ver[v].stage = "sessionAnswer"
  /\ AfterSession(v, ver[v])
  /\ UNCHANGED <<revoked, known>>

(* The checker's promise rejects: so does the verification. *)
CheckerFails(v) ==
  /\ ver[v].stage \in Answers
  /\ ver[v].checker
  /\ ver' = [ver EXCEPT ![v].stage = "done", ![v].verdict = CheckerFailed]
  /\ UNCHANGED <<revoked, known>>

Revoke(jti) ==
  /\ jti \notin revoked
  /\ Cardinality(revoked) < MaxRevoked
  /\ revoked' = revoked \cup {jti}
  /\ UNCHANGED <<ver, known>>

AnswerStep(v) ==
  RootAnswer(v) \/ HandleAnswer(v) \/ SessionAnswer(v) \/ CheckerFails(v)
=============================================================================
