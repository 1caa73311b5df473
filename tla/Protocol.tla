------------------------------ MODULE Protocol ------------------------------
(***************************************************************************)
(* Issuers and verifiers of @me2em/core together.  Verifiers are presented *)
(* with any token and any chain made of what was signed so far, intact or  *)
(* altered in transit, and share nothing with the issuers but the tokens:  *)
(* their clocks differ by up to Skew seconds.                              *)
(***************************************************************************)
EXTENDS Issuance, Verification

vars == <<issuanceVars, verificationVars>>

Init == IssuanceInit /\ VerificationInit

(* Presentations: a token and a chain, of which at most one credential was *)
(* altered on the way.                                                     *)
Chains(links) == {<<>>} \cup {<<a>> : a \in links} \cup (links \X links)

Altered(chain) ==
  {[chain EXCEPT ![i] = TamperedAttestation(@)] : i \in DOMAIN chain}

Presentations ==
  UNION {   {<<s, chain>>, <<TamperedSession(s), chain>>}
         \cup {<<s, altered>> : altered \in Altered(chain)} :
         s \in sess, chain \in Chains(atts)}

VerifyAttested(v) ==
  \E service \in Services, p \in Presentations :
    Begin(v, "attested", service, p[1], p[2], now, TRUE)

VerifyStateless(v) ==
  \E service \in Services, s \in sess \cup {TamperedSession(t) : t \in sess} :
    Begin(v, "stateless", service, s, <<>>, now, service.root \in live)

Next ==
  \/ IssuanceNext /\ UNCHANGED verificationVars
  \/ /\ \/ \E v \in Verifiers : VerifyAttested(v) \/ VerifyStateless(v)
        \/ \E v \in Verifiers : AnswerStep(v)
        \/ \E jti \in Jtis : Revoke(jti)
     /\ UNCHANGED issuanceVars

(* The revocation checker's promises settle; nobody is obliged to start.   *)
Fairness == \A v \in Verifiers : WF_vars(AnswerStep(v) /\ UNCHANGED issuanceVars)

Spec == Init /\ [][Next]_vars /\ Fairness
-----------------------------------------------------------------------------
VerificationRecord ==
  [stage : Answers \cup {"done"}, verdict : Verdict,
   mode : {"attested", "stateless"}, root : Keys, token : SessionToken,
   chain : Seq(Attestation), aud : Audiences, checker : BOOLEAN, start : Nat]

TypeOK ==
  /\ IssuanceTypeOK
  /\ ver \in [Verifiers -> {Idle} \cup VerificationRecord]
  /\ revoked \subseteq Jtis
  /\ known \in [Verifiers -> SUBSET Jtis]

IsAccepted(r) == r.stage = "done" /\ r.verdict = Accepted

(* The request v decides, as one who relies on it sees it: pending while   *)
(* the verification waits for the checker, then answered.                  *)
Decision(r) ==
  IF r.stage # "done" THEN "pending"
  ELSE IF r.verdict = Accepted THEN "accepted"
  ELSE IF r.verdict = CheckerFailed THEN "failed"
  ELSE IF r.verdict.code \in {"REVOKED", "EXPIRED"} THEN r.verdict.code
  ELSE "OTHER"

Shown(r, before) ==
  [answer |-> Decision(r), before |-> before, mode |-> r.mode,
   root |-> r.root, token |-> r.token, chain |-> r.chain, aud |-> r.aud,
   checker |-> r.checker, start |-> r.start]

Request(v) ==
  IF ver[v] = Idle THEN [answer |-> "none"] ELSE Shown(ver[v], known[v])

Requests == [v \in Verifiers |-> Request(v)]

Promise == INSTANCE Authorization WITH request <- Requests

(* Verifications that wait, overlap and meet revocations half-way decide   *)
(* each request as Authorization does, in one step on what is signed and   *)
(* revoked then: the one in which they are decided.                        *)
KeepsPromise == Promise!Spec

(* An accepted session was created by the key it names.  In attested mode  *)
(* its scopes, lifetime and holder lie within a grant the verifier's root  *)
(* signed, however the tokens were combined or altered on the way; in      *)
(* stateless mode its holder is derived from the verifier's identity.      *)
AcceptedIsGranted ==
  \A v \in Verifiers : IsAccepted(ver[v]) => Promise!Granted(ver[v])

(* A credential revoked before a verification began is never accepted by   *)
(* it, whichever level it sits at and whatever is revoked meanwhile.       *)
RevokedIsRefused ==
  \A v \in Verifiers : (IsAccepted(ver[v]) /\ ver[v].checker) =>
    known[v] \cap Promise!Ids(ver[v]) = {}

(* The revocation store is only ever asked about authentic credentials:    *)
(* an attestation's jti after its signature held, the session's jti after  *)
(* everything else did.                                                    *)
AskedIsAuthentic ==
  \A v \in Verifiers : LET r == ver[v] IN
    /\ r.stage = "rootAnswer" => r.chain[1] \in atts
    /\ r.stage = "handleAnswer" => r.chain[2] \in atts
    /\ r.stage = "sessionAnswer" => r.token \in sess

(* Completeness: a session issued within its grants is only ever refused   *)
(* because something is revoked, because it has expired, or because the    *)
(* checker failed; a clock that differs by up to Skew never refuses it.    *)
HonestIsAccepted ==
  \A v \in Verifiers : (ver[v].stage = "done" /\ Promise!Honest(ver[v])) =>
    \/ ver[v].verdict \in {Accepted, CheckerFailed}
    \/ ver[v].checker /\ ver[v].verdict.code = "REVOKED"
    \/ ver[v].verdict.code = "EXPIRED" /\ ver[v].start > ver[v].token.exp

(* Nothing is signed with the key of an object once it is disposed, not    *)
(* even by a call that was already under way.                              *)
DisposedNeverSigns ==
  [][\A c \in (atts' \cup sess') \ (atts \cup sess) : c.signer \in live]_vars

(* Every verification that begins is decided, as long as the checker's     *)
(* promises settle.                                                        *)
EveryVerificationIsDecided ==
  \A v \in Verifiers : (ver[v].stage \in Answers) ~> (ver[v].stage = "done")

(* THREAT_MODEL.md, section 4: "audience containment" along the chain.     *)
(* What verifyAttested accepts for a SubHandle lies within the audiences   *)
(* its root attestation grants.                                            *)
AudienceIsContained ==
  \A v \in Verifiers : (IsAccepted(ver[v]) /\ ver[v].mode = "attested") =>
    ver[v].token.aud \in ver[v].chain[1].grant.audiences
=============================================================================
