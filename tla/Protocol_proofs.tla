--------------------------- MODULE Protocol_proofs ---------------------------
(***************************************************************************)
(* The safety properties of Protocol for every set of keys, names, grants  *)
(* and requests, any number of verifiers and every clock skew.             *)
(***************************************************************************)
EXTENDS Protocol, SequenceTheorems, TLAPS

-----------------------------------------------------------------------------
Errors == Seq(AttestationError)

(* A concatenation of checks passes only when both parts pass. *)
LEMMA Checks ==
  ASSUME NEW a \in Errors, NEW b \in Errors
  PROVE  /\ a \o b \in Errors
         /\ a \o b = <<>> => a = <<>> /\ b = <<>>
BY ConcatProperties, ConcatEqualIffEmpty DEF Errors

(* The codes and levels verification throws. *)
LEMMA CodesAndLevels ==
  /\ "MALFORMED" \in Codes /\ "BAD_SIGNATURE" \in Codes
  /\ "EXPIRED" \in Codes /\ "NOT_YET_VALID" \in Codes
  /\ "REVOKED" \in Codes /\ "PATH_MISMATCH" \in Codes
  /\ "NAME_NOT_PERMITTED" \in Codes /\ "SCOPE_EXCEEDED" \in Codes
  /\ "AUDIENCE_NOT_PERMITTED" \in Codes /\ "TTL_EXCEEDED" \in Codes
  /\ "CHAIN_INCOMPLETE" \in Codes /\ "SUBJECT_MISMATCH" \in Codes
  /\ "SESSION_OUTLIVES_ATTESTATION" \in Codes /\ "DISPOSED" \in Codes
  /\ "ROOT" \in Levels /\ "HANDLE_ATTESTATION" \in Levels
  /\ "SUB_ATTESTATION" \in Levels /\ "SESSION" \in Levels
  /\ "FORMAT" \in Levels
BY DEF Codes, Levels

(* One check is a list of errors, whatever it checks. *)
LEMMA OneCheck ==
  ASSUME NEW p, NEW code \in Codes, NEW level \in Levels
  PROVE  Require(p, code, level) \in Errors
<1>1. [code |-> code, level |-> level] \in AttestationError
  BY DEF AttestationError
<1>2. << [code |-> code, level |-> level] >> \in Errors /\ <<>> \in Errors
  BY <1>1 DEF Errors
<1> QED BY <1>2, Zenon DEF Require

(* Parsing, audience and time of a session. *)
LEMMA SessionErrorsAre ==
  ASSUME NEW s, NEW aud, NEW t
  PROVE  SessionErrors(s, aud, t) \in Errors
<1> DEFINE e1 == ParseErrors(s)
           e2 == Require(s.aud = aud, "AUDIENCE_NOT_PERMITTED", "SESSION")
           e3 == Require(t <= s.exp + Skew, "EXPIRED", "SESSION")
           e4 == Require(t >= s.iat - Skew, "NOT_YET_VALID", "SESSION")
<1>1. e1 \in Errors /\ e2 \in Errors /\ e3 \in Errors /\ e4 \in Errors
  BY OneCheck, CodesAndLevels DEF ParseErrors
<1>2. SessionErrors(s, aud, t) = e1 \o e2 \o e3 \o e4
  BY DEF SessionErrors
<1> HIDE DEF e1, e2, e3, e4
<1> QED BY <1>1, <1>2, Checks

(* A chain that passes has one attestation per level. *)
LEMMA ChainErrorsAre ==
  ASSUME NEW s, NEW chain
  PROVE  /\ ChainErrors(s, chain) \in Errors
         /\ ChainErrors(s, chain) = <<>> =>
              Len(chain) = IF s.hPath = <<>> THEN 1 ELSE 2
<1>1. ChainErrors(s, chain) \in Errors
  BY OneCheck, CodesAndLevels DEF ChainErrors
<1>2. ChainErrors(s, chain) = <<>> =>
        Len(chain) = IF s.hPath = <<>> THEN 1 ELSE 2
  BY DEF ChainErrors, Require
<1> QED BY <1>1, <1>2

(* An attestation that passes was signed by the expected key. *)
LEMMA AttestationErrorsAre ==
  ASSUME NEW a, NEW signer, NEW t, NEW level \in Levels
  PROVE  /\ AttestationErrors(a, signer, t, level) \in Errors
         /\ AttestationErrors(a, signer, t, level) = <<>> => a.signer = signer
<1> DEFINE e1 == DecodeErrors(a)
           e2 == Require(a.signer = signer, "BAD_SIGNATURE", level)
           e3 == Require(t <= a.exp + Skew, "EXPIRED", level)
           e4 == Require(t >= a.iat - Skew, "NOT_YET_VALID", level)
<1>1. e1 \in Errors /\ e2 \in Errors /\ e3 \in Errors /\ e4 \in Errors
  BY OneCheck, CodesAndLevels DEF DecodeErrors
<1>2. e2 = <<>> => a.signer = signer
  BY DEF Require
<1>3. AttestationErrors(a, signer, t, level) = e1 \o e2 \o e3 \o e4
  BY DEF AttestationErrors
<1> HIDE DEF e1, e2, e3, e4
<1>4. e1 \o e2 \in Errors /\ e1 \o e2 \o e3 \in Errors
  BY <1>1, Checks
<1>5. e1 \o e2 \o e3 \o e4 \in Errors
  BY <1>1, <1>4, Checks
<1>6. ASSUME e1 \o e2 \o e3 \o e4 = <<>>
      PROVE  e2 = <<>>
  <2>1. e1 \o e2 \o e3 = <<>>
    BY <1>1, <1>4, <1>6, Checks
  <2>2. e1 \o e2 = <<>>
    BY <1>1, <1>4, <2>1, Checks
  <2> QED BY <1>1, <2>2, Checks
<1> QED BY <1>2, <1>3, <1>5, <1>6

(* A Handle session that passes names the subject of its attestation. *)
LEMMA SubjectErrorsAre ==
  ASSUME NEW s, NEW a
  PROVE  /\ SubjectErrors(s, a) \in Errors
         /\ SubjectErrors(s, a) = <<>> => s.hId = a.subject
<1>1. SubjectErrors(s, a) \in Errors
  BY OneCheck, CodesAndLevels DEF SubjectErrors
<1>2. SubjectErrors(s, a) = <<>> => s.hId = a.subject
  BY DEF SubjectErrors, Require
<1> QED BY <1>1, <1>2

(* A handle attestation that passes is nested in the root's. *)
LEMMA NestingErrorsAre ==
  ASSUME NEW s, NEW a, NEW b
  PROVE  /\ NestingErrors(s, a, b) \in Errors
         /\ NestingErrors(s, a, b) = <<>> =>
              /\ b.name = s.hPath[2]
              /\ a.name = s.hPath[1]
              /\ b.name \in a.grant.subNames
              /\ s.hId = b.subject
              /\ b.grant.scopes \subseteq a.grant.scopes
              /\ b.grant.maxTtl <= a.grant.maxTtl
<1> DEFINE e1 == Require(b.name = s.hPath[2], "PATH_MISMATCH",
                         "HANDLE_ATTESTATION")
           e2 == Require(a.name = s.hPath[1], "PATH_MISMATCH", "ROOT")
           e3 == Require(b.name \in a.grant.subNames, "NAME_NOT_PERMITTED",
                         "ROOT")
           e4 == Require(s.hId = b.subject, "SUBJECT_MISMATCH",
                         "SUB_ATTESTATION")
           e5 == Require(b.grant.scopes \subseteq a.grant.scopes,
                         "SCOPE_EXCEEDED", "ROOT")
           e6 == Require(b.grant.maxTtl <= a.grant.maxTtl, "TTL_EXCEEDED",
                         "ROOT")
<1>1. /\ e1 \in Errors /\ e2 \in Errors /\ e3 \in Errors
      /\ e4 \in Errors /\ e5 \in Errors /\ e6 \in Errors
  BY OneCheck, CodesAndLevels
<1>2. /\ e1 = <<>> => b.name = s.hPath[2]
      /\ e2 = <<>> => a.name = s.hPath[1]
      /\ e3 = <<>> => b.name \in a.grant.subNames
      /\ e4 = <<>> => s.hId = b.subject
      /\ e5 = <<>> => b.grant.scopes \subseteq a.grant.scopes
      /\ e6 = <<>> => b.grant.maxTtl <= a.grant.maxTtl
  BY DEF Require
<1>3. NestingErrors(s, a, b) = e1 \o e2 \o e3 \o e4 \o e5 \o e6
  BY DEF NestingErrors
<1> HIDE DEF e1, e2, e3, e4, e5, e6
<1>4. e1 \o e2 \in Errors
  BY <1>1, Checks
<1>5. e1 \o e2 \o e3 \in Errors
  BY <1>1, <1>4, Checks
<1>6. e1 \o e2 \o e3 \o e4 \in Errors
  BY <1>1, <1>5, Checks
<1>7. e1 \o e2 \o e3 \o e4 \o e5 \in Errors
  BY <1>1, <1>6, Checks
<1>8. e1 \o e2 \o e3 \o e4 \o e5 \o e6 \in Errors
  BY <1>1, <1>7, Checks
<1>9. ASSUME e1 \o e2 \o e3 \o e4 \o e5 \o e6 = <<>>
      PROVE  /\ e1 = <<>> /\ e2 = <<>> /\ e3 = <<>>
             /\ e4 = <<>> /\ e5 = <<>> /\ e6 = <<>>
  <2>1. e1 \o e2 \o e3 \o e4 \o e5 = <<>> /\ e6 = <<>>
    BY <1>1, <1>7, <1>9, Checks
  <2>2. e1 \o e2 \o e3 \o e4 = <<>> /\ e5 = <<>>
    BY <1>1, <1>6, <2>1, Checks
  <2>3. e1 \o e2 \o e3 = <<>> /\ e4 = <<>>
    BY <1>1, <1>5, <2>2, Checks
  <2>4. e1 \o e2 = <<>> /\ e3 = <<>>
    BY <1>1, <1>4, <2>3, Checks
  <2>5. e1 = <<>> /\ e2 = <<>>
    BY <1>1, <2>4, Checks
  <2> QED BY <2>1, <2>2, <2>3, <2>4, <2>5
<1> QED BY <1>2, <1>3, <1>8, <1>9

(* A session that passes lies within the effective grant and was signed    *)
(* by the key it names.                                                    *)
LEMMA GrantErrorsAre ==
  ASSUME NEW s, NEW g, NEW earliestExp
  PROVE  /\ GrantErrors(s, g, earliestExp) \in Errors
         /\ GrantErrors(s, g, earliestExp) = <<>> =>
              /\ s.scp \subseteq g.scopes
              /\ s.aud \in g.audiences
              /\ s.exp - s.iat <= g.maxTtl
              /\ s.exp <= earliestExp + Skew
              /\ s.signer = s.hId
<1> DEFINE e1 == Require(s.scp \subseteq g.scopes, "SCOPE_EXCEEDED", "SESSION")
           e2 == Require(s.aud \in g.audiences, "AUDIENCE_NOT_PERMITTED",
                         "SESSION")
           e3 == Require(s.exp - s.iat <= g.maxTtl, "TTL_EXCEEDED", "SESSION")
           e4 == Require(s.exp <= earliestExp + Skew,
                         "SESSION_OUTLIVES_ATTESTATION", "SESSION")
           e5 == Require(s.signer = s.hId, "BAD_SIGNATURE", "SESSION")
<1>1. /\ e1 \in Errors /\ e2 \in Errors /\ e3 \in Errors
      /\ e4 \in Errors /\ e5 \in Errors
  BY OneCheck, CodesAndLevels
<1>2. /\ e1 = <<>> => s.scp \subseteq g.scopes
      /\ e2 = <<>> => s.aud \in g.audiences
      /\ e3 = <<>> => s.exp - s.iat <= g.maxTtl
      /\ e4 = <<>> => s.exp <= earliestExp + Skew
      /\ e5 = <<>> => s.signer = s.hId
  BY DEF Require
<1>3. GrantErrors(s, g, earliestExp) = e1 \o e2 \o e3 \o e4 \o e5
  BY DEF GrantErrors
<1> HIDE DEF e1, e2, e3, e4, e5
<1>4. e1 \o e2 \in Errors
  BY <1>1, Checks
<1>5. e1 \o e2 \o e3 \in Errors
  BY <1>1, <1>4, Checks
<1>6. e1 \o e2 \o e3 \o e4 \in Errors
  BY <1>1, <1>5, Checks
<1>7. e1 \o e2 \o e3 \o e4 \o e5 \in Errors
  BY <1>1, <1>6, Checks
<1>8. ASSUME e1 \o e2 \o e3 \o e4 \o e5 = <<>>
      PROVE  /\ e1 = <<>> /\ e2 = <<>> /\ e3 = <<>>
             /\ e4 = <<>> /\ e5 = <<>>
  <2>1. e1 \o e2 \o e3 \o e4 = <<>> /\ e5 = <<>>
    BY <1>1, <1>6, <1>8, Checks
  <2>2. e1 \o e2 \o e3 = <<>> /\ e4 = <<>>
    BY <1>1, <1>5, <2>1, Checks
  <2>3. e1 \o e2 = <<>> /\ e3 = <<>>
    BY <1>1, <1>4, <2>2, Checks
  <2>4. e1 = <<>> /\ e2 = <<>>
    BY <1>1, <2>3, Checks
  <2> QED BY <2>1, <2>2, <2>3, <2>4
<1> QED BY <1>2, <1>3, <1>7, <1>8

-----------------------------------------------------------------------------
(* A verification on its way, before it is put in ver. *)
Run ==
  [stage : Answers \cup {"done", "idle"}, verdict : Verdict,
   mode : {"attested", "stateless"}, root : Keys, token : SessionToken,
   chain : Seq(Attestation), aud : Audiences, checker : BOOLEAN, start : Nat]

VerType == ver \in [Verifiers -> {Idle} \cup VerificationRecord]

(* What a decided or continued verification n keeps of r. *)
SameRun(n, r) ==
  /\ n.mode = r.mode /\ n.root = r.root /\ n.token = r.token
  /\ n.chain = r.chain /\ n.checker = r.checker

(* What Decide does: it goes on when nothing is wrong, and otherwise ends  *)
(* with a verdict that is not an acceptance.                               *)
Decided(n, errors, next) ==
  \/ /\ errors = <<>>
     /\ n.stage = next
  \/ /\ errors # <<>>
     /\ n.stage = "done"
     /\ n.verdict # Accepted

(* The error thrown is a library error and never an acceptance. *)
LEMMA ThrownError ==
  ASSUME NEW errors \in Errors, errors # <<>>
  PROVE  Head(errors) \in Verdict /\ Head(errors) # Accepted
<1>1. Head(errors) \in AttestationError
  BY HeadTailProperties DEF Errors
<1>2. Head(errors).code \in Codes
  BY <1>1 DEF AttestationError
<1>3. Accepted.code = "ACCEPTED"
  BY DEF Accepted
<1>4. "ACCEPTED" \notin Codes
  BY DEF Codes
<1> QED BY <1>1, <1>2, <1>3, <1>4 DEF Verdict

(* A decision moves its verifier only, and keeps what was presented. *)
LEMMA DecideEffect ==
  ASSUME VerType, NEW v \in Verifiers, NEW r \in Run, NEW errors \in Errors,
         NEW next \in Answers \cup {"done"}, Decide(v, r, errors, next)
  PROVE  /\ ver' \in [Verifiers -> {Idle} \cup VerificationRecord]
         /\ ver'[v] \in VerificationRecord
         /\ \A w \in Verifiers \ {v} : ver'[w] = ver[w]
         /\ SameRun(ver'[v], r)
         /\ Decided(ver'[v], errors, next)
<1> DEFINE onward == IF next = "done" THEN Accepted ELSE Undecided
           put(st, vd) == [r EXCEPT !.stage = st, !.verdict = vd]
<1>1. ASSUME NEW st \in Answers \cup {"done"}, NEW vd \in Verdict
      PROVE  /\ put(st, vd) \in VerificationRecord
             /\ SameRun(put(st, vd), r)
             /\ put(st, vd).stage = st
             /\ put(st, vd).verdict = vd
  BY <1>1 DEF Run, VerificationRecord, SameRun
<1>2. ASSUME NEW n \in VerificationRecord, ver' = [ver EXCEPT ![v] = n]
      PROVE  /\ ver' \in [Verifiers -> {Idle} \cup VerificationRecord]
             /\ ver'[v] = n
             /\ \A w \in Verifiers \ {v} : ver'[w] = ver[w]
  BY <1>2 DEF VerType
<1>3. CASE errors = <<>>
  <2>1. onward \in Verdict
    BY DEF Verdict
  <2>2. ver' = [ver EXCEPT ![v] = put(next, onward)]
    BY <1>3 DEF Decide
  <2> HIDE DEF put, onward
  <2>3. /\ put(next, onward) \in VerificationRecord
        /\ SameRun(put(next, onward), r)
        /\ put(next, onward).stage = next
    BY <1>1, <2>1
  <2> QED BY <1>2, <1>3, <2>2, <2>3 DEF Decided
<1>4. CASE errors # <<>>
  <2>1. Head(errors) \in Verdict /\ Head(errors) # Accepted
    BY <1>4, ThrownError
  <2>2. ver' = [ver EXCEPT ![v] = put("done", Head(errors))]
    BY <1>4 DEF Decide
  <2> HIDE DEF put
  <2>3. /\ put("done", Head(errors)) \in VerificationRecord
        /\ SameRun(put("done", Head(errors)), r)
        /\ put("done", Head(errors)).stage = "done"
        /\ put("done", Head(errors)).verdict = Head(errors)
    BY <1>1, <2>1
  <2> QED BY <1>2, <1>4, <2>1, <2>2, <2>3 DEF Decided
<1> QED BY <1>3, <1>4

-----------------------------------------------------------------------------
(* The names a key's path is made of. *)
LEMMA KeyNames ==
  ASSUME NEW k \in Keys
  PROVE  /\ Len(k) \in 1..3
         /\ \A i \in 1..Len(k) : k[i] \in Names
<1>1. PICK n \in 1..3 : k \in [1..n -> Names]
  BY KeysArePaths
<1>2. k \in Seq(Names) /\ DOMAIN k = 1..n
  <2>1. n \in Nat
    OBVIOUS
  <2>2. k \in UNION {[1..m -> Names] : m \in Nat}
    BY <1>1, <2>1
  <2> QED BY <1>1, <2>2, SeqDef
<1>3. Len(k) \in Nat /\ DOMAIN k = 1..Len(k)
  BY <1>2, LenProperties
<1>4. Len(k) = n
  BY <1>2, <1>3
<1> QED BY <1>1, <1>4

(* The issuing calls sign credentials of the right form. *)
LEMMA IssueType ==
  ASSUME IssuanceTypeOK, NEW req \in AttestCalls \cup IssueCalls, Issue(req)
  PROVE  atts' \subseteq Attestation /\ atts \subseteq atts'
<1>1. /\ req.signer \in Keys /\ req.subject \in Keys /\ req.name \in Names
      /\ req.grant \in Grant /\ req.ttl \in Int /\ req.jti \in Jtis
      /\ req.ahead \in Int
  BY CallsAreRequests DEF AttestationRequest
<1>2. IssuerNow \in Int
  BY DEF IssuanceTypeOK, IssuerNow
<1>3. /\ IssuerNow + req.ahead \in Int
      /\ IssuerNow + req.ahead + req.ttl \in Int
  BY <1>1, <1>2
<1> QED BY <1>1, <1>2, <1>3 DEF Issue, Attestation, IssuanceTypeOK

(* Session.create signs a token of the right form. *)
LEMMA CreateSessionType ==
  ASSUME IssuanceTypeOK, NEW req \in CreateCalls, CreateSession(req)
  PROVE  sess' \subseteq SessionToken /\ sess \subseteq sess'
<1> DEFINE k == req.key
           new == [signer |-> k, hId |-> k, hNm |-> k[Len(k)],
                   hPath |-> SessionPath(k), aud |-> req.aud, scp |-> req.scp,
                   iat |-> IssuerNow, exp |-> IssuerNow + req.ttl,
                   jti |-> req.jti]
<1>1. /\ k \in Keys /\ req.aud \in Audiences /\ req.scp \in SUBSET Scopes
      /\ req.ttl \in Int /\ req.jti \in Jtis
  BY CallsAreRequests DEF SessionRequest
<1>2. IssuerNow \in Int
  BY DEF IssuanceTypeOK, IssuerNow
<1>3. IssuerNow + req.ttl \in Int
  BY <1>1, <1>2
<1> HIDE DEF k
<1>4. /\ k[Len(k)] \in Names
      /\ \A i \in 1..Len(k) : k[i] \in Names
  <2>1. Len(k) \in 1..3 /\ \A i \in 1..Len(k) : k[i] \in Names
    BY <1>1, KeyNames
  <2>2. Len(k) \in 1..Len(k)
    BY <2>1
  <2> QED BY <2>1, <2>2
<1>5. SessionPath(k) \in HPath
  <2>1. CASE Len(k) = 3
    <3>1. k[2] \in Names /\ k[3] \in Names
      BY <1>4, <2>1
    <3>2. SessionPath(k) = <<k[2], k[3]>>
      BY <2>1 DEF SessionPath
    <3> QED BY <3>1, <3>2 DEF HPath
  <2>2. CASE Len(k) # 3
    BY <2>2 DEF SessionPath, HPath
  <2> QED BY <2>1, <2>2
<1>6. sess' = sess \cup {new}
  BY DEF CreateSession, k
<1>7. new \in SessionToken
  BY <1>1, <1>2, <1>3, <1>4, <1>5 DEF SessionToken
<1> QED BY <1>6, <1>7 DEF IssuanceTypeOK

(* Issuing keeps its types, and what was signed stays signed. *)
LEMMA IssuanceStep ==
  ASSUME IssuanceTypeOK, IssuanceNext
  PROVE  IssuanceTypeOK' /\ atts \subseteq atts' /\ sess \subseteq sess'
<1>1. CASE \E req \in AttestCalls : StartAttest(req)
  BY <1>1 DEF StartAttest, IssuanceTypeOK
<1>2. CASE \E req \in pending : FinishAttest(req)
  <2>1. PICK req \in pending : FinishAttest(req)
    BY <1>2
  <2>2. req \in AttestCalls \cup IssueCalls
    BY DEF IssuanceTypeOK
  <2>3. Issue(req)
    BY <2>1 DEF FinishAttest
  <2>4. atts' \subseteq Attestation /\ atts \subseteq atts'
    BY <2>2, <2>3, IssueType
  <2> QED BY <2>1, <2>4 DEF FinishAttest, IssuanceTypeOK
<1>3. CASE \E req \in pending : AbortAttest(req)
  BY <1>3 DEF AbortAttest, IssuanceTypeOK
<1>4. CASE \E req \in IssueCalls : IssueDirect(req)
  <2>1. PICK req \in IssueCalls : IssueDirect(req)
    BY <1>4
  <2>2. Issue(req)
    BY <2>1 DEF IssueDirect
  <2>3. atts' \subseteq Attestation /\ atts \subseteq atts'
    BY <2>2, IssueType
  <2> QED BY <2>1, <2>3 DEF IssueDirect, IssuanceTypeOK
<1>5. CASE \E req \in CreateCalls : CreateSession(req)
  <2>1. PICK req \in CreateCalls : CreateSession(req)
    BY <1>5
  <2>2. sess' \subseteq SessionToken /\ sess \subseteq sess'
    BY <2>1, CreateSessionType
  <2> QED BY <2>1, <2>2 DEF CreateSession, IssuanceTypeOK
<1>6. CASE \E k \in Keys : Dispose(k)
  BY <1>6 DEF Dispose, IssuanceTypeOK
<1>7. CASE Tick
  BY <1>7 DEF Tick, IssuanceTypeOK
<1> QED
  BY <1>1, <1>2, <1>3, <1>4, <1>5, <1>6, <1>7 DEF IssuanceNext

-----------------------------------------------------------------------------
(***************************************************************************)
(* The invariant.  What a verification has established so far is carried   *)
(* by its stage: an attestation whose signature was checked is one that    *)
(* was signed, because an altered one verifies under no key.               *)
(***************************************************************************)
Authentic(c, signed) == c \in signed \/ c.signer = NoKey

Presented(r, signedAtts, signedSess) ==
  /\ Authentic(r.token, signedSess)
  /\ \A i \in DOMAIN r.chain : Authentic(r.chain[i], signedAtts)

RootSigned(r) ==
  /\ r.mode = "attested"
  /\ Len(r.chain) = (IF r.token.hPath = <<>> THEN 1 ELSE 2)
  /\ r.chain[1].signer = r.root

HandleSigned(r) ==
  /\ r.token.hPath # <<>>
  /\ r.chain[2].signer = r.chain[1].subject

(* The session against the chain, once every level of it was checked. *)
InGrant(r) ==
  LET s == r.token
      a == r.chain[1]
      b == r.chain[2]
  IN  /\ s.scp \subseteq a.grant.scopes
      /\ s.exp - s.iat <= a.grant.maxTtl
      /\ s.exp <= a.exp + Skew
      /\ \/ /\ s.hPath = <<>>
            /\ a.subject = s.hId
            /\ s.aud \in a.grant.audiences
         \/ /\ HandleSigned(r)
            /\ b.subject = s.hId
            /\ s.hPath = <<a.name, b.name>>
            /\ b.name \in a.grant.subNames
            /\ s.aud \in b.grant.audiences
            /\ s.exp <= b.exp + Skew

Vouched(r) ==
  /\ r.token.signer = r.token.hId
  /\ \/ RootSigned(r) /\ InGrant(r)
     \/ /\ r.mode = "stateless"
        /\ r.chain = <<>>
        /\ r.token.hId[1] = r.root[1]

Unrevoked(r, ids) ==
  r.checker => \A i \in DOMAIN r.chain : r.chain[i].jti \notin ids

StageInv(r, ids) ==
  /\ r.stage = "rootAnswer" => RootSigned(r)
  /\ r.stage = "handleAnswer" =>
       /\ RootSigned(r) /\ HandleSigned(r)
       /\ r.checker => r.chain[1].jti \notin ids
  /\ (r.stage = "sessionAnswer" \/ IsAccepted(r)) =>
       Vouched(r) /\ Unrevoked(r, ids)
  /\ (IsAccepted(r) /\ r.checker) => r.token.jti \notin ids

IInv ==
  /\ TypeOK
  /\ \A v \in Verifiers : known[v] \subseteq revoked
  /\ \A v \in Verifiers : ver[v].stage # "idle" =>
       /\ Presented(ver[v], atts, sess)
       /\ StageInv(ver[v], known[v])

(* A credential that verifies under a key was signed. *)
LEMMA SignedIsAuthentic ==
  ASSUME NEW c, NEW signed, Authentic(c, signed), c.signer \in Keys
  PROVE  c \in signed
BY NoKeyIsNoKey DEF Authentic

(* What is authentic stays so as more is signed. *)
LEMMA PresentedGrows ==
  ASSUME NEW r, NEW A, NEW S, NEW A2, NEW S2, A \subseteq A2, S \subseteq S2,
         Presented(r, A, S)
  PROVE  Presented(r, A2, S2)
BY DEF Presented, Authentic

(* The invariants of a run depend on no more than SameRun keeps. *)
LEMMA SameRunKeeps ==
  ASSUME NEW n, NEW r, SameRun(n, r)
  PROVE  /\ \A A, S : Presented(r, A, S) => Presented(n, A, S)
         /\ RootSigned(r) => RootSigned(n)
         /\ HandleSigned(r) => HandleSigned(n)
         /\ Vouched(r) => Vouched(n)
         /\ \A ids : Unrevoked(r, ids) => Unrevoked(n, ids)
<1>1. /\ \A A, S : Presented(r, A, S) => Presented(n, A, S)
      /\ \A ids : Unrevoked(r, ids) => Unrevoked(n, ids)
  BY DEF SameRun, Presented, Unrevoked
<1>2. /\ RootSigned(r) => RootSigned(n)
      /\ HandleSigned(r) <=> HandleSigned(n)
  BY DEF SameRun, RootSigned, HandleSigned
<1>3. InGrant(r) => InGrant(n)
  BY <1>2 DEF SameRun, InGrant
<1>4. Vouched(r) => Vouched(n)
  BY <1>2, <1>3 DEF SameRun, Vouched
<1> QED BY <1>1, <1>2, <1>4

(* The checker's answer: an id that passes is not in the store. *)
LEMMA RevocationErrorsAre ==
  ASSUME NEW r, NEW jti, NEW level \in Levels
  PROVE  /\ RevocationErrors(r, jti, level) \in Errors
         /\ RevocationErrors(r, jti, level) = <<>> =>
              ~(r.checker /\ jti \in revoked)
<1>1. RevocationErrors(r, jti, level) \in Errors
  BY OneCheck, CodesAndLevels DEF RevocationErrors
<1>2. RevocationErrors(r, jti, level) = <<>> =>
        ~(r.checker /\ jti \in revoked)
  BY Zenon DEF RevocationErrors, Require
<1> QED BY <1>1, <1>2

(* An altered credential has the right form and verifies under no key. *)
LEMMA TamperedType ==
  /\ \A s \in SessionToken : /\ TamperedSession(s) \in SessionToken
                             /\ TamperedSession(s).signer = NoKey
  /\ \A a \in Attestation : /\ TamperedAttestation(a) \in Attestation
                            /\ TamperedAttestation(a).signer = NoKey
<1>1. ASSUME NEW s \in SessionToken
      PROVE  /\ TamperedSession(s) \in SessionToken
             /\ TamperedSession(s).signer = NoKey
  BY DEF TamperedSession, SessionToken
<1>2. ASSUME NEW a \in Attestation
      PROVE  /\ TamperedAttestation(a) \in Attestation
             /\ TamperedAttestation(a).signer = NoKey
  BY DEF TamperedAttestation, Attestation, Grant
<1> QED BY <1>1, <1>2

(* Whatever is presented has the right form, and each part of it was       *)
(* signed or verifies under no key.                                        *)
LEMMA PresentationType ==
  ASSUME TypeOK, NEW p \in Presentations
  PROVE  /\ p[1] \in SessionToken
         /\ p[2] \in Seq(Attestation)
         /\ Authentic(p[1], sess)
         /\ \A i \in DOMAIN p[2] : Authentic(p[2][i], atts)
<1>1. PICK s \in sess, chain \in Chains(atts) :
        p \in {<<s, chain>>, <<TamperedSession(s), chain>>}
                \cup {<<s, altered>> : altered \in Altered(chain)}
  BY DEF Presentations
<1>2. s \in SessionToken /\ atts \subseteq Attestation
  BY DEF TypeOK, IssuanceTypeOK
<1>3. /\ chain \in Seq(Attestation)
      /\ \A i \in DOMAIN chain : chain[i] \in atts
  <2>1. CASE chain = <<>>
    BY <2>1
  <2>2. CASE chain \in {<<a>> : a \in atts}
    <3>1. PICK a \in atts : chain = <<a>>
      BY <2>2
    <3> QED BY <1>2, <3>1
  <2>3. CASE chain \in atts \X atts
    <3>1. PICK a \in atts, b \in atts : chain = <<a, b>>
      BY <2>3
    <3> QED BY <1>2, <3>1
  <2> QED BY <2>1, <2>2, <2>3 DEF Chains
<1>4. ASSUME NEW altered \in Altered(chain)
      PROVE  /\ altered \in Seq(Attestation)
             /\ \A i \in DOMAIN altered : Authentic(altered[i], atts)
  <2>1. PICK i \in DOMAIN chain :
          altered = [chain EXCEPT ![i] = TamperedAttestation(chain[i])]
    BY DEF Altered
  <2>2. /\ TamperedAttestation(chain[i]) \in Attestation
        /\ TamperedAttestation(chain[i]).signer = NoKey
    BY <1>2, <1>3, TamperedType
  <2>3. altered \in Seq(Attestation)
    BY <1>3, <2>1, <2>2, ExceptSeq, LenProperties
  <2>4. /\ DOMAIN altered = DOMAIN chain
        /\ \A j \in DOMAIN chain :
             altered[j] = IF j = i THEN TamperedAttestation(chain[i])
                                   ELSE chain[j]
    BY <2>1
  <2> QED BY <1>3, <2>2, <2>3, <2>4 DEF Authentic
<1>5. Authentic(s, sess) /\ Authentic(TamperedSession(s), sess)
  BY <1>2, TamperedType DEF Authentic
<1>6. \A i \in DOMAIN chain : Authentic(chain[i], atts)
  BY <1>3 DEF Authentic
<1>7. TamperedSession(s) \in SessionToken
  BY <1>2, TamperedType
<1>8. CASE p = <<s, chain>>
  BY <1>2, <1>3, <1>5, <1>6, <1>8
<1>9. CASE p = <<TamperedSession(s), chain>>
  BY <1>3, <1>5, <1>6, <1>7, <1>9
<1>10. CASE p \in {<<s, altered>> : altered \in Altered(chain)}
  BY <1>2, <1>4, <1>5, <1>10
<1> QED BY <1>1, <1>8, <1>9, <1>10

-----------------------------------------------------------------------------
(* One verifier moves, the others and the credentials stay as they are. *)
LEMMA OneVerifierMoves ==
  ASSUME IInv, UNCHANGED issuanceVars, UNCHANGED revoked,
         NEW v \in Verifiers,
         ver' \in [Verifiers -> {Idle} \cup VerificationRecord],
         \A w \in Verifiers \ {v} : ver'[w] = ver[w],
         known' \in [Verifiers -> SUBSET Jtis],
         \A w \in Verifiers \ {v} : known'[w] = known[w],
         known'[v] \subseteq revoked,
         Presented(ver'[v], atts, sess),
         StageInv(ver'[v], known'[v])
  PROVE  IInv'
<1>1. TypeOK'
  BY DEF IInv, TypeOK, IssuanceTypeOK, issuanceVars
<1>2. ASSUME NEW w \in Verifiers
      PROVE  known'[w] \subseteq revoked'
  BY DEF IInv
<1>3. ASSUME NEW w \in Verifiers, ver'[w].stage # "idle"
      PROVE  Presented(ver'[w], atts', sess') /\ StageInv(ver'[w], known'[w])
  <2>1. atts' = atts /\ sess' = sess
    BY DEF issuanceVars
  <2>2. CASE w = v
    BY <2>1, <2>2
  <2>3. CASE w # v
    BY <1>3, <2>1, <2>3 DEF IInv
  <2> QED BY <2>2, <2>3
<1> QED BY <1>1, <1>2, <1>3 DEF IInv, StageInv, Presented, RootSigned,
           HandleSigned, Vouched, InGrant, Unrevoked, IsAccepted

(* A verification that ends without being accepted promises nothing. *)
LEMMA RefusalIsHarmless ==
  ASSUME NEW n, NEW ids, n.stage = "done", n.verdict # Accepted
  PROVE  StageInv(n, ids)
BY DEF StageInv, IsAccepted

(* What is known of a verification that waits for an answer. *)
LEMMA WaitingRun ==
  ASSUME IInv, NEW v \in Verifiers, ver[v].stage \in Answers
  PROVE  /\ VerType
         /\ ver[v] \in VerificationRecord /\ ver[v] \in Run
         /\ Presented(ver[v], atts, sess)
         /\ StageInv(ver[v], known[v])
         /\ known[v] \subseteq revoked
<1>1. VerType
  BY DEF IInv, TypeOK, VerType
<1>2. ver[v].stage # "idle"
  BY DEF Answers
<1>3. ver[v] \in VerificationRecord
  BY <1>1, <1>2 DEF VerType, Idle
<1>4. ver[v] \in Run
  BY <1>3 DEF VerificationRecord, Run
<1> QED BY <1>1, <1>2, <1>3, <1>4 DEF IInv

(* An answer ends in a decision on errors; when there are none, what is    *)
(* promised of the next stage holds of the run.                            *)
LEMMA AnswerMoves ==
  ASSUME IInv, NEW v \in Verifiers, ver[v].stage \in Answers,
         NEW errors \in Errors, NEW next \in Answers \cup {"done"},
         Decide(v, ver[v], errors, next),
         UNCHANGED <<revoked, known>>, UNCHANGED issuanceVars,
         ASSUME NEW n, errors = <<>>, n.stage = next, SameRun(n, ver[v])
         PROVE  StageInv(n, known[v])
  PROVE  IInv'
<1>1. /\ VerType
      /\ ver[v] \in VerificationRecord /\ ver[v] \in Run
      /\ Presented(ver[v], atts, sess)
      /\ known[v] \subseteq revoked
  BY WaitingRun
<1>2. /\ ver' \in [Verifiers -> {Idle} \cup VerificationRecord]
      /\ \A w \in Verifiers \ {v} : ver'[w] = ver[w]
      /\ SameRun(ver'[v], ver[v])
      /\ Decided(ver'[v], errors, next)
  BY <1>1, DecideEffect
<1>3. Presented(ver'[v], atts, sess)
  BY <1>1, <1>2, SameRunKeeps
<1>4. StageInv(ver'[v], known[v])
  <2>1. CASE errors = <<>>
    <3>1. ver'[v].stage = next
      BY <1>2, <2>1 DEF Decided
    <3> QED BY <1>2, <2>1, <3>1
  <2>2. CASE errors # <<>>
    BY <1>2, <2>2, RefusalIsHarmless DEF Decided
  <2> QED BY <2>1, <2>2
<1>5. known \in [Verifiers -> SUBSET Jtis]
  BY DEF IInv, TypeOK
<1> QED BY <1>1, <1>2, <1>3, <1>4, <1>5, OneVerifierMoves

(* The answer about the session's jti accepts it, or refuses it. *)
LEMMA SessionAnswerStep ==
  ASSUME IInv, NEW v \in Verifiers, SessionAnswer(v), UNCHANGED issuanceVars
  PROVE  IInv'
<1> DEFINE r == ver[v]
           errors == RevocationErrors(r, r.token.jti, "SESSION")
<1>1. r.stage = "sessionAnswer" /\ r.stage \in Answers
  BY DEF SessionAnswer, Answers
<1>2. /\ errors \in Errors
      /\ errors = <<>> => ~(r.checker /\ r.token.jti \in revoked)
  BY RevocationErrorsAre, CodesAndLevels
<1>3. Decide(v, r, errors, "done") /\ UNCHANGED <<revoked, known>>
  BY DEF SessionAnswer, AfterSession
<1>4. StageInv(r, known[v]) /\ known[v] \subseteq revoked
  BY <1>1, WaitingRun
<1>5. Vouched(r) /\ Unrevoked(r, known[v])
  BY <1>1, <1>4 DEF StageInv
<1>6. ASSUME NEW n, errors = <<>>, n.stage = "done", SameRun(n, r)
      PROVE  StageInv(n, known[v])
  <2>1. Vouched(n) /\ Unrevoked(n, known[v])
    BY <1>5, <1>6, SameRunKeeps
  <2>2. n.checker => n.token.jti \notin known[v]
    BY <1>2, <1>4, <1>6 DEF SameRun
  <2> QED BY <1>6, <2>1, <2>2 DEF StageInv
<1> HIDE DEF errors
<1> QED BY <1>1, <1>2, <1>3, <1>6, AnswerMoves

(* The links of a chain of one or two attestations. *)
LEMMA ChainLinks ==
  ASSUME NEW r \in Run, RootSigned(r)
  PROVE  /\ r.chain[1] \in Attestation
         /\ r.token.hPath = <<>> => DOMAIN r.chain = {1}
         /\ r.token.hPath # <<>> =>
              r.chain[2] \in Attestation /\ DOMAIN r.chain = {1, 2}
<1>1. /\ r.chain \in Seq(Attestation)
      /\ Len(r.chain) = IF r.token.hPath = <<>> THEN 1 ELSE 2
  BY DEF Run, RootSigned
<1>2. CASE r.token.hPath = <<>>
  <2>1. Len(r.chain) = 1
    BY <1>1, <1>2
  <2> QED BY <1>1, <1>2, <2>1
<1>3. CASE r.token.hPath # <<>>
  <2>1. Len(r.chain) = 2
    BY <1>1, <1>3
  <2> QED BY <1>1, <1>3, <2>1
<1> QED BY <1>2, <1>3

(* The answer about the root attestation lets a Handle session through to  *)
(* its grant, and a SubHandle session to the next signature.               *)
LEMMA RootAnswerStep ==
  ASSUME IInv, NEW v \in Verifiers, RootAnswer(v), UNCHANGED issuanceVars
  PROVE  IInv'
<1> DEFINE r == ver[v]
           s == r.token
           a == r.chain[1]
           asked == RevocationErrors(r, a.jti, "ROOT")
           link == AttestationErrors(r.chain[2], a.subject, r.start,
                                     "HANDLE_ATTESTATION")
           holder == SubjectErrors(s, a)
           grant == GrantErrors(s, a.grant, a.exp)
<1>1. r.stage = "rootAnswer" /\ r.stage \in Answers
  BY DEF RootAnswer, Answers
<1>2. UNCHANGED <<revoked, known>>
  BY DEF RootAnswer
<1>3. r \in Run /\ StageInv(r, known[v]) /\ known[v] \subseteq revoked
  BY <1>1, WaitingRun
<1>4. RootSigned(r)
  BY <1>1, <1>3 DEF StageInv
<1>5. /\ asked \in Errors
      /\ asked = <<>> => ~(r.checker /\ a.jti \in revoked)
  BY RevocationErrorsAre, CodesAndLevels
<1>6. asked = <<>> => (r.checker => a.jti \notin known[v])
  BY <1>3, <1>5
<1>7. CASE IsSubSession(s)
  <2>1. link \in Errors /\ link = <<>> => r.chain[2].signer = a.subject
    BY AttestationErrorsAre, CodesAndLevels
  <2>2. link \in Errors
    BY AttestationErrorsAre, CodesAndLevels
  <2>3. Decide(v, r, asked \o link, "handleAnswer")
    BY <1>7 DEF RootAnswer, AfterRoot
  <2>4. s.hPath # <<>>
    BY <1>7 DEF IsSubSession
  <2> HIDE DEF asked, link
  <2>5. /\ asked \o link \in Errors
        /\ asked \o link = <<>> => asked = <<>> /\ link = <<>>
    BY <1>5, <2>2, Checks
  <2>6. ASSUME NEW n, asked \o link = <<>>, n.stage = "handleAnswer",
               SameRun(n, r)
        PROVE  StageInv(n, known[v])
    <3>1. HandleSigned(r)
      BY <2>1, <2>2, <2>4, <2>5, <2>6 DEF HandleSigned
    <3>2. RootSigned(n) /\ HandleSigned(n)
      BY <1>4, <2>6, <3>1, SameRunKeeps
    <3>3. n.checker => n.chain[1].jti \notin known[v]
      BY <1>6, <2>5, <2>6 DEF SameRun
    <3> QED BY <2>6, <3>2, <3>3 DEF StageInv, IsAccepted
  <2>7. "handleAnswer" \in Answers
    BY DEF Answers
  <2> QED BY <1>1, <1>2, <2>3, <2>5, <2>6, <2>7, AnswerMoves
<1>8. CASE ~IsSubSession(s)
  <2>1. s.hPath = <<>>
    BY <1>8 DEF IsSubSession
  <2>2. holder \in Errors /\ (holder = <<>> => s.hId = a.subject)
    BY SubjectErrorsAre
  <2>3. /\ grant \in Errors
        /\ grant = <<>> =>
             /\ s.scp \subseteq a.grant.scopes
             /\ s.aud \in a.grant.audiences
             /\ s.exp - s.iat <= a.grant.maxTtl
             /\ s.exp <= a.exp + Skew
             /\ s.signer = s.hId
    BY GrantErrorsAre
  <2>4. Decide(v, r, asked \o holder \o grant, "sessionAnswer")
    BY <1>8 DEF RootAnswer, AfterRoot
  <2> HIDE DEF asked, holder, grant
  <2>5. asked \o holder \in Errors
    BY <1>5, <2>2, Checks
  <2>6. /\ asked \o holder \o grant \in Errors
        /\ asked \o holder \o grant = <<>> =>
             asked = <<>> /\ holder = <<>> /\ grant = <<>>
    BY <1>5, <2>2, <2>3, <2>5, Checks
  <2>7. ASSUME NEW n, asked \o holder \o grant = <<>>,
               n.stage = "sessionAnswer", SameRun(n, r)
        PROVE  StageInv(n, known[v])
    <3>1. InGrant(r)
      BY <2>1, <2>2, <2>3, <2>6, <2>7 DEF InGrant
    <3>2. Vouched(r)
      BY <1>4, <2>3, <2>6, <2>7, <3>1 DEF Vouched
    <3>3. Unrevoked(r, known[v])
      <4>1. DOMAIN r.chain = {1}
        BY <1>3, <1>4, <2>1, ChainLinks
      <4> QED BY <1>6, <2>6, <2>7, <4>1 DEF Unrevoked
    <3>4. Vouched(n) /\ Unrevoked(n, known[v])
      BY <2>7, <3>2, <3>3, SameRunKeeps
    <3> QED BY <2>7, <3>4 DEF StageInv, IsAccepted
  <2>8. "sessionAnswer" \in Answers
    BY DEF Answers
  <2> QED BY <1>1, <1>2, <2>4, <2>6, <2>7, <2>8, AnswerMoves
<1> QED BY <1>7, <1>8

(* The answer about the handle attestation leaves a chain whose every link *)
(* was signed by the one above, and a session within both grants.          *)
LEMMA HandleAnswerStep ==
  ASSUME IInv, NEW v \in Verifiers, HandleAnswer(v), UNCHANGED issuanceVars
  PROVE  IInv'
<1> DEFINE r == ver[v]
           s == r.token
           a == r.chain[1]
           b == r.chain[2]
           asked == RevocationErrors(r, b.jti, "HANDLE_ATTESTATION")
           nesting == NestingErrors(s, a, b)
           grant == GrantErrors(s, b.grant, Earliest(a, b))
<1>1. r.stage = "handleAnswer" /\ r.stage \in Answers
  BY DEF HandleAnswer, Answers
<1>2. UNCHANGED <<revoked, known>>
  BY DEF HandleAnswer
<1>3. r \in Run /\ StageInv(r, known[v]) /\ known[v] \subseteq revoked
  BY <1>1, WaitingRun
<1>4. /\ RootSigned(r) /\ HandleSigned(r)
      /\ r.checker => a.jti \notin known[v]
  BY <1>1, <1>3 DEF StageInv
<1>5. /\ asked \in Errors
      /\ asked = <<>> => ~(r.checker /\ b.jti \in revoked)
  BY RevocationErrorsAre, CodesAndLevels
<1>6. asked = <<>> => (r.checker => b.jti \notin known[v])
  BY <1>3, <1>5
<1>7. /\ nesting \in Errors
      /\ nesting = <<>> =>
           /\ b.name = s.hPath[2]
           /\ a.name = s.hPath[1]
           /\ b.name \in a.grant.subNames
           /\ s.hId = b.subject
           /\ b.grant.scopes \subseteq a.grant.scopes
           /\ b.grant.maxTtl <= a.grant.maxTtl
  BY NestingErrorsAre
<1>8. /\ grant \in Errors
      /\ grant = <<>> =>
           /\ s.scp \subseteq b.grant.scopes
           /\ s.aud \in b.grant.audiences
           /\ s.exp - s.iat <= b.grant.maxTtl
           /\ s.exp <= Earliest(a, b) + Skew
           /\ s.signer = s.hId
  BY GrantErrorsAre
<1>9. Decide(v, r, asked \o nesting \o grant, "sessionAnswer")
  BY DEF HandleAnswer, AfterHandle
<1> HIDE DEF asked, nesting, grant
<1>10. asked \o nesting \in Errors
  BY <1>5, <1>7, Checks
<1>11. /\ asked \o nesting \o grant \in Errors
       /\ asked \o nesting \o grant = <<>> =>
            asked = <<>> /\ nesting = <<>> /\ grant = <<>>
  BY <1>5, <1>7, <1>8, <1>10, Checks
<1>12. ASSUME NEW n, asked \o nesting \o grant = <<>>,
              n.stage = "sessionAnswer", SameRun(n, r)
       PROVE  StageInv(n, known[v])
  <2>1. /\ s.hPath # <<>> /\ a \in Attestation /\ b \in Attestation
        /\ DOMAIN r.chain = {1, 2}
    BY <1>3, <1>4, ChainLinks DEF HandleSigned
  <2>2. s \in SessionToken
    BY <1>3 DEF Run
  <2>3. s.hPath = <<a.name, b.name>>
    <3>1. s.hPath \in Names \X Names
      BY <2>1, <2>2 DEF SessionToken, HPath
    <3> QED BY <1>7, <1>11, <1>12, <3>1
  <2>4. /\ a.exp \in Int /\ b.exp \in Int /\ s.exp \in Int /\ s.iat \in Int
        /\ a.grant.maxTtl \in Int /\ b.grant.maxTtl \in Int /\ Skew \in Int
    <3>1. \A c \in Attestation : c.exp \in Int /\ c.grant.maxTtl \in Int
      BY DEF Attestation, Grant
    <3>2. s.exp \in Int /\ s.iat \in Int
      BY <2>2 DEF SessionToken
    <3> QED BY <2>1, <3>1, <3>2, SkewIsNat
  <2>5. s.exp <= a.exp + Skew /\ s.exp <= b.exp + Skew
    <3>1. s.exp <= Earliest(a, b) + Skew
      BY <1>8, <1>11, <1>12
    <3> HIDE DEF s, a, b
    <3> QED BY <2>4, <3>1 DEF Earliest
  <2>6. s.exp - s.iat <= a.grant.maxTtl
    <3>1. s.exp - s.iat <= b.grant.maxTtl /\ b.grant.maxTtl <= a.grant.maxTtl
      BY <1>7, <1>8, <1>11, <1>12
    <3> HIDE DEF s, a, b
    <3> QED BY <2>4, <3>1
  <2>7. s.scp \subseteq a.grant.scopes
    BY <1>7, <1>8, <1>11, <1>12
  <2>8. InGrant(r)
    BY <1>4, <1>7, <1>8, <1>11, <1>12, <2>3, <2>5, <2>6, <2>7 DEF InGrant
  <2>9. Vouched(r)
    BY <1>4, <1>8, <1>11, <1>12, <2>8 DEF Vouched
  <2>10. Unrevoked(r, known[v])
    BY <1>4, <1>6, <1>11, <1>12, <2>1 DEF Unrevoked
  <2>11. Vouched(n) /\ Unrevoked(n, known[v])
    BY <1>12, <2>9, <2>10, SameRunKeeps
  <2> QED BY <1>12, <2>11 DEF StageInv, IsAccepted
<1>13. "sessionAnswer" \in Answers
  BY DEF Answers
<1> QED BY <1>1, <1>2, <1>9, <1>11, <1>12, <1>13, AnswerMoves

(* A checker that rejects refuses the session. *)
LEMMA CheckerFailsStep ==
  ASSUME IInv, NEW v \in Verifiers, CheckerFails(v), UNCHANGED issuanceVars
  PROVE  IInv'
<1> DEFINE r == ver[v]
           n == [r EXCEPT !.stage = "done", !.verdict = CheckerFailed]
<1>1. r.stage \in Answers /\ UNCHANGED <<revoked, known>>
      /\ ver' = [ver EXCEPT ![v] = n]
  BY DEF CheckerFails
<1>2. /\ VerType /\ r \in VerificationRecord
      /\ Presented(r, atts, sess)
      /\ known[v] \subseteq revoked
  BY <1>1, WaitingRun
<1>3. CheckerFailed \in Verdict /\ CheckerFailed # Accepted
  BY DEF Verdict, CheckerFailed, Accepted
<1>4. /\ n \in VerificationRecord
      /\ SameRun(n, r)
      /\ n.stage = "done" /\ n.verdict = CheckerFailed
  BY <1>2, <1>3 DEF VerificationRecord, SameRun
<1> HIDE DEF n
<1>5. /\ ver' \in [Verifiers -> {Idle} \cup VerificationRecord]
      /\ ver'[v] = n
      /\ \A w \in Verifiers \ {v} : ver'[w] = ver[w]
  BY <1>1, <1>2, <1>4 DEF VerType
<1>6. Presented(n, atts, sess)
  BY <1>2, <1>4, SameRunKeeps
<1>7. StageInv(n, known[v])
  BY <1>3, <1>4, RefusalIsHarmless
<1>8. known \in [Verifiers -> SUBSET Jtis]
  BY DEF IInv, TypeOK
<1> QED BY <1>1, <1>2, <1>5, <1>6, <1>7, <1>8, OneVerifierMoves

(* A verification begins: it records what is revoked, and when nothing is  *)
(* wrong yet, what is promised of its first stage holds.                   *)
LEMMA BeginMoves ==
  ASSUME IInv, NEW v \in Verifiers, NEW r \in Run,
         NEW errors \in Errors, NEW next \in Answers,
         Presented(r, atts, sess),
         Decide(v, r, errors, next),
         known' = [known EXCEPT ![v] = revoked],
         UNCHANGED revoked, UNCHANGED issuanceVars,
         ASSUME NEW n, errors = <<>>, n.stage = next, SameRun(n, r)
         PROVE  StageInv(n, revoked)
  PROVE  IInv'
<1>1. VerType
  BY DEF IInv, TypeOK, VerType
<1>2. /\ ver' \in [Verifiers -> {Idle} \cup VerificationRecord]
      /\ \A w \in Verifiers \ {v} : ver'[w] = ver[w]
      /\ SameRun(ver'[v], r)
      /\ Decided(ver'[v], errors, next)
  BY <1>1, DecideEffect
<1>3. Presented(ver'[v], atts, sess)
  BY <1>2, SameRunKeeps
<1>4. /\ known' \in [Verifiers -> SUBSET Jtis]
      /\ known'[v] = revoked
      /\ \A w \in Verifiers \ {v} : known'[w] = known[w]
  BY DEF IInv, TypeOK
<1>5. StageInv(ver'[v], revoked)
  <2>1. CASE errors = <<>>
    <3>1. ver'[v].stage = next
      BY <1>2, <2>1 DEF Decided
    <3> QED BY <1>2, <2>1, <3>1
  <2>2. CASE errors # <<>>
    BY <1>2, <2>2, RefusalIsHarmless DEF Decided
  <2> QED BY <2>1, <2>2
<1> QED BY <1>2, <1>3, <1>4, <1>5, OneVerifierMoves

(* verifyAttested asks about the root attestation only when the trusted    *)
(* root signed it.                                                         *)
LEMMA BeginAttestedStep ==
  ASSUME IInv, NEW v \in Verifiers, NEW r \in Run, r.mode = "attested",
         Presented(r, atts, sess), BeginAttested(v, r),
         known' = [known EXCEPT ![v] = revoked],
         UNCHANGED revoked, UNCHANGED issuanceVars
  PROVE  IInv'
<1> DEFINE e1 == SessionErrors(r.token, r.aud, r.start)
           e2 == ChainErrors(r.token, r.chain)
           link == AttestationErrors(r.chain[1], r.root, r.start, "ROOT")
           e3 == IF e2 = <<>> THEN link ELSE <<>>
<1>1. e1 \in Errors
  BY SessionErrorsAre
<1>2. /\ e2 \in Errors
      /\ e2 = <<>> =>
           Len(r.chain) = IF r.token.hPath = <<>> THEN 1 ELSE 2
  BY ChainErrorsAre
<1>3. link \in Errors /\ (link = <<>> => r.chain[1].signer = r.root)
  BY AttestationErrorsAre, CodesAndLevels
<1>4. Decide(v, r, e1 \o e2 \o e3, "rootAnswer")
  BY DEF BeginAttested
<1> HIDE DEF e1, e2, link
<1>5. e3 \in Errors
  BY <1>3, EmptySeq DEF Errors
<1>6. e1 \o e2 \in Errors
  BY <1>1, <1>2, Checks
<1>7. /\ e1 \o e2 \o e3 \in Errors
      /\ e1 \o e2 \o e3 = <<>> => e2 = <<>> /\ e3 = <<>>
  <2> HIDE DEF e3
  <2> QED BY <1>1, <1>2, <1>5, <1>6, Checks
<1>8. ASSUME NEW n, e1 \o e2 \o e3 = <<>>, n.stage = "rootAnswer",
             SameRun(n, r)
      PROVE  StageInv(n, revoked)
  <2>1. RootSigned(r)
    BY <1>2, <1>3, <1>7, <1>8 DEF RootSigned
  <2>2. RootSigned(n)
    BY <1>8, <2>1, SameRunKeeps
  <2> QED BY <1>8, <2>2 DEF StageInv, IsAccepted
<1>9. "rootAnswer" \in Answers
  BY DEF Answers
<1> HIDE DEF e3
<1> QED BY <1>4, <1>7, <1>8, <1>9, BeginMoves

(* A reconstructed key descends from the identity that reconstructs it. *)
LEMMA ReconstructedKeyRoot ==
  ASSUME NEW root \in Keys, NEW s \in SessionToken
  PROVE  ReconstructedKey(root, s)[1] = root[1]
<1>1. CASE s.hPath = <<>>
  BY <1>1 DEF ReconstructedKey
<1>2. CASE s.hPath # <<>>
  <2>1. s.hPath \in Names \X Names
    BY <1>2 DEF SessionToken, HPath
  <2>2. s.hPath \in Seq(Names)
    <3>1. PICK a \in Names, b \in Names : s.hPath = <<a, b>>
      BY <2>1
    <3> QED BY <3>1
  <2>3. root[1] \in Names
    BY KeyNames
  <2>4. <<root[1]>> \in Seq(Names) /\ Len(<<root[1]>>) = 1
    BY <2>3
  <2>5. (<<root[1]>> \o s.hPath)[1] = <<root[1]>>[1]
    <3>1. Len(s.hPath) \in Nat
      BY <2>2, LenProperties
    <3> QED BY <2>2, <2>4, <3>1, ConcatProperties
  <2> QED BY <1>2, <2>5 DEF ReconstructedKey
<1> QED BY <1>1, <1>2

(* verifyStateless asks about the session only when it reconstructed the   *)
(* key that signed it.                                                     *)
LEMMA BeginStatelessStep ==
  ASSUME IInv, NEW v \in Verifiers, NEW r \in Run, NEW identityLive,
         r.mode = "stateless", r.chain = <<>>,
         Presented(r, atts, sess), BeginStateless(v, r, identityLive),
         known' = [known EXCEPT ![v] = revoked],
         UNCHANGED revoked, UNCHANGED issuanceVars
  PROVE  IInv'
<1> DEFINE s == r.token
           key == ReconstructedKey(r.root, s)
           e1 == SessionErrors(s, r.aud, r.start)
           e2 == Require(identityLive, "DISPOSED", "FORMAT")
           f1 == Require(s.signer = key, "BAD_SIGNATURE", "SESSION")
           f2 == Require(s.hId = key, "SUBJECT_MISMATCH", "SESSION")
           e3 == ReconstructionErrors(r.root, s)
<1>1. e1 \in Errors
  BY SessionErrorsAre
<1>2. e2 \in Errors
  BY OneCheck, CodesAndLevels
<1>3. f1 \in Errors /\ f2 \in Errors
  BY OneCheck, CodesAndLevels
<1>4. (f1 = <<>> => s.signer = key) /\ (f2 = <<>> => s.hId = key)
  BY DEF Require
<1>5. e3 = f1 \o f2
  BY DEF ReconstructionErrors
<1>6. Decide(v, r, e1 \o e2 \o e3, "sessionAnswer")
  BY DEF BeginStateless
<1> HIDE DEF e1, e2, e3, f1, f2, key
<1>7. e3 \in Errors /\ (e3 = <<>> => s.signer = key /\ s.hId = key)
  BY <1>3, <1>4, <1>5, Checks
<1>8. e1 \o e2 \in Errors
  BY <1>1, <1>2, Checks
<1>9. /\ e1 \o e2 \o e3 \in Errors
      /\ e1 \o e2 \o e3 = <<>> => e3 = <<>>
  BY <1>7, <1>8, Checks
<1>10. ASSUME NEW n, e1 \o e2 \o e3 = <<>>, n.stage = "sessionAnswer",
              SameRun(n, r)
       PROVE  StageInv(n, revoked)
  <2>1. s.signer = key /\ s.hId = key
    BY <1>7, <1>9, <1>10
  <2>2. key[1] = r.root[1]
    BY ReconstructedKeyRoot DEF Run, key
  <2>3. Vouched(r)
    BY <2>1, <2>2 DEF Vouched
  <2>4. Unrevoked(r, revoked)
    BY DEF Unrevoked
  <2>5. Vouched(n) /\ Unrevoked(n, revoked)
    BY <1>10, <2>3, <2>4, SameRunKeeps
  <2> QED BY <1>10, <2>5 DEF StageInv, IsAccepted
<1>11. "sessionAnswer" \in Answers
  BY DEF Answers
<1> QED BY <1>6, <1>9, <1>10, <1>11, BeginMoves

(* The record a verification begins with. *)
NewRun(mode, service, s, chain) ==
  [stage |-> "idle", verdict |-> Undecided, mode |-> mode,
   root |-> service.root, aud |-> service.aud, checker |-> service.checker,
   token |-> s, chain |-> chain, start |-> now]

(* A verification begins as a record of the right form. *)
LEMMA NewRunType ==
  ASSUME TypeOK, NEW mode \in {"attested", "stateless"},
         NEW service \in Services, NEW s \in SessionToken,
         NEW chain \in Seq(Attestation)
  PROVE  /\ NewRun(mode, service, s, chain) \in Run
         /\ NewRun(mode, service, s, chain).mode = mode
         /\ NewRun(mode, service, s, chain).token = s
         /\ NewRun(mode, service, s, chain).chain = chain
<1>1. /\ service.root \in Keys /\ service.aud \in Audiences
      /\ service.checker \in BOOLEAN
  BY ServicesAreServices DEF Service
<1>2. now \in Nat
  BY DEF TypeOK, IssuanceTypeOK
<1>3. Undecided \in Verdict
  BY DEF Verdict
<1> QED BY <1>1, <1>2, <1>3 DEF NewRun, Run

(* Beginning an attested verification keeps the invariant. *)
LEMMA VerifyAttestedStep ==
  ASSUME IInv, NEW v \in Verifiers, VerifyAttested(v), UNCHANGED issuanceVars
  PROVE  IInv'
<1>1. PICK service \in Services, p \in Presentations :
        Begin(v, "attested", service, p[1], p[2], now, TRUE)
  BY DEF VerifyAttested
<1> DEFINE r == NewRun("attested", service, p[1], p[2])
<1>2. TypeOK
  BY DEF IInv
<1>3. /\ p[1] \in SessionToken
      /\ p[2] \in Seq(Attestation)
      /\ Authentic(p[1], sess)
      /\ \A i \in DOMAIN p[2] : Authentic(p[2][i], atts)
  BY <1>2, PresentationType
<1>4. /\ r \in Run /\ r.mode = "attested"
      /\ r.token = p[1] /\ r.chain = p[2]
  BY <1>2, <1>3, NewRunType
<1>5. BeginAttested(v, r)
  BY <1>1 DEF Begin, NewRun
<1>6. known' = [known EXCEPT ![v] = revoked] /\ UNCHANGED revoked
  BY <1>1 DEF Begin
<1> HIDE DEF r
<1>7. Presented(r, atts, sess)
  BY <1>3, <1>4 DEF Presented
<1> QED BY <1>4, <1>5, <1>6, <1>7, BeginAttestedStep

(* Beginning a stateless verification keeps the invariant. *)
LEMMA VerifyStatelessStep ==
  ASSUME IInv, NEW v \in Verifiers, VerifyStateless(v), UNCHANGED issuanceVars
  PROVE  IInv'
<1>1. PICK service \in Services,
           s \in sess \cup {TamperedSession(t) : t \in sess} :
        Begin(v, "stateless", service, s, <<>>, now, service.root \in live)
  BY DEF VerifyStateless
<1> DEFINE none == <<>>
           r == NewRun("stateless", service, s, none)
           identityLive == service.root \in live
<1>2. TypeOK /\ sess \subseteq SessionToken
  BY DEF IInv, TypeOK, IssuanceTypeOK
<1>3. s \in SessionToken /\ Authentic(s, sess)
  BY <1>2, TamperedType DEF Authentic
<1>4. none \in Seq(Attestation)
  BY EmptySeq
<1>5. /\ r \in Run /\ r.mode = "stateless"
      /\ r.token = s /\ r.chain = none
  <2> HIDE DEF none
  <2> QED BY <1>2, <1>3, <1>4, NewRunType
<1>6. BeginStateless(v, r, identityLive)
  BY <1>1 DEF Begin, NewRun
<1>7. known' = [known EXCEPT ![v] = revoked] /\ UNCHANGED revoked
  BY <1>1 DEF Begin
<1> HIDE DEF r, identityLive
<1>8. Presented(r, atts, sess)
  BY <1>3, <1>5 DEF Presented
<1> QED BY <1>5, <1>6, <1>7, <1>8, BeginStatelessStep

(* Revoking an id while verifications wait keeps the invariant. *)
LEMMA RevokeStep ==
  ASSUME IInv, NEW jti \in Jtis, Revoke(jti), UNCHANGED issuanceVars
  PROVE  IInv'
<1>1. TypeOK'
  BY DEF IInv, TypeOK, IssuanceTypeOK, issuanceVars, Revoke
<1>2. \A v \in Verifiers : known'[v] \subseteq revoked'
  BY DEF IInv, Revoke
<1>3. ASSUME NEW v \in Verifiers, ver'[v].stage # "idle"
      PROVE  Presented(ver'[v], atts', sess') /\ StageInv(ver'[v], known'[v])
  <2>1. ver' = ver /\ known' = known /\ atts' = atts /\ sess' = sess
    BY DEF Revoke, issuanceVars
  <2> QED BY <1>3, <2>1 DEF IInv
<1> QED BY <1>1, <1>2, <1>3 DEF IInv, StageInv, Presented, RootSigned,
           HandleSigned, Vouched, InGrant, Unrevoked, IsAccepted

(* Issuing, disposing and the clock keep the invariant. *)
LEMMA IssuingStep ==
  ASSUME IInv, IssuanceNext, UNCHANGED verificationVars
  PROVE  IInv'
<1>1. IssuanceTypeOK' /\ atts \subseteq atts' /\ sess \subseteq sess'
  BY IssuanceStep DEF IInv, TypeOK
<1>2. ver' = ver /\ known' = known /\ revoked' = revoked
  BY DEF verificationVars
<1>3. TypeOK'
  BY <1>1, <1>2 DEF IInv, TypeOK
<1>4. \A v \in Verifiers : known'[v] \subseteq revoked'
  BY <1>2 DEF IInv
<1>5. ASSUME NEW v \in Verifiers, ver'[v].stage # "idle"
      PROVE  Presented(ver'[v], atts', sess') /\ StageInv(ver'[v], known'[v])
  <2>1. Presented(ver[v], atts, sess) /\ StageInv(ver[v], known[v])
    BY <1>2, <1>5 DEF IInv
  <2>2. Presented(ver[v], atts', sess')
    BY <1>1, <2>1, PresentedGrows
  <2> QED BY <1>2, <2>1, <2>2
<1> QED BY <1>3, <1>4, <1>5 DEF IInv, StageInv, Presented, RootSigned,
           HandleSigned, Vouched, InGrant, Unrevoked, IsAccepted

(* Nothing is presented or known to be revoked at first. *)
LEMMA InitInv == Init => IInv
<1> SUFFICES ASSUME Init PROVE IInv
  OBVIOUS
<1> USE DEF Init, IssuanceInit, VerificationInit
<1>1. drift \in Int
  <2>1. drift \in (-Skew)..Skew
    BY DriftsWithinSkew
  <2> QED BY <2>1, SkewIsNat
<1>2. TypeOK
  BY <1>1 DEF TypeOK, IssuanceTypeOK
<1>3. \A v \in Verifiers : ver[v].stage = "idle" /\ known[v] = {}
  BY DEF Idle
<1> QED BY <1>2, <1>3 DEF IInv

(* Every step keeps the invariant. *)
LEMMA NextInv == IInv /\ [Next]_vars => IInv'
<1> SUFFICES ASSUME IInv, [Next]_vars PROVE IInv'
  OBVIOUS
<1>1. CASE IssuanceNext /\ UNCHANGED verificationVars
  BY <1>1, IssuingStep
<1>2. CASE \E v \in Verifiers : VerifyAttested(v) /\ UNCHANGED issuanceVars
  BY <1>2, VerifyAttestedStep
<1>3. CASE \E v \in Verifiers : VerifyStateless(v) /\ UNCHANGED issuanceVars
  BY <1>3, VerifyStatelessStep
<1>4. CASE \E v \in Verifiers : AnswerStep(v) /\ UNCHANGED issuanceVars
  BY <1>4, RootAnswerStep, HandleAnswerStep, SessionAnswerStep,
     CheckerFailsStep DEF AnswerStep
<1>5. CASE \E jti \in Jtis : Revoke(jti) /\ UNCHANGED issuanceVars
  BY <1>5, RevokeStep
<1>6. CASE UNCHANGED vars
  BY <1>6 DEF vars, issuanceVars, verificationVars, IInv, TypeOK,
     IssuanceTypeOK, StageInv, Presented, RootSigned, HandleSigned, Vouched,
     InGrant, Unrevoked, IsAccepted
<1> QED
  BY <1>1, <1>2, <1>3, <1>4, <1>5, <1>6 DEF Next

-----------------------------------------------------------------------------
(* Every reachable state satisfies the inductive invariant, whatever the   *)
(* issuers sign, revoke and dispose while verifications are under way.     *)
THEOREM Invariance == Spec => []IInv
<1>1. Init => IInv
  BY InitInv
<1>2. IInv /\ [Next]_vars => IInv'
  BY NextInv
<1> QED BY <1>1, <1>2, PTL DEF Spec

(* Types: the tokens Attestation.issue and Session.create sign, and the    *)
(* verifications they go through, always have the declared form.           *)
THEOREM TypeCorrect == Spec => []TypeOK
<1>1. IInv => TypeOK
  BY DEF IInv
<1> QED BY <1>1, Invariance, PTL

(* What a verification that reached the last stage established. *)
LEMMA VouchedIsGranted ==
  ASSUME IInv, NEW v \in Verifiers,
         ver[v].stage = "sessionAnswer" \/ IsAccepted(ver[v])
  PROVE  /\ ver[v].token \in sess
         /\ ver[v].token.signer = ver[v].token.hId
         /\ Unrevoked(ver[v], known[v])
         /\ \/ ver[v].mode = "attested" /\ Promise!GrantedBy(ver[v], ver[v].chain[1])
            \/ /\ ver[v].mode = "stateless"
               /\ ver[v].token.hId[1] = ver[v].root[1]
<1> DEFINE r == ver[v]
           a == r.chain[1]
           b == r.chain[2]
<1>1. r.stage # "idle"
  BY DEF IsAccepted
<1>2. r \in VerificationRecord
  BY <1>1 DEF IInv, TypeOK, Idle
<1>3. r \in Run
  BY <1>2 DEF VerificationRecord, Run
<1>4. Presented(r, atts, sess) /\ Vouched(r) /\ Unrevoked(r, known[v])
  BY <1>1 DEF IInv, StageInv
<1>5. r.token \in sess /\ r.token.signer = r.token.hId
  <2>1. r.token.signer = r.token.hId /\ r.token.hId \in Keys
    BY <1>3, <1>4 DEF Vouched, Run, SessionToken
  <2> QED BY <1>4, <2>1, SignedIsAuthentic DEF Presented
<1>6. CASE RootSigned(r) /\ InGrant(r)
  <2>1. a \in Attestation /\ 1 \in DOMAIN r.chain
    BY <1>3, <1>6, ChainLinks
  <2>2. a \in atts
    <3>1. a.signer \in Keys
      BY <1>3, <1>6 DEF RootSigned, Run
    <3> QED BY <1>4, <2>1, <3>1, SignedIsAuthentic DEF Presented
  <2>3. HandleSigned(r) => b \in atts
    <3>1. ASSUME HandleSigned(r)
          PROVE  2 \in DOMAIN r.chain /\ b.signer \in Keys
      BY <1>3, <1>6, <2>1, <3>1, ChainLinks DEF HandleSigned, Attestation
    <3> QED BY <1>4, <3>1, SignedIsAuthentic DEF Presented
  <2>4. Promise!GrantedBy(r, a)
    BY <1>6, <2>2, <2>3 DEF Promise!GrantedBy, InGrant, RootSigned, HandleSigned
  <2> QED BY <1>4, <1>5, <1>6, <2>4 DEF RootSigned
<1>7. CASE r.mode = "stateless" /\ r.token.hId[1] = r.root[1]
  BY <1>4, <1>5, <1>7
<1> QED BY <1>4, <1>6, <1>7 DEF Vouched

(* What is accepted was vouched for. *)
LEMMA InvGrants == IInv => AcceptedIsGranted
<1> SUFFICES ASSUME IInv, NEW v \in Verifiers, IsAccepted(ver[v])
             PROVE  /\ ver[v].token \in sess
                    /\ ver[v].token.signer = ver[v].token.hId
                    /\ IF ver[v].mode = "attested"
                         THEN \E a \in atts : Promise!GrantedBy(ver[v], a)
                         ELSE ver[v].token.hId[1] = ver[v].root[1]
  BY DEF AcceptedIsGranted, Promise!Granted
<1>1. Promise!GrantedBy(ver[v], ver[v].chain[1]) =>
        \E a \in atts : Promise!GrantedBy(ver[v], a)
  BY DEF Promise!GrantedBy
<1> QED BY <1>1, VouchedIsGranted

(* Soundness of verifyAttested and verifyStateless: an accepted session    *)
(* was created by its holder within what the trusted root granted, however *)
(* tokens and chains are combined, altered or presented concurrently.      *)
THEOREM Soundness == Spec => []AcceptedIsGranted
BY InvGrants, Invariance, PTL

(* What is accepted was not known to be revoked. *)
LEMMA InvRefuses == IInv => RevokedIsRefused
<1> SUFFICES ASSUME IInv, NEW v \in Verifiers, IsAccepted(ver[v]),
                    ver[v].checker
             PROVE  known[v] \cap
                      ({ver[v].token.jti} \cup
                         {ver[v].chain[i].jti : i \in DOMAIN ver[v].chain})
                      = {}
  BY DEF RevokedIsRefused, Promise!Ids
<1>1. Unrevoked(ver[v], known[v])
  BY VouchedIsGranted
<1>2. ver[v].token.jti \notin known[v]
  <2>1. ver[v].stage # "idle"
    BY DEF IsAccepted
  <2> QED BY <2>1 DEF IInv, StageInv
<1> QED BY <1>1, <1>2 DEF Unrevoked

(* Revocation: verification with a checker never accepts a credential that *)
(* was revoked before it began, at any level of the chain.                 *)
THEOREM Revocation == Spec => []RevokedIsRefused
BY InvRefuses, Invariance, PTL

(* The revocation checker is only consulted about credentials that were    *)
(* really signed: a signature is always checked before its jti is looked   *)
(* up.                                                                     *)
THEOREM CheckerIsAskedLast == Spec => []AskedIsAuthentic
<1>1. IInv => AskedIsAuthentic
  <2> SUFFICES ASSUME IInv, NEW v \in Verifiers
               PROVE  /\ ver[v].stage = "rootAnswer" => ver[v].chain[1] \in atts
                      /\ ver[v].stage = "handleAnswer" =>
                           ver[v].chain[2] \in atts
                      /\ ver[v].stage = "sessionAnswer" => ver[v].token \in sess
    BY DEF AskedIsAuthentic
  <2>1. CASE ver[v].stage = "rootAnswer"
    <3>1. /\ ver[v] \in Run /\ Presented(ver[v], atts, sess)
          /\ RootSigned(ver[v])
      BY <2>1, WaitingRun DEF Answers, StageInv
    <3>2. 1 \in DOMAIN ver[v].chain
      BY <3>1, ChainLinks
    <3>3. ver[v].chain[1].signer \in Keys
      BY <3>1 DEF RootSigned, Run
    <3> QED BY <2>1, <3>1, <3>2, <3>3, SignedIsAuthentic DEF Presented
  <2>2. CASE ver[v].stage = "handleAnswer"
    <3>1. /\ ver[v] \in Run /\ Presented(ver[v], atts, sess)
          /\ RootSigned(ver[v]) /\ HandleSigned(ver[v])
      BY <2>2, WaitingRun DEF Answers, StageInv
    <3>2. ver[v].chain[1] \in Attestation /\ 2 \in DOMAIN ver[v].chain
      BY <3>1, ChainLinks DEF HandleSigned
    <3>3. ver[v].chain[2].signer \in Keys
      BY <3>1, <3>2 DEF HandleSigned, Attestation
    <3> QED BY <2>2, <3>1, <3>2, <3>3, SignedIsAuthentic DEF Presented
  <2>3. CASE ver[v].stage = "sessionAnswer"
    BY <2>3, VouchedIsGranted
  <2> QED BY <2>1, <2>2, <2>3
<1> QED BY <1>1, Invariance, PTL

(* Disposal: no signature is made with the key of an object that has been  *)
(* disposed, not even by an attestHandle or attestSubHandle that was       *)
(* waiting for its child when dispose() was called.                        *)
THEOREM DisposalIsFinal == Spec => DisposedNeverSigns
<1> DEFINE Live == \A c \in (atts' \cup sess') \ (atts \cup sess) :
                     c.signer \in live
<1>1. [Next]_vars => [Live]_vars
  <2> SUFFICES ASSUME Next PROVE Live
    OBVIOUS
  <2>1. CASE IssuanceNext
    <3>1. CASE \E req \in AttestCalls : StartAttest(req)
      BY <3>1 DEF StartAttest
    <3>2. CASE \E req \in pending : FinishAttest(req)
      BY <3>2 DEF FinishAttest, Issue, SignerReady
    <3>3. CASE \E req \in pending : AbortAttest(req)
      BY <3>3 DEF AbortAttest
    <3>4. CASE \E req \in IssueCalls : IssueDirect(req)
      BY <3>4 DEF IssueDirect, Issue, SignerReady
    <3>5. CASE \E req \in CreateCalls : CreateSession(req)
      BY <3>5 DEF CreateSession, SignerReady
    <3>6. CASE (\E k \in Keys : Dispose(k)) \/ Tick
      BY <3>6 DEF Dispose, Tick
    <3> QED
      BY <2>1, <3>1, <3>2, <3>3, <3>4, <3>5, <3>6 DEF IssuanceNext
  <2>2. CASE UNCHANGED issuanceVars
    BY <2>2 DEF issuanceVars
  <2> QED BY <2>1, <2>2 DEF Next
<1> QED BY <1>1, PTL DEF Spec, DisposedNeverSigns

-----------------------------------------------------------------------------
(***************************************************************************)
(* Completeness.  What makes an honest run pass is a matter of the run     *)
(* alone: what was signed has its form and was signed before it began.     *)
(***************************************************************************)
WellFormed(s) ==
  /\ s.hId = s.signer
  /\ Len(s.signer) \in 2..3
  /\ s.hPath = SessionPath(s.signer)
  /\ s.exp > s.iat

Timely(r) ==
  r.token.signer # NoKey => WellFormed(r.token) /\ r.token.iat <= r.start + drift

(* Honest, for a session that verifies under a key. *)
Genuine(r) ==
  LET s == r.token
      key == s.signer
  IN  /\ r.mode = "attested"
      /\ key # NoKey
      /\ r.aud = s.aud
      /\ r.root = <<key[1]>>
      /\ Len(r.chain) = Len(key) - 1
      /\ \A i \in DOMAIN r.chain : LET a == r.chain[i] IN
           /\ a.signer = SubSeq(key, 1, i)
           /\ a.subject = SubSeq(key, 1, i + 1)
           /\ a.name = key[i + 1]
           /\ a.iat < a.exp
           /\ a.iat <= r.start + drift
           /\ s.exp <= a.exp
           /\ s.scp \subseteq a.grant.scopes
           /\ s.aud \in a.grant.audiences
           /\ s.exp - s.iat <= a.grant.maxTtl
      /\ Len(r.chain) = 2 => LET a == r.chain[1]
                                 b == r.chain[2]
                             IN  /\ b.name \in a.grant.subNames
                                 /\ b.grant.scopes \subseteq a.grant.scopes
                                 /\ b.grant.maxTtl <= a.grant.maxTtl

(* The refusals an honest run may meet. *)
Excuses(r) ==
  {e \in AttestationError : \/ r.checker /\ e.code = "REVOKED"
                            \/ e.code = "EXPIRED" /\ r.start > r.token.exp}

Excused(r) == r.verdict \in {Accepted, CheckerFailed} \/ r.verdict \in Excuses(r)

SignedInForm ==
  \A s \in sess : s.signer \in Keys /\ WellFormed(s) /\ s.iat <= now + drift

Complete(r) == Timely(r) /\ (r.stage = "done" /\ Genuine(r) => Excused(r))

CInv ==
  /\ IInv
  /\ drift \in (-Skew)..Skew
  /\ SignedInForm
  /\ \A v \in Verifiers : ver[v].stage # "idle" => Complete(ver[v])

(* A check that holds throws nothing, and neither does one whose failure   *)
(* is excused throw anything else.                                         *)
LEMMA Harmless ==
  ASSUME NEW r, NEW p, NEW code \in Codes, NEW level \in Levels,
         ~p => \/ r.checker /\ code = "REVOKED"
               \/ code = "EXPIRED" /\ r.start > r.token.exp
  PROVE  Require(p, code, level) \in Seq(Excuses(r))
<1>1. CASE p
  <2>1. Require(p, code, level) = <<>>
    BY <1>1 DEF Require
  <2> QED BY <2>1, EmptySeq
<1>2. CASE ~p
  <2>1. PICK e : e = [code |-> code, level |-> level]
    OBVIOUS
  <2>2. e \in Excuses(r)
    BY <1>2, <2>1 DEF Excuses, AttestationError
  <2>3. Require(p, code, level) = <<e>>
    BY <1>2, <2>1 DEF Require
  <2> QED BY <2>2, <2>3
<1> QED BY <1>1, <1>2

(* The key of a genuine run's session, and the levels of its chain. *)
LEMMA GenuineLevels ==
  ASSUME NEW r \in Run, Genuine(r), Timely(r)
  PROVE  LET s == r.token
             key == s.signer
         IN  /\ key \in Seq(Names) /\ Len(key) \in 2..3 /\ s.hId = key
             /\ r.root = SubSeq(key, 1, 1) /\ key = SubSeq(key, 1, Len(key))
             /\ Len(key) = 2 => /\ s.hPath = <<>> /\ Len(r.chain) = 1 /\ DOMAIN r.chain = {1}
             /\ Len(key) = 3 => /\ s.hPath = <<key[2], key[3]>> /\ s.hPath # <<>>
                                /\ Len(r.chain) = 2 /\ DOMAIN r.chain = {1, 2}
             /\ \A i \in DOMAIN r.chain : r.chain[i] \in Attestation
             /\ s.exp \in Int /\ s.iat \in Int /\ s.exp > s.iat
             /\ s.iat <= r.start + drift /\ r.start \in Int
<1>1. PICK key : key = r.token.signer
  OBVIOUS
<1>2. /\ key \in Keys /\ WellFormed(r.token) /\ r.token.iat <= r.start + drift
      /\ r.token.exp \in Int /\ r.token.iat \in Int /\ r.start \in Int
      /\ r.chain \in Seq(Attestation)
  BY <1>1 DEF Genuine, Timely, Run, SessionToken
<1>3. key \in Seq(Names) /\ Len(key) \in 2..3
  <2>1. PICK n \in 1..3 : key \in [1..n -> Names]
    BY <1>2, KeysArePaths
  <2>2. key \in UNION {[1..m -> Names] : m \in Nat}
    BY <2>1
  <2>3. key \in Seq(Names)
    BY <2>2, SeqDef
  <2> QED BY <1>1, <1>2, <2>3 DEF WellFormed
<1>4. key = SubSeq(key, 1, Len(key))
  BY <1>3, SubSeqFull
<1>5. SubSeq(key, 1, 1) = <<key[1]>>
  <2>1. key[1] \in Names
    BY <1>3
  <2>2. \A i \in 1..1 : key[i] \in Names
    BY <2>1
  <2>3. /\ SubSeq(key, 1, 1) \in Seq(Names) /\ Len(SubSeq(key, 1, 1)) = 1
        /\ SubSeq(key, 1, 1)[1] = key[1]
    BY <2>2, SubSeqProperties
  <2>4. /\ <<key[1]>> \in Seq(Names) /\ Len(<<key[1]>>) = 1 /\ <<key[1]>>[1] = key[1]
    BY <2>1
  <2>5. Len(SubSeq(key, 1, 1)) = Len(<<key[1]>>)
    BY <2>3, <2>4
  <2>6. \A j \in 1..Len(SubSeq(key, 1, 1)) : SubSeq(key, 1, 1)[j] = <<key[1]>>[j]
    BY <2>3, <2>4
  <2> QED BY <2>3, <2>4, <2>5, <2>6, SeqEqual
<1>6. r.root = <<key[1]>> /\ Len(r.chain) = Len(key) - 1
  BY <1>1 DEF Genuine
<1>7. /\ r.token.hId = key /\ r.token.exp > r.token.iat
      /\ r.token.hPath = IF Len(key) = 3 THEN <<key[2], key[3]>> ELSE <<>>
  BY <1>1, <1>2 DEF WellFormed, SessionPath
<1>8. DOMAIN r.chain = 1..(Len(key) - 1) /\ \A i \in DOMAIN r.chain : r.chain[i] \in Attestation
  BY <1>2, <1>6
<1>9. Len(key) = 2 => /\ r.token.hPath = <<>> /\ Len(r.chain) = 1 /\ DOMAIN r.chain = {1}
  BY <1>6, <1>7, <1>8
<1>10. Len(key) = 3 => /\ r.token.hPath = <<key[2], key[3]>> /\ r.token.hPath # <<>>
                       /\ Len(r.chain) = 2 /\ DOMAIN r.chain = {1, 2}
  BY <1>6, <1>7, <1>8
<1> QED BY <1>1, <1>2, <1>3, <1>4, <1>5, <1>6, <1>7, <1>8, <1>9, <1>10

(* Its time is within the skew of the verifier's clock. *)
LEMMA SessionPasses ==
  ASSUME NEW r \in Run, Genuine(r), Timely(r), drift \in (-Skew)..Skew
  PROVE  SessionErrors(r.token, r.aud, r.start) \in Seq(Excuses(r))
<1> DEFINE s == r.token
           t == r.start
           e1 == ParseErrors(s)
           e2 == Require(s.aud = r.aud, "AUDIENCE_NOT_PERMITTED", "SESSION")
           e3 == Require(t <= s.exp + Skew, "EXPIRED", "SESSION")
           e4 == Require(t >= s.iat - Skew, "NOT_YET_VALID", "SESSION")
<1>1. /\ s.exp \in Int /\ s.iat \in Int /\ s.exp > s.iat /\ s.iat <= t + drift /\ t \in Int
  BY GenuineLevels
<1>2. s.aud = r.aud
  BY DEF Genuine
<1> HIDE DEF s, t
<1>3. ~(t <= s.exp + Skew) => t > s.exp
  BY <1>1, SkewIsNat
<1>4. t >= s.iat - Skew
  BY <1>1, SkewIsNat
<1>5. e1 \in Seq(Excuses(r))
  BY <1>1, Harmless, CodesAndLevels DEF ParseErrors
<1>6. e2 \in Seq(Excuses(r))
  BY <1>2, Harmless, CodesAndLevels
<1>7. e3 \in Seq(Excuses(r))
  BY <1>3, Harmless, CodesAndLevels DEF s, t
<1>8. e4 \in Seq(Excuses(r))
  BY <1>4, Harmless, CodesAndLevels
<1>9. SessionErrors(r.token, r.aud, r.start) = e1 \o e2 \o e3 \o e4
  BY DEF SessionErrors, s, t
<1> HIDE DEF e1, e2, e3, e4
<1> QED BY <1>5, <1>6, <1>7, <1>8, <1>9, ConcatProperties

(* Every level of its chain was signed by the level above. *)
LEMMA LinkPasses ==
  ASSUME NEW r \in Run, Genuine(r), Timely(r), drift \in (-Skew)..Skew,
         NEW i \in DOMAIN r.chain, NEW level \in Levels
  PROVE  /\ AttestationErrors(r.chain[i], SubSeq(r.token.signer, 1, i), r.start, level)
              \in Seq(Excuses(r))
         /\ r.chain[i].subject = SubSeq(r.token.signer, 1, i + 1)
<1> DEFINE signer == SubSeq(r.token.signer, 1, i)
<1>1. PICK a \in Attestation, t \in Int, exp \in Int :
        a = r.chain[i] /\ t = r.start /\ exp = r.token.exp
  BY GenuineLevels
<1> DEFINE e1 == DecodeErrors(a)
           e2 == Require(a.signer = signer, "BAD_SIGNATURE", level)
           e3 == Require(t <= a.exp + Skew, "EXPIRED", level)
           e4 == Require(t >= a.iat - Skew, "NOT_YET_VALID", level)
<1>2. /\ a.iat \in Int /\ a.exp \in Int /\ a.iat < a.exp /\ a.iat <= t + drift /\ exp <= a.exp
      /\ a.signer = signer /\ a.subject = SubSeq(r.token.signer, 1, i + 1)
  BY <1>1 DEF Genuine, Attestation
<1> HIDE DEF signer
<1>3. ~(t <= a.exp + Skew) => t > exp
  BY <1>2, SkewIsNat
<1>4. t >= a.iat - Skew /\ a.exp > a.iat
  BY <1>2, SkewIsNat
<1>5. e1 \in Seq(Excuses(r))
  BY <1>4, Harmless, CodesAndLevels DEF DecodeErrors
<1>6. e2 \in Seq(Excuses(r))
  BY <1>2, Harmless, CodesAndLevels
<1>7. e3 \in Seq(Excuses(r))
  BY <1>1, <1>3, Harmless, CodesAndLevels
<1>8. e4 \in Seq(Excuses(r))
  BY <1>4, Harmless, CodesAndLevels
<1>9. AttestationErrors(a, signer, t, level) = e1 \o e2 \o e3 \o e4
  BY DEF AttestationErrors
<1> HIDE DEF e1, e2, e3, e4
<1>10. AttestationErrors(a, signer, t, level) \in Seq(Excuses(r))
  BY <1>5, <1>6, <1>7, <1>8, <1>9, ConcatProperties
<1> QED BY <1>1, <1>2, <1>10 DEF signer

(* Whatever an id is asked about, only a checker refuses it. *)
LEMMA RevocationPasses ==
  ASSUME NEW r \in Run, NEW jti, NEW level \in Levels
  PROVE  RevocationErrors(r, jti, level) \in Seq(Excuses(r))
<1>1. ~(~(r.checker /\ jti \in revoked)) => r.checker
  OBVIOUS
<1> QED BY <1>1, Harmless, CodesAndLevels DEF RevocationErrors

(* A session within a grant and its expiry. *)
LEMMA GrantPasses ==
  ASSUME NEW r, NEW s, NEW g, NEW earliestExp \in Int, s.exp \in Int,
         s.scp \subseteq g.scopes, s.aud \in g.audiences, s.exp - s.iat <= g.maxTtl,
         s.exp <= earliestExp, s.signer = s.hId
  PROVE  GrantErrors(s, g, earliestExp) \in Seq(Excuses(r))
<1> DEFINE e1 == Require(s.scp \subseteq g.scopes, "SCOPE_EXCEEDED", "SESSION")
           e2 == Require(s.aud \in g.audiences, "AUDIENCE_NOT_PERMITTED", "SESSION")
           e3 == Require(s.exp - s.iat <= g.maxTtl, "TTL_EXCEEDED", "SESSION")
           e4 == Require(s.exp <= earliestExp + Skew,
                         "SESSION_OUTLIVES_ATTESTATION", "SESSION")
           e5 == Require(s.signer = s.hId, "BAD_SIGNATURE", "SESSION")
<1>1. s.exp <= earliestExp + Skew
  BY SkewIsNat
<1>2. /\ e1 \in Seq(Excuses(r)) /\ e2 \in Seq(Excuses(r)) /\ e3 \in Seq(Excuses(r))
      /\ e4 \in Seq(Excuses(r)) /\ e5 \in Seq(Excuses(r))
  BY <1>1, Harmless, CodesAndLevels
<1>3. GrantErrors(s, g, earliestExp) = e1 \o e2 \o e3 \o e4 \o e5
  BY DEF GrantErrors
<1> HIDE DEF e1, e2, e3, e4, e5
<1> QED BY <1>2, <1>3, ConcatProperties

(* A Handle's session is its attestation's subject's, within its grant. *)
LEMMA HandlePasses ==
  ASSUME NEW r \in Run, Genuine(r), Timely(r), drift \in (-Skew)..Skew, Len(r.token.signer) = 2
  PROVE  /\ SubjectErrors(r.token, r.chain[1]) \in Seq(Excuses(r))
         /\ GrantErrors(r.token, r.chain[1].grant, r.chain[1].exp) \in Seq(Excuses(r))
<1>1. PICK s \in SessionToken, a \in Attestation : s = r.token /\ a = r.chain[1]
  BY GenuineLevels DEF Run
<1>2. /\ s.hId = s.signer /\ s.signer = SubSeq(s.signer, 1, 2) /\ 1 \in DOMAIN r.chain
      /\ a.exp \in Int /\ s.exp \in Int /\ s.iat \in Int
  BY <1>1, GenuineLevels DEF SessionToken, Attestation
<1>3. /\ a.subject = SubSeq(s.signer, 1, 1 + 1)
      /\ s.exp <= a.exp /\ s.scp \subseteq a.grant.scopes /\ s.aud \in a.grant.audiences
      /\ s.exp - s.iat <= a.grant.maxTtl
  BY <1>1, <1>2 DEF Genuine
<1>4. s.hId = a.subject
  BY <1>2, <1>3
<1>5. SubjectErrors(s, a) \in Seq(Excuses(r))
  BY <1>4, Harmless, CodesAndLevels DEF SubjectErrors
<1>6. GrantErrors(s, a.grant, a.exp) \in Seq(Excuses(r))
  BY <1>2, <1>3, GrantPasses
<1> QED BY <1>1, <1>5, <1>6

(* A SubHandle's session matches both levels of its chain. *)
LEMMA SubHandlePasses ==
  ASSUME NEW r \in Run, Genuine(r), Timely(r), drift \in (-Skew)..Skew, Len(r.token.signer) = 3
  PROVE  LET a == r.chain[1]
             b == r.chain[2]
         IN  /\ NestingErrors(r.token, a, b) \in Seq(Excuses(r))
             /\ GrantErrors(r.token, b.grant, Earliest(a, b)) \in Seq(Excuses(r))
<1>1. PICK s \in SessionToken, a \in Attestation, b \in Attestation :
        s = r.token /\ a = r.chain[1] /\ b = r.chain[2]
  BY GenuineLevels DEF Run
<1>2. PICK key : key = s.signer
  OBVIOUS
<1>3. /\ s.hId = key /\ key = SubSeq(key, 1, 3) /\ 1 \in DOMAIN r.chain /\ 2 \in DOMAIN r.chain
      /\ s.hPath = <<key[2], key[3]>> /\ Len(r.chain) = 2
      /\ a.exp \in Int /\ b.exp \in Int /\ s.exp \in Int /\ s.iat \in Int
  BY <1>1, <1>2, GenuineLevels DEF SessionToken, Attestation
<1>4. /\ a.name = key[1 + 1] /\ s.exp <= a.exp
      /\ b.name = key[2 + 1] /\ b.subject = SubSeq(key, 1, 2 + 1)
      /\ s.exp <= b.exp /\ s.scp \subseteq b.grant.scopes /\ s.aud \in b.grant.audiences
      /\ s.exp - s.iat <= b.grant.maxTtl
      /\ b.name \in a.grant.subNames
      /\ b.grant.scopes \subseteq a.grant.scopes
      /\ b.grant.maxTtl <= a.grant.maxTtl
  BY <1>1, <1>2, <1>3 DEF Genuine
<1>5. /\ b.name = s.hPath[2] /\ a.name = s.hPath[1] /\ s.hId = b.subject
  BY <1>3, <1>4
<1>6. NestingErrors(s, a, b) \in Seq(Excuses(r))
  <2> DEFINE e1 == Require(b.name = s.hPath[2], "PATH_MISMATCH", "HANDLE_ATTESTATION")
             e2 == Require(a.name = s.hPath[1], "PATH_MISMATCH", "ROOT")
             e3 == Require(b.name \in a.grant.subNames, "NAME_NOT_PERMITTED", "ROOT")
             e4 == Require(s.hId = b.subject, "SUBJECT_MISMATCH", "SUB_ATTESTATION")
             e5 == Require(b.grant.scopes \subseteq a.grant.scopes, "SCOPE_EXCEEDED", "ROOT")
             e6 == Require(b.grant.maxTtl <= a.grant.maxTtl, "TTL_EXCEEDED", "ROOT")
  <2>1. /\ e1 \in Seq(Excuses(r)) /\ e2 \in Seq(Excuses(r)) /\ e4 \in Seq(Excuses(r))
    BY <1>5, Harmless, CodesAndLevels
  <2>2. /\ e3 \in Seq(Excuses(r)) /\ e5 \in Seq(Excuses(r)) /\ e6 \in Seq(Excuses(r))
    BY <1>4, Harmless, CodesAndLevels
  <2>3. NestingErrors(s, a, b) = e1 \o e2 \o e3 \o e4 \o e5 \o e6
    BY DEF NestingErrors
  <2> HIDE DEF e1, e2, e3, e4, e5, e6
  <2> QED BY <2>1, <2>2, <2>3, ConcatProperties
<1>7. GrantErrors(s, b.grant, Earliest(a, b)) \in Seq(Excuses(r))
  <2>1. s.exp <= Earliest(a, b) /\ Earliest(a, b) \in Int
    BY <1>3, <1>4 DEF Earliest
  <2> QED BY <1>2, <1>3, <1>4, <2>1, GrantPasses
<1> QED BY <1>1, <1>6, <1>7

(* A decision on excused errors leaves an honest run complete. *)
LEMMA DecideExcused ==
  ASSUME VerType, NEW v \in Verifiers, NEW r \in Run, Timely(r), NEW errors,
         Genuine(r) => errors \in Seq(Excuses(r)),
         NEW next \in Answers \cup {"done"}, Decide(v, r, errors, next),
         UNCHANGED issuanceVars
  PROVE  Complete(ver[v])'
<1>1. PICK n : ver' = [ver EXCEPT ![v] = n] /\
               \/ errors = <<>> /\ n = [r EXCEPT !.stage = next,
                    !.verdict = IF next = "done" THEN Accepted ELSE Undecided]
               \/ errors # <<>> /\ n = [r EXCEPT !.stage = "done", !.verdict = Head(errors)]
  BY DEF Decide
<1>2. ver'[v] = n /\ drift' = drift
  BY <1>1 DEF VerType, issuanceVars
<1>3. /\ n.mode = r.mode /\ n.root = r.root /\ n.token = r.token /\ n.chain = r.chain
      /\ n.aud = r.aud /\ n.checker = r.checker /\ n.start = r.start
      /\ n.stage = "done" => \/ n.verdict = Accepted
                             \/ errors # <<>> /\ n.verdict = Head(errors)
  <2>1. CASE errors = <<>>
    <3>1. next # "done" => n.stage # "done"
      BY <1>1, <2>1 DEF Run
    <3> QED BY <1>1, <2>1, <3>1 DEF Run
  <2>2. CASE errors # <<>>
    BY <1>1, <2>2 DEF Run
  <2> QED BY <2>1, <2>2
<1>4. Timely(ver[v])'
  BY <1>2, <1>3 DEF Timely
<1>5. ASSUME n.stage = "done", Genuine(ver[v])'
      PROVE  Excused(ver[v])'
  <2>1. Genuine(r)
    BY <1>2, <1>3, <1>5 DEF Genuine
  <2>2. CASE n.verdict = Accepted
    BY <1>2, <2>2 DEF Excused
  <2>3. CASE errors # <<>> /\ n.verdict = Head(errors)
    <3>1. n.verdict \in Excuses(r)
      BY <2>1, <2>3, HeadTailProperties
    <3>2. Excuses(ver[v])' = Excuses(r)
      BY <1>2, <1>3 DEF Excuses
    <3> QED BY <1>2, <3>1, <3>2 DEF Excused
  <2> QED BY <1>3, <1>5, <2>2, <2>3
<1> QED BY <1>2, <1>4, <1>5 DEF Complete

(* Each answer leaves the run complete. *)
LEMMA AnswerCompletes ==
  ASSUME CInv, NEW v \in Verifiers, AnswerStep(v), UNCHANGED issuanceVars
  PROVE  Complete(ver[v])' /\ \A w \in Verifiers \ {v} : ver'[w] = ver[w]
<1>1. ver[v].stage \in Answers
  BY DEF AnswerStep, RootAnswer, HandleAnswer, SessionAnswer, CheckerFails, Answers
<1>2. PICK r \in Run : r = ver[v] /\ r \in VerificationRecord /\ r.stage # "idle"
  <2>1. ver[v].stage # "idle"
    BY <1>1 DEF Answers
  <2> QED BY <1>1, <2>1, WaitingRun DEF CInv
<1>3. VerType /\ Timely(r) /\ drift \in (-Skew)..Skew
  BY <1>2 DEF CInv, IInv, TypeOK, VerType, Complete
<1>4. ASSUME NEW errors, NEW next \in Answers \cup {"done"}, Decide(v, r, errors, next),
             Genuine(r) => errors \in Seq(Excuses(r))
      PROVE  Complete(ver[v])' /\ \A w \in Verifiers \ {v} : ver'[w] = ver[w]
  <2>1. \A w \in Verifiers \ {v} : ver'[w] = ver[w]
    BY <1>3, <1>4 DEF Decide, VerType
  <2> QED BY <1>3, <1>4, <2>1, DecideExcused
<1>5. /\ "handleAnswer" \in Answers /\ "sessionAnswer" \in Answers
      /\ "ROOT" \in Levels /\ "HANDLE_ATTESTATION" \in Levels /\ "SESSION" \in Levels
  BY DEF Answers, Levels
<1>6. CASE RootAnswer(v)
  <2> DEFINE asked == RevocationErrors(r, r.chain[1].jti, "ROOT")
             link == AttestationErrors(r.chain[2], r.chain[1].subject, r.start,
                                       "HANDLE_ATTESTATION")
             holder == SubjectErrors(r.token, r.chain[1])
             grant == GrantErrors(r.token, r.chain[1].grant, r.chain[1].exp)
  <2>1. asked \in Seq(Excuses(r))
    BY <1>5, RevocationPasses
  <2>2. CASE IsSubSession(r.token)
    <3>1. ASSUME Genuine(r) PROVE link \in Seq(Excuses(r))
      <4>1. 1 \in DOMAIN r.chain /\ 2 \in DOMAIN r.chain
        BY <1>3, <2>2, <3>1, GenuineLevels DEF IsSubSession
      <4>2. r.chain[1].subject = SubSeq(r.token.signer, 1, 1 + 1)
        BY <1>3, <1>5, <3>1, <4>1, LinkPasses
      <4> QED BY <1>3, <1>5, <3>1, <4>1, <4>2, LinkPasses
    <3>2. Decide(v, r, asked \o link, "handleAnswer")
      BY <1>2, <1>6, <2>2 DEF RootAnswer, AfterRoot
    <3> HIDE DEF asked, link
    <3>3. Genuine(r) => asked \o link \in Seq(Excuses(r))
      BY <2>1, <3>1, ConcatProperties
    <3> QED BY <1>4, <1>5, <3>2, <3>3
  <2>3. CASE ~IsSubSession(r.token)
    <3>1. ASSUME Genuine(r) PROVE holder \in Seq(Excuses(r)) /\ grant \in Seq(Excuses(r))
      <4>1. Len(r.token.signer) = 2
        BY <1>3, <2>3, <3>1, GenuineLevels DEF IsSubSession
      <4> QED BY <1>3, <3>1, <4>1, HandlePasses
    <3>2. Decide(v, r, asked \o holder \o grant, "sessionAnswer")
      BY <1>2, <1>6, <2>3 DEF RootAnswer, AfterRoot
    <3> HIDE DEF asked, holder, grant
    <3>3. Genuine(r) => asked \o holder \o grant \in Seq(Excuses(r))
      BY <2>1, <3>1, ConcatProperties
    <3> QED BY <1>4, <1>5, <3>2, <3>3
  <2> QED BY <2>2, <2>3
<1>7. CASE HandleAnswer(v)
  <2> DEFINE a == r.chain[1]
             b == r.chain[2]
             asked == RevocationErrors(r, b.jti, "HANDLE_ATTESTATION")
             nesting == NestingErrors(r.token, a, b)
             grant == GrantErrors(r.token, b.grant, Earliest(a, b))
  <2>1. asked \in Seq(Excuses(r))
    BY <1>5, RevocationPasses
  <2>2. ASSUME Genuine(r) PROVE nesting \in Seq(Excuses(r)) /\ grant \in Seq(Excuses(r))
    <3>1. r.token.hPath # <<>>
      BY <1>2, <1>7 DEF HandleAnswer, CInv, IInv, StageInv, HandleSigned
    <3>2. Len(r.token.signer) = 3
      BY <1>3, <2>2, <3>1, GenuineLevels
    <3> QED BY <1>3, <2>2, <3>2, SubHandlePasses
  <2>3. Decide(v, r, asked \o nesting \o grant, "sessionAnswer")
    BY <1>2, <1>7 DEF HandleAnswer, AfterHandle
  <2> HIDE DEF asked, nesting, grant
  <2>4. Genuine(r) => asked \o nesting \o grant \in Seq(Excuses(r))
    BY <2>1, <2>2, ConcatProperties
  <2> QED BY <1>4, <1>5, <2>3, <2>4
<1>8. CASE SessionAnswer(v)
  <2>1. Decide(v, r, RevocationErrors(r, r.token.jti, "SESSION"), "done")
    BY <1>2, <1>8 DEF SessionAnswer, AfterSession
  <2> QED BY <1>4, <1>5, <2>1, RevocationPasses
<1>9. CASE CheckerFails(v)
  <2>1. PICK n : /\ n = [r EXCEPT !.stage = "done", !.verdict = CheckerFailed]
                 /\ ver' = [ver EXCEPT ![v] = n]
    BY <1>2, <1>9 DEF CheckerFails
  <2>2. /\ ver'[v] = n /\ drift' = drift /\ n.token = r.token /\ n.start = r.start
        /\ n.verdict = CheckerFailed /\ \A w \in Verifiers \ {v} : ver'[w] = ver[w]
    BY <1>3, <2>1 DEF VerType, Run, issuanceVars
  <2> QED BY <1>3, <2>2 DEF Complete, Timely, Excused
<1> QED BY <1>6, <1>7, <1>8, <1>9 DEF AnswerStep

(* So does its beginning. *)
LEMMA BeginCompletes ==
  ASSUME CInv, NEW v \in Verifiers, VerifyAttested(v) \/ VerifyStateless(v),
         UNCHANGED issuanceVars
  PROVE  Complete(ver[v])' /\ \A w \in Verifiers \ {v} : ver'[w] = ver[w]
<1>1. PICK mode \in {"attested", "stateless"}, service \in Services,
           s \in SessionToken, chain \in Seq(Attestation), alive \in BOOLEAN :
        Begin(v, mode, service, s, chain, now, alive) /\ Authentic(s, sess)
  <2>1. TypeOK /\ sess \subseteq SessionToken
    BY DEF CInv, IInv, TypeOK, IssuanceTypeOK
  <2>2. CASE VerifyAttested(v)
    <3>1. PICK service \in Services, p \in Presentations :
            Begin(v, "attested", service, p[1], p[2], now, TRUE)
      BY <2>2 DEF VerifyAttested
    <3>2. p[1] \in SessionToken /\ p[2] \in Seq(Attestation) /\ Authentic(p[1], sess)
      BY <2>1, PresentationType
    <3> QED BY <3>1, <3>2
  <2>3. CASE VerifyStateless(v)
    <3>1. PICK service \in Services, s \in sess \cup {TamperedSession(t) : t \in sess} :
            Begin(v, "stateless", service, s, <<>>, now, service.root \in live)
      BY <2>3 DEF VerifyStateless
    <3>2. s \in SessionToken /\ Authentic(s, sess)
      BY <2>1, TamperedType DEF Authentic
    <3>3. <<>> \in Seq(Attestation)
      BY EmptySeq
    <3>4. (service.root \in live) \in BOOLEAN
      OBVIOUS
    <3> QED BY <3>1, <3>2, <3>3, <3>4
  <2> QED BY <2>2, <2>3
<1>2. PICK r : r = NewRun(mode, service, s, chain)
  OBVIOUS
<1>3. /\ r \in Run /\ r.mode = mode /\ r.token = s /\ r.chain = chain /\ r.start = now
      /\ VerType /\ drift \in (-Skew)..Skew
  BY <1>2, NewRunType DEF CInv, IInv, TypeOK, VerType, NewRun
<1>4. Timely(r)
  BY <1>1, <1>3 DEF Timely, Authentic, CInv, SignedInForm
<1>5. ASSUME NEW errors, NEW next \in Answers, Decide(v, r, errors, next),
             Genuine(r) => errors \in Seq(Excuses(r))
      PROVE  Complete(ver[v])' /\ \A w \in Verifiers \ {v} : ver'[w] = ver[w]
  <2>1. \A w \in Verifiers \ {v} : ver'[w] = ver[w]
    BY <1>3, <1>5 DEF Decide, VerType
  <2> QED BY <1>3, <1>4, <1>5, <2>1, DecideExcused
<1>6. "rootAnswer" \in Answers /\ "sessionAnswer" \in Answers
  BY DEF Answers
<1>7. CASE mode = "attested"
  <2> DEFINE session == SessionErrors(r.token, r.aud, r.start)
             shape == ChainErrors(r.token, r.chain)
             link == AttestationErrors(r.chain[1], r.root, r.start, "ROOT")
             rest == IF shape = <<>> THEN link ELSE <<>>
  <2>1. Decide(v, r, session \o shape \o rest, "rootAnswer")
    BY <1>1, <1>2, <1>7 DEF Begin, NewRun, BeginAttested
  <2>2. ASSUME Genuine(r)
        PROVE  session \in Seq(Excuses(r)) /\ shape \in Seq(Excuses(r)) /\ rest \in Seq(Excuses(r))
    <3>1. session \in Seq(Excuses(r))
      BY <1>3, <1>4, <2>2, SessionPasses
    <3>2. shape \in Seq(Excuses(r))
      <4>1. Len(r.chain) = (IF r.token.hPath = <<>> THEN 1 ELSE 2)
        BY <1>4, <2>2, <1>3, GenuineLevels
      <4> QED BY <4>1, Harmless, CodesAndLevels DEF ChainErrors
    <3>3. link \in Seq(Excuses(r))
      <4>1. 1 \in DOMAIN r.chain /\ r.root = SubSeq(r.token.signer, 1, 1)
        BY <1>3, <1>4, <2>2, GenuineLevels
      <4> QED BY <1>3, <1>4, <2>2, <4>1, LinkPasses, CodesAndLevels
    <3> HIDE DEF shape, link
    <3>4. rest \in Seq(Excuses(r))
      BY <3>3, EmptySeq
    <3> QED BY <3>1, <3>2, <3>4
  <2> HIDE DEF session, shape, rest
  <2>3. Genuine(r) => session \o shape \o rest \in Seq(Excuses(r))
    BY <2>2, ConcatProperties
  <2> QED BY <1>5, <1>6, <2>1, <2>3
<1>8. CASE mode = "stateless"
  <2>1. ~Genuine(r)
    BY <1>3, <1>8 DEF Genuine
  <2>2. PICK errors : Decide(v, r, errors, "sessionAnswer")
    BY <1>1, <1>2, <1>8 DEF Begin, NewRun, BeginStateless
  <2> QED BY <1>5, <1>6, <2>1, <2>2
<1> QED BY <1>7, <1>8

(* What issuers sign has its form, and their clock does not go back. *)
LEMMA IssuingSignsInForm ==
  ASSUME CInv, IssuanceNext
  PROVE  SignedInForm' /\ drift' = drift
<1>1. /\ now \in Int /\ drift \in Int /\ \A s \in sess : s.iat \in Int
      /\ \A s \in sess : s.signer \in Keys /\ WellFormed(s) /\ s.iat <= now + drift
  BY DEF CInv, SignedInForm, IInv, TypeOK, IssuanceTypeOK, SessionToken
<1>2. CASE \E req \in CreateCalls : CreateSession(req)
  <2>1. PICK req \in CreateCalls : CreateSession(req)
    BY <1>2
  <2>2. PICK k, s :
          /\ k = req.key /\ sess' = sess \cup {s}
          /\ s = [signer |-> k, hId |-> k, hNm |-> k[Len(k)], hPath |-> SessionPath(k),
                  aud |-> req.aud, scp |-> req.scp, iat |-> IssuerNow,
                  exp |-> IssuerNow + req.ttl, jti |-> req.jti]
    BY <2>1 DEF CreateSession
  <2>3. /\ k \in Keys /\ Len(k) \in 2..3 /\ req.ttl \in Int /\ req.ttl > 0
        /\ now' = now /\ drift' = drift
    <3>1. k \in Keys /\ req.ttl \in Int
      BY <2>2, CallsAreRequests DEF SessionRequest
    <3>2. Len(k) > 1 /\ req.ttl > 0 /\ now' = now /\ drift' = drift
      BY <2>1, <2>2 DEF CreateSession
    <3> QED BY <3>1, <3>2, KeyNames
  <2>4. s.signer \in Keys /\ WellFormed(s) /\ s.iat <= now + drift
    BY <1>1, <2>2, <2>3 DEF WellFormed, IssuerNow
  <2> QED BY <1>1, <2>2, <2>3, <2>4 DEF SignedInForm
<1>3. CASE Tick
  <2>1. sess' = sess /\ now' = now + 1 /\ drift' = drift
    BY <1>3 DEF Tick
  <2>2. \A s \in sess : s.iat <= (now + 1) + drift
    BY <1>1
  <2> QED BY <1>1, <2>1, <2>2 DEF SignedInForm
<1>4. CASE sess' = sess /\ now' = now /\ drift' = drift
  BY <1>1, <1>4 DEF SignedInForm
<1>5. (\E req \in AttestCalls : StartAttest(req)) => sess' = sess /\ now' = now /\ drift' = drift
  BY DEF StartAttest
<1>6. (\E req \in pending : FinishAttest(req) \/ AbortAttest(req)) =>
        sess' = sess /\ now' = now /\ drift' = drift
  BY DEF FinishAttest, AbortAttest
<1>7. (\E req \in IssueCalls : IssueDirect(req)) \/ (\E k \in Keys : Dispose(k)) =>
        sess' = sess /\ now' = now /\ drift' = drift
  BY DEF IssueDirect, Dispose
<1> QED BY <1>2, <1>3, <1>4, <1>5, <1>6, <1>7 DEF IssuanceNext

LEMMA CompleteInit == Init => CInv
<1> SUFFICES ASSUME Init PROVE CInv
  OBVIOUS
<1>1. IInv
  BY InitInv
<1>2. drift \in (-Skew)..Skew /\ sess = {} /\ \A v \in Verifiers : ver[v].stage = "idle"
  BY DriftsWithinSkew DEF Init, IssuanceInit, VerificationInit, Idle
<1> QED BY <1>1, <1>2 DEF CInv, SignedInForm

LEMMA CompleteNext == CInv /\ [Next]_vars => CInv'
<1> SUFFICES ASSUME CInv, [Next]_vars PROVE CInv'
  OBVIOUS
<1>1. IInv'
  BY NextInv DEF CInv
<1>2. ASSUME NEW v \in Verifiers, ver'[v] = ver[v], drift' = drift, ver'[v].stage # "idle"
      PROVE  Complete(ver[v])'
  <2>1. Complete(ver[v])
    BY <1>2 DEF CInv
  <2> QED BY <1>2, <2>1 DEF Complete, Timely, Genuine, Excused, Excuses
<1>3. CASE UNCHANGED issuanceVars
  <2>1. SignedInForm' /\ drift' = drift
    BY <1>3 DEF CInv, SignedInForm, issuanceVars
  <2>2. CASE \E v \in Verifiers : VerifyAttested(v) \/ VerifyStateless(v) \/ AnswerStep(v)
    <3>1. PICK v \in Verifiers :
            Complete(ver[v])' /\ \A w \in Verifiers \ {v} : ver'[w] = ver[w]
      BY <1>3, <2>2, BeginCompletes, AnswerCompletes
    <3>2. ASSUME NEW w \in Verifiers, ver'[w].stage # "idle"
          PROVE  Complete(ver[w])'
      BY <1>2, <2>1, <3>1, <3>2
    <3> QED BY <1>1, <2>1, <3>2 DEF CInv
  <2>3. CASE ver' = ver
    BY <1>1, <1>2, <2>1, <2>3 DEF CInv
  <2>4. (\E jti \in Jtis : Revoke(jti)) \/ UNCHANGED vars => ver' = ver
    BY DEF Revoke, vars, verificationVars
  <2>5. IssuanceNext /\ UNCHANGED verificationVars => ver' = ver
    BY DEF verificationVars
  <2> QED BY <2>2, <2>3, <2>4, <2>5 DEF Next
<1>4. CASE IssuanceNext /\ UNCHANGED verificationVars
  <2>1. SignedInForm' /\ drift' = drift /\ ver' = ver
    BY <1>4, IssuingSignsInForm DEF verificationVars
  <2> QED BY <1>1, <1>2, <2>1 DEF CInv
<1>5. UNCHANGED vars => UNCHANGED issuanceVars
  BY DEF vars
<1> QED BY <1>3, <1>4, <1>5 DEF Next

LEMMA CompleteInvariance == Spec => []CInv
BY CompleteInit, CompleteNext, PTL DEF Spec

(* A decided honest run is excused. *)
LEMMA InvCompletes == CInv => HonestIsAccepted
<1> SUFFICES ASSUME CInv, NEW v \in Verifiers, ver[v].stage = "done",
                    Promise!Honest(ver[v])
             PROVE  \/ ver[v].verdict \in {Accepted, CheckerFailed}
                    \/ ver[v].checker /\ ver[v].verdict.code = "REVOKED"
                    \/ ver[v].verdict.code = "EXPIRED" /\ ver[v].start > ver[v].token.exp
  BY DEF HonestIsAccepted
<1>1. ver[v].token.signer # NoKey
  BY NoKeyIsNoKey DEF Promise!Honest, CInv, SignedInForm
<1>2. Genuine(ver[v])
  BY <1>1 DEF Promise!Honest, Genuine
<1>3. ver[v].stage # "idle"
  OBVIOUS
<1> QED BY <1>2, <1>3 DEF CInv, Complete, Excused, Excuses

(* Completeness of verifyAttested: a session created within its grants and *)
(* presented with its own chain is only ever refused for what is revoked,  *)
(* for its expiry or by a failing checker, as long as the issuers' clock   *)
(* is off by no more than the skew.                                        *)
THEOREM Completeness == Spec => []HonestIsAccepted
BY InvCompletes, CompleteInvariance, PTL

-----------------------------------------------------------------------------
(***************************************************************************)
(* The refinement.  A verification that is decided does in that step what  *)
(* Authorization does in its one: what it accepts is granted then, and a   *)
(* refusal that blames the revocation store is true of it then.            *)
(***************************************************************************)
Others == {e \in AttestationError : e.code # "REVOKED"}

Truthful(r) ==
  {e \in AttestationError :
     e.code = "REVOKED" => r.checker /\ revoked \cap Promise!Ids(r) # {}}

(* Requests stand for what Authorization keeps of a run. *)
SameRequest(n, r) ==
  /\ n.mode = r.mode /\ n.root = r.root /\ n.token = r.token
  /\ n.chain = r.chain /\ n.aud = r.aud /\ n.checker = r.checker
  /\ n.start = r.start

(* A check that is not the checker's says nothing of the store. *)
LEMMA OneOther ==
  ASSUME NEW p, NEW code \in Codes, code # "REVOKED", NEW level \in Levels
  PROVE  Require(p, code, level) \in Seq(Others)
<1>1. CASE p
  <2>1. Require(p, code, level) = <<>>
    BY <1>1 DEF Require
  <2> QED BY <2>1, EmptySeq
<1>2. CASE ~p
  <2>1. PICK e : e = [code |-> code, level |-> level]
    OBVIOUS
  <2>2. e \in Others
    BY <2>1 DEF Others, AttestationError
  <2>3. Require(p, code, level) = <<e>>
    BY <1>2, <2>1 DEF Require
  <2> QED BY <2>2, <2>3
<1> QED BY <1>1, <1>2

(* Neither do the checks a verification is made of. *)
LEMMA SessionOthers ==
  ASSUME NEW s, NEW aud, NEW t
  PROVE  SessionErrors(s, aud, t) \in Seq(Others)
<1> DEFINE e1 == ParseErrors(s)
           e2 == Require(s.aud = aud, "AUDIENCE_NOT_PERMITTED", "SESSION")
           e3 == Require(t <= s.exp + Skew, "EXPIRED", "SESSION")
           e4 == Require(t >= s.iat - Skew, "NOT_YET_VALID", "SESSION")
<1>1. /\ e1 \in Seq(Others) /\ e2 \in Seq(Others)
      /\ e3 \in Seq(Others) /\ e4 \in Seq(Others)
  BY OneOther, CodesAndLevels DEF ParseErrors
<1>2. SessionErrors(s, aud, t) = e1 \o e2 \o e3 \o e4
  BY DEF SessionErrors
<1> HIDE DEF e1, e2, e3, e4
<1> QED BY <1>1, <1>2, ConcatProperties

LEMMA LinkOthers ==
  ASSUME NEW a, NEW signer, NEW t, NEW level \in Levels
  PROVE  AttestationErrors(a, signer, t, level) \in Seq(Others)
<1> DEFINE e1 == DecodeErrors(a)
           e2 == Require(a.signer = signer, "BAD_SIGNATURE", level)
           e3 == Require(t <= a.exp + Skew, "EXPIRED", level)
           e4 == Require(t >= a.iat - Skew, "NOT_YET_VALID", level)
<1>1. /\ e1 \in Seq(Others) /\ e2 \in Seq(Others)
      /\ e3 \in Seq(Others) /\ e4 \in Seq(Others)
  BY OneOther, CodesAndLevels DEF DecodeErrors
<1>2. AttestationErrors(a, signer, t, level) = e1 \o e2 \o e3 \o e4
  BY DEF AttestationErrors
<1> HIDE DEF e1, e2, e3, e4
<1> QED BY <1>1, <1>2, ConcatProperties

LEMMA NestingOthers ==
  ASSUME NEW s, NEW a, NEW b
  PROVE  NestingErrors(s, a, b) \in Seq(Others)
<1> DEFINE e1 == Require(b.name = s.hPath[2], "PATH_MISMATCH", "HANDLE_ATTESTATION")
           e2 == Require(a.name = s.hPath[1], "PATH_MISMATCH", "ROOT")
           e3 == Require(b.name \in a.grant.subNames, "NAME_NOT_PERMITTED", "ROOT")
           e4 == Require(s.hId = b.subject, "SUBJECT_MISMATCH", "SUB_ATTESTATION")
           e5 == Require(b.grant.scopes \subseteq a.grant.scopes, "SCOPE_EXCEEDED", "ROOT")
           e6 == Require(b.grant.maxTtl <= a.grant.maxTtl, "TTL_EXCEEDED", "ROOT")
<1>1. /\ e1 \in Seq(Others) /\ e2 \in Seq(Others) /\ e3 \in Seq(Others)
      /\ e4 \in Seq(Others) /\ e5 \in Seq(Others) /\ e6 \in Seq(Others)
  BY OneOther, CodesAndLevels
<1>2. NestingErrors(s, a, b) = e1 \o e2 \o e3 \o e4 \o e5 \o e6
  BY DEF NestingErrors
<1> HIDE DEF e1, e2, e3, e4, e5, e6
<1> QED BY <1>1, <1>2, ConcatProperties

LEMMA GrantOthers ==
  ASSUME NEW s, NEW g, NEW earliestExp
  PROVE  GrantErrors(s, g, earliestExp) \in Seq(Others)
<1> DEFINE e1 == Require(s.scp \subseteq g.scopes, "SCOPE_EXCEEDED", "SESSION")
           e2 == Require(s.aud \in g.audiences, "AUDIENCE_NOT_PERMITTED", "SESSION")
           e3 == Require(s.exp - s.iat <= g.maxTtl, "TTL_EXCEEDED", "SESSION")
           e4 == Require(s.exp <= earliestExp + Skew,
                         "SESSION_OUTLIVES_ATTESTATION", "SESSION")
           e5 == Require(s.signer = s.hId, "BAD_SIGNATURE", "SESSION")
<1>1. /\ e1 \in Seq(Others) /\ e2 \in Seq(Others) /\ e3 \in Seq(Others)
      /\ e4 \in Seq(Others) /\ e5 \in Seq(Others)
  BY OneOther, CodesAndLevels
<1>2. GrantErrors(s, g, earliestExp) = e1 \o e2 \o e3 \o e4 \o e5
  BY DEF GrantErrors
<1> HIDE DEF e1, e2, e3, e4, e5
<1> QED BY <1>1, <1>2, ConcatProperties

LEMMA FormOthers ==
  ASSUME NEW s, NEW a, NEW chain, NEW root, NEW alive
  PROVE  /\ ChainErrors(s, chain) \in Seq(Others)
         /\ SubjectErrors(s, a) \in Seq(Others)
         /\ Require(alive, "DISPOSED", "FORMAT") \in Seq(Others)
         /\ ReconstructionErrors(root, s) \in Seq(Others)
<1>1. /\ ChainErrors(s, chain) \in Seq(Others)
      /\ SubjectErrors(s, a) \in Seq(Others)
      /\ Require(alive, "DISPOSED", "FORMAT") \in Seq(Others)
  BY OneOther, CodesAndLevels DEF ChainErrors, SubjectErrors
<1> DEFINE e1 == Require(s.signer = ReconstructedKey(root, s), "BAD_SIGNATURE", "SESSION")
           e2 == Require(s.hId = ReconstructedKey(root, s), "SUBJECT_MISMATCH", "SESSION")
<1>2. e1 \in Seq(Others) /\ e2 \in Seq(Others)
  BY OneOther, CodesAndLevels
<1>3. ReconstructionErrors(root, s) = e1 \o e2
  BY DEF ReconstructionErrors
<1> HIDE DEF e1, e2
<1> QED BY <1>1, <1>2, <1>3, ConcatProperties

(* The checker refuses an id only because it is in the store. *)
LEMMA CheckerIsTruthful ==
  ASSUME NEW r, NEW jti \in Promise!Ids(r), NEW level \in Levels
  PROVE  RevocationErrors(r, jti, level) \in Seq(Truthful(r))
<1>1. CASE r.checker /\ jti \in revoked
  <2>1. PICK e : e = [code |-> "REVOKED", level |-> level]
    OBVIOUS
  <2>2. e \in Truthful(r)
    BY <1>1, <2>1, CodesAndLevels DEF Truthful, AttestationError
  <2>3. RevocationErrors(r, jti, level) = <<e>>
    BY <1>1, <2>1 DEF RevocationErrors, Require
  <2> QED BY <2>2, <2>3
<1>2. CASE ~(r.checker /\ jti \in revoked)
  <2>1. RevocationErrors(r, jti, level) = <<>>
    BY <1>2 DEF RevocationErrors, Require
  <2> QED BY <2>1, EmptySeq
<1> QED BY <1>1, <1>2

(* The answer is followed by checks that are not the checker's. *)
LEMMA AnswerIsTruthful ==
  ASSUME NEW r, NEW asked \in Seq(Truthful(r)), NEW others \in Seq(Others)
  PROVE  asked \o others \in Seq(Truthful(r))
<1>1. Others \subseteq Truthful(r)
  BY DEF Others, Truthful
<1>2. others \in Seq(Truthful(r))
  BY <1>1
<1> QED BY <1>2, ConcatProperties

(* What a decision makes of its verification. *)
LEMMA DecideOutcome ==
  ASSUME VerType, NEW v \in Verifiers, NEW r \in Run,
         NEW errors \in Seq(Truthful(r)), NEW next \in Answers \cup {"done"},
         Decide(v, r, errors, next)
  PROVE  \E n \in VerificationRecord :
           /\ ver' = [ver EXCEPT ![v] = n]
           /\ SameRequest(n, r)
           /\ \/ n.stage = next /\ (next = "done" => n.verdict = Accepted)
              \/ n.stage = "done" /\ n.verdict \in Truthful(r)
<1>1. CASE errors = <<>>
  <2>1. PICK vd \in Verdict : vd = IF next = "done" THEN Accepted ELSE Undecided
    BY DEF Verdict
  <2>2. PICK n : n = [r EXCEPT !.stage = next, !.verdict = vd]
    OBVIOUS
  <2>3. ver' = [ver EXCEPT ![v] = n]
    BY <1>1, <2>1, <2>2 DEF Decide
  <2>4. /\ n \in VerificationRecord /\ SameRequest(n, r)
        /\ n.stage = next /\ n.verdict = vd
    BY <2>2 DEF Run, VerificationRecord, SameRequest
  <2> QED BY <2>1, <2>3, <2>4
<1>2. CASE errors # <<>>
  <2>1. PICK e : e = Head(errors)
    OBVIOUS
  <2>2. e \in Truthful(r) /\ e \in Verdict
    BY <1>2, <2>1, HeadTailProperties DEF Truthful, Verdict
  <2>3. PICK n : n = [r EXCEPT !.stage = "done", !.verdict = e]
    OBVIOUS
  <2>4. ver' = [ver EXCEPT ![v] = n]
    BY <1>2, <2>1, <2>3 DEF Decide
  <2>5. /\ n \in VerificationRecord /\ SameRequest(n, r)
        /\ n.stage = "done" /\ n.verdict = e
    BY <2>2, <2>3 DEF Run, VerificationRecord, SameRequest
  <2> QED BY <2>2, <2>4, <2>5
<1> QED BY <1>1, <1>2

(* What an answer makes of its verification. *)
Outcome(n, r) ==
  \/ n.stage \in Answers
  \/ n.stage = "done" /\ n.verdict = Accepted
  \/ n.stage = "done" /\ n.verdict = CheckerFailed /\ r.checker
  \/ n.stage = "done" /\ n.verdict \in Truthful(r)

LEMMA AnswerOutcome ==
  ASSUME IInv, NEW v \in Verifiers, AnswerStep(v)
  PROVE  \E n \in VerificationRecord :
           ver' = [ver EXCEPT ![v] = n] /\ SameRequest(n, ver[v]) /\ Outcome(n, ver[v])
<1>1. ver[v].stage \in Answers
  BY DEF AnswerStep, RootAnswer, HandleAnswer, SessionAnswer, CheckerFails, Answers
<1>2. PICK r \in Run : r = ver[v] /\ r \in VerificationRecord /\ VerType /\ StageInv(r, known[v])
  BY <1>1, WaitingRun
<1>3. ASSUME NEW errors \in Seq(Truthful(r)), NEW next \in Answers \cup {"done"},
             Decide(v, r, errors, next)
      PROVE  \E n \in VerificationRecord :
               ver' = [ver EXCEPT ![v] = n] /\ SameRequest(n, r) /\ Outcome(n, r)
  BY <1>2, <1>3, DecideOutcome DEF Outcome
<1>4. /\ "handleAnswer" \in Answers /\ "sessionAnswer" \in Answers
      /\ "ROOT" \in Levels /\ "HANDLE_ATTESTATION" \in Levels /\ "SESSION" \in Levels
  BY DEF Answers, Levels
<1>5. \A i \in DOMAIN r.chain : r.chain[i].jti \in Promise!Ids(r)
  BY DEF Promise!Ids
<1>6. CASE RootAnswer(v)
  <2> DEFINE asked == RevocationErrors(r, r.chain[1].jti, "ROOT")
             link == AttestationErrors(r.chain[2], r.chain[1].subject, r.start,
                                       "HANDLE_ATTESTATION")
             holder == SubjectErrors(r.token, r.chain[1])
             grant == GrantErrors(r.token, r.chain[1].grant, r.chain[1].exp)
  <2>1. asked \in Seq(Truthful(r))
    <3>1. RootSigned(r)
      BY <1>2, <1>6 DEF RootAnswer, StageInv
    <3>2. 1 \in DOMAIN r.chain
      BY <3>1, ChainLinks
    <3> QED BY <1>4, <1>5, <3>2, CheckerIsTruthful
  <2>2. link \in Seq(Others)
    BY <1>4, LinkOthers
  <2>3. holder \in Seq(Others) /\ grant \in Seq(Others)
    BY FormOthers, GrantOthers
  <2>4. CASE IsSubSession(r.token)
    <3>1. Decide(v, r, asked \o link, "handleAnswer")
      BY <1>2, <1>6, <2>4 DEF RootAnswer, AfterRoot
    <3> HIDE DEF asked, link
    <3>2. asked \o link \in Seq(Truthful(r))
      BY <2>1, <2>2, AnswerIsTruthful
    <3> QED BY <1>2, <1>3, <1>4, <3>1, <3>2
  <2>5. CASE ~IsSubSession(r.token)
    <3>1. Decide(v, r, asked \o holder \o grant, "sessionAnswer")
      BY <1>2, <1>6, <2>5 DEF RootAnswer, AfterRoot
    <3> HIDE DEF asked, holder, grant
    <3>2. asked \o holder \in Seq(Truthful(r))
      BY <2>1, <2>3, AnswerIsTruthful
    <3>3. asked \o holder \o grant \in Seq(Truthful(r))
      BY <2>3, <3>2, AnswerIsTruthful
    <3> QED BY <1>2, <1>3, <1>4, <3>1, <3>3
  <2> QED BY <2>4, <2>5
<1>7. CASE HandleAnswer(v)
  <2> DEFINE a == r.chain[1]
             b == r.chain[2]
             asked == RevocationErrors(r, b.jti, "HANDLE_ATTESTATION")
             nesting == NestingErrors(r.token, a, b)
             grant == GrantErrors(r.token, b.grant, Earliest(a, b))
  <2>1. asked \in Seq(Truthful(r))
    <3>1. RootSigned(r) /\ HandleSigned(r)
      BY <1>2, <1>7 DEF HandleAnswer, StageInv
    <3>2. 2 \in DOMAIN r.chain
      BY <3>1, ChainLinks DEF HandleSigned
    <3> QED BY <1>4, <1>5, <3>2, CheckerIsTruthful
  <2>2. nesting \in Seq(Others) /\ grant \in Seq(Others)
    BY NestingOthers, GrantOthers
  <2>3. Decide(v, r, asked \o nesting \o grant, "sessionAnswer")
    BY <1>2, <1>7 DEF HandleAnswer, AfterHandle
  <2> HIDE DEF asked, nesting, grant
  <2>4. asked \o nesting \in Seq(Truthful(r))
    BY <2>1, <2>2, AnswerIsTruthful
  <2>5. asked \o nesting \o grant \in Seq(Truthful(r))
    BY <2>2, <2>4, AnswerIsTruthful
  <2> QED BY <1>2, <1>3, <1>4, <2>3, <2>5
<1>8. CASE SessionAnswer(v)
  <2>1. Decide(v, r, RevocationErrors(r, r.token.jti, "SESSION"), "done")
    BY <1>2, <1>8 DEF SessionAnswer, AfterSession
  <2>2. RevocationErrors(r, r.token.jti, "SESSION") \in Seq(Truthful(r))
    BY <1>4, CheckerIsTruthful DEF Promise!Ids
  <2> QED BY <1>2, <1>3, <2>1, <2>2
<1>9. CASE CheckerFails(v)
  <2>1. PICK n : /\ n = [r EXCEPT !.stage = "done", !.verdict = CheckerFailed]
                 /\ ver' = [ver EXCEPT ![v] = n] /\ r.checker
    BY <1>2, <1>9 DEF CheckerFails
  <2>2. /\ n \in VerificationRecord /\ SameRequest(n, r)
        /\ n.stage = "done" /\ n.verdict = CheckerFailed
    BY <2>1 DEF Run, VerificationRecord, SameRequest, Verdict
  <2> QED BY <1>2, <2>1, <2>2 DEF Outcome
<1> QED BY <1>6, <1>7, <1>8, <1>9 DEF AnswerStep

(* A verification that begins waits, or is refused at once by one of the   *)
(* checks before the first answer.                                         *)
LEMMA BeginOutcome ==
  ASSUME IInv, NEW v \in Verifiers, VerifyAttested(v) \/ VerifyStateless(v)
  PROVE  /\ ver[v] = Idle
         /\ known' = [known EXCEPT ![v] = revoked] /\ revoked' = revoked
         /\ \E n \in VerificationRecord :
              /\ ver' = [ver EXCEPT ![v] = n]
              /\ \/ n.stage \in Answers
                 \/ n.stage = "done" /\ n.verdict \in Others
<1>1. PICK mode \in {"attested", "stateless"}, service \in Services,
           s \in SessionToken, chain \in Seq(Attestation), alive \in BOOLEAN :
        Begin(v, mode, service, s, chain, now, alive)
  <2>1. TypeOK /\ sess \subseteq SessionToken
    BY DEF IInv, TypeOK, IssuanceTypeOK
  <2>2. CASE VerifyAttested(v)
    <3>1. PICK service \in Services, p \in Presentations :
            Begin(v, "attested", service, p[1], p[2], now, TRUE)
      BY <2>2 DEF VerifyAttested
    <3>2. p[1] \in SessionToken /\ p[2] \in Seq(Attestation)
      BY <2>1, PresentationType
    <3> QED BY <3>1, <3>2
  <2>3. CASE VerifyStateless(v)
    <3>1. PICK service \in Services, s \in sess \cup {TamperedSession(t) : t \in sess} :
            Begin(v, "stateless", service, s, <<>>, now, service.root \in live)
      BY <2>3 DEF VerifyStateless
    <3>2. s \in SessionToken
      BY <2>1, TamperedType
    <3>3. <<>> \in Seq(Attestation)
      BY EmptySeq
    <3>4. (service.root \in live) \in BOOLEAN
      OBVIOUS
    <3> QED BY <3>1, <3>2, <3>3, <3>4
  <2> QED BY <2>2, <2>3
<1>2. PICK r : r = NewRun(mode, service, s, chain)
  OBVIOUS
<1>3. r \in Run /\ VerType
  BY <1>2, NewRunType DEF IInv, TypeOK, VerType
<1>4. ASSUME NEW errors \in Seq(Others), NEW next \in Answers, Decide(v, r, errors, next)
      PROVE  \E n \in VerificationRecord :
               /\ ver' = [ver EXCEPT ![v] = n]
               /\ \/ n.stage \in Answers
                  \/ n.stage = "done" /\ n.verdict \in Others
  <2>1. CASE errors = <<>>
    <3>1. PICK n : n = [r EXCEPT !.stage = next, !.verdict = Undecided]
      OBVIOUS
    <3>2. next # "done"
      BY DEF Answers
    <3>3. ver' = [ver EXCEPT ![v] = n]
      BY <1>4, <2>1, <3>1, <3>2 DEF Decide
    <3>4. n \in VerificationRecord /\ n.stage = next
      BY <1>3, <3>1 DEF Run, VerificationRecord, Verdict
    <3> QED BY <3>3, <3>4
  <2>2. CASE errors # <<>>
    <3>1. PICK e : e = Head(errors)
      OBVIOUS
    <3>2. e \in Others /\ e \in Verdict
      BY <2>2, <3>1, HeadTailProperties DEF Others, Verdict
    <3>3. PICK n : n = [r EXCEPT !.stage = "done", !.verdict = e]
      OBVIOUS
    <3>4. ver' = [ver EXCEPT ![v] = n]
      BY <1>4, <2>2, <3>1, <3>3 DEF Decide
    <3>5. n \in VerificationRecord /\ n.stage = "done" /\ n.verdict = e
      BY <1>3, <3>2, <3>3 DEF Run, VerificationRecord
    <3> QED BY <3>2, <3>4, <3>5
  <2> QED BY <2>1, <2>2
<1>5. "rootAnswer" \in Answers /\ "sessionAnswer" \in Answers /\ "ROOT" \in Levels
  BY DEF Answers, Levels
<1>6. CASE mode = "attested"
  <2> DEFINE session == SessionErrors(r.token, r.aud, r.start)
             shape == ChainErrors(r.token, r.chain)
             link == AttestationErrors(r.chain[1], r.root, r.start, "ROOT")
             rest == IF shape = <<>> THEN link ELSE <<>>
  <2>1. Decide(v, r, session \o shape \o rest, "rootAnswer")
    BY <1>1, <1>2, <1>6 DEF Begin, NewRun, BeginAttested
  <2>2. session \in Seq(Others) /\ shape \in Seq(Others) /\ link \in Seq(Others)
    BY <1>5, SessionOthers, FormOthers, LinkOthers
  <2> HIDE DEF session, shape, link
  <2>3. rest \in Seq(Others)
    BY <2>2, EmptySeq
  <2> HIDE DEF rest
  <2>4. session \o shape \o rest \in Seq(Others)
    BY <2>2, <2>3, ConcatProperties
  <2> QED BY <1>1, <1>4, <1>5, <2>1, <2>4 DEF Begin
<1>7. CASE mode = "stateless"
  <2> DEFINE session == SessionErrors(r.token, r.aud, r.start)
             disposed == Require(alive, "DISPOSED", "FORMAT")
             rebuilt == ReconstructionErrors(r.root, r.token)
  <2>1. Decide(v, r, session \o disposed \o rebuilt, "sessionAnswer")
    BY <1>1, <1>2, <1>7 DEF Begin, NewRun, BeginStateless
  <2>2. session \in Seq(Others) /\ disposed \in Seq(Others) /\ rebuilt \in Seq(Others)
    BY SessionOthers, FormOthers
  <2> HIDE DEF session, disposed, rebuilt
  <2>3. session \o disposed \o rebuilt \in Seq(Others)
    BY <2>2, ConcatProperties
  <2> QED BY <1>1, <1>4, <1>5, <2>1, <2>3 DEF Begin
<1> QED BY <1>6, <1>7

-----------------------------------------------------------------------------
(* The request of one verifier moves. *)
LEMMA RequestMoves ==
  ASSUME NEW v \in Verifiers, VerType, NEW n \in VerificationRecord,
         ver' = [ver EXCEPT ![v] = n],
         \A w \in Verifiers \ {v} : known'[w] = known[w]
  PROVE  /\ ver'[v] = n /\ Requests'[v] = Shown(n, known'[v])
         /\ Requests' = [Requests EXCEPT ![v] = Shown(n, known'[v])]
<1>1. /\ ver'[v] = n
      /\ \A w \in Verifiers \ {v} : ver'[w] = ver[w]
  BY DEF VerType
<1>2. n # Idle
  <2>1. n.stage # "idle"
    BY DEF VerificationRecord, Answers
  <2> QED BY <2>1 DEF Idle
<1>3. Request(v)' = Shown(n, known'[v])
  BY <1>1, <1>2 DEF Request, Shown, Decision
<1>4. ASSUME NEW w \in Verifiers \ {v} PROVE Request(w)' = Request(w)
  BY <1>1 DEF Request, Shown, Decision
<1> QED BY <1>1, <1>3, <1>4 DEF Requests

(* A truthful refusal is one that Authorization may make of the request. *)
LEMMA RefusalIsAllowed ==
  ASSUME HonestIsAccepted', UNCHANGED issuanceVars, NEW v \in Verifiers,
         NEW n, n = ver'[v], n.stage = "done", n.verdict \in Truthful(n),
         NEW q, SameRequest(q, n)
  PROVE  /\ Decision(n) \in Promise!Reasons
         /\ Promise!MayRefuse(q, Decision(n))
<1>1. n.verdict \in AttestationError
  BY DEF Truthful
<1>2. n.verdict # Accepted /\ n.verdict # CheckerFailed
  <2>1. n.verdict.code \in Codes
    BY <1>1 DEF AttestationError
  <2>2. Accepted.code = "ACCEPTED" /\ CheckerFailed.code = "CHECKER_FAILED"
    BY DEF Accepted, CheckerFailed
  <2>3. "ACCEPTED" \notin Codes /\ "CHECKER_FAILED" \notin Codes
    BY DEF Codes
  <2> QED BY <2>1, <2>2, <2>3
<1>3. /\ Decision(n) = "REVOKED" <=> n.verdict.code = "REVOKED"
      /\ n.verdict.code = "EXPIRED" => Decision(n) = "EXPIRED"
      /\ Decision(n) \in Promise!Reasons
  BY <1>2 DEF Decision, Promise!Reasons
<1>4. Promise!Ids(q) = Promise!Ids(n)
  BY DEF Promise!Ids, SameRequest
<1>5. Decision(n) = "REVOKED" => q.checker /\ revoked \cap Promise!Ids(q) # {}
  BY <1>3, <1>4 DEF Truthful, SameRequest
<1>6. ASSUME Promise!Honest(q)
      PROVE  \/ Decision(n) = "REVOKED"
             \/ Decision(n) = "EXPIRED" /\ q.start > q.token.exp
  <2>1. atts' = atts /\ sess' = sess /\ drift' = drift
    BY DEF issuanceVars
  <2>2. Promise!Honest(n)
    <3>1. PICK mode, root, token, chain, aud, start :
            /\ mode = n.mode /\ root = n.root /\ token = n.token
            /\ chain = n.chain /\ aud = n.aud /\ start = n.start
            /\ mode = q.mode /\ root = q.root /\ token = q.token
            /\ chain = q.chain /\ aud = q.aud /\ start = q.start
      BY DEF SameRequest
    <3>2. \A p : /\ p.mode = mode /\ p.root = root /\ p.token = token
                /\ p.chain = chain /\ p.aud = aud /\ p.start = start
                => (Promise!Honest(p) <=> Promise!Honest(n))
      BY <3>1 DEF Promise!Honest
    <3> QED BY <1>6, <3>1, <3>2
  <2>3. Promise!Honest(ver[v])'
    BY <2>1, <2>2 DEF Promise!Honest
  <2>4. \/ ver'[v].verdict \in {Accepted, CheckerFailed}
        \/ ver'[v].checker /\ ver'[v].verdict.code = "REVOKED"
        \/ ver'[v].verdict.code = "EXPIRED" /\ ver'[v].start > ver'[v].token.exp
    BY <2>3 DEF HonestIsAccepted
  <2> QED BY <1>2, <1>3, <2>4 DEF SameRequest
<1> QED BY <1>3, <1>5, <1>6 DEF Promise!MayRefuse

(* An answer is one of Authorization's, or only another stage. *)
LEMMA AnswerIs ==
  ASSUME IInv, AcceptedIsGranted', RevokedIsRefused', HonestIsAccepted',
         NEW v \in Verifiers, AnswerStep(v), UNCHANGED issuanceVars
  PROVE  \/ Requests' = Requests /\ revoked' = revoked
         \/ Promise!Accept(v) \/ Promise!Fail(v)
         \/ \E reason \in Promise!Reasons : Promise!Refuse(v, reason)
<1>1. ver[v].stage \in Answers /\ known' = known /\ revoked' = revoked
  BY DEF AnswerStep, RootAnswer, HandleAnswer, SessionAnswer, CheckerFails, Answers
<1>2. PICK r : r = ver[v] /\ r.stage \in Answers /\ r.stage # "done" /\ r # Idle
  <2>1. ver[v].stage # "idle" /\ ver[v].stage # "done"
    BY <1>1 DEF Answers
  <2> QED BY <1>1, <2>1 DEF Idle
<1>3. VerType
  BY DEF IInv, TypeOK, VerType
<1>4. PICK n \in VerificationRecord :
        ver' = [ver EXCEPT ![v] = n] /\ SameRequest(n, r) /\ Outcome(n, r)
  BY <1>2, AnswerOutcome
<1>5. PICK ids : ids = known[v]
  OBVIOUS
<1>6. /\ ver'[v] = n
      /\ Requests' = [Requests EXCEPT ![v] = Shown(n, ids)]
  BY <1>1, <1>3, <1>4, <1>5, RequestMoves
<1>7. PICK q : q = Shown(r, ids)
  OBVIOUS
<1>8. /\ Requests[v] = q
      /\ q.answer = "pending" /\ q.before = ids /\ SameRequest(q, n)
      /\ SameRequest(q, r)
  BY <1>2, <1>4, <1>5, <1>7 DEF Requests, Request, Shown, Decision, SameRequest
<1>9. Shown(n, ids) = [q EXCEPT !.answer = Decision(n)]
  <2>1. [Shown(r, ids) EXCEPT !.answer = Decision(n)]
        = [answer |-> Decision(n), before |-> ids, mode |-> r.mode,
           root |-> r.root, token |-> r.token, chain |-> r.chain,
           aud |-> r.aud, checker |-> r.checker, start |-> r.start]
    BY DEF Shown
  <2> QED BY <1>4, <1>7, <2>1 DEF Shown, SameRequest
<1>10. Promise!Answer(v, Decision(n))
  <2>1. UNCHANGED <<Promise!credentials, revoked>>
    BY <1>1 DEF Promise!credentials, issuanceVars
  <2> QED BY <1>6, <1>8, <1>9, <2>1 DEF Promise!Answer
<1>11. CASE n.stage \in Answers
  <2>1. Decision(n) = "pending"
    BY <1>11 DEF Decision, Answers
  <2>2. Decision(r) = "pending"
    BY <1>2 DEF Decision
  <2>3. Shown(n, ids) = q
    BY <1>4, <1>7, <2>1, <2>2 DEF Shown, SameRequest
  <2>4. Requests' = Requests
    BY <1>6, <1>8, <2>3 DEF Requests
  <2> QED BY <1>1, <2>4
<1>12. CASE n.stage = "done" /\ n.verdict = Accepted
  <2>1. Decision(n) = "accepted"
    BY <1>12 DEF Decision
  <2>2. IsAccepted(ver[v])'
    BY <1>6, <1>12 DEF IsAccepted
  <2>3. Promise!Granted(q)
    <3>1. Promise!Granted(ver[v])'
      BY <2>2 DEF AcceptedIsGranted
    <3>2. Promise!Granted(n)
      BY <1>6, <3>1 DEF Promise!Granted, Promise!GrantedBy, issuanceVars
    <3> QED BY <1>8, <3>2 DEF Promise!Granted, Promise!GrantedBy, SameRequest
  <2>4. q.checker => q.before \cap Promise!Ids(q) = {}
    <3>1. n.checker => ids \cap Promise!Ids(n) = {}
      BY <1>1, <1>5, <1>6, <2>2 DEF RevokedIsRefused, Promise!Ids
    <3> QED BY <1>8, <3>1 DEF Promise!Ids, SameRequest
  <2>5. Promise!MayAccept(Requests[v])
    BY <1>8, <2>3, <2>4 DEF Promise!MayAccept
  <2> QED BY <1>10, <2>1, <2>5 DEF Promise!Accept
<1>13. CASE n.stage = "done" /\ n.verdict = CheckerFailed /\ r.checker
  <2>1. Decision(n) = "failed"
    <3>1. CheckerFailed # Accepted
      BY DEF CheckerFailed, Accepted
    <3> QED BY <1>13, <3>1 DEF Decision
  <2> QED BY <1>8, <1>10, <1>13, <2>1 DEF Promise!Fail, SameRequest
<1>14. CASE n.stage = "done" /\ n.verdict \in Truthful(r)
  <2>1. Truthful(n) = Truthful(r)
    BY <1>4 DEF Truthful, Promise!Ids, SameRequest
  <2>2. /\ Decision(n) \in Promise!Reasons
        /\ Promise!MayRefuse(Requests[v], Decision(n))
    BY <1>6, <1>8, <1>14, <2>1, RefusalIsAllowed
  <2> QED BY <1>10, <2>2 DEF Promise!Refuse
<1> QED BY <1>4, <1>11, <1>12, <1>13, <1>14 DEF Outcome

(* Beginning a verification is asking. *)
LEMMA BeginIs ==
  ASSUME IInv, HonestIsAccepted', NEW v \in Verifiers,
         VerifyAttested(v) \/ VerifyStateless(v), UNCHANGED issuanceVars
  PROVE  Promise!Ask(v)
<1>1. /\ ver[v] = Idle
      /\ known' = [known EXCEPT ![v] = revoked] /\ revoked' = revoked
  BY BeginOutcome
<1>2. PICK n \in VerificationRecord :
        /\ ver' = [ver EXCEPT ![v] = n]
        /\ \/ n.stage \in Answers
           \/ n.stage = "done" /\ n.verdict \in Others
  BY BeginOutcome
<1>3. VerType
  BY DEF IInv, TypeOK, VerType
<1>4. known'[v] = revoked /\ \A w \in Verifiers \ {v} : known'[w] = known[w]
  BY <1>1 DEF IInv, TypeOK
<1>5. PICK q : q = Shown(n, revoked)
  OBVIOUS
<1>6. /\ ver'[v] = n
      /\ Requests'[v] = q
      /\ Requests' = [Requests EXCEPT ![v] = q]
  BY <1>2, <1>3, <1>4, <1>5, RequestMoves
<1>7. q.before = revoked /\ SameRequest(q, n) /\ q.answer = Decision(n)
  BY <1>5 DEF Shown, SameRequest
<1>8. \/ q.answer = "pending"
      \/ q.answer \in Promise!Reasons /\ Promise!MayRefuse(q, q.answer)
  <2>1. CASE n.stage \in Answers
    BY <1>7, <2>1 DEF Decision, Answers
  <2>2. CASE n.stage = "done" /\ n.verdict \in Others
    <3>1. n.verdict \in Truthful(n)
      BY <2>2 DEF Others, Truthful
    <3> QED BY <1>6, <1>7, <2>2, <3>1, RefusalIsAllowed
  <2> QED BY <1>2, <2>1, <2>2
<1>9. Requests[v] = Promise!New
  BY <1>1 DEF Requests, Request, Promise!New
<1>10. UNCHANGED <<Promise!credentials, revoked>>
  BY <1>1 DEF Promise!credentials, issuanceVars
<1> QED BY <1>6, <1>7, <1>8, <1>9, <1>10 DEF Promise!Ask

(* The abstract state does not depend on anything else. *)
LEMMA RequestsStay ==
  ASSUME ver' = ver, known' = known
  PROVE  Requests' = Requests
BY DEF Requests, Request, Shown, Decision

(* Every step is one of Authorization or leaves its state as it is. *)
LEMMA AuthorizationStep ==
  ASSUME CInv, AcceptedIsGranted', RevokedIsRefused', HonestIsAccepted', [Next]_vars
  PROVE  [Promise!Next]_<<Promise!credentials, revoked, Requests>>
<1>1. CASE IssuanceNext /\ UNCHANGED verificationVars
  <2>1. /\ atts \subseteq atts' /\ sess \subseteq sess' /\ drift' = drift
    BY <1>1, IssuanceStep, IssuingSignsInForm DEF CInv, IInv, TypeOK
  <2>2. Requests' = Requests /\ revoked' = revoked
    BY <1>1, RequestsStay DEF verificationVars
  <2> QED BY <2>1, <2>2 DEF Promise!Next, Promise!Sign
<1>2. CASE \E v \in Verifiers :
             (VerifyAttested(v) \/ VerifyStateless(v)) /\ UNCHANGED issuanceVars
  BY <1>2, BeginIs DEF Promise!Next, CInv
<1>3. CASE \E v \in Verifiers : AnswerStep(v) /\ UNCHANGED issuanceVars
  <2>1. PICK v \in Verifiers : AnswerStep(v) /\ UNCHANGED issuanceVars
    BY <1>3
  <2>2. CASE Requests' = Requests /\ revoked' = revoked
    BY <2>1, <2>2 DEF Promise!credentials, issuanceVars
  <2>3. CASE \/ Promise!Accept(v) \/ Promise!Fail(v)
             \/ \E reason \in Promise!Reasons : Promise!Refuse(v, reason)
    BY <2>3 DEF Promise!Next
  <2> QED BY <2>1, <2>2, <2>3, AnswerIs DEF CInv
<1>4. CASE \E jti \in Jtis : Revoke(jti) /\ UNCHANGED issuanceVars
  <2>1. revoked \subseteq revoked' /\ ver' = ver /\ known' = known
    BY <1>4 DEF Revoke
  <2>2. UNCHANGED Promise!credentials
    BY <1>4 DEF Promise!credentials, issuanceVars
  <2> QED BY <2>1, <2>2, RequestsStay DEF Promise!Next, Promise!Revoke
<1>5. CASE UNCHANGED vars
  BY <1>5, RequestsStay DEF vars, issuanceVars, verificationVars, Promise!credentials
<1> QED BY <1>1, <1>2, <1>3, <1>4, <1>5 DEF Next

(* verifyAttested and verifyStateless implement Authorization: for any     *)
(* number of verifications that overlap with each other, with issuers and  *)
(* with revocations, each request is decided as if in one step, on what is *)
(* signed and revoked in that step.                                        *)
THEOREM VerificationKeepsPromise == Spec => KeepsPromise
<1>1. Init => Promise!Init
  <2> SUFFICES ASSUME Init PROVE Promise!Init
    OBVIOUS
  <2>1. drift \in (-Skew)..Skew
    BY DriftsWithinSkew DEF Init, IssuanceInit
  <2>2. Requests = [v \in Verifiers |-> Promise!New]
    BY DEF Requests, Request, Promise!New, Init, VerificationInit
  <2> QED BY <2>1, <2>2 DEF Promise!Init, Init, IssuanceInit, VerificationInit
<1>2. CInv => IInv
  BY DEF CInv
<1>3. CInv /\ (AcceptedIsGranted /\ RevokedIsRefused /\ HonestIsAccepted)' /\ [Next]_vars
      => [Promise!Next]_<<Promise!credentials, revoked, Requests>>
  BY AuthorizationStep
<1> QED BY <1>1, <1>2, <1>3, CompleteInvariance, Soundness, Revocation, Completeness, PTL
        DEF Spec, KeepsPromise, Promise!Spec

-----------------------------------------------------------------------------
(* The answers a verification may still wait for. *)
Left(r) == CASE r.stage = "rootAnswer"    -> 3
             [] r.stage = "handleAnswer"  -> 2
             [] r.stage = "sessionAnswer" -> 1
             [] OTHER                     -> 0

Progress(v) == ver'[v] # ver[v] => ver[v] = Idle \/ Left(ver'[v]) < Left(ver[v])

AnswersAreProgress == [][\A v \in Verifiers : Progress(v)]_vars

(* A decision goes to the next stage or ends the verification. *)
LEMMA DecideStage ==
  ASSUME VerType, NEW v \in Verifiers, NEW r \in Run, NEW errors,
         NEW next \in Answers \cup {"done"}, Decide(v, r, errors, next)
  PROVE  ver'[v].stage \in {next, "done"}
<1>1. PICK n : ver' = [ver EXCEPT ![v] = n] /\
               \/ n = [r EXCEPT !.stage = next,
                    !.verdict = IF next = "done" THEN Accepted ELSE Undecided]
               \/ n = [r EXCEPT !.stage = "done", !.verdict = Head(errors)]
  BY DEF Decide
<1>2. ver'[v] = n
  BY <1>1 DEF VerType
<1>3. n.stage \in {next, "done"}
  BY <1>1 DEF Run
<1> QED BY <1>2, <1>3

(* Every answer brings its verification nearer to its end. *)
LEMMA AnswerIsProgress ==
  ASSUME IInv, NEW v \in Verifiers, AnswerStep(v)
  PROVE  \A w \in Verifiers : Progress(w)
<1>1. ver[v].stage \in Answers
  BY DEF AnswerStep, RootAnswer, HandleAnswer, SessionAnswer, CheckerFails, Answers
<1>2. PICK r \in Run : r = ver[v] /\ r.stage \in Answers /\ VerType
  BY <1>1, WaitingRun
<1>3. \A w \in Verifiers \ {v} : ver'[w] = ver[w]
  <2>1. \E n \in VerificationRecord : ver' = [ver EXCEPT ![v] = n]
    BY AnswerOutcome
  <2> QED BY <1>2, <2>1 DEF VerType
<1>4. "handleAnswer" \in Answers /\ "sessionAnswer" \in Answers
  BY DEF Answers
<1>5. CASE RootAnswer(v)
  <2>1. r.stage = "rootAnswer"
    BY <1>2, <1>5 DEF RootAnswer
  <2>2. \/ \E errors : Decide(v, r, errors, "handleAnswer")
        \/ \E errors : Decide(v, r, errors, "sessionAnswer")
    BY <1>2, <1>5 DEF RootAnswer, AfterRoot
  <2>3. ver'[v].stage \in {"handleAnswer", "sessionAnswer", "done"}
    BY <1>2, <1>4, <2>2, DecideStage
  <2> QED BY <1>2, <1>3, <2>1, <2>3 DEF Progress, Left
<1>6. CASE HandleAnswer(v)
  <2>1. r.stage = "handleAnswer"
    BY <1>2, <1>6 DEF HandleAnswer
  <2>2. \E errors : Decide(v, r, errors, "sessionAnswer")
    BY <1>2, <1>6 DEF HandleAnswer, AfterHandle
  <2>3. ver'[v].stage \in {"sessionAnswer", "done"}
    BY <1>2, <1>4, <2>2, DecideStage
  <2> QED BY <1>2, <1>3, <2>1, <2>3 DEF Progress, Left
<1>7. CASE SessionAnswer(v)
  <2>1. r.stage = "sessionAnswer"
    BY <1>2, <1>7 DEF SessionAnswer
  <2>2. \E errors : Decide(v, r, errors, "done")
    BY <1>2, <1>7 DEF SessionAnswer, AfterSession
  <2>3. ver'[v].stage = "done"
    BY <1>2, <2>2, DecideStage
  <2> QED BY <1>2, <1>3, <2>1, <2>3 DEF Progress, Left
<1>8. CASE CheckerFails(v)
  <2>1. PICK n : /\ n = [r EXCEPT !.stage = "done", !.verdict = CheckerFailed]
                 /\ ver' = [ver EXCEPT ![v] = n]
    BY <1>2, <1>8 DEF CheckerFails
  <2>2. ver'[v].stage = "done"
    BY <1>2, <2>1 DEF VerType, Run
  <2>3. Left(ver[v]) \in 1..3
    BY <1>1 DEF Left, Answers
  <2> QED BY <1>3, <2>2, <2>3 DEF Progress, Left
<1> QED BY <1>5, <1>6, <1>7, <1>8 DEF AnswerStep

(* The variant behind EveryVerificationIsDecided: a verification changes   *)
(* only when it begins and by answers, each answer leaves it fewer to wait *)
(* for, of three at most, and once decided it is never decided again.      *)
THEOREM DecisionIsFinal == Spec => AnswersAreProgress
<1>1. IInv /\ [Next]_vars => [\A v \in Verifiers : Progress(v)]_vars
  <2> SUFFICES ASSUME IInv, Next PROVE \A v \in Verifiers : Progress(v)
    OBVIOUS
  <2>1. CASE \E v \in Verifiers : VerifyAttested(v) \/ VerifyStateless(v)
    <3>1. PICK v \in Verifiers : VerifyAttested(v) \/ VerifyStateless(v)
      BY <2>1
    <3>2. ver[v] = Idle /\ \E n \in VerificationRecord : ver' = [ver EXCEPT ![v] = n]
      BY <3>1, BeginOutcome
    <3>3. \A w \in Verifiers \ {v} : ver'[w] = ver[w]
      BY <3>2 DEF IInv, TypeOK
    <3> QED BY <3>2, <3>3 DEF Progress
  <2>2. CASE \E v \in Verifiers : AnswerStep(v)
    BY <2>2, AnswerIsProgress
  <2>3. CASE ver' = ver
    BY <2>3 DEF Progress
  <2>4. (\E jti \in Jtis : Revoke(jti)) \/ UNCHANGED verificationVars => ver' = ver
    BY DEF Revoke, verificationVars
  <2> QED BY <2>1, <2>2, <2>3, <2>4 DEF Next
<1> QED BY <1>1, Invariance, PTL DEF Spec, AnswersAreProgress
=============================================================================
