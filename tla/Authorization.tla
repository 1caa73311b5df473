----------------------------- MODULE Authorization -----------------------------
(***************************************************************************)
(* What Session.verifyAttested and Session.verifyStateless promise those   *)
(* who rely on them: a request for access is decided once, in one step     *)
(* that reads the credentials signed and the revocation store as they are  *)
(* then.  The stages of a verification, the order of its checks and the    *)
(* rest of what runs while it waits are left to Protocol.                  *)
(***************************************************************************)
EXTENDS Integers, Sequences

CONSTANTS Verifiers, Skew

VARIABLES
  atts, sess, \* the attestations and sessions signed
  drift,      \* what the issuers' clock shows beyond the verifiers'
  revoked,    \* the ids in the revocation store
  request     \* request[v]: what v is asked, when, and what it answered

credentials == <<atts, sess, drift>>

New == [answer |-> "none"]

Reasons == {"REVOKED", "EXPIRED", "OTHER"}

Ids(q) == {q.token.jti} \cup {q.chain[i].jti : i \in DOMAIN q.chain}

(* The trusted root granted the session to its holder, directly or through *)
(* an attestation of the handle it attested, and the holder created it.    *)
GrantedBy(q, a) ==
  LET s == q.token
  IN  /\ a \in atts
      /\ a.signer = q.root
      /\ s.scp \subseteq a.grant.scopes
      /\ s.exp - s.iat <= a.grant.maxTtl
      /\ s.exp <= a.exp + Skew
      /\ \/ /\ s.hPath = <<>>
            /\ a.subject = s.hId
            /\ s.aud \in a.grant.audiences
         \/ \E b \in atts :
              /\ b.signer = a.subject
              /\ b.subject = s.hId
              /\ s.hPath = <<a.name, b.name>>
              /\ b.name \in a.grant.subNames
              /\ s.aud \in b.grant.audiences
              /\ s.exp <= b.exp + Skew

(* The session was created by the key it names.  In attested mode its      *)
(* scopes, lifetime and holder lie within a grant of the trusted root; in  *)
(* stateless mode its holder is derived from the verifier's identity.      *)
Granted(q) ==
  /\ q.token \in sess
  /\ q.token.signer = q.token.hId
  /\ IF q.mode = "attested" THEN \E a \in atts : GrantedBy(q, a)
                            ELSE q.token.hId[1] = q.root[1]

(* A session and its chain as the library's own calls produce them, within *)
(* the grants above it.                                                    *)
Honest(q) ==
  LET s == q.token
      key == s.signer
  IN  /\ q.mode = "attested"
      /\ s \in sess
      /\ q.aud = s.aud
      /\ q.root = <<key[1]>>
      /\ Len(q.chain) = Len(key) - 1
      /\ \A i \in DOMAIN q.chain : LET a == q.chain[i] IN
           /\ a \in atts
           /\ a.signer = SubSeq(key, 1, i)
           /\ a.subject = SubSeq(key, 1, i + 1)
           /\ a.name = key[i + 1]
           /\ a.iat < a.exp
           /\ a.iat <= q.start + drift
           /\ s.exp <= a.exp
           /\ s.scp \subseteq a.grant.scopes
           /\ s.aud \in a.grant.audiences
           /\ s.exp - s.iat <= a.grant.maxTtl
      /\ Len(q.chain) = 2 => LET a == q.chain[1]
                                 b == q.chain[2]
                             IN  /\ b.name \in a.grant.subNames
                                 /\ b.grant.scopes \subseteq a.grant.scopes
                                 /\ b.grant.maxTtl <= a.grant.maxTtl
-----------------------------------------------------------------------------
(* What was granted is accepted unless it was revoked before the request.  *)
MayAccept(q) ==
  /\ Granted(q)
  /\ q.checker => q.before \cap Ids(q) = {}

(* A revocation is only reported if there is one, and what is honest is    *)
(* only refused because it is revoked or has expired.                      *)
MayRefuse(q, reason) ==
  /\ reason = "REVOKED" => q.checker /\ revoked \cap Ids(q) # {}
  /\ Honest(q) => \/ reason = "REVOKED"
                  \/ reason = "EXPIRED" /\ q.start > q.token.exp

Init ==
  /\ atts = {} /\ sess = {} /\ revoked = {}
  /\ drift \in (-Skew)..Skew
  /\ request = [v \in Verifiers |-> New]

Sign ==
  /\ atts \subseteq atts' /\ sess \subseteq sess'
  /\ UNCHANGED <<drift, revoked, request>>

Revoke ==
  /\ revoked \subseteq revoked'
  /\ UNCHANGED <<credentials, request>>

(* A request arrives, and may be refused at once. *)
Ask(v) ==
  /\ request[v] = New
  /\ request' = [request EXCEPT ![v] = request'[v]]
  /\ request'[v].before = revoked
  /\ \/ request'[v].answer = "pending"
     \/ \E reason \in Reasons : /\ request'[v].answer = reason
                               /\ MayRefuse(request'[v], reason)
  /\ UNCHANGED <<credentials, revoked>>

Answer(v, answer) ==
  /\ request[v].answer = "pending"
  /\ request' = [request EXCEPT ![v].answer = answer]
  /\ UNCHANGED <<credentials, revoked>>

Accept(v) == Answer(v, "accepted") /\ MayAccept(request[v])

Refuse(v, reason) == Answer(v, reason) /\ MayRefuse(request[v], reason)

(* The request fails with the checker it depends on. *)
Fail(v) == Answer(v, "failed") /\ request[v].checker

Next ==
  \/ Sign \/ Revoke
  \/ \E v \in Verifiers : \/ Ask(v) \/ Accept(v) \/ Fail(v)
                          \/ \E reason \in Reasons : Refuse(v, reason)

Spec == Init /\ [][Next]_<<credentials, revoked, request>>
=============================================================================
