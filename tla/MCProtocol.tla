----------------------------- MODULE MCProtocol -----------------------------
(* An instance of Protocol: the company's root with a handle, station, and *)
(* its sub-handle, meter; and the root of a rival.                         *)
EXTENDS Protocol

CONSTANTS company, rival, station, meter, read, write, shop, bank,
          a1, a2, b1, b2, s1, s2

Root == <<company>>
Station == <<company, station>>
Meter == <<company, station, meter>>

MCKeys == {Root, Station, Meter, <<rival>>}
MCNames == {company, rival, station, meter}

Wide == [scopes |-> Scopes, audiences |-> {shop}, maxTtl |-> 2,
         subNames |-> {meter}]
Narrow == [scopes |-> {read}, audiences |-> {shop, bank}, maxTtl |-> 1,
           subNames |-> {}]

MCDrifts == {1}

MCPolicy == [k \in MCKeys |->
  [audiences |-> Audiences, scopes |-> Scopes, maxTtl |-> 2, expiresAt |-> 2]]

Attest(signer, subject, name, grant, ttl, jti) ==
  [signer |-> signer, subject |-> subject, name |-> name, grant |-> grant,
   ahead |-> 0, ttl |-> ttl, jti |-> jti]

MCAttestCalls ==
  { Attest(Root, Station, station, Wide, 2, a1),
    Attest(Station, Meter, meter, Wide, 1, b1) }

MCIssueCalls ==
  { Attest(Root, Station, station, Narrow, 1, a2),
    [Attest(Root, Station, station, Wide, 2, a2) EXCEPT !.ahead = 2],
    Attest(Root, Station, station, Wide, 0, a1),
    Attest(Station, Meter, meter, Narrow, 2, b2),
    Attest(Station, Station, meter, Narrow, 2, b2) }

Create(key, aud, scp, ttl, jti) ==
  [key |-> key, aud |-> aud, scp |-> scp, ttl |-> ttl, jti |-> jti]

MCCreateCalls ==
  { Create(Station, shop, {read, write}, 2, s1),
    Create(Meter, shop, {read, write}, 1, s2),
    Create(Meter, bank, {read}, 1, s2) }

Trusts(root, aud, checker) ==
  [root |-> root, aud |-> aud, checker |-> checker]

MCServices == {Trusts(Root, shop, TRUE), Trusts(Root, bank, FALSE),
               Trusts(<<rival>>, shop, TRUE)}

MCBankOnly == {Trusts(Root, bank, FALSE)}

(***************************************************************************)
(* A verification reads what was signed before it began, the clock when it *)
(* begins and the revocation store; in stateless mode, whether its own     *)
(* identity is disposed.  So the instance lets issuers finish first, with  *)
(* a session signed, stops the clock when no verification is left to       *)
(* begin, and begins attested ones with nothing disposed, which leaves the *)
(* same credentials to present.  Only ids in circulation are revoked.      *)
(***************************************************************************)
Circulating == {c.jti : c \in atts \cup sess}

IssuersDone == /\ pending = {}
               /\ Cardinality(atts) = MaxAttestations
               /\ Cardinality(sess) = MaxSessions

AnyIdle == \E v \in Verifiers : ver[v] = Idle

AllDecided == \A v \in Verifiers : ver[v].stage = "done"

MCNext ==
  \/ IssuanceNext /\ ~IssuersDone /\ UNCHANGED verificationVars
  \/ Tick /\ AnyIdle /\ UNCHANGED verificationVars
  \/ /\ IssuersDone
     /\ \/ live = Keys /\ \E v \in Verifiers : VerifyAttested(v)
        \/ live \in {Keys, Keys \ {Root}} /\ \E v \in Verifiers : VerifyStateless(v)
        \/ \E v \in Verifiers : AnswerStep(v)
        \/ ~AllDecided /\ \E jti \in Circulating : Revoke(jti)
     /\ UNCHANGED issuanceVars

MCSpec == Init /\ [][MCNext]_vars /\ Fairness
=============================================================================
