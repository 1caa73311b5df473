------------------------------ MODULE Issuance ------------------------------
(***************************************************************************)
(* The issuing side of @me2em/core: Identity, Handle and SubHandle objects *)
(* hold key material until they are disposed, attest their children and    *)
(* create sessions.                                                        *)
(*                                                                         *)
(* Grain of atomicity: an async function runs without interruption up to   *)
(* its next await.  attestHandle and attestSubHandle await the child's     *)
(* derivation before they sign, so another task may dispose the signer in  *)
(* between; Attestation.issue and Session.create sign before they first    *)
(* yield and are single steps.                                             *)
(*                                                                         *)
(* Every key of Keys is held by one object, live from the start: deriving  *)
(* a child changes no state of its parent, and a child does not depend on  *)
(* its parent staying live.                                                *)
(***************************************************************************)
EXTENDS Credentials, FiniteSets

CONSTANTS
  Policy,          \* Policy[k]: SubHandleMetadata constraints of k
  AttestCalls,     \* requests made through attestHandle, attestSubHandle
  IssueCalls,      \* requests made to the public Attestation.issue
  CreateCalls,     \* requests made to Session.create
  Drifts,          \* how far the issuers' clock may be off
  MaxPending,      \* bound: attest* calls in flight
  MaxAttestations, \* bound: attestations signed
  MaxSessions,     \* bound: sessions signed
  MaxDisposed,     \* bound: objects disposed
  MaxNow           \* bound: seconds that pass

SessionPolicy == [audiences : SUBSET Audiences, scopes : SUBSET Scopes,
                  maxTtl : Nat, expiresAt : Nat]

(* What a caller asks for.  jti is opts.jti / sessionId, or the UUID that  *)
(* takes its place; ahead is how far opts.now lies ahead of the clock, 0   *)
(* without it; expiresAt is opts.now + ttl.                                *)
AttestationRequest == [signer : Keys, subject : Keys, name : Names,
                       grant : Grant, ahead : Int, ttl : Int, jti : Jtis]
SessionRequest == [key : Keys, aud : Audiences, scp : SUBSET Scopes,
                   ttl : Int, jti : Jtis]

ASSUME PolicyPerKey == Policy \in [Keys -> SessionPolicy]
ASSUME CallsAreRequests ==
  /\ AttestCalls \cup IssueCalls \subseteq AttestationRequest
  /\ CreateCalls \subseteq SessionRequest
ASSUME DriftsWithinSkew == Drifts \subseteq (-Skew)..Skew
ASSUME BoundsAreNat ==
  /\ MaxPending \in Nat /\ MaxAttestations \in Nat /\ MaxSessions \in Nat
  /\ MaxDisposed \in Nat /\ MaxNow \in Nat

VARIABLES
  now,       \* the verifiers' clock, in seconds
  drift,     \* what the issuers' clock shows beyond now
  live,      \* keys whose object is not disposed
  pending,   \* attest* calls past the await of the child's derivation
  atts,      \* attestations ever signed
  sess       \* sessions ever signed

issuanceVars == <<now, drift, live, pending, atts, sess>>

-----------------------------------------------------------------------------
IssuerNow == now + drift

IssuanceInit ==
  /\ now = 0
  /\ drift \in Drifts
  /\ live = Keys
  /\ pending = {}
  /\ atts = {}
  /\ sess = {}

(* Attestation.issue: iat is read, and the payload signed, in one step. *)
Issue(req) ==
  /\ Cardinality(atts) < MaxAttestations
  /\ atts' = atts \cup
       {[signer |-> req.signer, subject |-> req.subject, name |-> req.name,
         grant |-> req.grant, iat |-> IssuerNow + req.ahead,
         exp |-> IssuerNow + req.ahead + req.ttl, jti |-> req.jti]}

(* Identity.attestHandle and Handle.attestSubHandle up to the await: the   *)
(* signer derives the child of this name.  A SubHandle's attestSubHandle   *)
(* fails here, for it has no children.                                     *)
StartAttest(req) ==
  /\ req.signer \in live
  /\ Len(req.signer) < 3
  /\ req.subject = Append(req.signer, req.name)
  /\ Cardinality(pending) < MaxPending
  /\ pending' = pending \cup {req}
  /\ UNCHANGED <<now, drift, live, atts, sess>>

(* Mutant: the disposal check is only made when the call starts. *)
SignerReadyUnchecked(signer) == TRUE

(* The signer's sign() checks again that it is not disposed.               *)
SignerReady(signer) == signer \in live

FinishAttest(req) ==
  /\ req \in pending
  /\ SignerReady(req.signer)
  /\ Issue(req)
  /\ pending' = pending \ {req}
  /\ UNCHANGED <<now, drift, live, sess>>

(* DisposedError: the signer went away during the await. *)
AbortAttest(req) ==
  /\ req \in pending
  /\ ~SignerReady(req.signer)
  /\ pending' = pending \ {req}
  /\ UNCHANGED <<now, drift, live, atts, sess>>

(* The public Attestation.issue with a Signer of the caller's choice. *)
IssueDirect(req) ==
  /\ SignerReady(req.signer)
  /\ Issue(req)
  /\ UNCHANGED <<now, drift, live, pending, sess>>

-----------------------------------------------------------------------------
(* SubHandle.validateSessionOptions; a Handle has no constraints. *)
SessionAllowed(k, req) ==
  Len(k) = 3 =>
    /\ req.aud \in Policy[k].audiences
    /\ req.scp \subseteq Policy[k].scopes
    /\ req.ttl <= Policy[k].maxTtl
    /\ IssuerNow < Policy[k].expiresAt

(* Mutant: every session carries a path. *)
SessionPathAlways(k) == Tail(k)

SessionPath(k) == IF Len(k) = 3 THEN <<k[2], k[3]>> ELSE <<>>

(* Session.create, by a Handle or a SubHandle. *)
CreateSession(req) ==
  LET k == req.key IN
  /\ Len(k) > 1
  /\ req.ttl > 0
  /\ SessionAllowed(k, req)
  /\ SignerReady(k)
  /\ Cardinality(sess) < MaxSessions
  /\ sess' = sess \cup
       {[signer |-> k, hId |-> k, hNm |-> k[Len(k)],
         hPath |-> SessionPath(k),
         aud |-> req.aud, scp |-> req.scp,
         iat |-> IssuerNow, exp |-> IssuerNow + req.ttl, jti |-> req.jti]}
  /\ UNCHANGED <<now, drift, live, pending, atts>>

(* dispose() zeroizes the key; a second call does nothing. *)
Dispose(k) ==
  /\ k \in live
  /\ Cardinality(Keys \ live) < MaxDisposed
  /\ live' = live \ {k}
  /\ UNCHANGED <<now, drift, pending, atts, sess>>

Tick ==
  /\ now < MaxNow
  /\ now' = now + 1
  /\ UNCHANGED <<drift, live, pending, atts, sess>>

IssuanceNext ==
  \/ \E req \in AttestCalls : StartAttest(req)
  \/ \E req \in pending : FinishAttest(req) \/ AbortAttest(req)
  \/ \E req \in IssueCalls : IssueDirect(req)
  \/ \E req \in CreateCalls : CreateSession(req)
  \/ \E k \in Keys : Dispose(k)
  \/ Tick

IssuanceTypeOK ==
  /\ now \in Nat
  /\ drift \in Int
  /\ live \subseteq Keys
  /\ pending \subseteq AttestCalls
  /\ atts \subseteq Attestation
  /\ sess \subseteq SessionToken
=============================================================================
