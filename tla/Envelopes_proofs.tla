--------------------------- MODULE Envelopes_proofs ---------------------------
(***************************************************************************)
(* The invariants of Envelopes, for any number of files, chunks, calls,    *)
(* pre-keys and failures.                                                  *)
(*                                                                         *)
(* A share is followed through its scope: as long as the scope was not     *)
(* thrown, what was read from the key buffer is the key, and once it       *)
(* returned nothing of it moves any more.  So what is unwrapped is the     *)
(* envelope as it was made; that it opens only as it was made is the       *)
(* injectivity of the key agreement in each of its four secrets, and that  *)
(* no two calls open it is the wiped pre-key, whose secret is no one's.    *)
(***************************************************************************)
EXTENDS Envelopes, TLAPS

Stages == Pending \cup Settled
Bytes(s) == {None, s, Zero}

ShareRecord(s) ==
  [by : Users, bundle : Answers(Recipient), context : Contexts, stage : Stages,
   plain : Bytes(s), chunks : [Indices[s] -> [stage : Stages, key : Bytes(s)]],
   scope : {"open", "returned", "thrown"}, wiped : BOOLEAN]

(* What was read from the key buffer of a scope that was not thrown. *)
ReadInTime(s, sh) ==
  sh.scope # "thrown" =>
    /\ sh.stage \in {"cipher", "done"} => sh.plain = s
    /\ \A i \in Indices[s] :
         sh.chunks[i].stage \in {"import", "cipher", "done"} => sh.chunks[i].key = s

(* The bundle was checked before anything was derived from it. *)
BundleChecked(sh) ==
  /\ VerifySignedPreKey(sh.bundle, IK(Recipient))
  /\ sh.stage # "failed" => MayInitiate(sh.bundle)

ShareInv(s, sh) ==
  /\ sh \in ShareRecord(s)
  /\ sh.wiped = (sh.scope # "open")
  /\ ReadInTime(s, sh)
  /\ sh.scope = "returned" => Parts(sh) = {"done"}
  /\ BundleChecked(sh)

(* The key of a call that agreed: of the pre-key, or of its wiped bytes.   *)
Agreed(uw) ==
  WrapKey(Completed(IK(Recipient), uw.given.spk,
                    IF uw.spent THEN Zero ELSE uw.given.envelope.otkId,
                    uw.given.envelope.initiator, uw.given.envelope.ephemeral),
          uw.given.context)

UnwrapRecord(given, key) ==
  [share : Shares, given : {given}, stage : Stages, key : {key},
   spent : BOOLEAN, rejected : BOOLEAN]

UnwrapInv(uw) ==
  LET e == uw.given.envelope IN
  /\ uw \in UnwrapRecord(uw.given, uw.key)
  /\ shares[uw.share] # Idle /\ shares[uw.share].scope = "returned"
  /\ uw.given \in Arrivals(uw.share)
  /\ uw.stage # "failed" =>
       e.v = 1 /\ e.otkId \in OtksOf(Recipient) /\ e.otkId \in wiped /\ uw.key = Agreed(uw)
  /\ uw.stage = "done" => Decrypts(uw.key, e.sealed)

(* Of the calls that use a one-time pre-key, all but the first find it     *)
(* wiped.                                                                  *)
FirstComesFirst ==
  \A u, w \in Unwraps :
    /\ Begun(u) /\ Begun(w) /\ u # w
    /\ unwraps[u].stage # "failed" /\ unwraps[w].stage # "failed"
    /\ unwraps[u].given.envelope.otkId = unwraps[w].given.envelope.otkId
    => unwraps[u].spent \/ unwraps[w].spent

SharesInv ==
  /\ DOMAIN shares = Shares
  /\ \A s \in Shares : shares[s] # Idle => ShareInv(s, shares[s])
  /\ failures \in 0..MaxFailures

UnwrapsInv ==
  /\ DOMAIN unwraps = Unwraps
  /\ \A u \in Unwraps : Begun(u) => UnwrapInv(unwraps[u])
  /\ wiped \subseteq OtksOf(Recipient)
  /\ FirstComesFirst
  /\ GenuineOpens

-----------------------------------------------------------------------------
(* An await is followed by one of these; only the cipher ends a call. *)
LEMMA ThenProperties ==
  ASSUME NEW stage \in Pending
  PROVE  /\ Then[stage] \in {"derive", "import", "cipher", "done"}
         /\ Then[stage] = "cipher" <=> stage = "import"
         /\ Then[stage] = "done" <=> stage = "cipher"
BY DEF Pending, Then

LEMMA StageNames ==
  /\ Pending \subseteq Stages /\ Settled \subseteq Stages
  /\ "idle" \notin Stages /\ "done" \notin Pending /\ "failed" \notin Pending
  /\ {"agree", "derive", "import", "cipher", "done", "failed", "nonce"} \subseteq Stages
BY DEF Stages, Pending, Settled

(* A record of a share is not idle. *)
LEMMA NotIdle ==
  ASSUME NEW s, NEW sh \in ShareRecord(s)
  PROVE  sh # Idle /\ DOMAIN sh.chunks = Indices[s]
<1>1. sh.stage \in Stages /\ DOMAIN sh.chunks = Indices[s]
  BY DEF ShareRecord
<1>2. Idle.stage = "idle"
  BY DEF Idle
<1> QED BY <1>1, <1>2, StageNames

(* The end of a scope keeps the invariant of its share. *)
LEMMA WipeKeeps ==
  ASSUME NEW s, NEW sh, ShareInv(s, sh)
  PROVE  /\ ShareInv(s, WithSecureWipe(sh))
         /\ WithSecureWipe(sh).stage = sh.stage
<1>1. sh \in ShareRecord(s)
  BY DEF ShareInv
<1> DEFINE w == WithSecureWipe(sh)
<1>2. \/ w = sh
      \/ /\ w = [sh EXCEPT !.scope = "thrown", !.wiped = TRUE]
         /\ sh.scope = "open"
      \/ /\ w = [sh EXCEPT !.scope = "returned", !.wiped = TRUE]
         /\ sh.scope = "open" /\ Parts(sh) = {"done"}
  BY Zenon DEF WithSecureWipe
<1>3. w \in ShareRecord(s)
  BY <1>1, <1>2 DEF ShareRecord
<1>4. /\ w.stage = sh.stage /\ w.plain = sh.plain /\ w.chunks = sh.chunks
      /\ w.bundle = sh.bundle
  BY <1>1, <1>2 DEF ShareRecord
<1>5. Parts(w) = Parts(sh)
  BY <1>4, Zenon DEF Parts
<1>6. /\ w.wiped = (w.scope # "open")
      /\ w.scope = "returned" => Parts(w) = {"done"}
      /\ w.scope # "thrown" => sh.scope # "thrown"
  BY <1>1, <1>2, <1>5 DEF ShareRecord, ShareInv
<1> HIDE DEF w
<1>7. ReadInTime(s, w)
  BY <1>4, <1>6 DEF ShareInv, ReadInTime
<1>8. BundleChecked(w)
  BY <1>4 DEF ShareInv, BundleChecked
<1>9. ShareInv(s, w)
  BY <1>3, <1>6, <1>7, <1>8 DEF ShareInv
<1> QED BY <1>4, <1>9 DEF w

(* A call that is pending belongs to a scope that has not returned. *)
LEMMA PendingIsOpen ==
  ASSUME NEW s, NEW sh, ShareInv(s, sh),
         sh.stage \in Pending \/ \E i \in Indices[s] : sh.chunks[i].stage \in Pending
  PROVE  sh.scope # "returned" /\ (sh.scope # "thrown" => ~sh.wiped)
<1>1. sh \in ShareRecord(s) /\ DOMAIN sh.chunks = Indices[s]
  BY NotIdle DEF ShareInv
<1>2. \E p \in Parts(sh) : p # "done"
  BY <1>1, StageNames DEF Parts
<1>3. sh.scope # "returned"
  BY <1>2 DEF ShareInv
<1> QED BY <1>1, <1>3 DEF ShareInv, ShareRecord

(* What replaces one share by a sound one keeps the shares sound, and does *)
(* not touch a share whose scope has returned.                             *)
LEMMA OneShare ==
  ASSUME SharesInv, NEW s \in Shares, NEW sh, ShareInv(s, sh),
         shares' = [shares EXCEPT ![s] = WithSecureWipe(sh)],
         failures' \in 0..MaxFailures
  PROVE  SharesInv' /\ shares'[s] # Idle /\ shares'[s].stage = sh.stage
         /\ \A t \in Shares \ {s} : shares'[t] = shares[t]
<1>1. ShareInv(s, WithSecureWipe(sh)) /\ WithSecureWipe(sh).stage = sh.stage
  BY WipeKeeps
<1>2. /\ DOMAIN shares' = Shares /\ shares'[s] = WithSecureWipe(sh)
      /\ \A t \in Shares \ {s} : shares'[t] = shares[t]
  BY DEF SharesInv
<1>3. shares'[s] # Idle
  BY <1>1, <1>2, NotIdle DEF ShareInv
<1>4. \A t \in Shares : shares'[t] # Idle => ShareInv(t, shares'[t])
  BY <1>1, <1>2 DEF SharesInv
<1> QED BY <1>1, <1>2, <1>3, <1>4 DEF SharesInv

LEMMA ShareKeeps ==
  ASSUME SharesInv, NEW s \in Shares, NEW by \in Users, NEW c \in Contexts,
         NEW b \in Answers(Recipient), Share(s, by, c, b)
  PROVE  /\ SharesInv' /\ shares'[s] # Idle
         /\ shares'[s].stage = IF MayInitiate(b) THEN "agree" ELSE "failed"
         /\ \A t \in Shares \ {s} : shares'[t] = shares[t]
<1> DEFINE sh == [by |-> by, bundle |-> b, context |-> c,
        stage |-> IF MayInitiate(b) THEN "agree" ELSE "failed",
        plain |-> None,
        chunks |-> [i \in Indices[s] |-> [stage |-> "nonce", key |-> None]],
        scope |-> "open", wiped |-> FALSE]
<1>1. /\ shares' = [shares EXCEPT ![s] = WithSecureWipe(sh)]
      /\ VerifySignedPreKey(b, IK(Recipient)) /\ failures' = failures
  BY DEF Share
<1>2. sh \in ShareRecord(s)
  BY StageNames DEF ShareRecord, Bytes
<1>3. /\ sh.stage \in {"agree", "failed"} /\ sh.scope = "open" /\ sh.wiped = FALSE /\ sh.bundle = b
      /\ sh.stage # "failed" => MayInitiate(b)
      /\ sh.stage = IF MayInitiate(b) THEN "agree" ELSE "failed"
      /\ \A i \in Indices[s] : sh.chunks[i].stage = "nonce"
  <2>1. /\ sh.scope = "open" /\ sh.bundle = b /\ sh.wiped = FALSE
        /\ \A i \in Indices[s] : sh.chunks[i].stage = "nonce"
    OBVIOUS
  <2>2. sh.stage = IF MayInitiate(b) THEN "agree" ELSE "failed"
    OBVIOUS
  <2> HIDE DEF sh
  <2>3. sh.stage \in {"agree", "failed"} /\ (sh.stage # "failed" => MayInitiate(b))
    BY <2>2
  <2> QED BY <2>1, <2>2, <2>3
<1> HIDE DEF sh
<1>4. ShareInv(s, sh)
  <2>1. ReadInTime(s, sh)
    BY <1>3 DEF ReadInTime
  <2>2. BundleChecked(sh)
    BY <1>1, <1>3 DEF BundleChecked
  <2>3. sh.wiped = (sh.scope # "open") /\ sh.scope # "returned"
    BY <1>3
  <2> QED BY <1>2, <2>1, <2>2, <2>3 DEF ShareInv
<1>5. failures' \in 0..MaxFailures
  BY <1>1 DEF SharesInv
<1>6. SharesInv' /\ shares'[s] # Idle /\ shares'[s].stage = sh.stage
         /\ \A t \in Shares \ {s} : shares'[t] = shares[t]
  BY <1>1, <1>4, <1>5, OneShare
<1> QED BY <1>3, <1>6

(* The bytes read while the scope is not thrown are those of the key. *)
LEMMA KeyBytesProperties ==
  ASSUME SharesInv, NEW s \in Shares, shares[s] # Idle,
         shares[s].stage \in Pending
           \/ \E i \in Indices[s] : shares[s].chunks[i].stage \in Pending
  PROVE  /\ KeyBytes(s) \in Bytes(s)
         /\ shares[s].scope # "returned"
         /\ shares[s].scope # "thrown" => KeyBytes(s) = s
<1>1. ShareInv(s, shares[s])
  BY DEF SharesInv
<1>2. shares[s].scope # "returned" /\ (shares[s].scope # "thrown" => ~shares[s].wiped)
  BY <1>1, PendingIsOpen
<1> QED BY <1>2 DEF KeyBytes, Bytes

LEMMA WrapStepKeeps ==
  ASSUME SharesInv, NEW s \in Shares, WrapStep(s)
  PROVE  /\ SharesInv' /\ shares[s].scope # "returned" /\ shares'[s] # Idle
         /\ shares'[s].stage = Then[shares[s].stage]
         /\ \A t \in Shares \ {s} : shares'[t] = shares[t]
<1> DEFINE old == shares[s]
           next == Then[old.stage]
           sh == [shares[s] EXCEPT !.stage = next,
                    !.plain = IF next = "cipher" THEN KeyBytes(s) ELSE @]
<1>1. /\ old # Idle /\ old.stage \in Pending /\ failures' = failures
      /\ shares' = [shares EXCEPT ![s] = WithSecureWipe(sh)]
  BY DEF WrapStep
<1>2. /\ KeyBytes(s) \in Bytes(s) /\ old.scope # "returned"
      /\ old.scope # "thrown" => KeyBytes(s) = s
  BY <1>1, KeyBytesProperties
<1>3. ShareInv(s, old) /\ old \in ShareRecord(s)
  BY <1>1 DEF SharesInv, ShareInv
<1>4. /\ next \in {"derive", "import", "cipher", "done"} /\ next \in Stages
      /\ next = "done" => old.stage = "cipher"
  BY <1>1, ThenProperties, StageNames
<1> HIDE DEF next
<1>5. /\ sh \in ShareRecord(s)
      /\ sh.stage = next /\ sh.plain = IF next = "cipher" THEN KeyBytes(s) ELSE old.plain
      /\ sh.chunks = old.chunks /\ sh.scope = old.scope /\ sh.wiped = old.wiped
      /\ sh.bundle = old.bundle
  BY <1>2, <1>3, <1>4 DEF ShareRecord
<1> HIDE DEF sh, old
<1>6. ReadInTime(s, sh)
  BY <1>2, <1>3, <1>4, <1>5 DEF ShareInv, ReadInTime
<1>7. BundleChecked(sh)
  BY <1>1, <1>3, <1>5, StageNames DEF ShareInv, BundleChecked
<1>8. ShareInv(s, sh)
  BY <1>2, <1>3, <1>5, <1>6, <1>7 DEF ShareInv
<1>9. failures' \in 0..MaxFailures
  BY <1>1 DEF SharesInv
<1>10. SharesInv' /\ shares'[s] # Idle /\ shares'[s].stage = sh.stage
         /\ \A t \in Shares \ {s} : shares'[t] = shares[t]
  BY <1>1, <1>8, <1>9, OneShare
<1> QED BY <1>2, <1>5, <1>10 DEF old, next

LEMMA ChunkStepKeeps ==
  ASSUME SharesInv, NEW s \in Shares, NEW i \in Indices[s], ChunkStep(s, i)
  PROVE  /\ SharesInv' /\ shares[s].scope # "returned" /\ shares'[s] # Idle
         /\ shares'[s].stage = shares[s].stage
         /\ \A t \in Shares \ {s} : shares'[t] = shares[t]
<1> DEFINE old == shares[s]
           next == Then[old.chunks[i].stage]
           chunk == [stage |-> next,
                     key |-> IF next = "import" THEN KeyBytes(s) ELSE old.chunks[i].key]
           sh == [shares[s] EXCEPT !.chunks[i] =
                    [stage |-> next, key |-> IF next = "import" THEN KeyBytes(s) ELSE @.key]]
<1>1. /\ old # Idle /\ old.chunks[i].stage \in Pending /\ failures' = failures
      /\ shares' = [shares EXCEPT ![s] = WithSecureWipe(sh)]
  BY DEF ChunkStep
<1>2. /\ KeyBytes(s) \in Bytes(s) /\ old.scope # "returned"
      /\ old.scope # "thrown" => KeyBytes(s) = s
  BY <1>1, KeyBytesProperties
<1>3. ShareInv(s, old) /\ old \in ShareRecord(s)
  BY <1>1 DEF SharesInv, ShareInv
<1>4. /\ next \in {"derive", "import", "cipher", "done"} /\ next \in Stages
      /\ next = "done" => old.chunks[i].stage = "cipher"
      /\ next = "cipher" => old.chunks[i].stage = "import"
  BY <1>1, ThenProperties, StageNames
<1> HIDE DEF next
<1>5. /\ old.chunks \in [Indices[s] -> [stage : Stages, key : Bytes(s)]]
      /\ chunk \in [stage : Stages, key : Bytes(s)]
  BY <1>2, <1>3, <1>4 DEF ShareRecord
<1>6. /\ sh \in ShareRecord(s) /\ sh.chunks = [old.chunks EXCEPT ![i] = chunk]
      /\ sh.stage = old.stage /\ sh.plain = old.plain
      /\ sh.scope = old.scope /\ sh.wiped = old.wiped /\ sh.bundle = old.bundle
  <2>1. sh = [old EXCEPT !.chunks = [@ EXCEPT ![i] = chunk]]
    OBVIOUS
  <2> HIDE DEF sh, old, chunk
  <2>2. [old.chunks EXCEPT ![i] = chunk] \in [Indices[s] -> [stage : Stages, key : Bytes(s)]]
    BY <1>5
  <2> QED BY <1>3, <2>1, <2>2 DEF ShareRecord
<1>7. /\ chunk.stage = next
      /\ chunk.key = IF next = "import" THEN KeyBytes(s) ELSE old.chunks[i].key
  OBVIOUS
<1> HIDE DEF sh, old, chunk
<1>8. ReadInTime(s, sh)
  BY <1>2, <1>3, <1>4, <1>5, <1>6, <1>7 DEF ShareInv, ReadInTime
<1>9. BundleChecked(sh)
  BY <1>3, <1>6 DEF ShareInv, BundleChecked
<1>10. ShareInv(s, sh)
  BY <1>2, <1>3, <1>6, <1>8, <1>9 DEF ShareInv
<1>11. failures' \in 0..MaxFailures
  BY <1>1 DEF SharesInv
<1>12. SharesInv' /\ shares'[s] # Idle /\ shares'[s].stage = sh.stage
         /\ \A t \in Shares \ {s} : shares'[t] = shares[t]
  BY <1>1, <1>10, <1>11, OneShare
<1> QED BY <1>2, <1>6, <1>12 DEF old

LEMMA WrapFailsKeeps ==
  ASSUME SharesInv, NEW s \in Shares, WrapFails(s), MaxFailures \in Nat
  PROVE  /\ SharesInv' /\ shares[s].scope # "returned" /\ shares'[s] # Idle
         /\ shares'[s].stage = "failed"
         /\ \A t \in Shares \ {s} : shares'[t] = shares[t]
<1> DEFINE old == shares[s]
           sh == [shares[s] EXCEPT !.stage = "failed"]
<1>1. /\ old # Idle /\ old.stage \in Pending
      /\ failures < MaxFailures /\ failures' = failures + 1
      /\ shares' = [shares EXCEPT ![s] = WithSecureWipe(sh)]
  BY DEF WrapFails
<1>2. ShareInv(s, old) /\ old \in ShareRecord(s)
  BY <1>1 DEF SharesInv, ShareInv
<1>3. old.scope # "returned"
  BY <1>1, <1>2, PendingIsOpen
<1>4. /\ sh \in ShareRecord(s) /\ sh.stage = "failed" /\ sh.plain = old.plain
      /\ sh.chunks = old.chunks /\ sh.scope = old.scope /\ sh.wiped = old.wiped
      /\ sh.bundle = old.bundle
  BY <1>2, StageNames DEF ShareRecord
<1> HIDE DEF sh, old
<1>5. ReadInTime(s, sh) /\ BundleChecked(sh)
  BY <1>2, <1>4 DEF ShareInv, ReadInTime, BundleChecked
<1>6. ShareInv(s, sh)
  BY <1>2, <1>3, <1>4, <1>5 DEF ShareInv
<1>7. failures' \in 0..MaxFailures
  BY <1>1 DEF SharesInv
<1>8. SharesInv' /\ shares'[s] # Idle /\ shares'[s].stage = sh.stage
         /\ \A t \in Shares \ {s} : shares'[t] = shares[t]
  BY <1>1, <1>6, <1>7, OneShare
<1> QED BY <1>3, <1>4, <1>8 DEF old

LEMMA ChunkFailsKeeps ==
  ASSUME SharesInv, NEW s \in Shares, NEW i \in Indices[s], ChunkFails(s, i),
         MaxFailures \in Nat
  PROVE  /\ SharesInv' /\ shares[s].scope # "returned" /\ shares'[s] # Idle
         /\ shares'[s].stage = shares[s].stage
         /\ \A t \in Shares \ {s} : shares'[t] = shares[t]
<1> DEFINE old == shares[s]
           chunk == [stage |-> "failed", key |-> old.chunks[i].key]
           sh == [shares[s] EXCEPT !.chunks[i] = [stage |-> "failed", key |-> @.key]]
<1>1. /\ old # Idle /\ old.chunks[i].stage \in Pending
      /\ failures < MaxFailures /\ failures' = failures + 1
      /\ shares' = [shares EXCEPT ![s] = WithSecureWipe(sh)]
  BY DEF ChunkFails
<1>2. ShareInv(s, old) /\ old \in ShareRecord(s)
  BY <1>1 DEF SharesInv, ShareInv
<1>3. old.scope # "returned"
  BY <1>1, <1>2, PendingIsOpen
<1>4. /\ old.chunks \in [Indices[s] -> [stage : Stages, key : Bytes(s)]]
      /\ chunk \in [stage : Stages, key : Bytes(s)] /\ chunk.stage = "failed"
  BY <1>2, StageNames DEF ShareRecord
<1>5. /\ sh \in ShareRecord(s) /\ sh.chunks = [old.chunks EXCEPT ![i] = chunk]
      /\ sh.stage = old.stage /\ sh.plain = old.plain
      /\ sh.scope = old.scope /\ sh.wiped = old.wiped /\ sh.bundle = old.bundle
  <2>1. sh = [old EXCEPT !.chunks = [@ EXCEPT ![i] = chunk]]
    OBVIOUS
  <2> HIDE DEF sh, old, chunk
  <2>2. [old.chunks EXCEPT ![i] = chunk] \in [Indices[s] -> [stage : Stages, key : Bytes(s)]]
    BY <1>4
  <2> QED BY <1>2, <2>1, <2>2 DEF ShareRecord
<1> HIDE DEF sh, old, chunk
<1>6. ReadInTime(s, sh)
  <2>1. /\ sh.chunks[i].stage = "failed"
        /\ \A k \in Indices[s] \ {i} : sh.chunks[k] = old.chunks[k]
    BY <1>4, <1>5
  <2>2. ReadInTime(s, old)
    BY <1>2 DEF ShareInv
  <2> QED BY <1>5, <2>1, <2>2 DEF ReadInTime
<1>7. BundleChecked(sh)
  BY <1>2, <1>5 DEF ShareInv, BundleChecked
<1>8. ShareInv(s, sh)
  BY <1>2, <1>3, <1>5, <1>6, <1>7 DEF ShareInv
<1>9. failures' \in 0..MaxFailures
  BY <1>1 DEF SharesInv
<1>10. SharesInv' /\ shares'[s] # Idle /\ shares'[s].stage = sh.stage
         /\ \A t \in Shares \ {s} : shares'[t] = shares[t]
  BY <1>1, <1>8, <1>9, OneShare
<1> QED BY <1>3, <1>5, <1>10 DEF old

-----------------------------------------------------------------------------
(***************************************************************************)
(* The key agreement.                                                      *)
(***************************************************************************)
LEMMA Pairs ==
  ASSUME NEW a, NEW b, NEW c
  PROVE  DH(a, b) = DH(b, a) /\ (DH(a, b) = DH(a, c) => b = c)
BY DEF DH

(* Names of different kinds, or of different keys, differ. *)
LEMMA KeyNames ==
  ASSUME NEW user, NEW n, NEW i, NEW call
  PROVE  /\ Zero # OTK(user, n, i) /\ Zero # EK(call) /\ EK(call) # OTK(user, n, i)
         /\ IK(user) # EK(call) /\ IK(user) # BadPoint /\ EK(call) # BadPoint
BY DEF Zero, OTK, EK, IK, BadPoint

(* A bundle that an initiator uses carries the recipient's identity and a  *)
(* one-time pre-key.                                                       *)
LEMMA UsedBundle ==
  ASSUME NEW b \in Answers(Recipient), MayInitiate(b),
         VerifySignedPreKey(b, IK(Recipient))
  PROVE  b.identity = IK(Recipient) /\ b.otk # Zero
<1>1. b.signature = [by |-> b.identity, over |-> b.spk]
      /\ b.signature = [by |-> IK(Recipient), over |-> b.spk] /\ b.otk # None
  BY DEF MayInitiate, VerifySignedPreKey
<1>2. b.identity = IK(Recipient)
  BY <1>1
<1>3. \A u, n, i : LET o == PublishableBundle(u, n, i).otk IN o = None \/ o # Zero
  BY KeyNames DEF PublishableBundle
<1>4. \E u, n, i : b.otk = PublishableBundle(u, n, i).otk
  <2>1. CASE b \in Published(Recipient)
    BY <2>1 DEF Published
  <2>2. CASE b \notin Published(Recipient)
    <3>1. PICK n \in Batches, other \in Users \ {Recipient} :
            LET q == PublishableBundle(Recipient, n, 0)
                o == PublishableBundle(other, n, 0)
            IN b \in {[q EXCEPT !.identity = o.identity], [q EXCEPT !.spk = o.spk],
                      [q EXCEPT !.signature = o.signature], [q EXCEPT !.otk = o.otk]}
      BY <2>2 DEF Answers
    <3> DEFINE q == PublishableBundle(Recipient, n, 0)
               o == PublishableBundle(other, n, 0)
    <3>2. b.otk = q.otk \/ b.otk = o.otk
      BY <3>1 DEF PublishableBundle
    <3> QED BY <3>2
  <2> QED BY <2>1, <2>2
<1>5. b.otk # Zero
  BY <1>1, <1>3, <1>4
<1> QED BY <1>2, <1>5

(***************************************************************************)
(* The recipient.                                                          *)
(***************************************************************************)
(* A share that stays as it is arrives as it did. *)
LEMMA SameShare ==
  ASSUME NEW s, shares'[s] = shares[s]
  PROVE  /\ Envelope(s)' = Envelope(s) /\ AsSent(s)' = AsSent(s)
         /\ Arrivals(s)' = Arrivals(s)
<1>1. Envelope(s)' = Envelope(s)
  BY DEF Envelope
<1>2. AsSent(s)' = AsSent(s)
  BY <1>1 DEF AsSent
<1>3. Arrivals(s)' = Arrivals(s)
  BY <1>1, <1>2 DEF Arrivals
<1> QED BY <1>1, <1>2, <1>3

(* A share whose scope has returned is complete. *)
LEMMA Returned ==
  ASSUME SharesInv, NEW s \in Shares, shares[s] # Idle, shares[s].scope = "returned"
  PROVE  /\ shares[s].plain = s /\ shares[s].by \in Users
         /\ \A i \in Indices[s] : shares[s].chunks[i].key = s
         /\ shares[s].bundle \in Answers(Recipient) /\ MayInitiate(shares[s].bundle)
         /\ VerifySignedPreKey(shares[s].bundle, IK(Recipient))
<1> DEFINE sh == shares[s]
<1>1. ShareInv(s, sh)
  BY DEF SharesInv
<1> HIDE DEF sh
<1>2. sh \in ShareRecord(s) /\ DOMAIN sh.chunks = Indices[s] /\ Parts(sh) = {"done"}
  BY <1>1, NotIdle DEF ShareInv, sh
<1>3. sh.stage = "done" /\ \A i \in Indices[s] : sh.chunks[i].stage = "done"
  BY <1>2 DEF Parts
<1>4. sh.plain = s /\ \A i \in Indices[s] : sh.chunks[i].key = s
  BY <1>1, <1>3 DEF ShareInv, ReadInTime, sh
<1>5. MayInitiate(sh.bundle) /\ VerifySignedPreKey(sh.bundle, IK(Recipient))
  BY <1>1, <1>3 DEF ShareInv, BundleChecked
<1>6. sh.bundle \in Answers(Recipient) /\ sh.by \in Users
  BY <1>2 DEF ShareRecord
<1> QED BY <1>4, <1>5, <1>6 DEF sh

(* What arrives keeps the sealed key it was sent with; intact, it is what  *)
(* was sent or differs in one other thing.                                 *)
LEMMA ArrivalsProperties ==
  ASSUME NEW s, NEW given \in Arrivals(s), given.envelope.sealed.intact, given.envelope.v = 1
  PROVE  LET e == Envelope(s)
             sent == AsSent(s)
         IN /\ given.envelope.sealed.key = e.sealed.key
            /\ \/ given = sent
               \/ \E k : given = [sent EXCEPT !.envelope = [e EXCEPT !.initiator = k]]
               \/ \E k : given = [sent EXCEPT !.envelope = [e EXCEPT !.ephemeral = k]]
               \/ \E k : given = [sent EXCEPT !.envelope = [e EXCEPT !.otkId = k]]
               \/ \E k : given = [sent EXCEPT !.context = k]
               \/ \E k : given = [sent EXCEPT !.spk = k]
<1> DEFINE e == Envelope(s)
           sent == AsSent(s)
           Field(x) == [sent EXCEPT !.envelope = x]
<1>1. \/ given = sent
      \/ given = Field([e EXCEPT !.v = 2])
      \/ given = Field([e EXCEPT !.sealed.intact = FALSE])
      \/ \E k : given = Field([e EXCEPT !.initiator = k])
      \/ \E k : given = Field([e EXCEPT !.ephemeral = k])
      \/ \E k : given = Field([e EXCEPT !.otkId = k])
      \/ \E k : given = [sent EXCEPT !.context = k]
      \/ \E k : given = [sent EXCEPT !.spk = k]
  BY DEF Arrivals
<1>2. given # Field([e EXCEPT !.v = 2])
  BY DEF AsSent, Envelope
<1>3. given # Field([e EXCEPT !.sealed.intact = FALSE])
  BY DEF AsSent, Envelope
<1>4. given.envelope.sealed.key = e.sealed.key
  <2>1. /\ sent.envelope = e /\ sent = [envelope |-> e, context |-> sent.context, spk |-> sent.spk]
    BY DEF AsSent
  <2>2. \A k : [e EXCEPT !.initiator = k].sealed = e.sealed
    BY DEF Envelope
  <2>3. \A k : [e EXCEPT !.ephemeral = k].sealed = e.sealed
    BY DEF Envelope
  <2>4. \A k : [e EXCEPT !.otkId = k].sealed = e.sealed
    BY DEF Envelope
  <2>5. [e EXCEPT !.v = 2].sealed = e.sealed
    BY DEF Envelope
  <2> HIDE DEF e, sent
  <2>6. \A x : Field(x).envelope = x
    BY <2>1
  <2>7. \A k : /\ [sent EXCEPT !.context = k].envelope = e
               /\ [sent EXCEPT !.spk = k].envelope = e
    BY <2>1
  <2> HIDE DEF Field
  <2>8. ASSUME given = Field([e EXCEPT !.v = 2])
        PROVE  given.envelope.sealed = e.sealed
    <3>1. given.envelope = [e EXCEPT !.v = 2]
      BY <2>6, <2>8, Zenon
    <3> QED BY <2>5, <3>1, Zenon
  <2>9. ASSUME NEW k, given = Field([e EXCEPT !.initiator = k])
        PROVE  given.envelope.sealed = e.sealed
    <3>1. given.envelope = [e EXCEPT !.initiator = k]
      BY <2>6, <2>9, Zenon
    <3> QED BY <2>2, <3>1, Zenon
  <2>10. ASSUME NEW k, given = Field([e EXCEPT !.ephemeral = k])
        PROVE  given.envelope.sealed = e.sealed
    <3>1. given.envelope = [e EXCEPT !.ephemeral = k]
      BY <2>6, <2>10, Zenon
    <3> QED BY <2>3, <3>1, Zenon
  <2>11. ASSUME NEW k, given = Field([e EXCEPT !.otkId = k])
        PROVE  given.envelope.sealed = e.sealed
    <3>1. given.envelope = [e EXCEPT !.otkId = k]
      BY <2>6, <2>11, Zenon
    <3> QED BY <2>4, <3>1, Zenon
  <2>12. given.envelope.sealed = e.sealed
    BY <1>1, <1>3, <2>1, <2>7, <2>8, <2>9, <2>10, <2>11, Zenon
  <2> QED BY <2>12
<1> QED BY <1>1, <1>2, <1>3, <1>4

(* The secrets of both sides, one by one. *)
LEMMA Agreement ==
  ASSUME SharesInv, NEW uw, UnwrapInv(uw), uw.stage # "failed"
  PROVE  LET s == uw.share
             e == uw.given.envelope
             b == shares[s].bundle
             otk == IF uw.spent THEN Zero ELSE e.otkId
         IN /\ uw.key = WrapKey(Ikm(DH(uw.given.spk, e.initiator),
                                    DH(IK(Recipient), e.ephemeral),
                                    DH(uw.given.spk, e.ephemeral),
                                    DH(otk, e.ephemeral)), uw.given.context)
            /\ Envelope(s).sealed.key =
                 WrapKey(Ikm(DH(IK(shares[s].by), b.spk), DH(EK(s), IK(Recipient)),
                             DH(EK(s), b.spk), DH(EK(s), b.otk)), shares[s].context)
            /\ b.otk # Zero /\ s \in Shares
<1> DEFINE s == uw.share
           b == shares[s].bundle
<1>1. /\ s \in Shares /\ shares[s] # Idle /\ shares[s].scope = "returned"
      /\ uw.key = Agreed(uw)
  BY DEF UnwrapInv, UnwrapRecord
<1>2. b.identity = IK(Recipient) /\ b.otk # Zero
  BY <1>1, Returned, UsedBundle
<1>3. Envelope(s).sealed.key = WrapKey(Initiated(IK(shares[s].by), EK(s), b), shares[s].context)
  BY DEF Envelope
<1> QED BY <1>1, <1>2, <1>3 DEF Agreed, Completed, Initiated

(* What decrypts was made for the call that opens it, as it was sent. *)
LEMMA OpensAsSent ==
  ASSUME SharesInv, NEW uw, UnwrapInv(uw), uw.stage = "done"
  PROVE  uw.given = AsSent(uw.share) /\ ~uw.spent
<1> DEFINE s == uw.share
           given == uw.given
           e == given.envelope
           b == shares[s].bundle
           otk == IF uw.spent THEN Zero ELSE e.otkId
           sent == AsSent(s)
<1>1. /\ given \in Arrivals(s) /\ e.v = 1 /\ uw.spent \in BOOLEAN
      /\ e.sealed.intact /\ e.sealed.key = uw.key
  BY DEF UnwrapInv, UnwrapRecord, Decrypts
<1>2. uw.key = Envelope(s).sealed.key
  BY <1>1, ArrivalsProperties
<1>3. /\ DH(given.spk, e.initiator) = DH(IK(shares[s].by), b.spk)
      /\ DH(IK(Recipient), e.ephemeral) = DH(EK(s), IK(Recipient))
      /\ DH(given.spk, e.ephemeral) = DH(EK(s), b.spk)
      /\ DH(otk, e.ephemeral) = DH(EK(s), b.otk)
      /\ given.context = shares[s].context /\ b.otk # Zero
  <2>1. uw.stage # "failed"
    OBVIOUS
  <2>2. /\ uw.key = WrapKey(Ikm(DH(given.spk, e.initiator), DH(IK(Recipient), e.ephemeral),
                                DH(given.spk, e.ephemeral), DH(otk, e.ephemeral)), given.context)
        /\ Envelope(s).sealed.key =
             WrapKey(Ikm(DH(IK(shares[s].by), b.spk), DH(EK(s), IK(Recipient)),
                         DH(EK(s), b.spk), DH(EK(s), b.otk)), shares[s].context)
        /\ b.otk # Zero
    BY <2>1, Agreement
  <2>3. WrapKey(Ikm(DH(given.spk, e.initiator), DH(IK(Recipient), e.ephemeral),
                    DH(given.spk, e.ephemeral), DH(otk, e.ephemeral)), given.context)
          = WrapKey(Ikm(DH(IK(shares[s].by), b.spk), DH(EK(s), IK(Recipient)),
                        DH(EK(s), b.spk), DH(EK(s), b.otk)), shares[s].context)
    BY <1>2, <2>2, Zenon
  <2> HIDE DEF s, given, e, b, otk
  <2> QED BY <2>2, <2>3 DEF WrapKey, Ikm
<1> HIDE DEF s, given, e, b, otk
<1>4. e.ephemeral = EK(s)
  BY <1>3, Pairs
<1>5. given.spk = b.spk /\ otk = b.otk
  BY <1>3, <1>4, Pairs
<1>6. e.initiator = IK(shares[s].by)
  BY <1>3, <1>5, Pairs
<1>7. ~uw.spent /\ e.otkId = b.otk
  BY <1>1, <1>3, <1>5 DEF otk
<1>8. /\ sent.envelope.ephemeral = EK(s) /\ sent.envelope.initiator = IK(shares[s].by)
      /\ sent.envelope.otkId = b.otk /\ sent.context = shares[s].context /\ sent.spk = b.spk
      /\ sent.envelope = Envelope(s)
  BY DEF AsSent, Envelope, b
<1>9. /\ [sent EXCEPT !.envelope = Envelope(s)] = sent
      /\ [sent EXCEPT !.context = sent.context] = sent
      /\ [sent EXCEPT !.spk = sent.spk] = sent
      /\ [Envelope(s) EXCEPT !.initiator = sent.envelope.initiator] = Envelope(s)
      /\ [Envelope(s) EXCEPT !.ephemeral = sent.envelope.ephemeral] = Envelope(s)
      /\ [Envelope(s) EXCEPT !.otkId = sent.envelope.otkId] = Envelope(s)
  <2>1. [sent EXCEPT !.envelope = Envelope(s)] = sent
    BY DEF AsSent
  <2>2. [sent EXCEPT !.context = sent.context] = sent
    BY DEF AsSent
  <2>3. [sent EXCEPT !.spk = sent.spk] = sent
    BY DEF AsSent
  <2>4. sent.envelope = Envelope(s)
    BY DEF AsSent
  <2>5. /\ [Envelope(s) EXCEPT !.initiator = Envelope(s).initiator] = Envelope(s)
        /\ [Envelope(s) EXCEPT !.ephemeral = Envelope(s).ephemeral] = Envelope(s)
        /\ [Envelope(s) EXCEPT !.otkId = Envelope(s).otkId] = Envelope(s)
    BY DEF Envelope
  <2> HIDE DEF sent
  <2> QED BY <2>1, <2>2, <2>3, <2>4, <2>5
<1>10. given = sent
  <2>1. \/ given = sent
        \/ \E k : given = [sent EXCEPT !.envelope = [Envelope(s) EXCEPT !.initiator = k]]
        \/ \E k : given = [sent EXCEPT !.envelope = [Envelope(s) EXCEPT !.ephemeral = k]]
        \/ \E k : given = [sent EXCEPT !.envelope = [Envelope(s) EXCEPT !.otkId = k]]
        \/ \E k : given = [sent EXCEPT !.context = k]
        \/ \E k : given = [sent EXCEPT !.spk = k]
    BY <1>1, ArrivalsProperties DEF e
  <2>2. ASSUME NEW k, given = [sent EXCEPT !.envelope = [Envelope(s) EXCEPT !.initiator = k]]
        PROVE  given = sent
    <3>1. e.initiator = k
      BY <2>2 DEF AsSent, Envelope, e
    <3> QED BY <1>6, <1>8, <1>9, <2>2, <3>1
  <2>3. ASSUME NEW k, given = [sent EXCEPT !.envelope = [Envelope(s) EXCEPT !.ephemeral = k]]
        PROVE  given = sent
    <3>1. e.ephemeral = k
      BY <2>3 DEF AsSent, Envelope, e
    <3> QED BY <1>4, <1>8, <1>9, <2>3, <3>1
  <2>4. ASSUME NEW k, given = [sent EXCEPT !.envelope = [Envelope(s) EXCEPT !.otkId = k]]
        PROVE  given = sent
    <3>1. e.otkId = k
      BY <2>4 DEF AsSent, Envelope, e
    <3> QED BY <1>7, <1>8, <1>9, <2>4, <3>1
  <2>5. ASSUME NEW k, given = [sent EXCEPT !.context = k]
        PROVE  given = sent
    <3>1. given.context = k
      BY <2>5 DEF AsSent
    <3> QED BY <1>3, <1>8, <1>9, <2>5, <3>1
  <2>6. ASSUME NEW k, given = [sent EXCEPT !.spk = k]
        PROVE  given = sent
    <3>1. given.spk = k
      BY <2>6 DEF AsSent
    <3> QED BY <1>5, <1>8, <1>9, <2>6, <3>1
  <2> HIDE DEF sent
  <2> QED BY <2>1, <2>2, <2>3, <2>4, <2>5, <2>6
<1> QED BY <1>7, <1>10 DEF s, given

(* What arrives as it was sent, its pre-key unspent, decrypts. *)
LEMMA AsSentDecrypts ==
  ASSUME SharesInv, NEW uw, UnwrapInv(uw), uw.stage # "failed",
         uw.given = AsSent(uw.share), ~uw.spent
  PROVE  Decrypts(uw.key, uw.given.envelope.sealed)
<1> DEFINE s == uw.share
           b == shares[s].bundle
<1>1. /\ uw.given.envelope = Envelope(s) /\ uw.given.context = shares[s].context
      /\ uw.given.spk = b.spk
  BY DEF AsSent
<1>2. /\ Envelope(s).initiator = IK(shares[s].by) /\ Envelope(s).ephemeral = EK(s)
      /\ Envelope(s).otkId = b.otk /\ Envelope(s).sealed.intact
  BY DEF Envelope
<1>3. uw.key = WrapKey(Ikm(DH(b.spk, IK(shares[s].by)), DH(IK(Recipient), EK(s)),
                           DH(b.spk, EK(s)), DH(b.otk, EK(s))), shares[s].context)
  BY <1>1, <1>2, Agreement
<1>4. Envelope(s).sealed.key =
        WrapKey(Ikm(DH(IK(shares[s].by), b.spk), DH(EK(s), IK(Recipient)),
                    DH(EK(s), b.spk), DH(EK(s), b.otk)), shares[s].context)
  BY Agreement
<1>5. uw.key = Envelope(s).sealed.key
  BY <1>3, <1>4, Pairs
<1> QED BY <1>1, <1>2, <1>5 DEF Decrypts

(* A one-time pre-key of a published bundle is the recipient's. *)
LEMMA PublishedOtk ==
  ASSUME NEW b \in Published(Recipient), MayInitiate(b)
  PROVE  b.otk \in OtksOf(Recipient)
<1>1. PICK n \in Batches, i \in {None} \cup 0..OtkCount - 1 :
        b = PublishableBundle(Recipient, n, i)
  BY DEF Published
<1>2. b.otk = IF i = None THEN None ELSE OTK(Recipient, n, i)
  BY <1>1 DEF PublishableBundle
<1>3. b.otk # None
  BY DEF MayInitiate
<1>4. i \in 0..OtkCount - 1 /\ b.otk = OTK(Recipient, n, i)
  BY <1>2, <1>3
<1> QED BY <1>4 DEF OtksOf

(* A call is sound as long as its share stays as it is. *)
LEMMA SameCall ==
  ASSUME NEW uw, UnwrapInv(uw), shares'[uw.share] = shares[uw.share],
         wiped \subseteq wiped'
  PROVE  UnwrapInv(uw)'
<1>1. Arrivals(uw.share)' = Arrivals(uw.share)
  BY SameShare
<1>2. Agreed(uw)' = Agreed(uw)
  BY DEF Agreed
<1> QED BY <1>1, <1>2 DEF UnwrapInv

(* A step that moves no call and no returned share keeps the calls sound. *)
LEMMA OtherStepKeeps ==
  ASSUME UnwrapsInv, unwraps' = unwraps, wiped' = wiped,
         \A s \in Shares : shares[s] # Idle /\ shares[s].scope = "returned"
                             => shares'[s] = shares[s]
  PROVE  UnwrapsInv'
<1>1. ASSUME NEW u \in Unwraps, Begun(u)
      PROVE  /\ shares'[unwraps[u].share] = shares[unwraps[u].share]
             /\ UnwrapInv(unwraps[u])'
  <2> DEFINE uw == unwraps[u]
  <2>1. UnwrapInv(uw)
    BY <1>1 DEF UnwrapsInv
  <2>2. shares'[uw.share] = shares[uw.share]
    BY <2>1 DEF UnwrapInv, UnwrapRecord
  <2>3. \A v : v = uw => UnwrapInv(v)'
    <3> SUFFICES ASSUME NEW v, v = uw PROVE UnwrapInv(v)'
      OBVIOUS
    <3> HIDE DEF uw
    <3> QED BY <2>1, <2>2, SameCall
  <2>4. uw' = uw
    OBVIOUS
  <2> QED BY <2>2, <2>3, <2>4
<1>2. \A u \in Unwraps : Begun(u)' => UnwrapInv(unwraps[u])'
  BY <1>1 DEF Begun
<1>3. FirstComesFirst'
  BY DEF UnwrapsInv, FirstComesFirst, Begun
<1>4. GenuineOpens'
  <2> SUFFICES ASSUME NEW u \in Unwraps, Begun(u)',
                      unwraps'[u].given = AsSent(unwraps[u].share)',
                      shares'[unwraps'[u].share].bundle \in Published(Recipient),
                      ~unwraps'[u].spent, ~unwraps'[u].rejected
               PROVE  unwraps'[u].stage # "failed"
    BY DEF GenuineOpens
  <2>1. Begun(u)
    BY DEF Begun
  <2>2. shares'[unwraps[u].share] = shares[unwraps[u].share]
    BY <1>1, <2>1
  <2>3. AsSent(unwraps[u].share)' = AsSent(unwraps[u].share)
    BY <2>2 DEF AsSent, Envelope
  <2> QED BY <2>1, <2>2, <2>3 DEF UnwrapsInv, GenuineOpens
<1> QED BY <1>2, <1>3, <1>4 DEF UnwrapsInv

(* What replaces one call by a sound one, without touching the shares. *)
LEMMA OneCall ==
  ASSUME UnwrapsInv, NEW u \in Unwraps, NEW uw, UnwrapInv(uw)',
         unwraps' = [unwraps EXCEPT ![u] = uw], shares' = shares,
         wiped \subseteq wiped', wiped' \subseteq OtksOf(Recipient),
         (* its pre-key was wiped, if another call uses it too *)
         \A w \in Unwraps \ {u} :
           /\ Begun(w) /\ uw.stage # "failed" /\ unwraps[w].stage # "failed"
           /\ uw.given.envelope.otkId = unwraps[w].given.envelope.otkId
           => uw.spent \/ unwraps[w].spent,
         (* and if it is genuine it has not failed *)
         /\ uw.given = AsSent(uw.share) /\ ~uw.spent /\ ~uw.rejected
         /\ shares[uw.share].bundle \in Published(Recipient)
         => uw.stage # "failed"
  PROVE  UnwrapsInv'
<1>1. /\ DOMAIN unwraps' = Unwraps /\ unwraps'[u] = uw
      /\ \A w \in Unwraps \ {u} : unwraps'[w] = unwraps[w]
  BY DEF UnwrapsInv
<1>2. ASSUME NEW w \in Unwraps, Begun(w)' PROVE UnwrapInv(unwraps[w])'
  <2>1. CASE w = u
    <3>1. unwraps'[w] = uw
      BY <1>1, <2>1
    <3>2. \A v : v = uw => UnwrapInv(v)'
      OBVIOUS
    <3> QED BY <3>1, <3>2
  <2>2. CASE w # u
    <3>1. Begun(w) /\ unwraps'[w] = unwraps[w]
      BY <1>1, <1>2, <2>2 DEF Begun
    <3>2. UnwrapInv(unwraps[w])
      BY <3>1 DEF UnwrapsInv
    <3>3. \A v : v = unwraps[w] => UnwrapInv(v)'
      BY <3>2, SameCall
    <3> QED BY <3>1, <3>3
  <2> QED BY <2>1, <2>2
<1>3. FirstComesFirst'
  <2> SUFFICES ASSUME NEW v \in Unwraps, NEW w \in Unwraps, Begun(v)', Begun(w)', v # w,
                      unwraps'[v].stage # "failed", unwraps'[w].stage # "failed",
                      unwraps'[v].given.envelope.otkId = unwraps'[w].given.envelope.otkId
               PROVE  unwraps'[v].spent \/ unwraps'[w].spent
    BY DEF FirstComesFirst
  <2>1. CASE v # u /\ w # u
    BY <1>1, <2>1 DEF UnwrapsInv, FirstComesFirst, Begun
  <2>2. CASE v = u
    BY <1>1, <2>2 DEF Begun
  <2>3. CASE w = u
    BY <1>1, <2>3 DEF Begun
  <2> QED BY <2>1, <2>2, <2>3
<1>4. GenuineOpens'
  <2> SUFFICES ASSUME NEW w \in Unwraps, Begun(w)',
                      unwraps'[w].given = AsSent(unwraps[w].share)',
                      shares'[unwraps'[w].share].bundle \in Published(Recipient),
                      ~unwraps'[w].spent, ~unwraps'[w].rejected
               PROVE  unwraps'[w].stage # "failed"
    BY DEF GenuineOpens
  <2>1. CASE w = u
    <3>1. AsSent(unwraps[w].share)' = AsSent(uw.share)
      BY <1>1, <2>1 DEF AsSent, Envelope
    <3> QED BY <1>1, <2>1, <3>1
  <2>2. CASE w # u
    <3>1. AsSent(unwraps[w].share)' = AsSent(unwraps[w].share)
      BY <1>1, <2>2 DEF AsSent, Envelope
    <3> QED BY <1>1, <2>2, <3>1 DEF UnwrapsInv, GenuineOpens, Begun
  <2> QED BY <2>1, <2>2
<1> QED BY <1>1, <1>2, <1>3, <1>4 DEF UnwrapsInv

LEMMA UnwrapStepKeeps ==
  ASSUME SharesInv, UnwrapsInv, NEW u \in Unwraps, UnwrapStep(u)
  PROVE  UnwrapsInv'
<1> DEFINE old == unwraps[u]
           next == IF old.stage = "cipher" /\ ~Decrypts(old.key, old.given.envelope.sealed)
                   THEN "failed" ELSE Then[old.stage]
           new == [old EXCEPT !.stage = next]
<1>1. /\ Begun(u) /\ old.stage \in Pending
      /\ unwraps' = [unwraps EXCEPT ![u].stage = next]
      /\ shares' = shares /\ wiped' = wiped
  BY DEF UnwrapStep, Begun
<1>2. UnwrapInv(old) /\ wiped \subseteq OtksOf(Recipient)
  BY <1>1 DEF UnwrapsInv
<1>3. unwraps' = [unwraps EXCEPT ![u] = new]
  BY <1>1
<1>4. /\ next \in Stages
      /\ next = "done" => Decrypts(old.key, old.given.envelope.sealed)
      /\ next = "failed" => ~Decrypts(old.key, old.given.envelope.sealed)
      /\ old.stage # "failed"
  BY <1>1, ThenProperties, StageNames
<1> HIDE DEF next
<1>5. /\ new \in UnwrapRecord(old.given, old.key) /\ new.stage = next
      /\ new.given = old.given /\ new.key = old.key /\ new.share = old.share
      /\ new.spent = old.spent /\ new.rejected = old.rejected
  BY <1>2, <1>4 DEF UnwrapInv, UnwrapRecord
<1> HIDE DEF new, old
<1>6. UnwrapInv(new)
  <2>1. Agreed(new) = Agreed(old)
    BY <1>5 DEF Agreed
  <2> QED BY <1>2, <1>4, <1>5, <2>1 DEF UnwrapInv
<1>7. \A v : v = new => UnwrapInv(v)'
  BY <1>1, <1>6, SameCall
<1>8. \A w \in Unwraps \ {u} :
        /\ Begun(w) /\ new.stage # "failed" /\ unwraps[w].stage # "failed"
        /\ new.given.envelope.otkId = unwraps[w].given.envelope.otkId
        => new.spent \/ unwraps[w].spent
  BY <1>1, <1>4, <1>5 DEF UnwrapsInv, FirstComesFirst, old
<1>9. /\ new.given = AsSent(new.share) /\ ~new.spent /\ ~new.rejected
      /\ shares[new.share].bundle \in Published(Recipient)
      => new.stage # "failed"
  BY <1>2, <1>4, <1>5, AsSentDecrypts
<1> QED BY <1>1, <1>2, <1>3, <1>7, <1>8, <1>9, OneCall

LEMMA UnwrapFailsKeeps ==
  ASSUME UnwrapsInv, NEW u \in Unwraps, UnwrapFails(u)
  PROVE  UnwrapsInv'
<1> DEFINE old == unwraps[u]
           new == [old EXCEPT !.stage = "failed", !.rejected = TRUE]
<1>1. /\ Begun(u) /\ shares' = shares /\ wiped' = wiped
      /\ unwraps' = [unwraps EXCEPT ![u] = new]
  BY DEF UnwrapFails, Begun
<1>2. UnwrapInv(old) /\ wiped \subseteq OtksOf(Recipient)
  BY <1>1 DEF UnwrapsInv
<1>3. /\ new \in UnwrapRecord(old.given, old.key) /\ new.stage = "failed"
      /\ new.given = old.given /\ new.key = old.key /\ new.share = old.share
      /\ new.rejected
  BY <1>2, StageNames DEF UnwrapInv, UnwrapRecord
<1> HIDE DEF new, old
<1>4. UnwrapInv(new)
  BY <1>2, <1>3 DEF UnwrapInv
<1>5. \A v : v = new => UnwrapInv(v)'
  BY <1>1, <1>4, SameCall
<1> QED BY <1>1, <1>2, <1>3, <1>5, OneCall

LEMMA UnwrapKeeps ==
  ASSUME SharesInv, UnwrapsInv, NEW u \in Unwraps, NEW s \in Shares,
         shares[s] # Idle, shares[s].scope = "returned",
         NEW given \in Arrivals(s), UnwrapKeyForMe(u, s, given)
  PROVE  UnwrapsInv'
<1> DEFINE e == given.envelope
           found == e.v = 1 /\ e.otkId \in OtksOf(Recipient)
           agreed == found /\ ~Throws(e.initiator) /\ ~Throws(e.ephemeral)
           key == IF agreed THEN WrapKey(Secret(e, given.spk, e.otkId), given.context)
                  ELSE None
           new == [share |-> s, given |-> given,
                   stage |-> IF agreed THEN "agree" ELSE "failed",
                   key |-> key, spent |-> e.otkId \in wiped, rejected |-> FALSE]
<1>1. /\ unwraps' = [unwraps EXCEPT ![u] = new]
      /\ wiped' = wiped \cup WipedAtOnce(e.otkId, agreed) /\ shares' = shares
  BY DEF UnwrapKeyForMe
<1> HIDE DEF found, agreed
<1>2. /\ wiped \subseteq wiped' /\ wiped' \subseteq OtksOf(Recipient)
      /\ agreed => e.v = 1 /\ e.otkId \in OtksOf(Recipient) /\ e.otkId \in wiped'
  BY <1>1 DEF UnwrapsInv, WipedAtOnce, agreed, found
<1>3. /\ new.share = s /\ new.given = given /\ new.key = key
      /\ new.spent = (e.otkId \in wiped) /\ new.rejected = FALSE
      /\ new.stage = IF agreed THEN "agree" ELSE "failed"
  OBVIOUS
<1>4. agreed => key = Agreed(new)
  BY <1>3 DEF Agreed, Secret
<1>5. new \in UnwrapRecord(given, key)
  BY StageNames DEF UnwrapRecord
<1> HIDE DEF new, key, e
<1>6. new.stage = "failed" <=> ~agreed
  BY <1>3
<1>7. \A v : v = new => UnwrapInv(v)'
  <2>1. Arrivals(s)' = Arrivals(s)
    BY <1>1, SameShare
  <2> SUFFICES ASSUME NEW v, v = new PROVE UnwrapInv(v)'
    OBVIOUS
  <2>2. v.stage # "done"
    BY <1>3
  <2>3. Agreed(v) = Agreed(new)
    OBVIOUS
  <2> QED BY <1>1, <1>2, <1>3, <1>4, <1>5, <1>6, <2>1, <2>2, <2>3 DEF UnwrapInv, e, Agreed
<1>8. \A w \in Unwraps \ {u} :
        /\ Begun(w) /\ new.stage # "failed" /\ unwraps[w].stage # "failed"
        /\ new.given.envelope.otkId = unwraps[w].given.envelope.otkId
        => new.spent \/ unwraps[w].spent
  BY <1>3 DEF UnwrapsInv, UnwrapInv, e
<1>9. /\ new.given = AsSent(new.share) /\ ~new.spent /\ ~new.rejected
      /\ shares[new.share].bundle \in Published(Recipient)
      => new.stage # "failed"
  <2> SUFFICES ASSUME given = AsSent(s), shares[s].bundle \in Published(Recipient)
               PROVE  agreed
    BY <1>3, <1>6
  <2>1. /\ e.v = 1 /\ e.otkId = shares[s].bundle.otk
        /\ e.initiator = IK(shares[s].by) /\ e.ephemeral = EK(s)
    BY DEF AsSent, Envelope, e
  <2>2. e.otkId \in OtksOf(Recipient)
    BY <2>1, Returned, PublishedOtk
  <2>3. ~Throws(e.initiator) /\ ~Throws(e.ephemeral)
    BY <2>1, KeyNames DEF Throws
  <2> QED BY <2>1, <2>2, <2>3 DEF agreed, found
<1> QED BY <1>1, <1>2, <1>7, <1>8, <1>9, OneCall

-----------------------------------------------------------------------------
(***************************************************************************)
(* The buffers.                                                            *)
(***************************************************************************)
(* What a call may hold while it waits at a stage, and once it settled. *)
MayHold(stage) ==
  Copies \cup IF stage = "agree" THEN {"ek", "ikB_x", "dh", "ikm"}
             ELSE IF stage = "derive" THEN {"sharedSecret"}
             ELSE IF stage \in {"import", "cipher"} THEN {"sharedSecret", "wrapKey"}
             ELSE {}

(* The one buffer made before completeX3DH's try. *)
BeforeTry(uw, buffer) ==
  uw.stage = "failed" /\ uw.given.envelope.initiator = BadPoint /\ buffer = "ikB_x"

HeldInv ==
  /\ held \subseteq (Shares \cup Unwraps) \X Buffers
  /\ \A s \in Shares : \A h \in held : h[1] = s =>
       shares[s] # Idle /\ h[2] \in MayHold(shares[s].stage)
  /\ \A u \in Unwraps : \A h \in held : h[1] = u =>
       Begun(u) /\ (h[2] \in MayHold(unwraps[u].stage) \/ BeforeTry(unwraps[u], h[2]))

(* The next stage wipes and makes what leaves a call with no more than     *)
(* what it may hold there.                                                 *)
LEMMA HoldingProperties ==
  ASSUME NEW call \in Shares \cup Unwraps, NEW stage \in Pending,
         NEW next \in {Then[stage], "failed"},
         held \subseteq (Shares \cup Unwraps) \X Buffers,
         \A h \in held : h[1] = call => h[2] \in MayHold(stage)
  PROVE  /\ Holding(call, stage, next) \subseteq (Shares \cup Unwraps) \X Buffers
         /\ \A h \in Holding(call, stage, next) : h \in held \/ h[1] = call
         /\ \A h \in Holding(call, stage, next) : h[1] = call => h[2] \in MayHold(next)
<1>1. MadeAt(next) \subseteq MayHold(next) /\ MadeAt(next) \subseteq Buffers
  BY DEF MadeAt, MayHold, Copies, Buffers
<1>2. MayHold(stage) \ WipedBetween(stage, next) \subseteq MayHold(next)
  <2>1. next \in {"derive", "import", "cipher", "done", "failed"}
    BY ThenProperties
  <2>2. CASE next = "failed" \/ next = "done"
    <3>1. WipedBetween(stage, next) =
            (IF stage = "agree" THEN {"ek", "ikB_x", "dh", "ikm"} ELSE {})
              \cup {"sharedSecret", "wrapKey"}
      BY <2>2 DEF WipedBetween, Settled
    <3>2. MayHold(next) = Copies
      BY <2>2 DEF MayHold
    <3> QED BY <3>1, <3>2 DEF MayHold
  <2>3. CASE next \in {"derive", "import", "cipher"}
    <3>1. stage \in {"agree", "derive", "import", "nonce"} /\ next = Then[stage]
      BY <2>3, ThenProperties DEF Pending
    <3>2. WipedBetween(stage, next) =
            IF stage = "agree" THEN {"ek", "ikB_x", "dh", "ikm"} ELSE {}
      BY <2>3 DEF WipedBetween, Settled
    <3>3. CASE stage = "agree"
      BY <3>2, <3>3 DEF MayHold
    <3>4. CASE stage = "derive"
      <4>1. next = "import"
        BY <3>1, <3>4 DEF Then
      <4> QED BY <3>4, <4>1 DEF MayHold
    <3>5. CASE stage = "import"
      <4>1. next = "cipher"
        BY <3>1, <3>5 DEF Then
      <4> QED BY <3>5, <4>1 DEF MayHold
    <3>6. CASE stage = "nonce"
      BY <3>6 DEF MayHold
    <3> QED BY <3>1, <3>3, <3>4, <3>5, <3>6
  <2> QED BY <2>1, <2>2, <2>3
<1>3. ASSUME NEW h \in Holding(call, stage, next)
      PROVE  \/ h \in held /\ (h[1] = call => h[2] \notin WipedBetween(stage, next))
             \/ h[1] = call /\ h[2] \in MadeAt(next)
  <2>1. CASE h \in {call} \X MadeAt(next)
    BY <2>1
  <2>2. CASE h \in held \ ({call} \X WipedBetween(stage, next))
    <3>1. h = <<h[1], h[2]>>
      BY <2>2
    <3> QED BY <2>2, <3>1
  <2> QED BY <2>1, <2>2 DEF Holding
<1>4. Holding(call, stage, next) \subseteq (Shares \cup Unwraps) \X Buffers
  BY <1>1 DEF Holding
<1> QED BY <1>1, <1>2, <1>3, <1>4

LEMMA WrapHolds ==
  ASSUME HeldInv, NEW s \in Shares, unwraps' = unwraps, shares'[s] # Idle,
         \A t \in Shares \ {s} : shares'[t] = shares[t],
         held' \subseteq (Shares \cup Unwraps) \X Buffers,
         \A h \in held' : h \in held \/ h[1] = s,
         \A h \in held' : h[1] = s => h[2] \in MayHold(shares'[s].stage)
  PROVE  HeldInv'
<1>1. ASSUME NEW t \in Shares, NEW h \in held', h[1] = t
      PROVE  shares'[t] # Idle /\ h[2] \in MayHold(shares'[t].stage)
  BY <1>1 DEF HeldInv
<1>2. ASSUME NEW u \in Unwraps, NEW h \in held', h[1] = u
      PROVE  /\ Begun(u)
             /\ h[2] \in MayHold(unwraps[u].stage) \/ BeforeTry(unwraps[u], h[2])
  <2>1. u # s
    BY EnvelopesAssumption
  <2> QED BY <1>2, <2>1 DEF HeldInv
<1> QED BY <1>1, <1>2 DEF HeldInv, Begun, MayHold, BeforeTry

LEMMA UnwrapHolds ==
  ASSUME HeldInv, NEW u \in Unwraps, shares' = shares, unwraps'[u] # Idle,
         \A w \in Unwraps \ {u} : unwraps'[w] = unwraps[w],
         held' \subseteq (Shares \cup Unwraps) \X Buffers,
         \A h \in held' : h \in held \/ h[1] = u,
         \A h \in held' : h[1] = u =>
           h[2] \in MayHold(unwraps'[u].stage) \/ BeforeTry(unwraps'[u], h[2])
  PROVE  HeldInv'
<1>1. ASSUME NEW t \in Shares, NEW h \in held', h[1] = t
      PROVE  shares[t] # Idle /\ h[2] \in MayHold(shares[t].stage)
  <2>1. u # t
    BY EnvelopesAssumption
  <2> QED BY <1>1, <2>1 DEF HeldInv
<1>2. ASSUME NEW w \in Unwraps, NEW h \in held', h[1] = w
      PROVE  /\ unwraps'[w] # Idle
             /\ h[2] \in MayHold(unwraps'[w].stage) \/ BeforeTry(unwraps'[w], h[2])
  BY <1>2 DEF HeldInv, Begun
<1> QED BY <1>1, <1>2 DEF HeldInv, Begun, MayHold, BeforeTry

-----------------------------------------------------------------------------
(***************************************************************************)
(* The specification.                                                      *)
(***************************************************************************)
IInv == SharesInv /\ UnwrapsInv /\ HeldInv

LEMMA Initially == Init => IInv
<1> SUFFICES ASSUME Init PROVE IInv
  OBVIOUS
<1> USE DEF Init
<1>1. SharesInv
  BY EnvelopesAssumption DEF SharesInv
<1>2. UnwrapsInv
  BY DEF UnwrapsInv, Begun, FirstComesFirst, GenuineOpens
<1>3. HeldInv
  BY DEF HeldInv
<1> QED BY <1>1, <1>2, <1>3 DEF IInv

LEMMA Step == IInv /\ [Next]_vars => IInv'
<1> SUFFICES ASSUME IInv, [Next]_vars PROVE IInv'
  OBVIOUS
<1>0. SharesInv /\ UnwrapsInv /\ HeldInv /\ MaxFailures \in Nat
  BY EnvelopesAssumption DEF IInv
<1>1. ASSUME NEW s \in Shares, NEW by \in Users \ {Recipient}, NEW c \in Contexts,
             NEW b \in Answers(Recipient), Share(s, by, c, b)
      PROVE  IInv'
  <2>1. /\ SharesInv' /\ shares'[s] # Idle
        /\ shares'[s].stage = IF MayInitiate(b) THEN "agree" ELSE "failed"
        /\ \A t \in Shares \ {s} : shares'[t] = shares[t]
    BY <1>0, <1>1, ShareKeeps
  <2>2. /\ shares[s] = Idle /\ unwraps' = unwraps /\ wiped' = wiped
        /\ held' = held \cup ({s} \X IF MayInitiate(b) THEN InitiatorBuffers ELSE {})
                        \cup ({s} \X IF Indices[s] # {} THEN {"fileKeyCopy"} ELSE {})
    BY <1>1 DEF Share
  <2>3. UnwrapsInv'
    BY <1>0, <2>1, <2>2, OtherStepKeeps
  <2>4. PICK made : /\ held' = held \cup ({s} \X made)
                    /\ made \subseteq MayHold(shares'[s].stage) \cap Buffers
    <3>1. CASE MayInitiate(b)
      <4> DEFINE made == InitiatorBuffers \cup IF Indices[s] # {} THEN {"fileKeyCopy"} ELSE {}
      <4>1. held' = held \cup ({s} \X made)
        BY <2>2, <3>1
      <4>2. made \subseteq MayHold("agree") \cap Buffers
        BY DEF InitiatorBuffers, MayHold, Copies, Buffers
      <4> QED BY <2>1, <3>1, <4>1, <4>2
    <3>2. CASE ~MayInitiate(b)
      <4> DEFINE made == IF Indices[s] # {} THEN {"fileKeyCopy"} ELSE {}
      <4>1. held' = held \cup ({s} \X made)
        BY <2>2, <3>2
      <4>2. made \subseteq MayHold("failed") \cap Buffers
        BY DEF MayHold, Copies, Buffers
      <4> QED BY <2>1, <3>2, <4>1, <4>2
    <3> QED BY <3>1, <3>2
  <2>6. /\ held' \subseteq (Shares \cup Unwraps) \X Buffers
        /\ \A h \in held' : h \in held \/ h[1] = s
        /\ \A h \in held' : h[1] = s => h[2] \in MayHold(shares'[s].stage)
    BY <1>0, <2>2, <2>4 DEF HeldInv
  <2>5. HeldInv'
    BY <1>0, <2>1, <2>2, <2>6, WrapHolds
  <2> QED BY <2>1, <2>3, <2>5 DEF IInv
<1>2. ASSUME NEW s \in Shares, WrapStep(s)
      PROVE  IInv'
  <2>1. /\ SharesInv' /\ shares[s].scope # "returned" /\ shares'[s] # Idle
        /\ shares'[s].stage = Then[shares[s].stage]
        /\ \A t \in Shares \ {s} : shares'[t] = shares[t]
    BY <1>0, <1>2, WrapStepKeeps
  <2>2. /\ unwraps' = unwraps /\ wiped' = wiped
        /\ held' = Holding(s, shares[s].stage, Then[shares[s].stage])
        /\ shares[s].stage \in Pending
    BY <1>2 DEF WrapStep
  <2>3. UnwrapsInv'
    BY <1>0, <2>1, <2>2, OtherStepKeeps
  <2>4. /\ held' \subseteq (Shares \cup Unwraps) \X Buffers
        /\ \A h \in held' : h \in held \/ h[1] = s
        /\ \A h \in held' : h[1] = s => h[2] \in MayHold(shares'[s].stage)
    BY <1>0, <2>1, <2>2, HoldingProperties DEF HeldInv
  <2>5. HeldInv'
    BY <1>0, <2>1, <2>2, <2>4, WrapHolds
  <2> QED BY <2>1, <2>3, <2>5 DEF IInv
<1>3. ASSUME NEW s \in Shares, WrapFails(s)
      PROVE  IInv'
  <2>1. /\ SharesInv' /\ shares[s].scope # "returned" /\ shares'[s] # Idle
        /\ shares'[s].stage = "failed"
        /\ \A t \in Shares \ {s} : shares'[t] = shares[t]
    BY <1>0, <1>3, WrapFailsKeeps
  <2>2. /\ unwraps' = unwraps /\ wiped' = wiped
        /\ held' = Holding(s, shares[s].stage, "failed")
        /\ shares[s].stage \in Pending
    BY <1>3 DEF WrapFails
  <2>3. UnwrapsInv'
    BY <1>0, <2>1, <2>2, OtherStepKeeps
  <2>4. /\ held' \subseteq (Shares \cup Unwraps) \X Buffers
        /\ \A h \in held' : h \in held \/ h[1] = s
        /\ \A h \in held' : h[1] = s => h[2] \in MayHold(shares'[s].stage)
    BY <1>0, <2>1, <2>2, HoldingProperties DEF HeldInv
  <2>5. HeldInv'
    BY <1>0, <2>1, <2>2, <2>4, WrapHolds
  <2> QED BY <2>1, <2>3, <2>5 DEF IInv
<1>4. ASSUME NEW s \in Shares, NEW i \in Indices[s], shares[s] # Idle,
             ChunkStep(s, i) \/ ChunkFails(s, i)
      PROVE  IInv'
  <2>1. /\ SharesInv' /\ shares[s].scope # "returned" /\ shares'[s] # Idle
        /\ shares'[s].stage = shares[s].stage
        /\ \A t \in Shares \ {s} : shares'[t] = shares[t]
    BY <1>0, <1>4, ChunkStepKeeps, ChunkFailsKeeps
  <2>2. unwraps' = unwraps /\ wiped' = wiped /\ held' = held
    BY <1>4 DEF ChunkStep, ChunkFails
  <2>3. UnwrapsInv'
    BY <1>0, <2>1, <2>2, OtherStepKeeps
  <2>4. /\ held' \subseteq (Shares \cup Unwraps) \X Buffers
        /\ \A h \in held' : h[1] = s => h[2] \in MayHold(shares'[s].stage)
    BY <1>0, <2>1, <2>2 DEF HeldInv
  <2>5. HeldInv'
    BY <1>0, <2>1, <2>2, <2>4, WrapHolds
  <2> QED BY <2>1, <2>3, <2>5 DEF IInv
<1>5. ASSUME NEW u \in Unwraps, NEW s \in Shares,
             shares[s] # Idle, shares[s].scope = "returned",
             NEW given \in Arrivals(s), UnwrapKeyForMe(u, s, given)
      PROVE  IInv'
  <2>1. UnwrapsInv'
    BY <1>0, <1>5, UnwrapKeeps
  <2>2. shares' = shares /\ failures' = failures
    BY <1>5 DEF UnwrapKeyForMe
  <2>3. SharesInv'
    BY <1>0, <2>2 DEF SharesInv, ShareInv, ShareRecord, ReadInTime, BundleChecked, Parts
  <2>4. /\ \A w \in Unwraps \ {u} : unwraps'[w] = unwraps[w]
        /\ unwraps'[u].given = given /\ unwraps'[u] # Idle
    <3>1. Idle.stage = "idle"
      BY DEF Idle
    <3> QED BY <1>0, <1>5, <3>1 DEF UnwrapKeyForMe, UnwrapsInv
  <2>5. /\ held' \subseteq (Shares \cup Unwraps) \X Buffers
        /\ \A h \in held' : h \in held \/ h[1] = u
        /\ \A h \in held' : h[1] = u =>
             h[2] \in MayHold(unwraps'[u].stage) \/ BeforeTry(unwraps'[u], h[2])
    <3> DEFINE e == given.envelope
               found == e.v = 1 /\ e.otkId \in OtksOf(Recipient)
               converted == found /\ ~Throws(e.initiator)
               agreed == converted /\ ~Throws(e.ephemeral)
               buffers == IF agreed THEN RecipientBuffers
                          ELSE IF found /\ ~converted THEN {"ikB_x"} ELSE {}
    <3>1. /\ held' = held \cup ({u} \X buffers)
          /\ unwraps'[u].stage = IF agreed THEN "agree" ELSE "failed"
          /\ ~Begun(u)
      BY <1>0, <1>5 DEF UnwrapKeyForMe, UnwrapsInv, Begun
    <3>2. agreed => buffers \subseteq MayHold("agree")
      BY DEF RecipientBuffers, MayHold, Copies
    <3>3. ~agreed => \A b \in buffers : e.initiator = BadPoint /\ b = "ikB_x"
      BY DEF Throws
    <3>4. buffers \subseteq Buffers
      BY DEF RecipientBuffers, Buffers, Copies
    <3> HIDE DEF buffers, agreed
    <3>5. \A h \in held : h[1] # u
      BY <1>0, <3>1 DEF HeldInv
    <3>6. \A b \in buffers :
            b \in MayHold(unwraps'[u].stage) \/ BeforeTry(unwraps'[u], b)
      BY <2>4, <3>1, <3>2, <3>3 DEF BeforeTry
    <3> QED BY <1>0, <3>1, <3>4, <3>5, <3>6 DEF HeldInv
  <2>6. HeldInv'
    BY <1>0, <2>2, <2>4, <2>5, UnwrapHolds
  <2> QED BY <2>1, <2>3, <2>6 DEF IInv
<1>6. ASSUME NEW u \in Unwraps, UnwrapStep(u)
      PROVE  IInv'
  <2>1. UnwrapsInv'
    BY <1>0, <1>6, UnwrapStepKeeps
  <2>2. shares' = shares /\ failures' = failures
    BY <1>6 DEF UnwrapStep
  <2>3. SharesInv'
    BY <1>0, <2>2 DEF SharesInv, ShareInv, ShareRecord, ReadInTime, BundleChecked, Parts
  <2>4. PICK next \in {Then[unwraps[u].stage], "failed"} :
          /\ unwraps' = [unwraps EXCEPT ![u].stage = next]
          /\ held' = Holding(u, unwraps[u].stage, next)
          /\ Begun(u) /\ unwraps[u].stage \in Pending
    BY <1>6 DEF UnwrapStep, Begun
  <2>5. unwraps[u].stage \in Stages /\ UnwrapInv(unwraps[u])
    BY <1>0, <1>6 DEF UnwrapStep, UnwrapsInv, UnwrapInv, UnwrapRecord, Begun
  <2>6. /\ \A w \in Unwraps \ {u} : unwraps'[w] = unwraps[w]
        /\ unwraps'[u].stage = next
        /\ unwraps'[u] # Idle
    <3>1. next \in Stages
      BY <2>4, ThenProperties, StageNames
    <3>2. Idle.stage = "idle" /\ "idle" \notin Stages
      BY StageNames DEF Idle
    <3>3. /\ \A w \in Unwraps \ {u} : unwraps'[w] = unwraps[w]
          /\ unwraps'[u].stage = next
      BY <1>0, <2>4, <2>5 DEF UnwrapsInv, UnwrapInv, UnwrapRecord
    <3> QED BY <3>1, <3>2, <3>3
  <2>9. \A h \in held : h[1] = u => h[2] \in MayHold(unwraps[u].stage)
    BY <1>0, <2>4, StageNames DEF HeldInv, BeforeTry
  <2>7. /\ held' \subseteq (Shares \cup Unwraps) \X Buffers
        /\ \A h \in held' : h \in held \/ h[1] = u
        /\ \A h \in held' : h[1] = u => h[2] \in MayHold(unwraps'[u].stage)
    BY <1>0, <2>4, <2>6, <2>9, HoldingProperties DEF HeldInv
  <2>8. HeldInv'
    BY <1>0, <2>2, <2>6, <2>7, UnwrapHolds
  <2> QED BY <2>1, <2>3, <2>8 DEF IInv
<1>7. ASSUME NEW u \in Unwraps, UnwrapFails(u)
      PROVE  IInv'
  <2>1. UnwrapsInv'
    BY <1>0, <1>7, UnwrapFailsKeeps
  <2>2. /\ shares' = shares /\ failures' = failures + 1 /\ failures < MaxFailures
        /\ held' = Holding(u, unwraps[u].stage, "failed")
        /\ Begun(u) /\ unwraps[u].stage \in Pending
    BY <1>7 DEF UnwrapFails, Begun
  <2>3. SharesInv'
    BY <1>0, <2>2 DEF SharesInv, ShareInv, ShareRecord, ReadInTime, BundleChecked, Parts
  <2>4. /\ \A w \in Unwraps \ {u} : unwraps'[w] = unwraps[w]
        /\ unwraps'[u].stage = "failed" /\ unwraps'[u] # Idle
    <3>1. unwraps[u].stage \in Stages /\ UnwrapInv(unwraps[u])
      BY <1>0, <2>2, StageNames DEF UnwrapsInv
    <3>2. Idle.stage = "idle"
      BY DEF Idle
    <3>3. /\ \A w \in Unwraps \ {u} : unwraps'[w] = unwraps[w]
          /\ unwraps'[u].stage = "failed"
      BY <1>0, <1>7, <3>1 DEF UnwrapFails, UnwrapsInv, UnwrapInv, UnwrapRecord
    <3> QED BY <3>2, <3>3
  <2>7. \A h \in held : h[1] = u => h[2] \in MayHold(unwraps[u].stage)
    BY <1>0, <2>2, StageNames DEF HeldInv, BeforeTry
  <2>5. /\ held' \subseteq (Shares \cup Unwraps) \X Buffers
        /\ \A h \in held' : h \in held \/ h[1] = u
        /\ \A h \in held' : h[1] = u => h[2] \in MayHold(unwraps'[u].stage)
    BY <1>0, <2>2, <2>4, <2>7, HoldingProperties DEF HeldInv
  <2>6. HeldInv'
    BY <1>0, <2>2, <2>4, <2>5, UnwrapHolds
  <2> QED BY <2>1, <2>3, <2>6 DEF IInv
<1>8. CASE UNCHANGED vars
  <2>1. SharesInv'
    BY <1>0, <1>8 DEF vars, SharesInv, ShareInv, ShareRecord, ReadInTime, BundleChecked, Parts
  <2>2. UnwrapsInv'
    BY <1>0, <1>8, OtherStepKeeps DEF vars
  <2>3. HeldInv'
    BY <1>0, <1>8 DEF vars, HeldInv, MayHold, BeforeTry, Begun
  <2> QED BY <2>1, <2>2, <2>3 DEF IInv
<1> QED BY <1>1, <1>2, <1>3, <1>4, <1>5, <1>6, <1>7, <1>8 DEF Next

(* The inductive invariant: of the shares, of the calls that open them,    *)
(* and of the buffers both hold.                                           *)
THEOREM Invariance == Spec => []IInv
BY Initially, Step, PTL DEF Spec

-----------------------------------------------------------------------------
(* The scopes, the calls and their buffers are what withSecureWipe,        *)
(* wrapKeyForRecipient, encryptMediaChunk and unwrapKeyForMe make of them. *)
THEOREM TypeCorrect == Spec => []TypeOK
<1>1. IInv => TypeOK
  <2> SUFFICES ASSUME IInv PROVE TypeOK
    OBVIOUS
  <2>1. ASSUME NEW s \in Shares, shares[s] # Idle
        PROVE  /\ shares[s].stage \in Pending \cup Settled
               /\ shares[s].plain \in {None, s, Zero}
               /\ shares[s].scope \in {"open", "returned", "thrown"}
               /\ shares[s].wiped = (shares[s].scope # "open")
               /\ \A i \in Indices[s] : /\ shares[s].chunks[i].stage \in Pending \cup Settled
                                        /\ shares[s].chunks[i].key \in {None, s, Zero}
    BY <2>1 DEF IInv, SharesInv, ShareInv, ShareRecord, Stages, Bytes
  <2>2. \A u \in Unwraps : Begun(u) => unwraps[u].stage \in Pending \cup Settled
    BY DEF IInv, UnwrapsInv, UnwrapInv, UnwrapRecord, Stages
  <2> QED BY <2>1, <2>2 DEF TypeOK, IInv, SharesInv, UnwrapsInv, HeldInv
<1> QED BY <1>1, Invariance, PTL

(* When withSecureWipe returns, what it leaves behind was made from the    *)
(* key and never from the wiped buffer, whatever the order in which the    *)
(* calls of its Promise.all settled.                                       *)
THEOREM ScopeCorrect == Spec => []StoredFilesOpen
<1>1. IInv => StoredFilesOpen
  BY Returned DEF IInv, StoredFilesOpen, Opens
<1> QED BY <1>1, Invariance, PTL

(* unwrapKeyForMe returns only the key of the file, from the initiator the *)
(* envelope names, and only for the envelope as it was sent.               *)
THEOREM UnwrapCorrect == Spec => []UnwrappedIsGenuine
<1>1. IInv => UnwrappedIsGenuine
  <2> SUFFICES ASSUME IInv, NEW u \in Unwraps, Opened(u)
               PROVE  /\ unwraps[u].given = AsSent(unwraps[u].share)
                      /\ shares[unwraps[u].share].plain = unwraps[u].share
    BY DEF UnwrappedIsGenuine
  <2>1. UnwrapInv(unwraps[u])
    BY DEF IInv, UnwrapsInv, Opened
  <2>2. unwraps[u].given = AsSent(unwraps[u].share)
    BY <2>1, OpensAsSent DEF IInv, Opened
  <2>3. shares[unwraps[u].share].plain = unwraps[u].share
    BY <2>1, Returned DEF IInv, UnwrapInv, UnwrapRecord
  <2> QED BY <2>2, <2>3
<1> QED BY <1>1, Invariance, PTL

(* The one-time pre-key that completeX3DH wipes opens one envelope.        *)
THEOREM OneTimeCorrect == Spec => []OtkOpensOnce
<1>1. IInv => OtkOpensOnce
  <2> SUFFICES ASSUME IInv, NEW u \in Unwraps, NEW w \in Unwraps,
                      Opened(u), Opened(w), u # w,
                      unwraps[u].given.envelope.otkId = unwraps[w].given.envelope.otkId
               PROVE  FALSE
    BY DEF OtkOpensOnce
  <2>1. UnwrapInv(unwraps[u]) /\ UnwrapInv(unwraps[w])
    BY DEF IInv, UnwrapsInv, Opened
  <2>2. ~unwraps[u].spent /\ ~unwraps[w].spent
    BY <2>1, OpensAsSent DEF IInv, Opened
  <2> QED BY <2>2 DEF IInv, UnwrapsInv, FirstComesFirst, Opened
<1> QED BY <1>1, Invariance, PTL

(* An envelope that initiateX3DH made from a published bundle, arriving    *)
(* unchanged, is opened by completeX3DH unless its pre-key is spent or the *)
(* platform rejects: the two sides derive the same wrapping key.           *)
THEOREM GenuineCorrect == Spec => []GenuineOpens
BY Invariance, PTL DEF IInv, UnwrapsInv

(* The nested finally blocks of wrapKeyForRecipient, initiateX3DH,         *)
(* unwrapKeyForMe and completeX3DH wipe what a call made, at whatever      *)
(* stage it ends: it leaves the copies of hkdf, and what was made before   *)
(* completeX3DH's try.                                                     *)
THEOREM BuffersCorrect == Spec => []OnlyCopiesOutlive
<1>1. IInv => OnlyCopiesOutlive
  <2> SUFFICES ASSUME IInv PROVE OnlyCopiesOutlive
    OBVIOUS
  <2>1. \A stage \in Settled : MayHold(stage) = Copies
    BY DEF MayHold, Settled
  <2> QED BY <2>1 DEF IInv, HeldInv, OnlyCopiesOutlive, BeforeTry
<1> QED BY <1>1, Invariance, PTL
=============================================================================
