------------------------------ MODULE Envelopes ------------------------------
(***************************************************************************)
(* The envelopes and media chunks of @me2em/crypto.  A share is one file:  *)
(*   withSecureWipe(fileKey, key => Promise.all([                          *)
(*     wrapKeyForRecipient(key, ...), encryptMediaChunk(key, ...), ...]))  *)
(* and what is stored is opened by unwrapKeyForMe and decryptMediaChunk.   *)
(*                                                                         *)
(* A call runs up to its first await when it is made; each settled await   *)
(* takes it one stage further.  The rejection of one runs the finally      *)
(* blocks and the wipe of the scope before any other call moves: those are *)
(* microtasks, the platform's answers are tasks.                           *)
(***************************************************************************)
EXTENDS X3DH, FiniteSets

CONSTANTS
  Shares,       \* files shared; a share is the name of its file key too
  Unwraps,      \* calls of unwrapKeyForMe
  Recipient,    \* whom the files are for
  Indices,      \* Indices[s]: the chunks of the file of s
  Contexts,     \* application contexts (contextSalt and info)
  MaxFailures   \* bound: rejections by the platform

ASSUME EnvelopesAssumption ==
  /\ Recipient \in Users
  /\ Shares \cap Unwraps = {}
  /\ DOMAIN Indices = Shares
  /\ MaxFailures \in Nat

VARIABLES
  shares,    \* shares[s]: the scope, its wrap call and its chunk calls
  unwraps,   \* unwraps[u]: what it was given, and how far it is
  wiped,     \* one-time pre-keys of the recipient whose buffer is wiped
  held,      \* <<call, buffer>>: the secret buffers made and not yet wiped
  failures

vars == <<shares, unwraps, wiped, held, failures>>

Idle == [stage |-> "idle"]
Pending == {"nonce", "agree", "derive", "import", "cipher"}
Settled == {"done", "failed"}

(* The stage that follows a settled await. *)
Then == [nonce |-> "import", agree |-> "derive", derive |-> "import",
         import |-> "cipher", cipher |-> "done"]

(* What initiateX3DH and completeX3DH have made when they first wait.      *)
(* hkdf hands the platform a copy of its key material; nobody wipes that.  *)
InitiatorBuffers == {"ek", "dh", "ikm", "ikmCopy"}
RecipientBuffers == {"ikB_x", "dh", "ikm", "ikmCopy"}

(* What a wrap or unwrap call makes as it enters a later stage. *)
MadeAt(stage) ==
  IF stage = "derive" THEN {"sharedSecret", "secretCopy"}
  ELSE IF stage = "import" THEN {"wrapKey"} ELSE {}

(* Mutant: wiped where the result is returned, not in finally blocks. *)
WipedOnReturn(stage, next) ==
  (IF stage = "agree" /\ next # "failed" THEN {"ek", "ikB_x", "dh", "ikm"} ELSE {})
    \cup (IF next = "done" THEN {"sharedSecret", "wrapKey"} ELSE {})

(* The finally block of the key agreement runs as the call leaves it, with *)
(* a result or without; those of wrapKeyForRecipient and unwrapKeyForMe    *)
(* run as it settles.                                                      *)
WipedBetween(stage, next) ==
  (IF stage = "agree" THEN {"ek", "ikB_x", "dh", "ikm"} ELSE {})
    \cup (IF next \in Settled THEN {"sharedSecret", "wrapKey"} ELSE {})

WrapKey(secret, context) == <<secret, context>>

(* The envelope of share s; its plaintext is the file key, or zeros.       *)
Envelope(s) ==
  LET sh == shares[s] IN
  [v |-> 1, ephemeral |-> EK(s), initiator |-> IK(sh.by),
   otkId |-> sh.bundle.otk,
   sealed |-> [key |-> WrapKey(Initiated(IK(sh.by), EK(s), sh.bundle), sh.context),
               plain |-> sh.plain, intact |-> TRUE]]

(* deriveChunkNonce: HKDF of the key, the recording and the index. *)
ChunkNonce(key, recordingId, index) == <<key, recordingId, index>>

(* decryptMediaChunk of what chunk call i of share s stored. *)
Opens(s, i, fileKey, recordingId, index) ==
  /\ shares[s].chunks[i].key = fileKey
  /\ ChunkNonce(s, s, i) = ChunkNonce(fileKey, recordingId, index)

(***************************************************************************)
(* The scope                                                               *)
(***************************************************************************)
Parts(sh) == {sh.stage} \cup {sh.chunks[i].stage : i \in DOMAIN sh.chunks}

(* Mutant: the operation is returned, not awaited, so the wipe is early. *)
UnawaitedWipe(sh) ==
  [sh EXCEPT !.wiped = TRUE,
     !.scope = IF Parts(sh) = {"done"} THEN "returned"
               ELSE IF "failed" \in Parts(sh) THEN "thrown" ELSE @]

(* withSecureWipe awaits Promise.all: the first failure ends it, with the  *)
(* other calls in flight; so does the success of them all.                 *)
WithSecureWipe(sh) ==
  IF sh.scope = "open" /\ "failed" \in Parts(sh)
  THEN [sh EXCEPT !.scope = "thrown", !.wiped = TRUE]
  ELSE IF sh.scope = "open" /\ Parts(sh) = {"done"}
  THEN [sh EXCEPT !.scope = "returned", !.wiped = TRUE]
  ELSE sh

Init ==
  /\ shares = [s \in Shares |-> Idle]
  /\ unwraps = [u \in Unwraps |-> Idle]
  /\ wiped = {} /\ held = {} /\ failures = 0

(* The bytes of the file key that a call reads now. *)
KeyBytes(s) == IF shares[s].wiped THEN Zero ELSE s

(* A bundle is fetched and verified, a fresh key is generated, and the     *)
(* calls are made; wrapKeyForRecipient runs initiateX3DH to its await, and *)
(* each encryptMediaChunk has hkdf copy the file key for the nonce.        *)
Share(s, by, context, bundle) ==
  /\ shares[s] = Idle
  /\ VerifySignedPreKey(bundle, IK(Recipient))
  /\ shares' = [shares EXCEPT ![s] = WithSecureWipe(
       [by |-> by, bundle |-> bundle, context |-> context,
        stage |-> IF MayInitiate(bundle) THEN "agree" ELSE "failed",
        plain |-> None,
        chunks |-> [i \in Indices[s] |-> [stage |-> "nonce", key |-> None]],
        scope |-> "open", wiped |-> FALSE])]
  /\ held' = held \cup ({s} \X IF MayInitiate(bundle) THEN InitiatorBuffers ELSE {})
                  \cup ({s} \X IF Indices[s] # {} THEN {"fileKeyCopy"} ELSE {})
  /\ UNCHANGED <<unwraps, wiped, failures>>

(* The buffers held after a wrap or unwrap call went on to a stage. *)
Holding(call, stage, next) ==
  (held \ ({call} \X WipedBetween(stage, next))) \cup ({call} \X MadeAt(next))

(* An await of wrapKeyForRecipient settles.  keyBytes is read only as the  *)
(* call reaches its cipher.                                                *)
WrapStep(s) ==
  /\ shares[s] # Idle /\ shares[s].stage \in Pending
  /\ LET next == Then[shares[s].stage]
         sh == [shares[s] EXCEPT !.stage = next,
                  !.plain = IF next = "cipher" THEN KeyBytes(s) ELSE @]
     IN /\ shares' = [shares EXCEPT ![s] = WithSecureWipe(sh)]
        /\ held' = Holding(s, shares[s].stage, next)
  /\ UNCHANGED <<unwraps, wiped, failures>>

(* An await of encryptMediaChunk settles.  The nonce was derived from the  *)
(* key at the call; importAeadKey reads the key only now.                  *)
ChunkStep(s, i) ==
  /\ shares[s] # Idle /\ shares[s].chunks[i].stage \in Pending
  /\ LET next == Then[shares[s].chunks[i].stage]
         sh == [shares[s] EXCEPT !.chunks[i] =
                  [stage |-> next, key |-> IF next = "import" THEN KeyBytes(s) ELSE @.key]]
     IN shares' = [shares EXCEPT ![s] = WithSecureWipe(sh)]
  /\ UNCHANGED <<unwraps, wiped, held, failures>>

(* The platform rejects. *)
WrapFails(s) ==
  /\ shares[s] # Idle /\ shares[s].stage \in Pending
  /\ failures < MaxFailures /\ failures' = failures + 1
  /\ shares' = [shares EXCEPT ![s] = WithSecureWipe([@ EXCEPT !.stage = "failed"])]
  /\ held' = Holding(s, shares[s].stage, "failed")
  /\ UNCHANGED <<unwraps, wiped>>

ChunkFails(s, i) ==
  /\ shares[s] # Idle /\ shares[s].chunks[i].stage \in Pending
  /\ failures < MaxFailures /\ failures' = failures + 1
  /\ LET sh == [shares[s] EXCEPT !.chunks[i] = [stage |-> "failed", key |-> @.key]]
     IN shares' = [shares EXCEPT ![s] = WithSecureWipe(sh)]
  /\ UNCHANGED <<unwraps, wiped, held>>

(***************************************************************************)
(* The recipient                                                           *)
(***************************************************************************)
AsSent(s) == [envelope |-> Envelope(s), context |-> shares[s].context,
              spk |-> shares[s].bundle.spk]

(* What unwrapKeyForMe may be given for share s: the envelope, its context *)
(* and the signed pre-key of the bundle, or these with one thing changed.  *)
Arrivals(s) ==
  LET e == Envelope(s)
      sent == AsSent(s)
      Field(x) == [sent EXCEPT !.envelope = x]
  IN {sent, Field([e EXCEPT !.v = 2]), Field([e EXCEPT !.sealed.intact = FALSE])}
       \cup {Field([e EXCEPT !.initiator = k]) : k \in {IK(u) : u \in Users} \cup {BadPoint}}
       \cup {Field([e EXCEPT !.ephemeral = k]) : k \in {EK(t) : t \in Shares} \cup {BadPoint}}
       \cup {Field([e EXCEPT !.otkId = k]) : k \in OtksOf(Recipient) \cup {None}}
       \cup {[sent EXCEPT !.context = c] : c \in Contexts}
       \cup {[sent EXCEPT !.spk = SPK(Recipient, n)] : n \in Batches}

Secret(e, spk, otk) ==
  Completed(IK(Recipient), spk,
            IF otk \in wiped THEN Zero ELSE otk, e.initiator, e.ephemeral)

(* Mutant: the one-time pre-key is left as it is. *)
WipedNever(otk, reached) == {}

(* completeX3DH wipes the one-time pre-key as soon as its DH has run. *)
WipedAtOnce(otk, reached) == IF reached THEN {otk} ELSE {}

(* unwrapKeyForMe up to its first await: the version, completeX3DH's       *)
(* guards, the conversion of the initiator's key (before the try), the     *)
(* four DHs, and the wipe of the one-time pre-key after the fourth.        *)
UnwrapKeyForMe(u, s, given) ==
  /\ unwraps[u] = Idle
  /\ LET e == given.envelope
         found == e.v = 1 /\ e.otkId \in OtksOf(Recipient)
         converted == found /\ ~Throws(e.initiator)
         agreed == converted /\ ~Throws(e.ephemeral)
     IN /\ unwraps' = [unwraps EXCEPT ![u] =
             [share |-> s, given |-> given,
              stage |-> IF agreed THEN "agree" ELSE "failed",
              key |-> IF agreed
                      THEN WrapKey(Secret(e, given.spk, e.otkId), given.context)
                      ELSE None,
              spent |-> e.otkId \in wiped, rejected |-> FALSE]]
        /\ wiped' = wiped \cup WipedAtOnce(e.otkId, agreed)
        /\ held' = held \cup ({u} \X IF agreed THEN RecipientBuffers
                                     ELSE IF found /\ ~converted THEN {"ikB_x"} ELSE {})
  /\ UNCHANGED <<shares, failures>>

(* decryptAead *)
Decrypts(key, sealed) == sealed.intact /\ sealed.key = key

UnwrapStep(u) ==
  /\ unwraps[u] # Idle /\ unwraps[u].stage \in Pending
  /\ LET uw == unwraps[u]
         next == IF uw.stage = "cipher" /\ ~Decrypts(uw.key, uw.given.envelope.sealed)
                 THEN "failed" ELSE Then[uw.stage]
     IN /\ unwraps' = [unwraps EXCEPT ![u].stage = next]
        /\ held' = Holding(u, uw.stage, next)
  /\ UNCHANGED <<shares, wiped, failures>>

UnwrapFails(u) ==
  /\ unwraps[u] # Idle /\ unwraps[u].stage \in Pending
  /\ failures < MaxFailures /\ failures' = failures + 1
  /\ unwraps' = [unwraps EXCEPT ![u].stage = "failed", ![u].rejected = TRUE]
  /\ held' = Holding(u, unwraps[u].stage, "failed")
  /\ UNCHANGED <<shares, wiped>>

Next ==
  \/ \E s \in Shares, by \in Users \ {Recipient}, c \in Contexts,
        b \in Answers(Recipient) : Share(s, by, c, b)
  \/ \E s \in Shares : WrapStep(s) \/ WrapFails(s)
  \/ \E s \in Shares : shares[s] # Idle /\
        \E i \in Indices[s] : ChunkStep(s, i) \/ ChunkFails(s, i)
  \/ \E u \in Unwraps, s \in Shares :
        /\ shares[s] # Idle /\ shares[s].scope = "returned"
        /\ \E given \in Arrivals(s) : UnwrapKeyForMe(u, s, given)
  \/ \E u \in Unwraps : UnwrapStep(u) \/ UnwrapFails(u)

Spec == Init /\ [][Next]_vars

(***************************************************************************)
(* Properties                                                              *)
(***************************************************************************)
Begun(u) == unwraps[u] # Idle
Opened(u) == Begun(u) /\ unwraps[u].stage = "done"
Copies == {"ikmCopy", "secretCopy", "fileKeyCopy"}
Buffers == {"ek", "ikB_x", "dh", "ikm", "sharedSecret", "wrapKey"} \cup Copies

(* The type invariant of the calls and their buffers. *)
TypeOK ==
  /\ \A s \in Shares : shares[s] # Idle =>
       /\ shares[s].stage \in Pending \cup Settled
       /\ shares[s].plain \in {None, s, Zero}
       /\ shares[s].scope \in {"open", "returned", "thrown"}
       /\ shares[s].wiped = (shares[s].scope # "open")
       /\ \A i \in Indices[s] : /\ shares[s].chunks[i].stage \in Pending \cup Settled
                                /\ shares[s].chunks[i].key \in {None, s, Zero}
  /\ \A u \in Unwraps : Begun(u) => unwraps[u].stage \in Pending \cup Settled
  /\ wiped \subseteq OtksOf(Recipient)
  /\ held \subseteq (Shares \cup Unwraps) \X Buffers
  /\ failures \in 0..MaxFailures

(* unwrapKeyForMe returns only the file key of the share the envelope was  *)
(* made for, from the initiator it names, unchanged, in its own context    *)
(* and with the signed pre-key of the bundle used.                         *)
UnwrappedIsGenuine ==
  \A u \in Unwraps : Opened(u) =>
    LET s == unwraps[u].share IN
    /\ unwraps[u].given = AsSent(s)
    /\ shares[s].plain = s

(* A one-time pre-key opens one envelope, though a server answers the same *)
(* bundle twice, an envelope arrives twice, and the calls overlap.         *)
OtkOpensOnce ==
  \A u, w \in Unwraps : Opened(u) /\ Opened(w) /\ u # w =>
    unwraps[u].given.envelope.otkId # unwraps[w].given.envelope.otkId

(* An envelope made from a published bundle and arriving as it was sent    *)
(* opens for the recipient who gives the right context and pre-key, unless *)
(* the one-time pre-key is spent or the platform rejects.                  *)
GenuineOpens ==
  \A u \in Unwraps :
    /\ Begun(u)
    /\ unwraps[u].given = AsSent(unwraps[u].share)
    /\ shares[unwraps[u].share].bundle \in Published(Recipient)
    /\ ~unwraps[u].spent /\ ~unwraps[u].rejected
    => unwraps[u].stage # "failed"

(* A wrap or unwrap call that settled, at whatever stage it failed, leaves *)
(* of its secret buffers only the copies hkdf made of the key material,    *)
(* which nothing wipes, and, when the initiator's key does not convert,    *)
(* the Montgomery copy of the recipient's identity key.                    *)
OnlyCopiesOutlive ==
  /\ \A s \in Shares : shares[s] # Idle /\ shares[s].stage \in Settled =>
       \A h \in held : h[1] = s => h[2] \in Copies
  /\ \A u \in Unwraps : Begun(u) /\ unwraps[u].stage \in Settled =>
       \A h \in held : h[1] = u =>
         \/ h[2] \in Copies
         \/ unwraps[u].given.envelope.initiator = BadPoint /\ h[2] = "ikB_x"

(* When the scope of a share returns, the envelope carries the file key    *)
(* and each chunk opens under it in its place: nothing was made from the   *)
(* wiped buffer.                                                           *)
StoredFilesOpen ==
  \A s \in Shares : shares[s] # Idle /\ shares[s].scope = "returned" =>
    /\ shares[s].plain = s
    /\ \A i \in Indices[s] : Opens(s, i, s, s, i)
=============================================================================
