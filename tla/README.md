# me2em-protocol: formal model

TLA+ modules, TLC instances and TLAPS proofs about the packages of this
repository: `packages/core` (identities, attestations, sessions),
`packages/crypto` (X3DH, encrypted channels, envelopes), `packages/react`
(provider, hooks, context storage) and `packages/solana` (payment adapter).
Paths below are relative to `src/packages/`.

    tlc -workers 2 -config protocol.cfg MCProtocol.tla   # a run
    tlapm Protocol_proofs.tla                            # a proof module

## 1. The system

A root **Identity** derives **Handles**, a Handle derives **SubHandles**; every
one holds an Ed25519 key. Derivation is deterministic, so a path names a key.
A root *attests* a handle, a handle attests a sub-handle: an attestation is a
signed token with a grant (scopes, audiences, longest session, names the
subject may attest in its turn). A Handle or SubHandle *creates a session*, a
token signed with its own key. A verifier that holds the identity checks a
session *statelessly*; one that holds only the root public key checks it
*attested*, with the chain of attestations. Both may ask a revocation store.

Two parties with a shared secret (X3DH) *establish a channel*, encrypt under
per-message keys, reject duplicates in a sliding window, *rotate* to the next
epoch and *destroy*. The React package keeps one identity in a provider,
stores an encrypted context per identity and renews sessions on timers.

### Inventory

| component | source | state it keeps | operations | what is hard | what makes it correct |
|---|---|---|---|---|---|
| session verification | `core/src/session.ts`, `attestation.ts`, `errors.ts` | none; waits up to three times for the revocation checker | `verifyStateless`, `verifyAttested` | answers interleave with revocation; `now` is captured once; clocks differ; chains are assembled by the presenter | accepted ⇒ granted and created; revoked before ⇒ refused; issued within the grants ⇒ accepted; always decided |
| issuance | `core/src/identity.ts`, `handle.ts`, `attestation.ts`, `session.ts` | private key until `dispose()` | `derive*`, `attest*`, `Attestation.issue`, `Session.create`, `dispose` | `dispose()` during the await of `attest*` | nothing signed with a disposed key |
| channels | `crypto/src/channels/*` | root of the epoch, replay window, in a WeakMap | `establish`, `encrypt`, `decrypt`, `rotate`, `destroy` | awaits between check and record; headers are not authenticated; lossy network; rotate or destroy during a call | window = most recently recorded; failures leave no trace; no recorded sequence again; what is delivered was encrypted in the epoch |
| payment registry, wallet bindings | `core/src/payment.ts`, `wallet-binding.ts`, `solana/src/register.ts` | adapter per chain; wallet per entity instance and chain | register, its disposer, lookup, bind, resolve | overlapping registrations and disposers; a binding outlives a refused attestation | a disposer removes only its own record; an address confirmed for one entity |
| X3DH, key wrapping, media chunks | `crypto/src/x3dh`, `envelopes/*`, `core/wipe.ts` | one-time pre-keys of the recipient; secret buffers of calls in flight | bundle, initiate, complete, wrap, unwrap, chunks, the wiping scope | keys are wiped while calls that use them may be in flight; repeated, damaged, replayed envelopes | both sides agree; a one-time key opens once; nothing is sealed under a wiped key; the buffers of the protocol are wiped on every exit path |
| provider and flows | `react/src/react/Me2emProvider.tsx`, `useCreateIdentity.ts`, `useImportSeed.ts` | current identity, status, generation | activate, create, import, reset, unmount | overlapping asynchronous activations | newest wins; losers disposed; reset is final |
| sessions in React | `react/src/react/useSession.ts`, `useHandle.ts`, `useSubHandle.ts` | session, renewal timer | create, renew, revoke, unmount | timers against re-issue and handle change | session belongs to the current handle; one timer |
| identity context | `react/src/headless/identity-context-storage.ts`, `react/src/react/useIdentityContext.ts` | database, key cache, hook state | open, save, load, clear, refresh | overlapping operations of two identities | context shown, stored and encrypted belongs to one identity |
| seed screens | `react/src/headless/*-flow.ts`, `seed-words.ts`, `react/src/react/Seed*.tsx` | display, grid and import state | reveal, copy, select, check, retry, type | the clipboard answers after the screen moved on; effects dispatch after the commit | copied once; the verdict is right and given once; a valid phrase is reported |
| Solana wallet tree | `solana/src/wallet-tree.ts`, `crypto/src/core/slip10.ts` | the master node; the paths the application stored | derive, next index | boundary of the index range; a restart between derive and store | an index is never reused |
| primitives, names, seeds, encodings | `core/src/crypto`, `crypto/src/core`, `kdf`, `canonical-name.ts`, `seed.ts`, `solana/src/url.ts` | none | pure functions over bytes | | contracts used by the models |

`PROJECT.json` lists every component with its status, and under "hazards" the
points where these components are hard to test, line by line.

## 2. What is modelled

Core protocol (`core`):

| module | models | variables |
|---|---|---|
| `Credentials` | grants, attestations, session tokens; the checks of verification as lists of errors in the order of the code | none |
| `Issuance` | Identity, Handle, SubHandle: `attest*`, `Attestation.issue`, `Session.create`, `dispose` | `now`, `drift`, `live`, `pending`, `atts`, `sess` |
| `Verification` | `verifyStateless` and `verifyAttested`, revocation store and checker | `ver`, `revoked`, `known` |
| `Authorization` | abstract: what a verification promises those who rely on it | `atts`, `sess`, `drift`, `revoked`, `request` |
| `Protocol` | both together, and the presenter that assembles and alters tokens; the properties and the refinement mapping | |
| `MCProtocol` | the instance | |
| `Protocol_proofs` | theorems | |

Channels (`crypto/src/channels`):

| module | models | variables |
|---|---|---|
| `Channel` | the five operations, calls in flight, the network; the properties | `chan`, `calls`, `wire`, `recorded`, `delivered` |
| `ReplayProtection` | abstract: what an endpoint promises an application | `endpoint`, `sent` |
| `SerialChannel` | the same used one call at a time; the refinement mapping | |
| `MCChannel` | the instances | |
| `Channel_proofs` | theorems | |

Provider and flows (`react/src/react`):

| module | models | variables |
|---|---|---|
| `Provider` | `Me2emProvider`: activate, clear, unmount; the refinement mapping | `gen`, `current`, `acts`, `live`, `mounted` |
| `IdentitySlot` | abstract: what whoever activates an identity is promised | `begun`, `open`, `eligible`, `slot`, `keys`, `told` |
| `Onboarding` | `useCreateIdentity`, `useImportSeed` and `identityFlowReducer` over it; the properties | `derivations`, `create`, `import`, `seen` |
| `MCOnboarding` | the instance | |
| `Onboarding_proofs` | theorems | |

Identity context (`react/src`):

| module | models | variables |
|---|---|---|
| `ContextStorage` | `IdentityContextIDBStorage`: connection, cache key, one database per identity, calls in flight | `store`, `disk`, `calls` |
| `PerIdentityStore` | abstract: what an application that awaits its calls is promised | `user`, `at`, `cell`, `call`, `shown`, `misused` |
| `IdentityContext` | `useIdentityContext` over it; the properties and the refinement mapping | `identity`, `pending`, `prev`, `context`, `isLoaded`, `failed` |
| `MCIdentityContext` | the instances | |
| `IdentityContext_proofs` | theorems | |

Key wrapping and media chunks (`crypto/src/x3dh`, `envelopes`):

| module | models | variables |
|---|---|---|
| `X3DH` | key pairs, bundles and the four Diffie-Hellman secrets of both sides, symbolically | none |
| `Envelopes` | `withSecureWipe` around `wrapKeyForRecipient` and `encryptMediaChunk`; `unwrapKeyForMe`; the network; the properties | `shares`, `unwraps`, `wiped`, `held`, `failures` |
| `MCEnvelopes` | the instance | |
| `Envelopes_proofs` | theorems | |

What an application drives (`react/src`, `core/src/payment.ts`, `solana/src`):

| module | models | variables |
|---|---|---|
| `UseSession` | `useHandle` (`useSubHandle` is the same hook) feeding `useSession`: commits, derivations, creations, timers, visibility, the clock | `source`, `deriving`, `handle`, `rendered`, `session`, `creating`, `timers`, `timerRef`, `now`, ... |
| `UseSession_proofs` | theorems | |
| `Slip10` | hardened derivation, payment paths, the next index | none |
| `Wallets` | adapter registry, wallet bindings, and the allocation of wallets through attestations | `registry`, `regs`, `treeLive`, `old`, `stored`, `bound`, `allocs`, `restarts` |
| `Wallets_proofs` | theorems | |
| `SeedScreens` | display, verification and import: reducers with the components that drive them | `display`, `verify`, `import` |
| `SeedScreens_proofs` | theorems | |
| `MCApp` | the instance: the parts above as alternatives | `part` |

### How state and actions correspond to the code

**Keys.** A key is its derivation path, `<<root>>`, `<<root, handle>>` or
`<<root, handle, sub>>`. The path stands for the private key, the public key
and the id. `signer` of a credential is the key its signature verifies under,
`NoKey` after it was altered. So signatures are unforgeable and derivation is
free of collisions: the contracts of Ed25519 and HKDF, assumed.

**Grants.** A missing list means "unrestricted" in the code and is the full
set; an empty list means "deny all" and is the empty set. `subNames` is the
set of names the patterns match.

**Checks.** The code throws at the first check that fails. A list of checks is
the sequence of the errors of those that fail, so `<<>>` means all hold and
`Head` is what is thrown; `Require` builds the list, and code and level are
those of `AttestationError`. Every check keeps its place in the order.

**Atomicity.** An `async` function runs without interruption up to its next
await that really waits.

* `attestHandle`/`attestSubHandle` check for disposal, wait for the child's
  derivation (`StartAttest`), then sign (`FinishAttest`), where `sign` checks
  again (`AbortAttest` if it fails). `Attestation.issue` and `Session.create`
  read the clock, build and sign before they first wait: single steps.
* A verification waits for the checker after the root attestation, after the
  handle attestation and after the session's own checks: `Begin`,
  `RootAnswer`, `HandleAnswer`, `SessionAnswer`. The awaits of the signature
  checks between them read only immutable tokens and are part of the step.
  `CheckerFails` is the checker's promise rejecting.
* `decryptChannelMessage` takes hold of the internals, compares the epoch and
  looks the sequence up (`BeginDecrypt`); it waits for the key and for the
  decryption, then records (`Deliver`) or throws (`Reject`).
  `rotateChannel` is `BeginRotate`, `FinishRotate`. `encryptChannelMessage`
  reads nothing after it first waits, so it is one step. `destroyChannel` is
  synchronous. A dead object's internals are still held by calls in flight:
  `live` becomes FALSE but the window stays.

* The storage and the hook run on one event loop. A call is a record in `calls`
  whose `stage` says what it waits for: an open request, the persisted key, an
  encryption, its transaction, a decryption. A step carries it to the next
  such wait; the microtasks between (`await this.getDb()`) belong to the step.
  A settled call is continued (`Commit`, `Drop`, `Fail`) before any other
  event. Rendering an identity and running its effect are two steps, so a call
  may settle in between. IndexedDB runs a database's transactions in the order
  of their creation, also those of a connection that was closed since.
* The n-th call holds ticket n: every load, save, clear and refresh takes one,
  so the newest ticket is that of the last call.

* `Identity.fromSeed` derives before it first waits, so an activation has its
  object, or failed, when `activateIdentity` returns; what follows its await is
  a microtask (`Settle`), run in order before any render or any slow
  derivation's end, while the application may call more in the same task. The
  rest of `confirmWords` is part of the same step. The n-th activation stands
  for its object, `live` holds the objects not disposed. The reducers are kept
  as dispatched; `seen` is what `confirmWords` closed over at the last render.

* A share is one file: a record with the stage of its wrap call and of each
  chunk call, named for the await that is pending (`agree`, `derive`, `import`,
  `cipher`, for chunks first `nonce`). `KeyBytes` is what a call reads from the
  key buffer at that stage: the key, or zeros once the scope was left.
  `WithSecureWipe` ends the scope in the same step in which `Promise.all`
  settles. `unwrapKeyForMe` runs to its first await in one step, the version
  check, the guards and the four secrets of `completeX3DH` and the wipe of the
  one-time pre-key included.
* `held` has the secret buffers that exist. `MadeAt` says what a call makes as it
  enters a stage, `WipedBetween` what its finally blocks wipe on leaving one.
  The copies that `hkdf` hands to the platform (`core/hkdf.ts:13-18`, `:56`) are
  buffers like the others, and no finally block knows them.
* In `UseSession`, derivations and `Session.create` settle in microtasks; a
  failure comes at any time. A commit of React may come between them; timers,
  visibility events and the clock come when no microtask is left. `renew` is a
  closure over the handle and the `autoRenew` of its commit and may be called
  late: timers carry theirs, `Session.create` in flight too. `Schedule` has
  the arithmetic of `useSession.ts`: seconds to milliseconds, half the rest of
  the lifetime, a second at least, and `setTimeout`'s limit.
* A click or a key is committed before the next; what an effect dispatches is
  committed in a step of its own (`Check`, `CheckWords`), and a clipboard
  write answers at any time. `DerivePath` keeps the indices a node was derived
  with, hardening bit included; `Allocate` runs `nextIndex` and `deriveWallet`
  in one step, as the code does.

**The application** of `useIdentityContext` uses the callbacks of the last
render, saves data of the current identity and gives the storage that
identity's key once the effect has run; it may begin anything while a call is
in flight.

An application that allocates wallets reads the paths it stored, derives,
binds, attests and stores, with a restart or a refusal anywhere between.

**The network.** Presenters combine any signed session with any chain of up to
two signed attestations, at most one credential altered. The channel network
keeps every ciphertext for ever and delivers any of them, or one that opens
under no key, with any epoch and any sequence in the header, any number of
times, in any order, or not at all: the header is no part of what `decryptAead`
authenticates. A pre-key server answers any
published bundle, an old one again, or one with a field of somebody else's; an
envelope reaches `unwrapKeyForMe` as it was sent or with one thing changed, any
number of times.

**Numbers.** `SeqMod` stands for 2^32, to which `setUint32` reduces the
sequence in the key derivation, so that sequences equal modulo `SeqMod` have
one key; `WindowSize` for 1000; `Skew` for 30 s; `MaxPlainIndex` for 2^31 - 1; `Second`
for 1000 ms; `MaxDelay` for 2^31 - 1 ms.

**History variables.** `known[v]` is the revocation store as it was when `v`
began; `recorded`, `delivered` are what entered the windows and what was
returned; `renders` counts the changes of identity; `overlapped` says whether
anything was begun while a call was in flight (in `SeedScreens`: copy was
clicked during a write); `strayed` of `UseSession` says that the handle went away
during a creation, that the newest creation failed while an older one was in
flight, or that a timer renewed a handle no longer rendered; `late` that a
creation succeeded although a later one was in flight or the handle had changed;
`spent` and `rejected` of an unwrap call say what it met; `verdicts`,
`imported`, `written` what was reported. No action reads them, except
that `MaxDelivered` and `MaxRenders` bound two.

## 3. Runs

| run | shows | size |
|---|---|---|
| `protocol` | below | 588,701 states, ~100 s |
| `protocol_audience` | violation: audiences are not contained along the chain | |
| `channel` | below | 889,401 states, ~60 s |
| `channel_serial` | `Channel` used serially implements `ReplayProtection` | 163,857 states, ~60 s |
| `channel_replay` | violation: overlapping decrypts of a duplicate both deliver | |
| `onboarding` | below | 526,166 states, ~18 s |
| `context` | below | 2.2 M states, ~55 s |
| `envelopes` | below | 599,051 states, ~60 s |
| `app` | below | 1.1 M states, ~105 s |
| `context_isolation` | violation: one identity's key or data in the other's database | |
| `context_stale` | violation: a refresh overwrites a newer save | |
| `context_logout` | violation: a refresh brings a removed identity's context back | |

### `protocol`

* `AcceptedIsGranted` – an accepted session was created by the key it names,
  within a grant that the verifier's root signed for it.
* `RevokedIsRefused` – nothing revoked when a verification began is accepted.
* `AskedIsAuthentic` – the store is asked only about credentials whose
  signature held (an unauthenticated presenter cannot query it).
* `HonestIsAccepted` – what the library issues within the grants above it is
  refused only for revocation, expiry or a failing checker, with clocks up to
  `Skew` apart.
* `DisposedNeverSigns` – an action property over signing.
* `KeepsPromise` – every request is decided as `Authorization` decides it, in
  one step that reads what is signed and revoked then: the step in which it is
  decided. Nothing is accepted that is not granted in that step or was revoked
  before the request; `REVOKED` is only answered if one of the request's
  credentials is in the store then; and no answer is ever taken back.
* `EveryVerificationIsDecided` – liveness.

Bounds: two roots, one handle and one sub-handle below the first, two
attestations, one session, one revocation, one disposal, one `attest*` in
flight, two seconds. Requests include a narrow and a wide grant at each level,
an attestation issued ahead of time, one that expires when it begins, one that
attests the wrong key for a sub-handle's name; services include one that
trusts the other root, and one without a checker. That is enough for every error but those of form:
chains have two levels at most in the code, verifications share only the
revocation store so one verifier meets everything two would, and expiry,
skew and the minimum of two expiries need two seconds on a skew of one.
`MCNext` states its reductions: issuers finish first, since a verification
reads only what was signed before it; the clock moves while a verification is
left to begin, since only its beginning reads it; attested verification begins
with nothing disposed, since disposal takes no credential back. An issuer
whose clock is behind is the same as one whose clock is right some time ago,
so the instance's only drift is ahead.

Fairness: weak fairness of `AnswerStep`. The event loop runs what is ready, and
the checker's promise is assumed to settle, by an answer or a rejection;
the code sets no timeout, so a checker that never answers leaves the
verification pending. Nobody is obliged to start anything.
The system may stop when all is signed and decided, so deadlock is not
checked; in `channel` likewise when all channels are dead.

### `channel`

* `WindowIsRecent` – the window is exactly the most recently recorded
  sequences in order, under any overlap.
* `WindowHoldsDelivered` – failures consume no slot, also when the window was
  cleared by `destroyChannel` under the call.
* `RecordedIsNotReplayed` – a sequence that was in the window when a call began
  is not delivered by it.
* `DeliveredIsAuthentic` – whatever the network writes into the headers, what is
  delivered was encrypted in the endpoint's own epoch, under a sequence equal to
  the one delivered modulo `SeqMod`. The sequence itself is not promised: a
  message renumbered by `SeqMod` opens (section 4).

Bounds: one role (both endpoints run the same code and derive the same keys,
so it receives its own messages), two objects (one rotation), two calls, three
sequences in a window of two with keys modulo two, three deliveries per
object and five in all (`MaxInAll`): the window overflows, slides, meets a sequence again after its
eviction, and two sequences share a key. Symmetric in objects and calls.
`MCChannel` states the reductions. `InOrder`: the application numbers its messages
in order and below `SeqMod`, since the network reorders and renumbers them
anyway. `OneFailure`: a ciphertext that will not open under its header is
refused like any other, so one that opens under no key stands for them all.

### `channel_serial`

`ReplayProtection` has one endpoint per role: new, open with an epoch and a
log, or closed. Delivering a sequence requires that one equal to it modulo
`SeqMod` was sent in this epoch and that it is not itself among the last
`WindowSize` of the log; that one message is delivered once, it does not say.
With one of two calls in
flight at a time, both roles, three objects and a window of one, every step of
`Channel` is a step of it or a stutter; section 5 proves it for any number. The
instance does deliver more than was sent: sequence 0 encrypted, 0 and 2
delivered. Reductions and symmetry as in `channel`.
With overlap this fails, see below.

### `onboarding`

* `KeysAreOwned` – an identity object that was not disposed is the provider's,
  or its activation is yet to settle.
* `NewestWins` – the provider's identity was begun after the last clear, and
  nothing begun later has succeeded.
* `UnmountZeroes` – after the unmount, no settled activation leaves a key,
  except one that an import still deriving its seed began afterwards.
* `VerifiedIsActivated` – a flow is not verified unless the activation of its
  own seed succeeded or is yet to be decided, whatever the other hook and the
  application do; if confirmations wait for the render of what they confirm.
* `KeepsPromise` – refinement: however all of this overlaps, the provider
  implements `IdentitySlot`: an activation is decided once, in one step. It
  takes the slot, and its caller is told so, only if none was begun and nothing
  was cleared or unmounted since; else it leaves no key behind. Its mutant is a
  clear that does not advance the ticket.

Bounds: four tickets (activations and clears) and two slow derivations: two
activations that overlap with a third or a clear, from both hooks. The theorems
have no such bound. It may stop when the bounds are used up, so deadlock is not
checked.

### `context`

* `CommitIsOwn` – once an identity's effect has run, what the hook shows is
  only changed by a call made for that identity, to data of that identity.
  This is what the tickets, the cancelled flag and the test of
  `data.identityId` achieve together, whatever overlaps.
* `IsolatedIfAwaited` – an application that begins nothing while a call is in
  flight never has data or a key of one identity in the other's database.
* `StoredIfAwaited` – nor is the hook ever out of step with what is stored,
  unless it reports an error; with failing requests.
* `LoadIsNoticed` – a load that nothing supersedes ends in `isLoaded`.
* `KeepsPromise` – for an application that begins nothing while a call is in
  flight, storage and hook implement `PerIdentityStore`: each call takes effect
  once, in one step, on the cell of the identity the storage is open for, or
  fails without a trace; a load shows what that cell holds, or nothing where
  there is no key to open it, and what is written is shown only to who wrote
  it. From the first overlap on nothing is promised (`Misuse`), which is where
  the three violations of this hook begin.

Bounds: two identities, each of which may have visited before or not; three
calls, two changes of identity (away and back, or away and gone). Three calls
are a load and two that overlap with it and with each other; the violations
below need no more. Identities are symmetric. The model may stop when the
bounds are used up, so deadlock is not checked; no liveness is stated, since
the code sets no timeout on IndexedDB.

### `envelopes`

* `StoredFilesOpen` – when the scope returns, the envelope carries the file key
  and every chunk opens in its place: nothing was made from the wiped buffer,
  in whatever order the calls of `Promise.all` settle.
* `UnwrappedIsGenuine` – `unwrapKeyForMe` returns nothing but the file key, from
  the initiator named, unchanged, in its own context, under the pre-key used.
* `OtkOpensOnce` – a one-time pre-key opens one envelope, though a server
  answers a bundle twice, an envelope arrives twice and the calls overlap.
* `GenuineOpens` – both sides derive the same key: what was made from a
  published bundle and arrives unchanged opens, unless its pre-key was spent or
  the platform rejects.
* `OnlyCopiesOutlive` – wherever a wrap or unwrap call failed or returned, its
  finally blocks wiped the ephemeral key, the secrets, the key material and the
  wrapping key; what remains are the copies `hkdf` made, and one more
  (section 4). Its mutant wipes on the way of the result only.

Bounds: two shares, one with two chunks and one without; two unwrap calls; two
batches of one pre-key each; two contexts; one rejection. Two chunks and the
wrap call meet a failed scope at every stage; two unwraps meet one pre-key
twice, in both orders of every stage; a second share lets an envelope be taken
for another's. `InTurn` states the reduction: shares touch no state of one
another, nor of the recipient, who only sees shares whose scope returned, so
they run one after the other and then the unwraps, which overlap. Contexts are
alike but for being equal, so shares use the first. Unwrap calls are
symmetric. The theorems have none of these bounds. It may stop when
every call has settled, so deadlock is not checked.

### `app`

Six parts of the client that share no state are alternatives of one run. Their
types are left to the theorems, which have no bounds.

* `HandleFollowsSource` – a mounted `useHandle` shows its source's handle once
  that is derived, whatever earlier derivations finish late.
* `HandleIsNeverStale` – an action property: also while a derivation is pending
  and after one failed, the handle only ever changes to that of the present
  source, and not after the unmount.
* `SessionFollowsHandle` – once no creation is in flight, the session shown is of
  the handle rendered, also after the handle changed or `renew` ran during
  creations; `strayed` says what is excepted (section 4). While one is in flight
  an earlier session is shown.
* `TimerIsOwn` – at rest no timer is pending but the session's own, at its
  half-life or later and before it ends, and none after the unmount; unless a
  creation that had been overtaken succeeded (`late`), whose timer is an orphan.
* `LastWins` – a chain's adapter is the one registered last, until that
  registration is disposed; no other disposer removes it.
* `IndexIsFresh`, `AddressHasOneOwner` – if allocations of a chain do not
  overlap and attestations carry their path, no payment path is given out
  twice, restarts and refusals between included, and no address is confirmed
  for two entities, though bindings to it may be.
* `CopiedOnce` – unless clicks overlap, the phrase is written once at most.
* `VerdictIsRight` – a grid has one verdict, for the cells as clicked, and can
  be solved, repeated words included.
* `ValidIsReported` – once its effects ran, the import screen has reported a
  valid phrase it shows, never the same twice in a row.

Bounds: two sources, three creations and five milliseconds of a clock where a
second is two, with lifetimes of two and four seconds: a renewal fires, overlaps
the next handle's, and the longer lifetime exceeds `setTimeout`'s limit of three.
Three registrations on two chains (a pair, one overwritten, one
disposed late). Two allocations, two entities, two stored attestations and one
restart; stores with holes, foreign paths and an index out of range. Phrases of
three words, one with a repetition, and two decoys; two grids. Mnemonics of
two words and screens of two and four, six inputs. Three copies. `MCApp` states
its reductions: the unused parts start in one way; wallets with one
registration, since an allocation reads only whose adapter its chain has; and
no allocation once the contract of `IndexIsFresh` is broken. Chains, entities
and allocations are symmetric. It may stop at these bounds, so deadlock is not
checked.

## 4. Where documentation and code part

* `THREAT_MODEL.md:76` and `:185` promise audience containment of nested
  grants, with `AUDIENCE_NOT_PERMITTED` at level `ROOT`. `session.ts:789-798`
  compares scopes and session length only; a handle may attest its sub-handle
  for any audience. Run `protocol_audience`.
* `message-keys.ts:122`: "A duplicate inside the window is rejected". The
  lookup at `:163` and the recording at `:181` are separated by awaits; two
  overlapping calls with one message both return it. Run `channel_replay`. The
  sentence fails for a client that awaits its calls, too, if a duplicate is the
  message and not the number in its header: `:163` compares the full number,
  `:42` derives the key from its residue modulo 2^32, `:177` authenticates no
  header, and nothing checks the range. So a message renumbered by 2^32 is
  returned again, under a sequence that was never sent. `ReplayProtection`
  therefore promises the residue only, and `ExactWithinSeqMod` says when the
  sequence is exact.
* `react/README.md:227` promises "full isolation between identities". Connection
  and cache key are fields of one object, set after awaits
  (`identity-context-storage.ts:64`, `:80`), and `save` reads them at different
  times (`:85`, `:90`). An open that succeeds late, after the identity changed,
  makes the next identity write to the previous one's database. Run
  `context_isolation`.
* `react/CHANGELOG.md:100-102`: "a stale resolution is dropped instead of
  clobbering newer state". `save` and `clear` do not compare their ticket, and
  a refresh begun during a save has a newer one than the save it overtakes.
  Run `context_stale`.
* `useIdentityContext.spec.tsx:98`, "without identity → context null": the effect
  that says so (`useIdentityContext.ts:51`) takes no ticket, so a refresh in
  flight still commits. Run `context_logout`.

Seen without a run of their own: `importWords` activates when its seed is
derived, also when `reset()` or the unmount came during the derivation
(`useImportSeed.ts:37-39`), so an identity returns after a reset, and a key stays
live after the unmount; it ignores what `activateIdentity` returns, so a flow may be
`imported` without an identity; `confirmWords` called twice before a render sets
the flow to `error` while the identity is active (`useCreateIdentity.ts:50-55`);
a first load superseded by a save, a clear or a
refresh, even a rejected one, leaves `isLoaded` false
(`useIdentityContext.ts:72`; excepted by `LoadIsNoticed`); a load that fails
after a change of identity leaves the previous identity's context shown beside
the error (`:77`); `identityId` is documented as base64url
(`identity-context-types.ts:3`) while the hook passes hex
(`useIdentityContext.ts:7`), so data saved as documented never loads.

In X3DH and envelopes: `protocol.ts:253-256` says that "every DH intermediate,
the IKM and the derived Montgomery copy" are wiped "on ALL exit paths", and
`key-wrapping.ts:90-92` the same of the shared secret. The buffers named there
are, but `hkdf` copies its key material into a new `ArrayBuffer` at every call
(`hkdf.ts:13-18`, `:56`) and nothing wipes it: a copy of the IKM, of the shared
secret and, for the nonces of chunks, of the file key stays behind each time. The recipient's
Montgomery key is made before the try (`:284`), so it
stays when the initiator's key does not convert (`:285`). `OnlyCopiesOutlive`
excepts these. The one-time pre-key is wiped before the envelope is
authenticated (`:308`), so a damaged first envelope makes the genuine one
unreadable (excepted by `GenuineOpens`: `spent`). `types.ts:19-20` says X3DH
works "without OTK consumption" while `protocol.ts:170` refuses a bundle
without one. When one call of a scope fails, the others go on with
a zeroed key: what they make is dropped only because the scope throws.
`importAeadKey` passes on `rawKey.buffer`, so a key that is a view of a larger
buffer is refused.

In the hooks: after a failed derivation `useHandle` keeps the previous handle
(`HandleFollowsSource` excepts it). `useSession.ts:52` ("all timers are cleaned
up") and `:162-163` ("cannot double-renew") do not hold when a creation succeeds
although `renew` ran again, or the handle changed, meanwhile: it sets a timer
whose id the next creation overwrites, which nothing clears, the unmount
included (`late` excepts it from `TimerIsOwn`). Such a timer later renews the
handle it was made for. `useSession.ts:27` says that the session is null "if no
handle or session creation failed": when the handle goes away during a creation,
the null set at `:115` is overwritten by the session created, and when the newest
creation fails while an older one is in flight, its null is too. These three are
what `strayed` excepts from `SessionFollowsHandle`. A lifetime over 49 days makes the delay exceed
`setTimeout`'s limit, so the timer fires at once, again and again (`:138`).

In payments: `payment.ts:244-247` says that a disposer removes nothing once a
later registration replaced the record; it compares adapters (`:268`), so it does
remove a later registration of the same object (excepted by `LastWins`).
`verifyWalletBinding` does not compare the chain, and a Solana address is the
same on every network. A binding stays after its attestation was refused, and
an attestation without its path makes `nextIndex` give the index out again.

In the seed screens: two clicks on copy before the first write is answered
write twice (`react/README.md:104-105`: "can copy them (allowed exactly once)"). A
grid is compared by cells, so a phrase with a repeated word is refused when its
equal words are clicked in the other order; the real words are always the first cells. `attempts` is 1 in every
`onFailed`, since a retry builds a new grid. The import screen checks on every
change, so it reports a phrase while the user may still be typing, and
twelve words with twelve erased fields make a valid screen of twenty-four.

## 5. Proofs

For all values of the constants, from the named assumptions on them (keys are
paths, requests and services are well typed, bounds are naturals, drifts lie
within the skew, the window has a slot, shares and unwrap calls have different
names, a second is no longer than `setTimeout` can wait, stored paths are
sequences of naturals, there is a valid phrase and none is empty, decoys are
words that no phrase has, `null` is no context, envelope, chain or address).
Each is an `ASSUME` of the module that declares the constant, and every run of
that module evaluates it.

`Channel_proofs`: `TypeCorrect`, `WindowCorrect`, `FailuresLeaveNoTrace`,
`NoReplayOfRecorded`, `Authenticity`. `WindowIsRecent` is inductive by the
lemma that sliding a window that is the recent part of a sequence gives the
recent part of the longer one. `RecordedIsNotReplayed` is not inductive: a
call in flight has to remember that its sequence was not recent when it began
and that `recorded` only grows, which is what `IInv` adds; authenticity
needs that what is on the wire is sealed under the key of its own epoch and
sequence (`WireIsSealed`) and that a call in flight holds a ciphertext of the wire or
one that opens under nothing; its header is anything. From the seal that opened
follow the epoch and the residue of the sequence, and no more; where the
sequences in use have different residues, the sequence too
(`ExactWithinSeqMod`, an assumption on the numbers of the headers as well as of
the sender, which the code does not enforce).

`SerialUseKeepsPromise` is the refinement of `ReplayProtection` by `SerialSpec`,
action by action. `SInv` says what makes the mapping work: each role has
at most one live object (`OneLive`), so `Current` is determined; a call in flight is the
only one and its object is live (`OneCall`, `CallIsLive`), so what its decrypt
looked up before the await still holds after it (`StillUnseen`); and what was
recorded is what was delivered (`LogIsRecorded`), so the window of the code
is the last `WindowSize` of the abstract log. `StillUnseen` is the conjunct that
overlapping calls break, which is the counterexample of `channel_replay`.

`Protocol_proofs`: `TypeCorrect`, `Soundness`, `Revocation`,
`CheckerIsAskedLast`, `DisposalIsFinal`. What is accepted is the work of four
steps, so `IInv` says for each stage what it has established: at
`rootAnswer` the root attestation is signed by the trusted root, at
`handleAnswer` the second by the first one's subject, at `sessionAnswer` the
nesting, the grant and the session's signature, and at each stage that the
jtis asked about so far were not in `known[v]`, which stays a subset of
`revoked`. `Presented` says that whatever is presented was signed as it
is or verifies under no key. Then a check that passes proves what it
tests (the `Require` lemmas), and each action carries one stage to the next.

`Completeness` is the converse: `CInv` adds that everything signed is well formed
and not from the future, and that what a stage of a genuine request threw
is excused. A session that is genuine lies within its grants, so every `Require`
whose condition is about signatures, names, nesting or audiences holds, and an
error can only be `REVOKED`, `EXPIRED`, or the checker's (`Harmless`).

`VerificationKeepsPromise` is the refinement of `Authorization` by `Spec`. The
mapping shows a verification that waits as one pending request (`Requests`);
so an answer either leaves the abstract state as it is, or decides. That the
deciding step is one `Authorization` allows follows from the three theorems
before, taken in the state after it (what is signed and revoked is the same
there), and from one more fact about each list of errors: the one thrown is
not `REVOKED`, or the checker is asked in this very step and one of the request's
credentials is in the store (`Truthful`; `Others` for the lists that ask nobody).
An answer of the checker that was not awaited would break it: the mutant.
The mapping needs no history beyond `known`, which becomes the request's
`before`.

`DecisionIsFinal` is the variant behind `EveryVerificationIsDecided`: a waiting
verification changes only by an answer, each leaves fewer to wait for
(`Left`, at most three), and one decided never changes again. What is left to TLC is
the step from there to liveness, which speaks of fairness and ENABLED.

The provers do not know that a string literal is in STRING, so `Codes` and
`Levels` are explicit sets.

`Onboarding_proofs`: `TypeCorrect`, `NoKeyIsLeaked`, `NewestActivationWins`,
`UnmountIsFinal`, `VerifiedHasIdentity`, `ProviderKeepsPromise`. `NewestWins` is not inductive: that the
winner is the newest rests on the tickets, which grow with the activations,
never exceed `gen`, and are below it for those begun before a clear; so a
ticket equal to `gen` is that of the last activation, begun since. That is
`TicketsInOrder`, the strengthening in `IInv`; `OnlyImports` says what may
still begin after the unmount.

`ProviderKeepsPromise` is the refinement of `IdentitySlot`, which has no tickets
and decides in any order: the slot is open to one activation or to none. The
mapping takes for it those unsettled whose ticket is `gen` (`Eligible`). By
`TicketsInOrder` an activation begun leaves only itself there (`BeginIs`), a
clear or the unmount nobody (`EmptyIs`), and settling takes out who settles
(`DecisionIs`); every step of the hooks is one of these or a stutter.

`IdentityContext_proofs`: `TypeCorrect`, `IsolationCorrect`, `StoredCorrect`,
`LoadCorrect`, `CommitCorrect`. `TypeOK` speaks of every queue, so `Queues` says
that the calls that wait are in their database's queue, once each.
`CommitIsOwn` and `LoadIsNoticed` hold under any overlap: `Owns` says that once the effect of an
identity has run, every call that may still commit (a load not cancelled, a
newest refresh) was made for that identity, and what it read is
its own; `Notices` that a newest load which has left no trace is still on its way.
The two that need awaited calls rest on `Alone`, which speaks only while
nothing overlapped: one call in flight, whose database, key and identity are
one, and a connection that is at that identity; `Shows` adds that the record behind
what is shown is stored, or that the call in flight is about to show another.

`ContextKeepsPromise` is the refinement of `PerIdentityStore` by `Spec`, action by
action. While nothing overlapped, `Alone` leaves one call in flight, the last,
so what the application asked is a function of it (`LastRequest`), and the
database it queued in, the key it took and the identity the object is open for are
one. So a read or write that ends is one step on that identity's cell, what
comes before (opening, the key, encryption, the queue) and after is a stutter,
and a rejection at any stage is `Fail`. No new invariant is needed.

`Envelopes_proofs`: `TypeCorrect`, `ScopeCorrect`, `UnwrapCorrect`,
`OneTimeCorrect`, `GenuineCorrect`, `BuffersCorrect`. For the sender, `ReadInTime`
says that in a scope not thrown what was read from the key is the key, and a
scope that returned has no call pending, so a share that can be unwrapped never
changes again (`SameShare`). For the recipient, `Agreed` ties the
key of a call to the four secrets of what it was given; since each of the four
determines a field of the envelope (`Agreement`, with DH an unordered pair),
decrypting implies that it is as it was sent and its pre-key was not wiped
(`OpensAsSent`). `FirstComesFirst` is the strengthening behind `OtkOpensOnce`: of
two calls on one pre-key one found it wiped, and zeros agree with no one.
`OnlyCopiesOutlive` follows from `HeldInv`, which bounds for each stage what a
call in it may hold (`MayHold`): what the stages so far made, less what their
finally blocks wiped.

`UseSession_proofs`: `TypeCorrect`, `HandleCorrect`, `HandleNeverStale`,
`SessionCorrect`, `TimerCorrect`. `SessionFollowsHandle` and `TimerIsOwn` are not
inductive, since they speak of the time at rest. `NewestIsRendered` adds that of
the creations in flight, however many, the newest is of the handle rendered, as
it is the last to commit; `NoTimerMeanwhile` that no timer is pending while one
is in flight, since `renew` clears the only one there was; so a created session
finds the place of the timer free.

`Wallets_proofs`: `TypeCorrect`, `RegistryCorrect`, `AllocationCorrect`,
`OwnershipCorrect`. `LastWins` speaks of
the last call that concerns a chain; that there is one, the greatest index in
`Calls(c)`, is what `RegistryInv` carries along. For `IndexIsFresh` the moment
that matters lies between `Allocate` and `Store`: `OneFreshPath` says that a
path derived and not yet stored is unused and alone on its chain. That the
index after the maximum of those used is itself unused (`NextIsFresh`) needs
that a bounded set of naturals has a maximum, by the well-foundedness of `<`.
`AddressHasOneOwner` needs besides that derivation is injective. A payment path
has four components, so the fold of `DerivePath` is unfolded four times
(`FoldOfFour`), without induction; `AddressInv` says that a stored attestation
with a path has the address derived along it, so that two
confirmed bindings of one address would be one path attested twice.

`SeedScreens_proofs`: `DisplayCorrect`, `VerificationCorrect`, `ImportCorrect`.
`DisplayInv` adds to `CopiedOnce` that writes in flight and writes done are
together at most one; `ImportInv` that the last report is `lastImported`, which is
why the comparison with it never swallows a phrase that was not reported.
`VerdictIsRight` is mostly about `buildVerificationGrid`: the n-th occurrence of
a word has an n-th cell, since the shuffle is a permutation and keeps the
number of occurrences (`GridHasAll`) and counting along the grid skips no
number (`PlaceOfCount`, again by a least element instead of an induction); two
places with one cell would have counted the same (`CellsAreDistinct`), and
without repeated words and decoys of the phrase no other cells spell it
(`OneWayToSpell`). `VerdictsInv` counts the verdicts against the grids.

The type invariants of `Onboarding`, `IdentityContext`, `UseSession` and
`Wallets` are theorems only (`TypeCorrect`); their runs check the other
properties.

Every invariant that a run checks is thus a theorem of its component's
specification, and so are the action properties and the four refinements.
`app` checks the components of `MCApp` as alternatives; the theorems speak of
each component by itself, without the bounds and reductions of `MCApp` and the
other instances. Only model-checked is `EveryVerificationIsDecided`: liveness
and ENABLED are outside the prover's reach. The violations are TLC's: a
counterexample is all there is to show.

## 6. Not modelled, and the plan

Token syntax and size limits; the derivation of passwords and channel keys;
canonical names (Unicode); the BIP39 checksum and word list, and the scores of
`validation/password.ts` (arithmetic on strings without state); Argon2 and the
identity hash; payment URLs and references; `PaymentProvider`, an interface that
nothing in the repository implements; `PassphraseInput`; `CLEAR_WORD` and
`RESET` of the display and import reducers, which no component dispatches;
StrictMode's second mount; several hooks on one storage object; the scripts that
write test vectors. `PROJECT.json` says which component each belongs to.

| step | module | composes with | abstract specification | run | theorems |
|---|---|---|---|---|---|
| done | `Credentials`, `Issuance`, `Verification`, `Protocol` | | `Authorization` | `protocol`, `protocol_audience` | eight, the refinement included |
| done | `Channel`, `ReplayProtection`, `SerialChannel` | | `ReplayProtection` | `channel`, `channel_serial`, `channel_replay` | seven, the refinement included |
| done | `ContextStorage`, `IdentityContext` | both | `PerIdentityStore` | `context`, `context_isolation`, `context_stale`, `context_logout` | six, the refinement included |
| done | `Provider`, `Onboarding` | both hooks on one provider | `IdentitySlot` | `onboarding` | six, the refinement included |
| done | `X3DH`, `Envelopes` | scope, both ends | | `envelopes` | six |
| done | `UseSession` | both hooks | | `app` | five |
| done | `Slip10`, `Wallets`, `SeedScreens` | | | `app` | seven |

Out of reach of the provers: general facts about recursive operators (that
hardened derivation is injective along paths of any length is an induction over
data).
