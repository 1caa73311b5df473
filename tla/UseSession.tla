----------------------------- MODULE UseSession -----------------------------
(***************************************************************************)
(* useHandle (useSubHandle alike) of @me2em/react, and useSession in a     *)
(* component below it.                                                     *)
(*                                                                         *)
(* The n-th source is the identity and names given to useHandle at its     *)
(* n-th change; 0 is no identity.  deriveHandle and Session.create settle  *)
(* in microtasks: in order when they succeed, at any time when they fail;  *)
(* React may commit in between.  Timers, visibility events and the clock   *)
(* wait until no microtask is left.                                        *)
(***************************************************************************)
EXTENDS Integers, Sequences, FiniteSets

CONSTANTS
  NoHandle,     \* null
  Second,       \* milliseconds in a second
  MaxDelay,     \* the largest delay setTimeout takes; a larger one fires at once
  Ttls,         \* session lifetimes the application asks for, in seconds
  MaxSources,   \* bound: changes of the identity or the names
  MaxCreates,   \* bound: calls of renew
  MaxNow        \* bound: the clock, in milliseconds

ASSUME UseSessionAssumption ==
  /\ NoHandle \notin Nat
  /\ Second \in Nat \ {0} /\ MaxDelay \in Nat /\ Second <= MaxDelay
  /\ Ttls \subseteq Nat \ {0}

ASSUME SessionBoundsAreNat == MaxSources \in Nat /\ MaxCreates \in Nat /\ MaxNow \in Nat

VARIABLES
  source,      \* what useHandle was last rendered with
  sources,     \* changes made
  deriving,    \* sources whose handle is being derived
  handle,      \* useHandle's state
  rendered,    \* [handle, auto]: what the last committed renew closed over
  auto,        \* the autoRenew argument
  ttl,         \* optionsRef.current.ttl
  session,     \* useSession's state
  shown,       \* the session of the last commit
  creating,    \* calls of Session.create in flight, oldest first
  creates,
  timers,      \* pending timeouts
  timerRef,
  mounted,
  now,
  failed,      \* history: the derivation for the current source failed
  strayed,     \* history: the newest session in the making is not of the handle rendered
  late         \* history: a creation that renew or the handle overtook succeeded

sessionVars == <<source, sources, deriving, handle, rendered, auto, ttl, session,
                 shown, creating, creates, timers, timerRef, mounted, now, failed,
                 strayed, late>>

hookVars == <<source, sources, deriving, handle, failed>>
timeVars == <<session, creating, creates, timers, timerRef, strayed, late>>

NoSession == [handle |-> NoHandle]
Larger(a, b) == IF a > b THEN a ELSE b

SessionInit ==
  /\ source = 0 /\ sources = 0 /\ deriving = {} /\ handle = NoHandle
  /\ auto \in BOOLEAN /\ ttl \in Ttls
  /\ rendered = [handle |-> NoHandle, auto |-> auto]
  /\ session = NoSession /\ shown = NoSession /\ creating = <<>> /\ creates = 0
  /\ timers = {} /\ timerRef = 0 /\ mounted = TRUE /\ now = 0
  /\ failed = FALSE /\ strayed = FALSE /\ late = FALSE

Microtasks == creating # <<>> \/ deriving # {}

(***************************************************************************)
(* useHandle                                                               *)
(***************************************************************************)
(* The identity or the names change; the cleanup of the last effect        *)
(* cancels its derivation.                                                 *)
SetSource(n) ==
  /\ mounted /\ sources < MaxSources /\ sources' = sources + 1
  /\ n \in {0, sources'}
  /\ source' = n /\ failed' = FALSE
  /\ IF n = 0 THEN handle' = NoHandle /\ deriving' = deriving
     ELSE handle' = handle /\ deriving' = deriving \cup {n}
  /\ UNCHANGED <<rendered, auto, ttl, shown, mounted, now>> /\ UNCHANGED timeVars

(* Mutant: no cancelled flag. *)
NeverCancelled(n) == FALSE

Cancelled(n) == n # source \/ ~mounted

Derived(n) ==
  /\ n \in deriving /\ \A m \in deriving : n <= m
  /\ deriving' = deriving \ {n}
  /\ handle' = IF Cancelled(n) THEN handle ELSE n
  /\ UNCHANGED <<source, sources, failed, rendered, auto, ttl, shown, mounted, now>>
  /\ UNCHANGED timeVars

(* The failure is logged; the handle stays as it was. *)
DeriveFails(n) ==
  /\ n \in deriving
  /\ deriving' = deriving \ {n}
  /\ failed' = (failed \/ ~Cancelled(n))
  /\ UNCHANGED <<source, sources, handle, rendered, auto, ttl, shown, mounted, now>>
  /\ UNCHANGED timeVars

(***************************************************************************)
(* useSession                                                              *)
(***************************************************************************)
(* Mutant: the pending timer is forgotten, not cleared. *)
Forgotten(pending) == pending

ClearTimer(pending) == {t \in pending : t.id # timerRef}

(* renew, of the closure it was created in.  A creation begun before goes  *)
(* on: without a handle nothing comes after it, and neither does the       *)
(* renewal of a handle no longer rendered.                                 *)
Renew(closure, pending) ==
  /\ timers' = ClearTimer(pending) /\ timerRef' = 0
  /\ strayed' = (strayed \/ closure.handle # rendered'.handle
                         \/ (closure.handle = NoHandle /\ creating # <<>>))
  /\ late' = late
  /\ IF closure.handle = NoHandle
     THEN /\ session' = IF mounted THEN NoSession ELSE session
          /\ UNCHANGED <<creating, creates>>
     ELSE /\ creates < MaxCreates /\ creates' = creates + 1
          /\ creating' = Append(creating, [closure |-> closure, ttl |-> ttl])
          /\ UNCHANGED session

(* A commit: the options are mirrored, and the effects of a renew that is  *)
(* new run it.                                                             *)
Commit(newTtl, newAuto) ==
  /\ mounted
  /\ ttl' = newTtl /\ auto' = newAuto
  /\ rendered' = [handle |-> handle, auto |-> newAuto]
  /\ shown' = session
  /\ <<ttl', auto', rendered', shown'>> # <<ttl, auto, rendered, shown>>
  /\ IF rendered' # rendered THEN Renew(rendered', timers) ELSE UNCHANGED timeVars
  /\ UNCHANGED hookVars /\ UNCHANGED <<mounted, now>>

Seconds(ms) == ms \div Second

HalfLife(expiresAt) == (expiresAt * Second - now) \div 2

Delay(ms) == IF Larger(ms, Second) > MaxDelay THEN 1 ELSE Larger(ms, Second)

(* setTimeout overwrites timerRef, whatever it held. *)
Schedule(call, expiresAt) ==
  IF call.closure.auto /\ HalfLife(expiresAt) > 0
  THEN LET id == CHOOSE i \in 1..Cardinality(timers) + 1 : \A t \in timers : t.id # i
       IN /\ timers' = timers \cup {[id |-> id, closure |-> call.closure,
                                     due |-> now + Delay(HalfLife(expiresAt))]}
          /\ timerRef' = id
  ELSE UNCHANGED <<timers, timerRef>>

Without(s, i) == SubSeq(s, 1, i - 1) \o SubSeq(s, i + 1, Len(s))

(* The then of renew. *)
Created ==
  /\ creating # <<>> /\ creating' = Tail(creating)
  /\ LET call == Head(creating)
         expiresAt == Seconds(now) + call.ttl
     IN IF mounted
        THEN /\ session' = [handle |-> call.closure.handle, expiresAt |-> expiresAt,
                            made |-> now]
             /\ Schedule(call, expiresAt)
             /\ late' = (late \/ Len(creating) > 1 \/ call.closure # rendered)
        ELSE UNCHANGED <<session, timers, timerRef, late>>
  /\ UNCHANGED <<creates, strayed, rendered, auto, ttl, shown, mounted, now>>
  /\ UNCHANGED hookVars

(* Mutant: a failure leaves the session of before. *)
KeptSession == session

SessionAfterFailure == NoSession

(* The catch of renew: a disposed handle, constraints of a sub-handle.  If *)
(* the newest creation fails, an older one is still to come.               *)
CreateFails(i) ==
  /\ i \in DOMAIN creating /\ creating' = Without(creating, i)
  /\ session' = IF mounted THEN SessionAfterFailure ELSE session
  /\ strayed' = (strayed \/ (i > 1 /\ i = Len(creating)))
  /\ UNCHANGED <<creates, timers, timerRef, late, rendered, auto, ttl, shown,
                 mounted, now>>
  /\ UNCHANGED hookVars

(* The renew of the result, called by the application. *)
RenewByApp ==
  /\ UNCHANGED <<rendered, auto, ttl, shown, mounted, now>> /\ UNCHANGED hookVars
  /\ Renew(rendered, timers)

TimerFires(t) ==
  /\ ~Microtasks /\ t \in timers /\ t.due <= now
  /\ UNCHANGED <<rendered, auto, ttl, shown, mounted, now>> /\ UNCHANGED hookVars
  /\ Renew(t.closure, timers \ {t})

(* The document becomes visible: the listener of the last commit compares  *)
(* the session it shows with the lifetime of the present options.          *)
BecomesVisible ==
  /\ ~Microtasks /\ mounted /\ rendered.auto /\ shown # NoSession
  /\ 2 * now >= (2 * shown.expiresAt - ttl) * Second
  /\ UNCHANGED <<rendered, auto, ttl, shown, mounted, now>> /\ UNCHANGED hookVars
  /\ Renew(rendered, timers)

Unmount ==
  /\ mounted /\ mounted' = FALSE
  /\ timers' = ClearTimer(timers) /\ timerRef' = 0
  /\ UNCHANGED <<rendered, auto, ttl, shown, now, session, creating, creates>>
  /\ UNCHANGED <<strayed, late>> /\ UNCHANGED hookVars

Tick ==
  /\ ~Microtasks /\ now < MaxNow /\ now' = now + 1
  /\ UNCHANGED <<rendered, auto, ttl, shown, mounted>>
  /\ UNCHANGED hookVars /\ UNCHANGED timeVars

SessionNext ==
  \/ \E n \in 0..MaxSources : SetSource(n) \/ Derived(n) \/ DeriveFails(n)
  \/ \E newTtl \in Ttls, newAuto \in BOOLEAN : Commit(newTtl, newAuto)
  \/ Created
  \/ \E i \in 1..MaxCreates : CreateFails(i)
  \/ RenewByApp
  \/ \E t \in timers : TimerFires(t)
  \/ BecomesVisible \/ Unmount \/ Tick

SessionSpec == SessionInit /\ [][SessionNext]_sessionVars

(***************************************************************************)
(* Properties                                                              *)
(***************************************************************************)
SessionTypeOK ==
  /\ source \in 0..sources /\ sources \in 0..MaxSources
  /\ deriving \subseteq 1..MaxSources
  /\ handle \in {NoHandle} \cup 1..MaxSources
  /\ creates \in 0..MaxCreates /\ Len(creating) <= creates
  /\ session # NoSession =>
       /\ session.handle \in 1..MaxSources
       /\ session.made \in 0..now
  /\ \A t \in timers : t.due > 0
  /\ timerRef # 0 => \E t \in timers : t.id = timerRef
  /\ now \in 0..MaxNow

(* A mounted useHandle shows the handle of its source, or nothing while    *)
(* it never had one; an older handle stays only while the derivation for   *)
(* the source is pending, or after it failed.                              *)
HandleFollowsSource ==
  mounted /\ source \notin deriving /\ ~failed =>
    handle = IF source = 0 THEN NoHandle ELSE source

(* Whatever changes take place, of the source, the names or the options,   *)
(* useHandle never moves to another handle than that of the present        *)
(* source, and not at all once unmounted: a derivation that finishes late  *)
(* is dropped.                                                             *)
HandleIsNeverStale ==
  [][handle' # handle => /\ mounted
                         /\ handle' = IF source' = 0 THEN NoHandle ELSE source']_sessionVars

(* Once no session is in the making, the session shown is of the handle    *)
(* rendered, and there is none without a handle, also when renew ran or    *)
(* the handle changed while sessions were being created.  Three cases are  *)
(* excepted: the handle goes away during a creation, the newest creation   *)
(* fails while an older one is in flight, and a timer left by an earlier   *)
(* handle renews that one.                                                 *)
SessionFollowsHandle ==
  mounted /\ ~strayed /\ creating = <<>> /\ session # NoSession =>
    session.handle = rendered.handle

HalfLifeOf(s) == (s.expiresAt * Second - s.made) \div 2

(* At rest, the timers pending are exactly the one that renews the session *)
(* held, with the handle rendered, at its half-life or later (if           *)
(* setTimeout can wait that long) and before it expires (if it has two     *)
(* seconds to live); none outlives the component.  Excepted is what        *)
(* follows a creation that succeeds though a later one is in flight or     *)
(* the handle changed since: it sets a timer that timerRef will not hold.  *)
TimerIsOwn ==
  ~late /\ creating = <<>> =>
    LET Armed == mounted /\ session # NoSession /\ rendered.auto IN
    /\ \A t \in timers : /\ Armed /\ t.id = timerRef /\ t.closure = rendered
                         /\ session.expiresAt * Second - session.made >= 2 * Second
                              => t.due < session.expiresAt * Second
                         /\ HalfLifeOf(session) <= MaxDelay
                              => t.due >= session.made + HalfLifeOf(session)
    /\ Armed /\ session.expiresAt * Second > session.made + 1 => timers # {}
    /\ Cardinality(timers) <= 1
=============================================================================
