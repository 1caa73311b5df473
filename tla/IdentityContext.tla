--------------------------- MODULE IdentityContext ---------------------------
(***************************************************************************)
(* useIdentityContext of @me2em/react over one storage object: loads when  *)
(* the provider's identity changes, save, clear and refresh.               *)
(*                                                                         *)
(* A render mirrors the identity in a ref; its effect runs later.  The     *)
(* continuation of a settled call runs before any other event.  A consumer *)
(* uses the callbacks of the last render, saves the data of its identity   *)
(* and sets its cache key once its effect has run.  Distinct objects may   *)
(* be the same identity, so an identity may be rendered again.             *)
(***************************************************************************)
EXTENDS ContextStorage

CONSTANTS
  MaxCalls,    \* bound: calls made
  MaxRenders   \* bound: changes of the identity

ASSUME ContextBoundsAreNat == MaxCalls \in Nat /\ MaxRenders \in Nat

VARIABLES
  identity,    \* the provider's identity, mirrored by identityRef
  pending,     \* its effect has not run
  prev,        \* prevIdentityIdRef
  context, isLoaded, failed,   \* the state the hook returns
  renders,     \* history: identities rendered
  overlapped   \* history: something was begun while a call was in flight or
               \* the effect of the last render was yet to run

hookVars == <<identity, pending, prev, context, isLoaded, failed, renders, overlapped>>
vars == <<storageVars, hookVars>>

Init ==
  /\ StorageInit
  /\ identity \in Maybe(Identities) /\ pending = TRUE /\ prev = None
  /\ context = None /\ isLoaded = FALSE /\ failed = FALSE
  /\ renders = 0 /\ overlapped = FALSE

InFlight == {n \in DOMAIN calls : calls[n].stage # "done"}

(* opRef: every call takes the next ticket. *)
Newest(n) == n = Len(calls)

Overlaps(early) == overlapped' = (overlapped \/ InFlight # {} \/ early)

-----------------------------------------------------------------------------
Render(id) ==
  /\ ~pending
  /\ renders < MaxRenders
  /\ id = identity => id # None
  /\ identity' = id
  /\ pending' = TRUE
  /\ renders' = renders + 1
  /\ UNCHANGED <<storageVars, prev, context, isLoaded, failed, overlapped>>

(* The cleanup of the last effect. *)
Cancelled(cs) ==
  [n \in DOMAIN cs |-> [cs[n] EXCEPT !.cancelled = @ \/ cs[n].op = "load"]]

EffectWithout ==
  /\ identity = None
  /\ calls' = Cancelled(calls)
  /\ context' = None
  /\ isLoaded' = TRUE
  /\ failed' = FALSE
  /\ UNCHANGED <<store, disk, prev>>

EffectWith ==
  /\ identity # None
  /\ Len(calls) < MaxCalls
  /\ store' = AfterOpen(IF prev \in {None, identity} THEN store ELSE AfterClose(store),
                        identity)
  /\ calls' = Append(Cancelled(calls), Call("load", identity, "opening", None))
  /\ prev' = identity
  /\ UNCHANGED <<disk, context, isLoaded, failed>>

Effect ==
  /\ pending
  /\ EffectWithout \/ EffectWith
  /\ pending' = FALSE
  /\ Overlaps(FALSE)
  /\ UNCHANGED <<identity, renders>>

Save ==
  /\ identity # None
  /\ Len(calls) < MaxCalls
  /\ LET data == [owner |-> identity, version |-> Len(calls) + 1]
     IN  calls' = Append(calls,
           IF store.cacheKey = None
             THEN Call("save", identity, "rejected", None)
             ELSE Call("save", identity, "encrypting",
                       [key |-> store.cacheKey, data |-> data]))
  /\ Overlaps(pending)
  /\ UNCHANGED <<store, disk, identity, pending, prev, context, isLoaded, failed, renders>>

Clear ==
  /\ Len(calls) < MaxCalls
  /\ \/ /\ store.db = None
        /\ calls' = Append(calls, Call("clear", identity, "rejected", None))
        /\ UNCHANGED disk
     \/ /\ store.db # None
        /\ calls' = Append(calls,
             [Call("clear", identity, "writing", None) EXCEPT !.db = store.db])
        /\ disk' = [disk EXCEPT ![store.db].queue = Append(@, Len(calls) + 1)]
  /\ Overlaps(pending)
  /\ UNCHANGED <<store, identity, pending, prev, context, isLoaded, failed, renders>>

Refresh ==
  /\ identity # None
  /\ Len(calls) < MaxCalls
  /\ store' = AfterOpen(store, identity)
  /\ calls' = Append(calls, Call("refresh", identity, "opening", None))
  /\ Overlaps(pending)
  /\ UNCHANGED <<disk, identity, pending, prev, context, isLoaded, failed, renders>>

-----------------------------------------------------------------------------
(* Mutant: a load commits whatever was begun since. *)
MayCommitOutOfTurn(n) ==
  CASE calls[n].op = "load"    -> ~calls[n].cancelled
    [] calls[n].op = "refresh" -> TRUE
    [] OTHER                   -> identity = calls[n].who

(* Mutant: a save or a clear commits whoever the user is by now. *)
MayCommitForAnyone(n) ==
  CASE calls[n].op = "load"    -> ~calls[n].cancelled /\ Newest(n)
    [] calls[n].op = "refresh" -> Newest(n)
    [] OTHER                   -> TRUE

(* What a resolved call must be to commit: the newest, and not cancelled,  *)
(* when it loads; of the identity of this moment when it saves or clears.  *)
MayCommit(n) ==
  CASE calls[n].op = "load"    -> ~calls[n].cancelled /\ Newest(n)
    [] calls[n].op = "refresh" -> Newest(n)
    [] OTHER                   -> identity = calls[n].who

Finish(n) == calls' = [calls EXCEPT ![n] = Call(calls[n].op, None, "done", None)]

Commit(n) ==
  /\ calls[n].stage = "resolved"
  /\ MayCommit(n)
  /\ context' = calls[n].result
  /\ isLoaded' = (isLoaded \/ calls[n].op = "load")
  /\ failed' = (failed /\ calls[n].op = "refresh")
  /\ Finish(n)
  /\ UNCHANGED <<store, disk, identity, pending, prev, renders, overlapped>>

Drop(n) ==
  /\ \/ calls[n].stage = "resolved" /\ ~MayCommit(n)
     \/ /\ calls[n].stage = "rejected"
        /\ calls[n].op # "load" \/ calls[n].cancelled
  /\ Finish(n)
  /\ UNCHANGED <<store, disk, identity, pending, prev, context, isLoaded, failed,
                 renders, overlapped>>

(* Mutant: a failed load is reported as an error and no more. *)
LoadedAfterFailureUnset == isLoaded

LoadedAfterFailure == TRUE

(* A load that fails reports it, whatever was begun since. *)
Fail(n) ==
  /\ calls[n].stage = "rejected"
  /\ calls[n].op = "load" /\ ~calls[n].cancelled
  /\ failed' = TRUE
  /\ isLoaded' = LoadedAfterFailure
  /\ Finish(n)
  /\ UNCHANGED <<store, disk, identity, pending, prev, context, renders, overlapped>>

Continue(n) == Commit(n) \/ Drop(n) \/ Fail(n)

Event ==
  \/ \E id \in Maybe(Identities) : Render(id)
  \/ Effect \/ Save \/ Clear \/ Refresh
  \/ /\ \/ \E n \in DOMAIN calls : StorageStep(n)
        \/ identity # None /\ ~pending /\ (SetCacheKey(identity) \/ PersistCacheKey)
     /\ UNCHANGED hookVars

AnySettled == \E n \in DOMAIN calls : Settled(n)

Next ==
  \/ ~AnySettled /\ Event
  \/ \E n \in DOMAIN calls : Continue(n)

Spec == Init /\ [][Next]_vars
-----------------------------------------------------------------------------
Stages == {"opening", "loadingKey", "reading", "decrypting", "encrypting",
           "writing", "resolved", "rejected", "done"}

TypeOK ==
  /\ store \in Fields
  /\ disk \in [Identities -> Database]
  /\ calls \in Seq([op : {"load", "refresh", "save", "clear"}, stage : Stages,
                    who : Maybe(Identities), db : Maybe(Identities),
                    key : Maybe(Identities), sealed : Maybe(Envelope),
                    result : Maybe(Context), cancelled : BOOLEAN])
  /\ identity \in Maybe(Identities) /\ prev \in Maybe(Identities)
  /\ context \in Maybe(Context)
  /\ pending \in BOOLEAN /\ isLoaded \in BOOLEAN /\ failed \in BOOLEAN
  /\ overlapped \in BOOLEAN /\ renders \in 0..MaxRenders
  /\ \A i \in Identities : \A k \in DOMAIN disk[i].queue : LET n == disk[i].queue[k] IN
       calls[n].stage \in {"reading", "writing"} /\ calls[n].db = i

(* CHANGELOG.md: no call surfaces one identity's context under another,    *)
(* nor blanks the other's: once the effect of an identity has run, what    *)
(* the hook shows only changes by a call made for it, to a context of its  *)
(* own.                                                                    *)
CommitIsOwn ==
  [][(context' # context /\ identity # None /\ ~pending) =>
       /\ \E n \in DOMAIN calls :
            calls[n].stage = "resolved" /\ calls[n].who = identity
       /\ context' # None => context'.owner = identity]_vars

(* Every database holds its own identity's data, under its own key.        *)
Isolated ==
  \A i \in Identities :
    /\ disk[i].key \in {None, i}
    /\ disk[i].record # None =>
         disk[i].record.key = i /\ disk[i].record.data.owner = i

Quiet == InFlight = {} /\ ~pending

(* What the hook shows is what the identity's database holds. *)
ShownIsStored ==
  (Quiet /\ identity # None /\ context # None) =>
    disk[identity].record # None /\ disk[identity].record.data = context

(* As long as nothing is begun while a call is in flight, identities do    *)
(* not write to each other's databases, nor under each other's keys.       *)
IsolatedIfAwaited == ~overlapped => Isolated

(* As long as nothing is begun while a call is in flight, the hook shows   *)
(* what is stored, or has reported that it could not load it.              *)
StoredIfAwaited == ~overlapped /\ ~failed => ShownIsStored

Cells ==
  [i \in Identities |-> IF disk[i].record = None THEN None ELSE disk[i].record.data]

Nothing == [op |-> "none", who |-> None, data |-> None, answered |-> FALSE]

(* What a call works with, then what it returns. *)
Payload(c) ==
  IF c.stage = "resolved" THEN c.result
  ELSE IF c.op = "save" THEN c.sealed.data ELSE None

(* What a call still has to do, as the application sees it. *)
Request(c) ==
  IF c.stage \in {"rejected", "done"} THEN Nothing
  ELSE [op |-> IF c.op = "refresh" THEN "load" ELSE c.op, who |-> c.who,
        data |-> Payload(c), answered |-> c.stage = "resolved"]

LastRequest == IF calls = <<>> THEN Nothing ELSE Request(calls[Len(calls)])

Promise == INSTANCE PerIdentityStore
             WITH user <- identity, at <- store.current, cell <- Cells,
                  call <- LastRequest, shown <- context, misused <- overlapped

(* As long as nothing is begun while a call is in flight, the one storage  *)
(* object, with its connection and its key, is a cell for every identity:  *)
(* each save, clear and load takes effect once or fails, on the cell of    *)
(* the identity the storage is open for, a load shows what is in it, and   *)
(* what is written is shown to nobody but who wrote it.                    *)
KeepsPromise == Promise!Spec

(* A load that nothing supersedes is noticed, whether or not it succeeds:  *)
(* once all has settled the hook is loaded, or some other call was newer.  *)
LoadIsNoticed ==
  Quiet => isLoaded \/ calls[Len(calls)].op # "load"

(* README.md: a database per identity, "guaranteeing full isolation        *)
(* between identities".                                                    *)
Isolation == Isolated

(* CHANGELOG.md: "a stale resolution is dropped instead of clobbering      *)
(* newer state": no load leaves the hook showing older data than it saved. *)
StaleIsDropped == ~failed => ShownIsStored

(* "without identity -> context null", once its effect has run.            *)
LogoutIsFinal == (identity = None /\ ~pending) => context = None
=============================================================================
