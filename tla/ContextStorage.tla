--------------------------- MODULE ContextStorage ---------------------------
(***************************************************************************)
(* IdentityContextIDBStorage of @me2em/react: one IndexedDB database per   *)
(* identity, a connection and a cache key that belong to the object, and   *)
(* the calls in flight on it.                                              *)
(*                                                                         *)
(* An identity names its database, the id the application stores in the    *)
(* data it saves, and the cache key of its login.  A call runs up to the   *)
(* next digest, encryption, decryption or IndexedDB request; what a chain  *)
(* of promises runs before the next event is one step.  Each database      *)
(* executes its transactions in the order they were created, also those of *)
(* a connection closed since.                                              *)
(***************************************************************************)
EXTENDS Naturals, Sequences

CONSTANTS
  Identities,
  None         \* null

ASSUME NoneIsNoIdentity == None \notin Identities

Maybe(S) == S \cup {None}

(* IdentityContextData: whose it is, and by which save. *)
Context == [owner : Identities, version : Nat]

(* A context, encrypted: it opens with the key that sealed it. *)
Envelope == [key : Identities, data : Context]

ASSUME NoneIsNoData == None \notin Context /\ None \notin Envelope

VARIABLES
  store,   \* the fields of the storage object
  disk,    \* disk[i]: the database of i
  calls    \* calls[n]: the n-th call made through the hook

storageVars == <<store, disk, calls>>

Fields == [current : Maybe(Identities), db : Maybe(Identities),
           cacheKey : Maybe(Identities)]

Database == [record : Maybe(Envelope), key : Maybe(Identities), queue : Seq(Nat)]

Closed == [current |-> None, db |-> None, cacheKey |-> None]

(* Some identities have been here before. *)
StorageInit ==
  /\ store = Closed
  /\ \E warm \in SUBSET Identities :
       disk = [i \in Identities |->
         IF i \in warm
           THEN [record |-> [key |-> i, data |-> [owner |-> i, version |-> 0]],
                 key |-> i, queue |-> <<>>]
           ELSE [record |-> None, key |-> None, queue |-> <<>>]]
  /\ calls = <<>>

-----------------------------------------------------------------------------
(* who: the identity the call is for; db and key: what it took hold of;    *)
(* sealed: the envelope it writes or has read; cancelled: by the cleanup   *)
(* of the effect that made it.                                             *)
Call(op, who, stage, sealed) ==
  [op |-> op, who |-> who, stage |-> stage, db |-> None, key |-> None,
   sealed |-> sealed, result |-> None, cancelled |-> FALSE]

Settled(n) == calls[n].stage \in {"resolved", "rejected"}

Resolve(n, result) ==
  calls' = [calls EXCEPT ![n].stage = "resolved", ![n].result = result]

Reject(n) == calls' = [calls EXCEPT ![n].stage = "rejected"]

(* Mutant: the cache key survives close(). *)
AfterCloseKeepingKey(s) == [Closed EXCEPT !.cacheKey = s.cacheKey]

AfterClose(s) == Closed

(* open() up to the digest of the id: it closes another identity first. *)
AfterOpen(s, id) ==
  [(IF s.current \in {None, id} THEN s ELSE AfterClose(s)) EXCEPT !.current = id]

(* load(), up to the request: the transaction is created on the connection *)
(* and with the key of this moment.                                        *)
BeginRead(n, db, key) ==
  /\ calls' = [calls EXCEPT ![n].stage = "reading", ![n].db = db, ![n].key = key]
  /\ disk' = [disk EXCEPT ![db].queue = Append(@, n)]

(* open()'s request succeeds, and openAndLoad goes on to the key. *)
Opened(n) ==
  /\ calls[n].stage = "opening"
  /\ store' = [store EXCEPT !.db = calls[n].who]
  /\ \/ /\ store.cacheKey = None
        /\ calls' = [calls EXCEPT ![n].stage = "loadingKey",
                                  ![n].key = disk[calls[n].who].key]
        /\ UNCHANGED disk
     \/ /\ store.cacheKey # None
        /\ BeginRead(n, calls[n].who, store.cacheKey)

OpenFails(n) ==
  /\ calls[n].stage = "opening"
  /\ Reject(n)
  /\ UNCHANGED <<store, disk>>

(* openAndLoad has the persisted key, or knows that there is none. *)
KeyLoaded(n) ==
  /\ calls[n].stage = "loadingKey"
  /\ \/ /\ calls[n].key = None
        /\ Resolve(n, None)
        /\ UNCHANGED <<store, disk>>
     \/ /\ calls[n].key # None
        /\ store' = [store EXCEPT !.cacheKey = calls[n].key]
        /\ \/ store.db = None /\ Reject(n) /\ UNCHANGED disk
           \/ store.db # None /\ BeginRead(n, store.db, calls[n].key)

(* save() has encrypted the data, and creates its transaction on the       *)
(* connection of this moment.                                              *)
Encrypted(n) ==
  /\ calls[n].stage = "encrypting"
  /\ \/ store.db = None /\ Reject(n) /\ UNCHANGED disk
     \/ /\ store.db # None
        /\ calls' = [calls EXCEPT ![n].stage = "writing", ![n].db = store.db]
        /\ disk' = [disk EXCEPT ![store.db].queue = Append(@, n)]
  /\ UNCHANGED store

Turn(n) ==
  /\ calls[n].stage \in {"reading", "writing"}
  /\ Head(disk[calls[n].db].queue) = n

ReadDone(n) ==
  LET db == calls[n].db IN
  /\ calls[n].stage = "reading"
  /\ Turn(n)
  /\ \/ disk[db].record = None /\ Resolve(n, None)
     \/ /\ disk[db].record # None
        /\ calls' = [calls EXCEPT ![n].stage = "decrypting",
                                  ![n].sealed = disk[db].record]
  /\ disk' = [disk EXCEPT ![db].queue = Tail(@)]
  /\ UNCHANGED store

(* decryptContext, and the test of data.identityId. *)
OpenedContext(n) ==
  IF /\ calls[n].sealed.key = calls[n].key
     /\ calls[n].sealed.data.owner = store.current
    THEN calls[n].sealed.data
    ELSE None

Decrypted(n) ==
  /\ calls[n].stage = "decrypting"
  /\ Resolve(n, OpenedContext(n))
  /\ UNCHANGED <<store, disk>>

(* What save puts and clear deletes. *)
Written(call) == IF call.op = "save" THEN call.sealed ELSE None

WriteDone(n) ==
  LET db == calls[n].db IN
  /\ calls[n].stage = "writing"
  /\ Turn(n)
  /\ disk' = [disk EXCEPT ![db].record = Written(calls[n]), ![db].queue = Tail(@)]
  /\ Resolve(n, IF calls[n].op = "save" THEN calls[n].sealed.data ELSE None)
  /\ UNCHANGED store

(* Mutant: a write is taken for done once it is requested. *)
TransactionFailsUnnoticed(n) ==
  /\ Turn(n)
  /\ disk' = [disk EXCEPT ![calls[n].db].queue = Tail(@)]
  /\ IF calls[n].op = "save" THEN Resolve(n, calls[n].sealed.data) ELSE Reject(n)
  /\ UNCHANGED store

TransactionFails(n) ==
  /\ Turn(n)
  /\ disk' = [disk EXCEPT ![calls[n].db].queue = Tail(@)]
  /\ Reject(n)
  /\ UNCHANGED store

(* setCacheKey and persistCacheKey, called at login. *)
SetCacheKey(id) ==
  /\ store' = [store EXCEPT !.cacheKey = id]
  /\ UNCHANGED <<disk, calls>>

PersistCacheKey ==
  /\ store.cacheKey # None
  /\ store.db # None
  /\ disk' = [disk EXCEPT ![store.db].key = store.cacheKey]
  /\ UNCHANGED <<store, calls>>

StorageStep(n) ==
  \/ Opened(n) \/ OpenFails(n) \/ KeyLoaded(n) \/ Encrypted(n)
  \/ ReadDone(n) \/ Decrypted(n) \/ WriteDone(n) \/ TransactionFails(n)
=============================================================================
