--------------------------- MODULE QueueInformer ---------------------------
(***************************************************************************)
(* One QueueInformer and the control loop of pkg/lib/queueinformer: an     *)
(* informer's cache and its notifications, the rate limited workqueue, the *)
(* workers that take items from it, and the start and stop of the loop.    *)
(*                                                                         *)
(* A queue item is an event, not a key.  Add and update notifications, and *)
(* Requeue, queue a ResourceEvent that holds the key ("event"); a delete   *)
(* notification queues a ResourceEvent that holds the object ("deleted");  *)
(* other code adds the bare key to the same queue ("string").              *)
(*                                                                         *)
(* The workqueue, the cache and the context come from libraries.  The      *)
(* queue's order is not modelled: any queued item may be taken next.       *)
(***************************************************************************)
EXTENDS Naturals

CONSTANTS
    Keys,
    Workers,      \* numWorkers of them
    KeyKinds,     \* the kinds of item that sync a key: "event", and "string"
                  \* where other code adds bare keys to the queue
    MaxVersion,   \* bound on the changes of one object
    MaxRequeues,  \* 8 in the code
    MaxErrors     \* bound on the failed syncs and connections

ASSUME KindsOfItems == "event" \in KeyKinds /\ KeyKinds \subseteq {"event", "string"}

ASSUME BoundsAreNaturals ==
    /\ MaxVersion \in Nat
    /\ MaxRequeues \in Nat
    /\ MaxErrors \in Nat

VARIABLES
    phase,       \* where Run is: "stopped" once its deferred function ran
    cancelled,   \* the context is done
    version,     \* of each object, the number of changes the cache has seen
    present,     \* the keys in the cache
    pending,     \* items whose notification the informer has not delivered
    dirty,       \* workqueue: items to process
    processing,  \* workqueue: items taken and not Done
    waiting,     \* workqueue: items added after a delay
    failures,    \* rate limiter: requeues of each item since its last Forget
    worker,      \* the workers
    errors,      \* failures so far
    handled,     \* per object, the newest version a sync succeeded on
    abandoned,   \* versions whose last retry failed
    deleted,     \* the objects deleted so far
    cleaned      \* those the delete handler was called for

queueVars == <<dirty, processing, waiting, failures>>

cacheVars == <<version, present, deleted>>

historyVars == <<handled, abandoned, cleaned>>

vars == <<phase, cancelled, cacheVars, pending, queueVars, worker, errors, historyVars>>

Versions == 0..MaxVersion

Phases == {"connecting", "retrying", "caches", "running", "stopped"}

Item(kind, k, v) == [kind |-> kind, key |-> k, version |-> v]

\* The kinds of item that sync an object, by its key.
KeyItems(k) == {Item(kind, k, 0) : kind \in KeyKinds}

Items ==
    [kind : KeyKinds, key : Keys, version : {0}]
        \cup [kind : {"deleted"}, key : Keys, version : Versions \ {0}]

NoItem == Item("none", "none", 0)

WorkerStates ==
    [pc : {"off", "idle", "exited"}, item : {NoItem}, read : {0}]
        \cup [pc : {"got", "syncing"}, item : Items, read : Versions]

Worker(pc, i, v) == [pc |-> pc, item |-> i, read |-> v]

ShuttingDown == phase = "stopped"

(***************************************************************************)
(* The library's workqueue: Add, Done, AddAfter and the end of the delay.  *)
(* Nothing is added to a queue that is shutting down.                      *)
(***************************************************************************)
Add(is) == dirty' = IF ShuttingDown THEN dirty ELSE dirty \cup is

AddAfter(i) == waiting' = IF ShuttingDown THEN waiting ELSE waiting \cup {i}

Done(i) == processing' = processing \ {i}

DelayOver(i) ==
    /\ i \in waiting
    /\ ~ShuttingDown
    /\ waiting' = waiting \ {i}
    /\ Add({i})
    /\ UNCHANGED <<phase, cancelled, cacheVars, pending, processing, failures,
                   worker, errors, historyVars>>

-----------------------------------------------------------------------------
(***************************************************************************)
(* The informer updates its cache and then notifies resourceHandlers.      *)
(***************************************************************************)
Informing == phase \in {"caches", "running"} /\ ~cancelled

Upsert(k) ==
    /\ Informing
    /\ version[k] < MaxVersion
    /\ version' = [version EXCEPT ![k] = @ + 1]
    /\ present' = present \cup {k}
    /\ pending' = pending \cup {Item("event", k, 0)}
    /\ UNCHANGED <<phase, cancelled, deleted, queueVars, worker, errors, historyVars>>

Delete(k) ==
    /\ Informing
    /\ k \in present
    /\ present' = present \ {k}
    /\ deleted' = deleted \cup {<<k, version[k]>>}
    /\ pending' = pending \cup {Item("deleted", k, version[k])}
    /\ UNCHANGED <<phase, cancelled, version, queueVars, worker, errors, historyVars>>

\* Every resync period the informer notifies an update of each cached object.
Resync ==
    /\ Informing
    /\ pending' = pending \cup {Item("event", k, 0) : k \in present}
    /\ UNCHANGED <<phase, cancelled, cacheVars, queueVars, worker, errors, historyVars>>

MutEnqueue(i) ==
    /\ i \in pending
    /\ pending' = pending \ {i}
    /\ Add({i} \ processing)
    /\ UNCHANGED <<phase, cancelled, cacheVars, processing, waiting, failures,
                   worker, errors, historyVars>>

Enqueue(i) ==
    /\ i \in pending
    /\ pending' = pending \ {i}
    /\ Add({i})
    /\ UNCHANGED <<phase, cancelled, cacheVars, processing, waiting, failures,
                   worker, errors, historyVars>>

\* Requeue and RequeueByKey, and the additions of a bare key.
Requeue(k) ==
    /\ phase = "running"
    /\ \E i \in KeyItems(k) : Add({i})
    /\ UNCHANGED <<phase, cancelled, cacheVars, pending, processing, waiting, failures,
                   worker, errors, historyVars>>

\* RequeueAfter, and AddAfter of a bare key.
RequeueAfter(k) ==
    /\ phase = "running"
    /\ \E i \in KeyItems(k) : AddAfter(i)
    /\ UNCHANGED <<phase, cancelled, cacheVars, pending, dirty, processing, failures,
                   worker, errors, historyVars>>

-----------------------------------------------------------------------------
(***************************************************************************)
(* processNextWorkItem.                                                    *)
(***************************************************************************)
Get(w, i) ==
    /\ worker[w].pc = "idle"
    /\ i \in dirty \ processing
    /\ dirty' = dirty \ {i}
    /\ processing' = processing \cup {i}
    /\ worker' = [worker EXCEPT ![w] = Worker("got", i, 0)]
    /\ UNCHANGED <<phase, cancelled, cacheVars, pending, waiting, failures, errors, historyVars>>

\* Get reports quit once the queue is shutting down and empty.
Quit(w) ==
    /\ worker[w].pc = "idle"
    /\ ShuttingDown
    /\ dirty \subseteq processing
    /\ worker' = [worker EXCEPT ![w] = Worker("exited", NoItem, 0)]
    /\ UNCHANGED <<phase, cancelled, cacheVars, pending, queueVars, errors, historyVars>>

Forget(i) == failures' = [failures EXCEPT ![i] = 0]

Idle(w) == worker' = [worker EXCEPT ![w] = Worker("idle", NoItem, 0)]

\* The key is not in the cache any more.
ReadMissing(w) ==
    LET i == worker[w].item IN
    /\ worker[w].pc = "got"
    /\ i.kind # "deleted"
    /\ i.key \notin present
    /\ Forget(i)
    /\ Done(i)
    /\ Idle(w)
    /\ UNCHANGED <<phase, cancelled, cacheVars, pending, dirty, waiting, errors, historyVars>>

MutRead(w) ==
    LET i == worker[w].item IN
    /\ worker[w].pc = "got"
    /\ i.key \in present
    /\ worker' = [worker EXCEPT ![w] = Worker("syncing", i, version[i.key])]
    /\ UNCHANGED <<phase, cancelled, cacheVars, pending, queueVars, errors, historyVars>>

\* A delete event carries its object; any other item reads the cached one.
Read(w) ==
    LET i == worker[w].item IN
    /\ worker[w].pc = "got"
    /\ i.kind = "deleted" \/ i.key \in present
    /\ worker' = [worker EXCEPT ![w] =
                    Worker("syncing", i, IF i.kind = "deleted" THEN 0 ELSE version[i.key])]
    /\ UNCHANGED <<phase, cancelled, cacheVars, pending, queueVars, errors, historyVars>>

MutRetried(i) == i.kind # "deleted"

\* Failed deletion syncs are thrown out.
Retried(i) == failures[i] < MaxRequeues /\ i.kind # "deleted"

AddRateLimited(i) ==
    /\ failures' = [failures EXCEPT ![i] = @ + 1]
    /\ AddAfter(i)

Fault == errors < MaxErrors /\ errors' = errors + 1

MutSyncFails(w) ==
    LET i == worker[w].item IN
    /\ worker[w].pc = "syncing"
    /\ i.kind # "deleted"
    /\ Fault
    /\ IF Retried(i)
       THEN AddRateLimited(i) /\ UNCHANGED abandoned
       ELSE /\ Forget(i)
            /\ abandoned' = abandoned \cup {<<i.key, worker[w].read>>}
            /\ UNCHANGED waiting
    /\ UNCHANGED processing
    /\ Idle(w)
    /\ UNCHANGED <<phase, cancelled, cacheVars, pending, dirty, handled, cleaned>>

\* Mutant: a sync that fails is counted but not queued again.
MutSyncDropped(w) ==
    LET i == worker[w].item IN
    /\ worker[w].pc = "syncing"
    /\ i.kind # "deleted"
    /\ Fault
    /\ IF Retried(i)
       THEN failures' = [failures EXCEPT ![i] = @ + 1] /\ UNCHANGED abandoned
       ELSE /\ Forget(i)
            /\ abandoned' = abandoned \cup {<<i.key, worker[w].read>>}
    /\ UNCHANGED waiting
    /\ Done(i)
    /\ Idle(w)
    /\ UNCHANGED <<phase, cancelled, cacheVars, pending, dirty, handled, cleaned>>

\* onDelete returns nothing, so only the sync of a key can fail.
SyncFails(w) ==
    LET i == worker[w].item IN
    /\ worker[w].pc = "syncing"
    /\ i.kind # "deleted"
    /\ Fault
    /\ IF Retried(i)
       THEN AddRateLimited(i) /\ UNCHANGED abandoned
       ELSE /\ Forget(i)
            /\ abandoned' = abandoned \cup {<<i.key, worker[w].read>>}
            /\ UNCHANGED waiting
    /\ Done(i)
    /\ Idle(w)
    /\ UNCHANGED <<phase, cancelled, cacheVars, pending, dirty, handled, cleaned>>

Sync(w) ==
    LET i == worker[w].item  v == worker[w].read IN
    /\ worker[w].pc = "syncing"
    /\ IF i.kind = "deleted"
       THEN /\ cleaned' = cleaned \cup {<<i.key, i.version>>}
            /\ UNCHANGED handled
       ELSE /\ handled' = [handled EXCEPT ![i.key] = IF v > @ THEN v ELSE @]
            /\ UNCHANGED cleaned
    /\ Forget(i)
    /\ Done(i)
    /\ Idle(w)
    /\ UNCHANGED <<phase, cancelled, cacheVars, pending, dirty, waiting, errors, abandoned>>

-----------------------------------------------------------------------------
(***************************************************************************)
(* Run and start.                                                          *)
(***************************************************************************)
Moved(p) ==
    /\ phase' = p
    /\ UNCHANGED <<cancelled, cacheVars, pending, queueVars, historyVars>>

Connect ==
    /\ phase \in {"connecting", "retrying"}
    /\ Moved("caches")
    /\ UNCHANGED <<worker, errors>>

\* The server's version is asked for twice.
ConnectFails ==
    /\ phase \in {"connecting", "retrying"}
    /\ Fault
    /\ Moved(IF phase = "connecting" THEN "retrying" ELSE "stopped")
    /\ UNCHANGED worker

MutStartCancelled ==
    /\ cancelled
    /\ phase \in {"connecting", "retrying"}
    /\ Moved("stopped")
    /\ UNCHANGED <<worker, errors>>

StartCancelled ==
    /\ cancelled
    /\ phase \in {"connecting", "retrying", "caches"}
    /\ Moved("stopped")
    /\ UNCHANGED <<worker, errors>>

CachesSynced ==
    /\ phase = "caches"
    /\ ~cancelled
    /\ Moved("running")
    /\ worker' = [w \in Workers |-> Worker("idle", NoItem, 0)]
    /\ UNCHANGED errors

ShutDown ==
    /\ phase = "running"
    /\ cancelled
    /\ Moved("stopped")
    /\ UNCHANGED <<worker, errors>>

Cancel ==
    /\ ~cancelled
    /\ cancelled' = TRUE
    /\ UNCHANGED <<phase, cacheVars, pending, queueVars, worker, errors, historyVars>>

-----------------------------------------------------------------------------
Init ==
    /\ phase = "connecting"
    /\ cancelled = FALSE
    /\ version = [k \in Keys |-> 0]
    /\ present = {}
    /\ pending = {}
    /\ dirty = {}
    /\ processing = {}
    /\ waiting = {}
    /\ failures = [i \in Items |-> 0]
    /\ worker = [w \in Workers |-> Worker("off", NoItem, 0)]
    /\ errors = 0
    /\ handled = [k \in Keys |-> 0]
    /\ abandoned = {}
    /\ deleted = {}
    /\ cleaned = {}

Informer == Resync \/ \E k \in Keys : Upsert(k) \/ Delete(k)

Queue ==
    \/ \E i \in Items : Enqueue(i) \/ DelayOver(i)
    \/ \E k \in Keys : Requeue(k) \/ RequeueAfter(k)

Work(w) ==
    \/ \E i \in Items : Get(w, i)
    \/ Quit(w) \/ ReadMissing(w) \/ Read(w) \/ SyncFails(w) \/ Sync(w)

Start == Connect \/ ConnectFails \/ StartCancelled \/ CachesSynced \/ ShutDown

Next == Informer \/ Queue \/ (\E w \in Workers : Work(w)) \/ Start \/ Cancel

Spec == Init /\ [][Next]_vars

(***************************************************************************)
(* Every goroutine makes progress, the API server answers, delays end and  *)
(* the informer resyncs.  The queue is first in, first out, so a queued    *)
(* item is taken whenever workers keep coming back for items.              *)
(***************************************************************************)
FairSpec ==
    /\ Spec
    /\ WF_vars(Start \/ \E w \in Workers : Quit(w))
    /\ WF_vars(Resync)
    /\ \A w \in Workers : WF_vars(ReadMissing(w) \/ Read(w) \/ SyncFails(w) \/ Sync(w))
    /\ \A i \in Items :
        /\ WF_vars(Enqueue(i) \/ DelayOver(i))
        /\ SF_vars(\E w \in Workers : Get(w, i))

-----------------------------------------------------------------------------
(***************************************************************************)
(* Types: an item is never requeued more often than processNextWorkItem    *)
(* allows, and nothing is handled or read before the cache held it.        *)
(***************************************************************************)
TypeOK ==
    /\ phase \in Phases
    /\ cancelled \in BOOLEAN
    /\ version \in [Keys -> Versions]
    /\ present \subseteq Keys
    /\ pending \subseteq Items
    /\ dirty \subseteq Items
    /\ processing \subseteq Items
    /\ waiting \subseteq Items
    /\ failures \in [Items -> 0..MaxRequeues]
    /\ worker \in [Workers -> WorkerStates]
    /\ errors \in 0..MaxErrors
    /\ handled \in [Keys -> Versions]
    /\ \A k \in Keys : handled[k] <= version[k]
    /\ abandoned \subseteq Keys \X Versions
    /\ deleted \subseteq Keys \X Versions
    /\ cleaned \subseteq deleted

\* An item that will sync the object with key k in the state it has now.
WillSync(k) ==
    \/ KeyItems(k) \cap (pending \cup dirty \cup waiting) # {}
    \/ \E w \in Workers :
        /\ worker[w].item \in KeyItems(k)
        /\ worker[w].pc = "syncing" => worker[w].read = version[k]

(***************************************************************************)
(* No update is lost between the cache, the queue and the workers: while   *)
(* the loop runs, an object whose cached state no sync has succeeded on is *)
(* notified, queued, delayed or in a worker's hands, or the last of its    *)
(* retries failed; and a deletion waits for its handler or was handled.    *)
(* The item may be added while it is processed, and the object may change  *)
(* between GetByKey and the end of the sync.                               *)
(***************************************************************************)
NoLostUpdate ==
    ~ShuttingDown =>
        /\ \A k \in present :
            handled[k] # version[k] =>
                WillSync(k) \/ <<k, version[k]>> \in abandoned
        /\ \A d \in deleted \ cleaned :
            \/ Item("deleted", d[1], d[2]) \in pending \cup dirty
            \/ \E w \in Workers : worker[w].item = Item("deleted", d[1], d[2])

(***************************************************************************)
(* However the syncs fail, as long as they fail finitely often, a cached   *)
(* object is eventually synced in its newest state: within the retries of  *)
(* processNextWorkItem, or after them by the informer's resync.            *)
(***************************************************************************)
EventuallySynced ==
    \A k \in Keys :
        (k \in present /\ handled[k] # version[k]) ~>
            (k \notin present \/ handled[k] = version[k] \/ cancelled)

(***************************************************************************)
(* The delete handler of ToSyncerWithDelete is called for every deleted    *)
(* object, although its key is not in the cache any more.                  *)
(***************************************************************************)
EventuallyCleaned == (deleted # cleaned) ~> (deleted = cleaned \/ cancelled)

(***************************************************************************)
(* Run closes its channels: ready in any case, as start ends with the      *)
(* workers running or with an error, and done after the context is         *)
(* cancelled, wherever start is then; and every worker returns.            *)
(***************************************************************************)
ChannelsClosed ==
    (phase \in {"connecting", "retrying", "caches"} \/ cancelled) ~>
        \/ phase = "running" /\ ~cancelled
        \/ phase = "stopped" /\ \A w \in Workers : worker[w].pc \in {"off", "exited"}

-----------------------------------------------------------------------------
(***************************************************************************)
(* The queue informer implements the promise of module Delivery.           *)
(***************************************************************************)
Promise == INSTANCE Delivery WITH
    open <- ~ShuttingDown, exists <- present, current <- version, synced <- handled,
    owed <- {k \in present : WillSync(k)}, given <- abandoned,
    removed <- deleted, cleaned <- cleaned

(***************************************************************************)
(* Every step of informer, workqueue, workers and Run is one the promise   *)
(* allows, or changes nothing that a syncer could see: a sync is owed until *)
(* it has succeeded on the newest state or its retries are used up, and    *)
(* the delete handler runs once for a deletion (processNextWorkItem).      *)
(***************************************************************************)
Delivers == Promise!Spec
=============================================================================
