------------------------ MODULE QueueInformerProofs ------------------------
(***************************************************************************)
(* Proofs about QueueInformer for any sets of keys and workers and any     *)
(* bounds on versions, retries and errors; and, in the second half, that   *)
(* it implements Delivery.  On top of the invariant of the first half that *)
(* needs that a delete event is in one place at a time, and nowhere once   *)
(* its handler ran.                                                        *)
(***************************************************************************)
EXTENDS QueueInformer, TLAPS

\* Before the caches are synced no worker runs.
WorkersOff ==
    phase \in {"connecting", "retrying", "caches"} =>
        \A w \in Workers : worker[w].pc = "off"

\* An item in a worker's hands was read from a cache no newer than this one.
ReadBefore ==
    \A w \in Workers :
        worker[w].pc = "syncing" /\ worker[w].item.kind # "deleted" =>
            worker[w].read <= version[worker[w].item.key]

\* The item is not a delete event, or one of an object that was deleted.
Justified(i) == i.kind = "deleted" => <<i.key, i.version>> \in deleted

ItemsJustified ==
    /\ \A i \in pending \cup dirty \cup waiting : Justified(i)
    /\ \A w \in Workers : Justified(worker[w].item)

\* An object in the cache has changed at least once.
CachedChanged == \A k \in present : version[k] # 0

IInv == TypeOK /\ CachedChanged /\ WorkersOff /\ ReadBefore /\ ItemsJustified

USE KindsOfItems, BoundsAreNaturals

LEMMA WorkerFacts ==
    ASSUME TypeOK, NEW w \in Workers
    PROVE  /\ worker[w] \in WorkerStates
           /\ worker[w].pc \in {"off", "idle", "exited"} => worker[w].item = NoItem
           /\ worker[w].pc \in {"got", "syncing"} =>
                worker[w].item \in Items /\ worker[w].read \in Versions
<1>1. worker[w] \in WorkerStates
    BY ZenonT(30) DEF TypeOK
<1> QED
    BY <1>1, ZenonT(30) DEF WorkerStates

LEMMA ItemFacts ==
    ASSUME NEW i \in Items
    PROVE  /\ i.key \in Keys
           /\ i.version \in Versions
           /\ i = Item(i.kind, i.key, i.version)
           /\ i.kind # "deleted" => i \in KeyItems(i.key)
           /\ \A k \in Keys : i \in KeyItems(k) => k = i.key /\ i.kind # "deleted"
<1>1. i = [kind |-> i.kind, key |-> i.key, version |-> i.version]
    BY ZenonT(30) DEF Items
<1>2. /\ i.key \in Keys /\ i.version \in Versions
      /\ i.kind # "deleted" => i.kind \in KeyKinds /\ i.version = 0
    BY DEF Items, Versions
<1>3. i.kind # "deleted" => i \in KeyItems(i.key)
    BY <1>1, <1>2, ZenonT(30) DEF KeyItems, Item
<1>4. ASSUME NEW k \in Keys, i \in KeyItems(k) PROVE k = i.key /\ i.kind # "deleted"
    BY <1>4 DEF KeyItems, Item
<1> QED
    BY <1>1, <1>2, <1>3, <1>4, ZenonT(30) DEF Item

LEMMA KeyItemFacts ==
    ASSUME NEW k \in Keys
    PROVE  /\ Item("event", k, 0) \in KeyItems(k)
           /\ KeyItems(k) \subseteq Items
           /\ NoItem \notin KeyItems(k)
           /\ NoItem \notin Items
           /\ NoItem.kind # "deleted"
           /\ \A v \in Versions \ {0} : Item("deleted", k, v) \in Items
<1>1. Item("event", k, 0) \in KeyItems(k)
    BY ZenonT(30) DEF KeyItems
<1>2. KeyItems(k) \subseteq Items
    BY DEF KeyItems, Item, Items
<1>3. NoItem.kind \notin {"event", "string", "deleted"}
    BY ZenonT(30) DEF NoItem, Item
<1>4. NoItem \notin Items
    BY <1>3, ZenonT(30) DEF Items
<1>5. \A v \in Versions \ {0} : Item("deleted", k, v) \in Items
    BY ZenonT(30) DEF Item, Items
<1> QED
    BY <1>1, <1>2, <1>3, <1>4, <1>5, ZenonT(30)

LEMMA IdleType ==
    /\ \A pc \in {"off", "idle", "exited"} : Worker(pc, NoItem, 0) \in WorkerStates
    /\ \A pc \in {"got", "syncing"}, i \in Items, v \in Versions :
        Worker(pc, i, v) \in WorkerStates
BY ZenonT(30) DEF Worker, WorkerStates

LEMMA ForgetType ==
    ASSUME TypeOK, NEW i, Forget(i)
    PROVE  failures' \in [Items -> 0..MaxRequeues]
<1>1. 0 \in 0..MaxRequeues
    OBVIOUS
<1>2. failures \in [Items -> 0..MaxRequeues]
    BY ZenonT(30) DEF TypeOK
<1> QED
    BY <1>1, <1>2, ZenonT(30) DEF Forget

LEMMA InitIInv == Init => IInv
<1> SUFFICES ASSUME Init PROVE IInv
    BY ZenonT(30)
<1>1. TypeOK
  <2>1. worker \in [Workers -> WorkerStates]
      BY IdleType, ZenonT(30) DEF Init
  <2>2. version \in [Keys -> Versions] /\ handled \in [Keys -> Versions]
      BY DEF Init, Versions
  <2>3. failures \in [Items -> 0..MaxRequeues] /\ errors \in 0..MaxErrors
      BY DEF Init
  <2>4. \A k \in Keys : handled[k] <= version[k]
    <3> SUFFICES ASSUME NEW k \in Keys PROVE handled[k] <= version[k]
        BY ZenonT(30)
    <3>1. handled[k] = 0 /\ version[k] = 0
        BY ZenonT(30) DEF Init
    <3>2. 0 <= 0
        OBVIOUS
    <3> QED
        BY <3>1, <3>2, ZenonT(30)
  <2> QED
      BY <2>1, <2>2, <2>3, <2>4, ZenonT(30) DEF Init, TypeOK, Phases
<1>2. WorkersOff /\ CachedChanged
    BY ZenonT(30) DEF Init, WorkersOff, Worker, CachedChanged
<1>3. ReadBefore
    BY ZenonT(30) DEF Init, ReadBefore, Worker
<1>4. ItemsJustified
    BY ZenonT(30) DEF Init, ItemsJustified, Justified, Worker, NoItem, Item
<1> QED
    BY <1>1, <1>2, <1>3, <1>4, ZenonT(30) DEF IInv

\* One step preserves the types.
LEMMA TypeStep == IInv /\ [Next]_vars => TypeOK'
<1> SUFFICES ASSUME IInv, [Next]_vars PROVE TypeOK'
    BY ZenonT(30)
<1> USE DEF IInv
<1>1. ASSUME NEW k \in Keys, Upsert(k) PROVE TypeOK'
  <2>1. Item("event", k, 0) \in Items
      BY KeyItemFacts, ZenonT(30)
  <2>2. version' \in [Keys -> Versions] /\ \A j \in Keys : handled[j] <= version'[j]
      BY <1>1 DEF Upsert, TypeOK, Versions
  <2> QED
      BY <1>1, <2>1, <2>2, ZenonT(30) DEF Upsert, TypeOK, queueVars, historyVars
<1>2. ASSUME NEW k \in Keys, Delete(k) PROVE TypeOK'
  <2>1. Item("deleted", k, version[k]) \in Items
    <3>1. version[k] \in Versions \ {0}
        BY <1>2, ZenonT(30) DEF Delete, TypeOK, CachedChanged
    <3> QED
        BY <3>1, KeyItemFacts, ZenonT(30)
  <2>2. deleted' \subseteq Keys \X Versions /\ cleaned' \subseteq deleted'
      BY <1>2 DEF Delete, TypeOK, historyVars
  <2>3. pending' \subseteq Items /\ present' \subseteq Keys
      BY <1>2, <2>1, ZenonT(30) DEF Delete, TypeOK
  <2> QED
      BY <1>2, <2>2, <2>3, ZenonT(30) DEF Delete, TypeOK, queueVars, historyVars
<1>3. ASSUME Resync PROVE TypeOK'
  <2>1. {Item("event", k, 0) : k \in present} \subseteq Items
      BY KeyItemFacts, ZenonT(30) DEF TypeOK
  <2> QED
      BY <1>3, <2>1, ZenonT(30) DEF Resync, TypeOK, queueVars, historyVars, cacheVars
<1>4. ASSUME NEW i \in Items, Enqueue(i) \/ DelayOver(i) PROVE TypeOK'
    BY <1>4, ZenonT(30) DEF Enqueue, DelayOver, Add, TypeOK, historyVars, cacheVars
<1>5. ASSUME NEW k \in Keys, Requeue(k) \/ RequeueAfter(k) PROVE TypeOK'
    BY <1>5, KeyItemFacts, ZenonT(30) DEF Requeue, RequeueAfter, Add, AddAfter, TypeOK, historyVars, cacheVars
<1>6. ASSUME NEW w \in Workers, NEW i \in Items, Get(w, i) PROVE TypeOK'
  <2>1. Worker("got", i, 0) \in WorkerStates
      BY IdleType DEF Versions
  <2>2. worker' \in [Workers -> WorkerStates]
      BY <1>6, <2>1, ZenonT(30) DEF Get, TypeOK
  <2> QED
      BY <1>6, <2>2, ZenonT(30) DEF Get, TypeOK, historyVars, cacheVars
<1>7. ASSUME NEW w \in Workers, Quit(w) PROVE TypeOK'
  <2>1. worker' \in [Workers -> WorkerStates]
      BY <1>7, IdleType, ZenonT(30) DEF Quit, TypeOK
  <2> QED
      BY <1>7, <2>1, ZenonT(30) DEF Quit, TypeOK, queueVars, historyVars, cacheVars
<1>8. ASSUME NEW w \in Workers, Idle(w) PROVE worker' \in [Workers -> WorkerStates]
    BY <1>8, IdleType, ZenonT(30) DEF Idle, TypeOK
<1>9. ASSUME NEW w \in Workers, ReadMissing(w) PROVE TypeOK'
  <2>1. worker' \in [Workers -> WorkerStates]
      BY <1>8, <1>9, ZenonT(30) DEF ReadMissing
  <2>2. failures' \in [Items -> 0..MaxRequeues]
      BY <1>9, ForgetType, ZenonT(30) DEF ReadMissing
  <2> QED
      BY <1>9, <2>1, <2>2, ZenonT(30) DEF ReadMissing, Done, TypeOK, historyVars, cacheVars
<1>10. ASSUME NEW w \in Workers, Read(w) PROVE TypeOK'
  <2>1. worker[w].item \in Items
      BY <1>10, WorkerFacts, ZenonT(30) DEF Read
  <2>2. version[worker[w].item.key] \in Versions /\ 0 \in Versions
      BY <2>1, ItemFacts DEF TypeOK, Versions
  <2>3. worker' \in [Workers -> WorkerStates]
      BY <1>10, <2>1, <2>2, IdleType, ZenonT(30) DEF Read, TypeOK
  <2> QED
      BY <1>10, <2>3, ZenonT(30) DEF Read, TypeOK, queueVars, historyVars, cacheVars
<1>11. ASSUME NEW w \in Workers, SyncFails(w) PROVE TypeOK'
  <2> DEFINE i == worker[w].item
  <2>1. i \in Items /\ worker[w].read \in Versions /\ i.key \in Keys
      BY <1>11, WorkerFacts, ItemFacts, ZenonT(30) DEF SyncFails
  <2>2. worker' \in [Workers -> WorkerStates]
      BY <1>8, <1>11, ZenonT(30) DEF SyncFails
  <2>3. failures' \in [Items -> 0..MaxRequeues]
      BY <1>11, <2>1 DEF SyncFails, Retried, AddRateLimited, Forget, TypeOK
  <2>4. waiting' \subseteq Items /\ abandoned' \subseteq Keys \X Versions
      BY <1>11, <2>1 DEF SyncFails, AddRateLimited, AddAfter, TypeOK
  <2>5. errors' \in 0..MaxErrors
      BY <1>11 DEF SyncFails, Fault, TypeOK
  <2> QED
      BY <1>11, <2>2, <2>3, <2>4, <2>5, ZenonT(30) DEF SyncFails, Done, TypeOK, cacheVars
<1>12. ASSUME NEW w \in Workers, Sync(w) PROVE TypeOK'
  <2> DEFINE i == worker[w].item
  <2>1. i \in Items /\ worker[w].read \in Versions /\ i.key \in Keys
      BY <1>12, WorkerFacts, ItemFacts, ZenonT(30) DEF Sync
  <2>2. worker' \in [Workers -> WorkerStates]
      BY <1>8, <1>12, ZenonT(30) DEF Sync
  <2>3. failures' \in [Items -> 0..MaxRequeues]
      BY <1>12, ForgetType, ZenonT(30) DEF Sync
  <2>4. handled' \in [Keys -> Versions] /\ \A k \in Keys : handled'[k] <= version[k]
    <3>1. i.kind # "deleted" => worker[w].read <= version[i.key]
        BY <1>12, ZenonT(30) DEF Sync, ReadBefore
    <3> QED
        BY <1>12, <2>1, <3>1, ZenonT(30) DEF Sync, TypeOK, Versions
  <2>5. cleaned' \subseteq deleted
      BY <1>12, ZenonT(30) DEF Sync, ItemsJustified, Justified, TypeOK
  <2> QED
      BY <1>12, <2>2, <2>3, <2>4, <2>5, ZenonT(30) DEF Sync, Done, TypeOK, cacheVars
<1>13. ASSUME Connect \/ StartCancelled \/ ShutDown PROVE TypeOK'
    BY <1>13, ZenonT(30) DEF Connect, StartCancelled, ShutDown, Moved, Phases, TypeOK,
                 queueVars, historyVars, cacheVars
<1>14. ASSUME ConnectFails PROVE TypeOK'
    BY <1>14 DEF ConnectFails, Fault, Moved, Phases, TypeOK, queueVars, historyVars, cacheVars
<1>15. ASSUME CachesSynced PROVE TypeOK'
  <2>1. worker' \in [Workers -> WorkerStates]
      BY <1>15, IdleType, ZenonT(30) DEF CachesSynced
  <2> QED
      BY <1>15, <2>1, ZenonT(30) DEF CachesSynced, Moved, Phases, TypeOK, queueVars, historyVars, cacheVars
<1>16. ASSUME Cancel PROVE TypeOK'
    BY <1>16, ZenonT(30) DEF Cancel, TypeOK, queueVars, historyVars, cacheVars
<1>17. ASSUME UNCHANGED vars PROVE TypeOK'
    BY <1>17, ZenonT(30) DEF vars, TypeOK, queueVars, historyVars, cacheVars
<1> QED
    BY <1>1, <1>2, <1>3, <1>4, <1>5, <1>6, <1>7, <1>9, <1>10, <1>11, <1>12, <1>13,
       <1>14, <1>15, <1>16, <1>17, ZenonT(30) DEF Next, Informer, Queue, Work, Start

\* What a step of one worker has to show for the rest of the invariant.
LEMMA WorkerStep ==
    ASSUME IInv, NEW w \in Workers, NEW s,
           worker' = [worker EXCEPT ![w] = s],
           worker[w].pc # "off",
           phase' = phase, version' = version, present' = present, deleted' = deleted,
           Justified(s.item),
           s.pc = "syncing" /\ s.item.kind # "deleted" => s.read <= version[s.item.key],
           \A i \in pending' \cup dirty' \cup waiting' : Justified(i)
    PROVE  (CachedChanged /\ WorkersOff /\ ReadBefore /\ ItemsJustified)'
<1>1. \A v \in Workers : worker'[v] = IF v = w THEN s ELSE worker[v]
    BY ZenonT(30) DEF IInv, TypeOK
<1>2. CachedChanged' /\ WorkersOff'
    BY ZenonT(30) DEF IInv, CachedChanged, WorkersOff
<1>3. ReadBefore'
    BY <1>1 DEF IInv, ReadBefore
<1>4. ItemsJustified'
  <2>1. \A i \in pending' \cup dirty' \cup waiting' : (i.kind = "deleted" => <<i.key, i.version>> \in deleted')
      BY ZenonT(30) DEF Justified
  <2>2. \A v \in Workers : worker'[v].item.kind = "deleted" =>
            <<worker'[v].item.key, worker'[v].item.version>> \in deleted'
      BY <1>1 DEF IInv, ItemsJustified, Justified
  <2> QED
      BY <2>1, <2>2, ZenonT(30) DEF ItemsJustified, Justified
<1> QED
    BY <1>2, <1>3, <1>4, ZenonT(30)

\* One step preserves the rest of the invariant.
LEMMA RestStep == IInv /\ [Next]_vars => (CachedChanged /\ WorkersOff /\ ReadBefore /\ ItemsJustified)'
<1> SUFFICES ASSUME IInv, [Next]_vars
             PROVE  (CachedChanged /\ WorkersOff /\ ReadBefore /\ ItemsJustified)'
    BY ZenonT(30)
<1> USE DEF IInv
<1> DEFINE Rest == CachedChanged /\ WorkersOff /\ ReadBefore /\ ItemsJustified
<1>a. \A w \in Workers : worker[w].pc = "syncing" =>
        worker[w].item \in Items /\ worker[w].item.key \in Keys
    BY WorkerFacts, ItemFacts, ZenonT(30)
<1>b. \A k \in Keys : \A i \in KeyItems(k) : i.kind # "deleted"
    BY KeyItemFacts, ItemFacts, ZenonT(30)
<1>c. NoItem.kind # "deleted"
    BY ZenonT(30) DEF NoItem, Item
<1>1. ASSUME NEW k \in Keys, Upsert(k) PROVE Rest'
  <2>1. version' = [version EXCEPT ![k] = version[k] + 1] /\ present' = present \cup {k}
        /\ worker' = worker /\ phase' = phase /\ deleted' = deleted
      BY <1>1, ZenonT(30) DEF Upsert
  <2>2. \A j \in Keys : version[j] \in Nat /\ version'[j] \in Nat /\ version[j] <= version'[j]
      BY <2>1 DEF TypeOK, Versions
  <2>3. CachedChanged'
      BY <2>1, <2>2 DEF CachedChanged, TypeOK, Versions
  <2>4. ReadBefore'
    <3> SUFFICES ASSUME NEW w \in Workers, worker[w].pc = "syncing", worker[w].item.kind # "deleted"
                 PROVE  worker[w].read <= version'[worker[w].item.key]
        BY <2>1, ZenonT(30) DEF ReadBefore
    <3>1. worker[w].read <= version[worker[w].item.key] /\ worker[w].read \in Nat
        BY WorkerFacts DEF ReadBefore, Versions
    <3> QED
        BY <1>a, <2>2, <3>1
  <2>5. ItemsJustified'
      BY <1>1, <1>b, <2>1, KeyItemFacts, ZenonT(30) DEF Upsert, ItemsJustified, Justified, queueVars
  <2> QED
      BY <2>1, <2>3, <2>4, <2>5, ZenonT(30) DEF WorkersOff
<1>2. ASSUME NEW k \in Keys, Delete(k) PROVE Rest'
  <2>1. ItemsJustified'
      BY <1>2 DEF Delete, ItemsJustified, Justified, Item, queueVars
  <2> QED
      BY <1>2, <2>1, ZenonT(30) DEF Delete, CachedChanged, WorkersOff, ReadBefore
<1>3. ASSUME Resync PROVE Rest'
  <2>1. ItemsJustified'
      BY <1>3 DEF Resync, ItemsJustified, Justified, Item, queueVars, cacheVars
  <2> QED
      BY <1>3, <2>1, ZenonT(30) DEF Resync, CachedChanged, WorkersOff, ReadBefore, cacheVars
<1>4. ASSUME NEW i \in Items, Enqueue(i) \/ DelayOver(i) PROVE Rest'
  <2>1. ItemsJustified'
      BY <1>4, ZenonT(30) DEF Enqueue, DelayOver, Add, ItemsJustified, Justified, cacheVars
  <2> QED
      BY <1>4, <2>1, ZenonT(30) DEF Enqueue, DelayOver, CachedChanged, WorkersOff, ReadBefore, cacheVars
<1>5. ASSUME NEW k \in Keys, Requeue(k) \/ RequeueAfter(k) PROVE Rest'
  <2>1. ItemsJustified'
      BY <1>5, <1>b, ZenonT(30) DEF Requeue, RequeueAfter, Add, AddAfter, ItemsJustified, Justified, cacheVars
  <2> QED
      BY <1>5, <2>1, ZenonT(30) DEF Requeue, RequeueAfter, CachedChanged, WorkersOff, ReadBefore, cacheVars
<1>6. ASSUME NEW w \in Workers, NEW i \in Items, Get(w, i) PROVE Rest'
  <2>1. Justified(i)
      BY <1>6, ZenonT(30) DEF Get, ItemsJustified
  <2>2. Worker("got", i, 0).pc = "got" /\ Worker("got", i, 0).item = i
      BY ZenonT(30) DEF Worker
  <2> QED
      BY <1>6, <2>1, <2>2, WorkerStep, ZenonT(90) DEF Get, cacheVars, ItemsJustified
<1>d. \A pc \in {"idle", "exited"} : Worker(pc, NoItem, 0).pc = pc /\ Justified(Worker(pc, NoItem, 0).item)
  <2>1. \A pc \in {"idle", "exited"} : Worker(pc, NoItem, 0).pc = pc /\ Worker(pc, NoItem, 0).item = NoItem
      BY ZenonT(30) DEF Worker
  <2> QED
      BY <1>c, <2>1, ZenonT(30) DEF Justified
<1>7. ASSUME NEW w \in Workers, Quit(w) PROVE Rest'
    BY <1>7, <1>d, WorkerStep, ZenonT(30) DEF Quit, cacheVars, queueVars, ItemsJustified
<1>8. ASSUME NEW w \in Workers, ReadMissing(w) PROVE Rest'
    BY <1>8, <1>d, WorkerStep, ZenonT(30) DEF ReadMissing, Idle, cacheVars, ItemsJustified
<1>9. ASSUME NEW w \in Workers, Read(w) PROVE Rest'
  <2> DEFINE i == worker[w].item
             v == IF i.kind = "deleted" THEN 0 ELSE version[i.key]
             s == Worker("syncing", i, v)
  <2>1. s.item = i /\ s.read = v
      BY ZenonT(30) DEF Worker
  <2>2. i.key \in Keys /\ version[i.key] \in Nat
      BY <1>9, WorkerFacts, ItemFacts DEF Read, TypeOK, Versions
  <2>3. Justified(i)
      BY ZenonT(30) DEF ItemsJustified
  <2>4. worker' = [worker EXCEPT ![w] = s] /\ worker[w].pc # "off"
      BY <1>9, ZenonT(30) DEF Read
  <2>5. s.item.kind # "deleted" => s.read <= version[s.item.key]
    <3> HIDE DEF i, s
    <3> QED
        BY <2>1, <2>2
  <2>6. \A j \in pending' \cup dirty' \cup waiting' : Justified(j)
      BY <1>9, ZenonT(30) DEF Read, queueVars, ItemsJustified
  <2>7. phase' = phase /\ version' = version /\ present' = present /\ deleted' = deleted
      BY <1>9, ZenonT(30) DEF Read, cacheVars
  <2> HIDE DEF s
  <2> QED
      BY <2>1, <2>3, <2>4, <2>5, <2>6, <2>7, WorkerStep, ZenonT(30)
<1>10. ASSUME NEW w \in Workers, SyncFails(w) PROVE Rest'
  <2>1. \A i \in pending' \cup dirty' \cup waiting' : Justified(i)
      BY <1>10, ZenonT(30) DEF SyncFails, AddRateLimited, AddAfter, ItemsJustified
  <2> QED
      BY <1>10, <1>d, <2>1, WorkerStep, ZenonT(30) DEF SyncFails, Idle, cacheVars
<1>11. ASSUME NEW w \in Workers, Sync(w) PROVE Rest'
    BY <1>11, <1>d, WorkerStep, ZenonT(30) DEF Sync, Idle, cacheVars, ItemsJustified
<1>12. ASSUME Connect \/ ConnectFails \/ StartCancelled \/ ShutDown PROVE Rest'
    BY <1>12, ZenonT(30) DEF Connect, ConnectFails, StartCancelled, ShutDown, Moved, queueVars, cacheVars,
                 CachedChanged, WorkersOff, ReadBefore, ItemsJustified, Justified
<1>13. ASSUME CachesSynced PROVE Rest'
  <2>1. \A w \in Workers : worker'[w].pc = "idle" /\ Justified(worker'[w].item)
      BY <1>13, <1>d, ZenonT(30) DEF CachesSynced
  <2> QED
      BY <1>13, <2>1, ZenonT(30) DEF CachesSynced, Moved, queueVars, cacheVars,
                 CachedChanged, WorkersOff, ReadBefore, ItemsJustified, Justified
<1>14. ASSUME Cancel \/ UNCHANGED vars PROVE Rest'
    BY <1>14, ZenonT(30) DEF Cancel, vars, queueVars, cacheVars,
                 CachedChanged, WorkersOff, ReadBefore, ItemsJustified, Justified
<1> QED
    BY <1>1, <1>2, <1>3, <1>4, <1>5, <1>6, <1>7, <1>8, <1>9, <1>10, <1>11, <1>12, <1>13,
       <1>14, ZenonT(30) DEF Next, Informer, Queue, Work, Start

LEMMA Invariance == Spec => []IInv
<1>1. IInv /\ [Next]_vars => IInv'
    BY TypeStep, RestStep, ZenonT(30) DEF IInv
<1> QED
    BY <1>1, InitIInv, PTL DEF Spec

(***************************************************************************)
(* Types of the queue, its workers and the history of what they handled.   *)
(***************************************************************************)
THEOREM TypeCorrect == Spec => []TypeOK
<1>1. IInv => TypeOK
    BY ZenonT(30) DEF IInv
<1> QED
    BY <1>1, Invariance, PTL

-----------------------------------------------------------------------------
(***************************************************************************)
(* No lost update.  Holds(w, k) is the second disjunct of WillSync(k) for  *)
(* one worker; a step keeps the promise when every queued item stays       *)
(* queued or is taken, and every worker that held an item still does, or   *)
(* has put it back.                                                        *)
(***************************************************************************)
Queued == pending \cup dirty \cup waiting

Holds(w, k) ==
    /\ worker[w].item \in KeyItems(k)
    /\ worker[w].pc = "syncing" => worker[w].read = version[k]

DeleteItem(d) == Item("deleted", d[1], d[2])

Cleaning(d) ==
    \/ DeleteItem(d) \in pending \cup dirty
    \/ \E w \in Workers : worker[w].item = DeleteItem(d)

Updates == \A k \in present : handled[k] # version[k] => WillSync(k) \/ <<k, version[k]>> \in abandoned

Deletions == \A d \in deleted \ cleaned : Cleaning(d)

LEMMA Splits == NoLostUpdate <=> (~ShuttingDown => Updates /\ Deletions)
BY ZenonT(30) DEF NoLostUpdate, Updates, Deletions, Cleaning, DeleteItem

LEMMA WillSyncKept ==
    ASSUME NEW k \in Keys, WillSync(k),
           \A i \in KeyItems(k) \cap Queued : i \in Queued' \/ \E w \in Workers : Holds(w, k)',
           \A w \in Workers : Holds(w, k) =>
                KeyItems(k) \cap Queued' # {} \/ \E v \in Workers : Holds(v, k)'
    PROVE  WillSync(k)'
<1>1. WillSync(k) <=> (KeyItems(k) \cap Queued # {} \/ \E w \in Workers : Holds(w, k))
    BY ZenonT(30) DEF WillSync, Queued, Holds
<1>2. WillSync(k)' <=> (KeyItems(k) \cap Queued' # {} \/ \E w \in Workers : Holds(w, k)')
    BY ZenonT(30) DEF WillSync, Queued, Holds, KeyItems, Item
<1> QED
    BY <1>1, <1>2, ZenonT(30)

\* A step of the informer or the queue, which adds items and changes no worker.
LEMMA QueueKeeps ==
    ASSUME IInv, NoLostUpdate, ~ShuttingDown,
           worker' = worker, version' = version, present' \subseteq present,
           handled' = handled, abandoned' = abandoned, cleaned' = cleaned,
           Queued \subseteq Queued',
           \A d \in deleted' \ deleted : DeleteItem(d) \in pending' \cup dirty',
           \A i \in pending \cup dirty : i.kind = "deleted" => i \in pending' \cup dirty'
    PROVE  (Updates /\ Deletions)'
<1>1. Updates'
  <2> SUFFICES ASSUME NEW k \in present', handled[k] # version[k], <<k, version[k]>> \notin abandoned
               PROVE  WillSync(k)'
      BY ZenonT(30) DEF Updates
  <2>1. k \in Keys /\ WillSync(k)
      BY Splits, ZenonT(30) DEF IInv, TypeOK, Updates
  <2>2. \A w \in Workers : Holds(w, k) => Holds(w, k)'
      BY ZenonT(30) DEF Holds, KeyItems, Item
  <2> QED
      BY <2>1, <2>2, WillSyncKept, ZenonT(30)
<1>2. Deletions'
  <2> SUFFICES ASSUME NEW d \in deleted' \ cleaned PROVE Cleaning(d)'
      BY ZenonT(30) DEF Deletions
  <2>1. DeleteItem(d)' = DeleteItem(d) /\ DeleteItem(d).kind = "deleted"
      BY ZenonT(30) DEF DeleteItem, Item
  <2>2. d \in deleted => Cleaning(d)
      BY Splits, ZenonT(30) DEF Deletions
  <2> QED
      BY <2>1, <2>2, ZenonT(30) DEF Cleaning
<1> QED
    BY <1>1, <1>2, ZenonT(30)

\* A step of worker w, which leaves what the others hold.
LEMMA WorkerKeeps ==
    ASSUME IInv, NoLostUpdate, ~ShuttingDown, NEW w \in Workers, NEW s,
           worker' = [worker EXCEPT ![w] = s],
           version' = version, present' = present, deleted' = deleted,
           \A i \in Queued \ Queued' : s.item = i /\ s.pc = "got",
           pending \cup dirty \subseteq pending' \cup dirty' \cup {s.item},
           abandoned \subseteq abandoned', cleaned \subseteq cleaned',
           \A k \in Keys : handled[k] = version[k] => handled'[k] = version[k],
           \A k \in present : Holds(w, k) =>
                \/ KeyItems(k) \cap Queued' # {}
                \/ s.item \in KeyItems(k) /\ (s.pc = "syncing" => s.read = version[k])
                \/ handled'[k] = version[k] \/ <<k, version[k]>> \in abandoned',
           \A d \in deleted \ cleaned' : worker[w].item = DeleteItem(d) => s.item = DeleteItem(d)
    PROVE  (Updates /\ Deletions)'
<1>0. \A v \in Workers : worker'[v] = IF v = w THEN s ELSE worker[v]
    BY ZenonT(30) DEF IInv, TypeOK
<1>1. Updates'
  <2> SUFFICES ASSUME NEW k \in present, handled'[k] # version[k], <<k, version[k]>> \notin abandoned'
               PROVE  WillSync(k)'
      BY ZenonT(30) DEF Updates
  <2>1. k \in Keys /\ WillSync(k)
      BY Splits, ZenonT(30) DEF IInv, TypeOK, Updates
  <2>2. \A v \in Workers : Holds(v, k)' <=>
            /\ worker'[v].item \in KeyItems(k)
            /\ worker'[v].pc = "syncing" => worker'[v].read = version[k]
      BY ZenonT(30) DEF Holds, KeyItems, Item
  <2>3. \A i \in KeyItems(k) \cap Queued : i \in Queued' \/ Holds(w, k)'
      BY <1>0, <2>2
  <2>4. \A v \in Workers : Holds(v, k) =>
            KeyItems(k) \cap Queued' # {} \/ Holds(v, k)'
      BY <1>0, <2>2 DEF Holds
  <2> QED
      BY <2>1, <2>3, <2>4, WillSyncKept, ZenonT(30)
<1>2. Deletions'
  <2> SUFFICES ASSUME NEW d \in deleted \ cleaned' PROVE Cleaning(d)'
      BY ZenonT(30) DEF Deletions
  <2>1. DeleteItem(d)' = DeleteItem(d)
      BY ZenonT(30) DEF DeleteItem, Item
  <2>2. Cleaning(d)
      BY Splits, ZenonT(30) DEF Deletions
  <2>3. CASE DeleteItem(d) \in pending \cup dirty
      BY <1>0, <2>1, <2>3 DEF Cleaning
  <2>4. CASE \E v \in Workers : worker[v].item = DeleteItem(d)
      BY <1>0, <2>1, <2>4 DEF Cleaning
  <2> QED
      BY <2>2, <2>3, <2>4, ZenonT(30) DEF Cleaning
<1> QED
    BY <1>1, <1>2, ZenonT(30)

LEMMA UpdatesStep == IInv /\ NoLostUpdate /\ [Next]_vars => NoLostUpdate'
<1> SUFFICES ASSUME IInv, NoLostUpdate, [Next]_vars, ~ShuttingDown'
             PROVE  (Updates /\ Deletions)'
    BY Splits, ZenonT(30) DEF NoLostUpdate, Updates, Deletions, Cleaning, DeleteItem
<1> USE DEF IInv
<1>a. \A i \in Queued : i \in Items
    BY ZenonT(30) DEF TypeOK, Queued
<1>1. ASSUME NEW k \in Keys, Upsert(k) PROVE (Updates /\ Deletions)'
  <2>1. ~ShuttingDown
      BY <1>1, ZenonT(30) DEF Upsert, ShuttingDown
  <2>2. Item("event", k, 0) \in KeyItems(k) \cap Queued' /\ Queued \subseteq Queued'
      BY <1>1, KeyItemFacts, ZenonT(30) DEF Upsert, Queued, queueVars
  <2>3. Updates'
    <3> SUFFICES ASSUME NEW j \in present', handled'[j] # version'[j], <<j, version'[j]>> \notin abandoned'
                 PROVE  WillSync(j)'
        BY ZenonT(30) DEF Updates
    <3>1. CASE j = k
        BY <2>2, <3>1, ZenonT(30) DEF WillSync, Queued, KeyItems, Item
    <3>2. CASE j # k
      <4>1. j \in present /\ j \in Keys /\ version'[j] = version[j] /\ handled' = handled
            /\ abandoned' = abandoned /\ worker' = worker
          BY <1>1, <3>2, ZenonT(30) DEF Upsert, TypeOK, historyVars
      <4>2. WillSync(j)
          BY <2>1, <4>1, Splits, ZenonT(30) DEF Updates
      <4>3. \A w \in Workers : Holds(w, j) => Holds(w, j)'
          BY <4>1, ZenonT(30) DEF Holds, KeyItems, Item
      <4> QED
          BY <2>2, <4>1, <4>2, <4>3, WillSyncKept, ZenonT(30)
    <3> QED
        BY <3>1, <3>2, ZenonT(30)
  <2>4. Deletions'
      BY <1>1, <2>1, Splits, ZenonT(30) DEF Upsert, Deletions, Cleaning, DeleteItem, Item, queueVars, historyVars
  <2> QED
      BY <2>3, <2>4, ZenonT(30)
<1>2. ASSUME NEW k \in Keys, Delete(k) PROVE (Updates /\ Deletions)'
  <2>1. \A d \in deleted' \ deleted : DeleteItem(d) \in pending'
      BY <1>2 DEF Delete, DeleteItem
  <2> QED
      BY <1>2, <2>1, QueueKeeps, ZenonT(30) DEF Delete, ShuttingDown, Queued, queueVars, historyVars
<1>3. ASSUME Resync PROVE (Updates /\ Deletions)'
    BY <1>3, QueueKeeps, ZenonT(30) DEF Resync, ShuttingDown, Queued, queueVars, historyVars, cacheVars
<1>4. ASSUME NEW i \in Items, Enqueue(i) PROVE (Updates /\ Deletions)'
    BY <1>4, QueueKeeps, ZenonT(30) DEF Enqueue, Add, ShuttingDown, Queued, historyVars, cacheVars
<1>5. ASSUME NEW i \in Items, DelayOver(i) PROVE (Updates /\ Deletions)'
    BY <1>5, QueueKeeps, ZenonT(30) DEF DelayOver, Add, ShuttingDown, Queued, historyVars, cacheVars
<1>6. ASSUME NEW k \in Keys, Requeue(k) \/ RequeueAfter(k) PROVE (Updates /\ Deletions)'
    BY <1>6, QueueKeeps, ZenonT(30) DEF Requeue, RequeueAfter, Add, AddAfter, ShuttingDown, Queued,
                            historyVars, cacheVars
<1>7. ASSUME NEW w \in Workers, NEW i \in Items, Get(w, i) PROVE (Updates /\ Deletions)'
  <2> DEFINE s == Worker("got", i, 0)
  <2>1. s.pc = "got" /\ s.item = i
      BY ZenonT(30) DEF Worker
  <2>2. worker[w].item = NoItem
      BY <1>7, WorkerFacts, ZenonT(30) DEF Get
  <2>3. \A k \in Keys : ~Holds(w, k)
      BY <2>2, KeyItemFacts, ZenonT(30) DEF Holds
  <2>4. \A d : worker[w].item # DeleteItem(d)
      BY <2>2 DEF NoItem, DeleteItem, Item
  <2>5. worker' = [worker EXCEPT ![w] = s] /\ ~ShuttingDown
      BY <1>7, ZenonT(30) DEF Get, ShuttingDown
  <2>6. \A j \in Queued \ Queued' : j = i
      BY <1>7, ZenonT(30) DEF Get, Queued
  <2>7. pending \cup dirty \subseteq pending' \cup dirty' \cup {i}
      BY <1>7, ZenonT(30) DEF Get
  <2>8. version' = version /\ present' = present /\ deleted' = deleted
        /\ handled' = handled /\ abandoned' = abandoned /\ cleaned' = cleaned
      BY <1>7, ZenonT(30) DEF Get, cacheVars, historyVars
  <2>9. present \subseteq Keys
      BY ZenonT(30) DEF TypeOK
  <2> HIDE DEF s
  <2> QED
      BY <2>1, <2>3, <2>4, <2>5, <2>6, <2>7, <2>8, <2>9, WorkerKeeps, ZenonT(30)
<1>8. ASSUME NEW w \in Workers, Quit(w) PROVE (Updates /\ Deletions)'
    BY <1>8, ZenonT(30) DEF Quit, ShuttingDown
<1>9. ASSUME NEW w \in Workers, ReadMissing(w) PROVE (Updates /\ Deletions)'
  <2> DEFINE s == Worker("idle", NoItem, 0)
  <2>1. worker' = [worker EXCEPT ![w] = s] /\ ~ShuttingDown
      BY <1>9, ZenonT(30) DEF ReadMissing, Idle, ShuttingDown
  <2>2. worker[w].item \in Items /\ worker[w].item.kind # "deleted" /\ worker[w].item.key \notin present
      BY <1>9, WorkerFacts, ZenonT(30) DEF ReadMissing
  <2>3. \A k \in present : ~Holds(w, k)
      BY <2>2, ItemFacts, ZenonT(30) DEF Holds, TypeOK
  <2>4. \A d : worker[w].item # DeleteItem(d)
      BY <2>2 DEF DeleteItem, Item
  <2>5. version' = version /\ present' = present /\ deleted' = deleted /\ Queued' = Queued
        /\ handled' = handled /\ abandoned' = abandoned /\ cleaned' = cleaned
        /\ pending' = pending /\ dirty' = dirty
      BY <1>9, ZenonT(30) DEF ReadMissing, Queued, cacheVars, historyVars
  <2> HIDE DEF s
  <2> QED
      BY <2>1, <2>3, <2>4, <2>5, WorkerKeeps, ZenonT(30)
<1>10. ASSUME NEW w \in Workers, Read(w) PROVE (Updates /\ Deletions)'
  <2> DEFINE i == worker[w].item
             v == IF i.kind = "deleted" THEN 0 ELSE version[i.key]
             s == Worker("syncing", i, v)
  <2>1. s.item = i /\ s.read = v
      BY ZenonT(30) DEF Worker
  <2>2. i \in Items
      BY <1>10, WorkerFacts, ZenonT(30) DEF Read
  <2>3. \A k \in present : Holds(w, k) => i \in KeyItems(k) /\ v = version[k]
      BY <2>2, ItemFacts, ZenonT(30) DEF Holds, TypeOK
  <2>4. worker' = [worker EXCEPT ![w] = s] /\ ~ShuttingDown
      BY <1>10, ZenonT(30) DEF Read, ShuttingDown
  <2>5. version' = version /\ present' = present /\ deleted' = deleted /\ Queued' = Queued
        /\ handled' = handled /\ abandoned' = abandoned /\ cleaned' = cleaned
        /\ pending' = pending /\ dirty' = dirty
      BY <1>10, ZenonT(30) DEF Read, Queued, cacheVars, historyVars, queueVars
  <2> HIDE DEF s
  <2> QED
      BY <2>1, <2>3, <2>4, <2>5, WorkerKeeps, ZenonT(90)
<1>11. ASSUME NEW w \in Workers, SyncFails(w) PROVE (Updates /\ Deletions)'
  <2> DEFINE i == worker[w].item
             s == Worker("idle", NoItem, 0)
  <2>1. worker' = [worker EXCEPT ![w] = s] /\ ~ShuttingDown
      BY <1>11, ZenonT(30) DEF SyncFails, Idle, ShuttingDown
  <2>2. i \in Items /\ i.kind # "deleted"
      BY <1>11, WorkerFacts DEF SyncFails
  <2>3. \A k \in present : Holds(w, k) => i \in KeyItems(k) /\ i.key = k /\ worker[w].read = version[k]
      BY <1>11, <2>2, ItemFacts, ZenonT(30) DEF SyncFails, Holds, TypeOK
  <2>4. \A d : worker[w].item # DeleteItem(d)
    <3>1. \A d : DeleteItem(d).kind = "deleted"
        BY ZenonT(30) DEF DeleteItem, Item
    <3> QED
        BY <2>2, <3>1, ZenonT(30)
  <2>5. i \in waiting' \/ <<i.key, worker[w].read>> \in abandoned'
      BY <1>11, <2>1, ZenonT(30) DEF SyncFails, AddRateLimited, AddAfter
  <2>6. waiting \subseteq waiting' /\ abandoned \subseteq abandoned'
      BY <1>11, ZenonT(30) DEF SyncFails, AddRateLimited, AddAfter
  <2>7. version' = version /\ present' = present /\ deleted' = deleted /\ handled' = handled
        /\ cleaned' = cleaned /\ pending' = pending /\ dirty' = dirty
      BY <1>11, ZenonT(30) DEF SyncFails, cacheVars
  <2>8. Queued \subseteq Queued' /\ waiting' \subseteq Queued'
      BY <2>6, <2>7, ZenonT(30) DEF Queued
  <2> HIDE DEF s
  <2> QED
      BY <2>1, <2>3, <2>4, <2>5, <2>6, <2>7, <2>8, WorkerKeeps, ZenonT(90)
<1>12. ASSUME NEW w \in Workers, Sync(w) PROVE (Updates /\ Deletions)'
  <2> DEFINE i == worker[w].item
             s == Worker("idle", NoItem, 0)
  <2>1. worker' = [worker EXCEPT ![w] = s] /\ ~ShuttingDown
      BY <1>12, ZenonT(30) DEF Sync, Idle, ShuttingDown
  <2>2. i \in Items /\ i.key \in Keys /\ worker[w].read \in Nat
      BY <1>12, WorkerFacts, ItemFacts DEF Sync, Versions
  <2>3. \A k \in present : Holds(w, k) => i.kind # "deleted" /\ i.key = k /\ worker[w].read = version[k]
      BY <1>12, <2>2, ItemFacts, ZenonT(30) DEF Sync, Holds, TypeOK
  <2>4. \A k \in Keys : handled[k] \in Nat /\ version[k] \in Nat /\ handled[k] <= version[k]
      BY DEF TypeOK, Versions
  <2>5. i.kind # "deleted" =>
            /\ worker[w].read <= version[i.key]
            /\ handled' = [handled EXCEPT ![i.key] = IF worker[w].read > handled[i.key]
                                                    THEN worker[w].read ELSE handled[i.key]]
            /\ cleaned' = cleaned
      BY <1>12, ZenonT(30) DEF Sync, ReadBefore
  <2>6. i.kind = "deleted" => handled' = handled /\ cleaned' = cleaned \cup {<<i.key, i.version>>}
      BY <1>12, ZenonT(30) DEF Sync
  <2>7. handled \in [Keys -> Versions]
      BY ZenonT(30) DEF TypeOK
  <2>8. \A k \in Keys : handled[k] = version[k] => handled'[k] = version[k]
      BY <2>2, <2>4, <2>5, <2>6, <2>7
  <2>9. \A k \in present : Holds(w, k) => handled'[k] = version[k]
      BY <2>2, <2>3, <2>4, <2>5, <2>7
  <2>10. \A d \in deleted \ cleaned' : i # DeleteItem(d)
    <3> SUFFICES ASSUME NEW d \in deleted, i = DeleteItem(d) PROVE d \in cleaned'
        BY ZenonT(30)
    <3>1. d = <<d[1], d[2]>>
        BY DEF TypeOK
    <3>2. i.kind = "deleted" /\ i.key = d[1] /\ i.version = d[2]
        BY DEF DeleteItem, Item
    <3> QED
        BY <2>6, <3>1, <3>2, ZenonT(30)
  <2>11. cleaned \subseteq cleaned'
      BY <2>5, <2>6, ZenonT(30)
  <2>12. version' = version /\ present' = present /\ deleted' = deleted /\ Queued' = Queued
        /\ abandoned' = abandoned /\ pending' = pending /\ dirty' = dirty
      BY <1>12, ZenonT(30) DEF Sync, cacheVars, Queued
  <2> HIDE DEF s
  <2> QED
      BY <2>1, <2>8, <2>9, <2>10, <2>11, <2>12, WorkerKeeps, ZenonT(30)
<1>13. ASSUME Connect \/ ConnectFails \/ StartCancelled \/ ShutDown PROVE (Updates /\ Deletions)'
  <2>1. worker' = worker /\ phase # "stopped"
      BY <1>13, ZenonT(30) DEF Connect, ConnectFails, StartCancelled, ShutDown
  <2> QED
      BY <1>13, <2>1, QueueKeeps, ZenonT(30) DEF Connect, ConnectFails, StartCancelled, ShutDown, Moved,
         ShuttingDown, Queued, queueVars, cacheVars, historyVars
<1>14. ASSUME CachesSynced PROVE (Updates /\ Deletions)'
  <2>1. ~ShuttingDown
      BY <1>14, ZenonT(30) DEF CachesSynced, ShuttingDown
  <2>2. \A w \in Workers : worker[w].item = NoItem
      BY <1>14, WorkerFacts, ZenonT(30) DEF CachesSynced, WorkersOff
  <2>3. version' = version /\ present' = present /\ deleted' = deleted /\ Queued' = Queued
        /\ handled' = handled /\ abandoned' = abandoned /\ cleaned' = cleaned
        /\ pending' = pending /\ dirty' = dirty
      BY <1>14, ZenonT(30) DEF CachesSynced, Moved, Queued, cacheVars, historyVars, queueVars
  <2>4. \A w \in Workers, k \in Keys : ~Holds(w, k)
      BY <2>2, KeyItemFacts, ZenonT(30) DEF Holds
  <2>5. Updates'
    <3> SUFFICES ASSUME NEW k \in present, handled[k] # version[k], <<k, version[k]>> \notin abandoned
                 PROVE  WillSync(k)'
        BY <2>3, ZenonT(30) DEF Updates
    <3>1. k \in Keys /\ WillSync(k)
        BY <2>1, Splits, ZenonT(30) DEF TypeOK, Updates
    <3> QED
        BY <2>3, <2>4, <3>1, WillSyncKept, ZenonT(30)
  <2>6. Deletions'
    <3> SUFFICES ASSUME NEW d \in deleted \ cleaned PROVE Cleaning(d)'
        BY <2>3, ZenonT(30) DEF Deletions
    <3>1. Cleaning(d)
        BY <2>1, Splits, ZenonT(30) DEF Deletions
    <3>2. DeleteItem(d) # NoItem /\ DeleteItem(d)' = DeleteItem(d)
        BY ZenonT(30) DEF DeleteItem, NoItem, Item
    <3> QED
        BY <2>2, <2>3, <3>1, <3>2, ZenonT(30) DEF Cleaning
  <2> QED
      BY <2>5, <2>6, ZenonT(30)
<1>15. ASSUME Cancel \/ UNCHANGED vars PROVE (Updates /\ Deletions)'
    BY <1>15, QueueKeeps, ZenonT(30) DEF Cancel, vars, ShuttingDown, Queued, queueVars, cacheVars, historyVars
<1> QED
    BY <1>1, <1>2, <1>3, <1>4, <1>5, <1>6, <1>7, <1>8, <1>9, <1>10, <1>11, <1>12, <1>13,
       <1>14, <1>15, ZenonT(30) DEF Next, Informer, Queue, Work, Start

(***************************************************************************)
(* Whatever the number of objects and workers, and wherever in its way     *)
(* through the cache, the queue and processNextWorkItem another change     *)
(* comes, no update and no deletion is lost.                               *)
(***************************************************************************)
THEOREM UpdatesKept == Spec => []NoLostUpdate
<1>1. Init => NoLostUpdate
    BY ZenonT(30) DEF Init, NoLostUpdate
<1>2. IInv /\ NoLostUpdate /\ [Next]_vars => NoLostUpdate'
    BY UpdatesStep, ZenonT(30)
<1> QED
    BY <1>1, <1>2, Invariance, PTL DEF Spec

-----------------------------------------------------------------------------
(* The deletions of a key are of versions the cache is past. *)
Past ==
    /\ \A k \in present : <<k, version[k]>> \notin deleted
    /\ \A d \in deleted : d[2] <= version[d[1]]

Held(i) == \E w \in Workers : worker[w].item = i

(* A delete event is notified, queued or in the hands of one worker. *)
Single(i) ==
    /\ i \notin waiting
    /\ i \in pending => i \notin dirty /\ ~Held(i)
    /\ i \in dirty => ~Held(i)
    /\ \A v, w \in Workers : worker[v].item = i /\ worker[w].item = i => v = w
    /\ i \in pending \cup dirty \/ Held(i) => <<i.key, i.version>> \notin cleaned

Once == \A i \in Items : i.kind = "deleted" => Single(i)


LEMMA InitOnce == Init => Past /\ Once
<1> SUFFICES ASSUME Init PROVE Past /\ Once
    BY ZenonT(30)
<1>1. Past
    BY ZenonT(30) DEF Init, Past
<1>2. \A w \in Workers : worker[w].item = NoItem
    BY ZenonT(30) DEF Init, Worker
<1>3. \A i \in Items : ~Held(i)
    BY <1>2, ItemFacts, KeyItemFacts, ZenonT(30) DEF Held
<1> QED
    BY <1>1, <1>2, <1>3, ItemFacts, KeyItemFacts, ZenonT(30) DEF Init, Once, Single

LEMMA PastStep == IInv /\ Past /\ [Next]_vars => Past'
<1> SUFFICES ASSUME IInv, Past, [Next]_vars PROVE Past'
    BY ZenonT(30)
<1>0. version \in [Keys -> Versions] /\ deleted \subseteq Keys \X Versions /\ present \subseteq Keys
    BY ZenonT(30) DEF IInv, TypeOK
<1>1. ASSUME NEW k \in Keys, Upsert(k) PROVE Past'
    <2>1. /\ version' = [version EXCEPT ![k] = @ + 1] /\ deleted' = deleted /\ present' = present \cup {k}
        BY <1>1, ZenonT(30) DEF Upsert
    <2>2. \A d \in deleted : d[1] \in Keys /\ d[2] \in Nat /\ version[d[1]] \in Nat /\ d[2] <= version[d[1]]
        BY <1>0 DEF Past, Versions
    <2>3. \A d \in deleted : d[2] <= version'[d[1]]
        BY <1>0, <2>1, <2>2
    <2>4. <<k, version'[k]>> \notin deleted
        <3> SUFFICES ASSUME <<k, version'[k]>> \in deleted PROVE FALSE
            BY ZenonT(30)
        <3>1. version'[k] <= version[k] /\ version[k] \in Nat /\ version'[k] = version[k] + 1
            BY <1>0, <2>1, <2>2, ZenonT(30)
        <3> QED
            BY <3>1
    <2>5. \A j \in present' : <<j, version'[j]>> \notin deleted
        BY <1>0, <2>1, <2>4, ZenonT(30) DEF Past
    <2> QED
        BY <2>1, <2>3, <2>5, ZenonT(30) DEF Past
<1>2. ASSUME NEW k \in Keys, Delete(k) PROVE Past'
    <2>1. /\ version' = version /\ deleted' = deleted \cup {<<k, version[k]>>} /\ present' = present \ {k}
        BY <1>2, ZenonT(30) DEF Delete
    <2>2. version[k] \in Nat /\ version[k] <= version[k]
        BY <1>0 DEF Versions
    <2> QED
        BY <1>0, <2>1, <2>2 DEF Past
<1>3. CASE UNCHANGED cacheVars
    BY <1>3, ZenonT(30) DEF Past, cacheVars
<1>4. UNCHANGED cacheVars \/ \E k \in Keys : Upsert(k) \/ Delete(k)
    BY ZenonT(30) DEF Next, Informer, Queue, Work, Start, Resync, Enqueue, DelayOver, Requeue, RequeueAfter,
           Get, Quit, ReadMissing, Read, SyncFails, Sync, Connect, ConnectFails, StartCancelled,
           CachesSynced, ShutDown, Moved, Cancel, vars
<1> QED
    BY <1>1, <1>2, <1>3, <1>4, ZenonT(30)

\* A step that changes no worker and moves the delete event nowhere.
LEMMA SingleKept ==
    ASSUME NEW i \in Items, Single(i), worker' = worker, cleaned' = cleaned,
           i \notin waiting', i \in pending' => i \in pending, i \in dirty' => i \in dirty
    PROVE  Single(i)'
BY ZenonT(30) DEF Single, Held

\* A step of worker w after which it holds no delete event it did not hold.
LEMMA SingleKeptByWorker ==
    ASSUME TypeOK, NEW i \in Items, Single(i), NEW w \in Workers, NEW s,
           worker' = [worker EXCEPT ![w] = s],
           s.item = i => worker[w].item = i,
           cleaned' = cleaned, pending' = pending, dirty' = dirty, i \notin waiting'
    PROVE  Single(i)'
<1>1. \A v \in Workers : worker'[v] = IF v = w THEN s ELSE worker[v]
    BY ZenonT(30) DEF TypeOK
<1>2. \A v \in Workers : worker'[v].item = i => worker[v].item = i
    BY <1>1, ZenonT(30)
<1>3. Held(i)' => Held(i)
    BY <1>2, ZenonT(30) DEF Held
<1> QED
    BY <1>2, <1>3, ZenonT(30) DEF Single

LEMMA OnceStep == IInv /\ Past /\ Once /\ [Next]_vars => Once'
<1> SUFFICES ASSUME IInv, Past, Once, [Next]_vars, NEW i \in Items, i.kind = "deleted"
             PROVE  Single(i)'
    BY ZenonT(30) DEF Once, Items, Versions
<1> USE DEF IInv
<1>a. Single(i) /\ i \notin waiting
    BY ZenonT(30) DEF Once, Single
<1>b. /\ \A k \in Keys : i \notin KeyItems(k) /\ i # Item("event", k, 0)
      /\ i # NoItem /\ i = Item("deleted", i.key, i.version) /\ i.key \in Keys
    BY ItemFacts, KeyItemFacts, ZenonT(30)
<1>1. ASSUME NEW k \in Keys, Upsert(k) PROVE Single(i)'
    BY <1>1, <1>a, <1>b, SingleKept, ZenonT(30) DEF Upsert, queueVars, historyVars
<1>2. ASSUME NEW k \in Keys, Delete(k) PROVE Single(i)'
  <2>0. /\ k \in present /\ pending' = pending \cup {Item("deleted", k, version[k])}
        /\ worker' = worker /\ cleaned' = cleaned /\ dirty' = dirty /\ waiting' = waiting
      BY <1>2, ZenonT(30) DEF Delete, queueVars, historyVars
  <2>1. CASE i # Item("deleted", k, version[k])
      BY <1>a, <2>0, <2>1, SingleKept, ZenonT(30)
  <2>2. CASE i = Item("deleted", k, version[k])
    <3>1. i.key = k /\ i.version = version[k] /\ <<k, version[k]>> \notin deleted
        BY <2>0, <2>2, ZenonT(30) DEF Item, Past
    <3>2. ~Justified(i)
        BY <3>1, ZenonT(30) DEF Justified
    <3>3. i \notin pending \cup dirty \cup waiting /\ ~Held(i)
        BY <3>2, ZenonT(30) DEF ItemsJustified, Held
    <3>4. <<i.key, i.version>> \notin cleaned
        BY <3>1, ZenonT(30) DEF TypeOK
    <3>5. ~Held(i)'
        BY <2>0, <3>3, ZenonT(30) DEF Held
    <3> QED
        BY <2>0, <3>3, <3>4, <3>5, ZenonT(30) DEF Single, Held
  <2> QED
      BY <2>1, <2>2, ZenonT(30)
<1>3. ASSUME Resync PROVE Single(i)'
  <2>1. \A k \in present : i # Item("event", k, 0)
      BY <1>b, ZenonT(30) DEF TypeOK
  <2> QED
      BY <1>3, <1>a, <2>1, SingleKept, ZenonT(30) DEF Resync, queueVars, historyVars
<1>4. ASSUME NEW j \in Items, Enqueue(j) PROVE Single(i)'
  <2>0. /\ j \in pending /\ pending' = pending \ {j}
        /\ dirty' = dirty \/ dirty' = dirty \cup {j}
        /\ worker' = worker /\ cleaned' = cleaned /\ waiting' = waiting
      BY <1>4, ZenonT(30) DEF Enqueue, Add, historyVars
  <2>1. CASE i # j \/ dirty' = dirty
      BY <1>a, <2>0, <2>1, SingleKept, ZenonT(30)
  <2>2. CASE i = j
      BY <1>a, <2>0, <2>2, ZenonT(30) DEF Single, Held
  <2> QED
      BY <2>0, <2>1, <2>2, ZenonT(30)
<1>5. ASSUME NEW j \in Items, DelayOver(j) PROVE Single(i)'
  <2>1. j # i
      BY <1>5, <1>a, ZenonT(30) DEF DelayOver
  <2> QED
      BY <1>5, <1>a, <2>1, SingleKept, ZenonT(30) DEF DelayOver, Add, historyVars
<1>6. ASSUME NEW k \in Keys, Requeue(k) PROVE Single(i)'
  <2>1. PICK j \in KeyItems(k) : Add({j})
      BY <1>6, ZenonT(30) DEF Requeue
  <2>2. j # i
      BY <1>b, <2>1, ZenonT(30)
  <2> QED
      BY <1>6, <1>a, <2>1, <2>2, SingleKept, ZenonT(30) DEF Requeue, Add, historyVars
<1>7. ASSUME NEW k \in Keys, RequeueAfter(k) PROVE Single(i)'
  <2>1. PICK j \in KeyItems(k) : AddAfter(j)
      BY <1>7, ZenonT(30) DEF RequeueAfter
  <2>2. j # i
      BY <1>b, <2>1, ZenonT(30)
  <2> QED
      BY <1>7, <1>a, <2>1, <2>2, SingleKept, ZenonT(30) DEF RequeueAfter, AddAfter, historyVars
<1>8. ASSUME NEW w \in Workers, NEW j \in Items, Get(w, j) PROVE Single(i)'
  <2>0. /\ j \in dirty /\ dirty' = dirty \ {j} /\ pending' = pending /\ waiting' = waiting
        /\ cleaned' = cleaned /\ worker' = [worker EXCEPT ![w] = Worker("got", j, 0)]
      BY <1>8, ZenonT(30) DEF Get, historyVars
  <2>1. \A v \in Workers : worker'[v] = IF v = w THEN Worker("got", j, 0) ELSE worker[v]
      BY <2>0, ZenonT(30) DEF TypeOK
  <2>2. Worker("got", j, 0).item = j
      BY ZenonT(30) DEF Worker
  <2>3. CASE i # j
    <3>1. \A v \in Workers : worker'[v].item = i => worker[v].item = i
        BY <2>1, <2>2, <2>3, ZenonT(30)
    <3>2. Held(i)' => Held(i)
        BY <3>1, ZenonT(30) DEF Held
    <3> QED
        BY <1>a, <2>0, <3>1, <3>2, ZenonT(30) DEF Single
  <2>4. CASE i = j
    <3>1. \A v \in Workers : worker'[v].item = i => v = w
        BY <1>a, <2>0, <2>1, <2>4, ZenonT(30) DEF Single, Held
    <3> QED
        BY <1>a, <2>0, <2>4, <3>1, ZenonT(30) DEF Single, Held
  <2> QED
      BY <2>3, <2>4, ZenonT(30)
<1>9. ASSUME NEW w \in Workers, Quit(w) PROVE Single(i)'
    BY <1>9, <1>a, <1>b, SingleKeptByWorker, ZenonT(30) DEF Quit, Worker, queueVars, historyVars
<1>10. ASSUME NEW w \in Workers, ReadMissing(w) PROVE Single(i)'
    BY <1>10, <1>a, <1>b, SingleKeptByWorker, ZenonT(30) DEF ReadMissing, Idle, Worker, historyVars
<1>11. ASSUME NEW w \in Workers, Read(w) PROVE Single(i)'
    BY <1>11, <1>a, <1>b, SingleKeptByWorker, ZenonT(30) DEF Read, Worker, queueVars, historyVars
<1>12. ASSUME NEW w \in Workers, SyncFails(w) PROVE Single(i)'
  <2>1. i \notin waiting'
      BY <1>12, <1>a, ZenonT(30) DEF SyncFails, AddRateLimited, AddAfter
  <2> QED
      BY <1>12, <1>a, <1>b, <2>1, SingleKeptByWorker, ZenonT(30) DEF SyncFails, Idle, Worker
<1>13. ASSUME NEW w \in Workers, Sync(w) PROVE Single(i)'
  <2>0. /\ dirty' = dirty /\ pending' = pending /\ waiting' = waiting
        /\ worker' = [worker EXCEPT ![w] = Worker("idle", NoItem, 0)]
      BY <1>13, ZenonT(30) DEF Sync, Idle
  <2>1. \A v \in Workers : worker'[v] = IF v = w THEN Worker("idle", NoItem, 0) ELSE worker[v]
      BY <2>0, ZenonT(30) DEF TypeOK
  <2>2. \A v \in Workers : worker'[v].item = i => worker[v].item = i /\ v # w
      BY <1>b, <2>1 DEF Worker
  <2>3. CASE worker[w].item = i
    <3>1. ~Held(i)'
        BY <1>a, <2>2, <2>3, ZenonT(30) DEF Single, Held
    <3>2. i \notin pending \cup dirty
        BY <1>a, <2>3, ZenonT(30) DEF Single, Held
    <3> QED
        BY <1>a, <2>0, <2>2, <3>1, <3>2, ZenonT(30) DEF Single
  <2>4. CASE worker[w].item # i
    <3>1. worker[w].pc = "syncing" /\ worker[w].item \in Items
        BY <1>13, WorkerFacts, ZenonT(30) DEF Sync
    <3>2. worker[w].item = Item(worker[w].item.kind, worker[w].item.key, worker[w].item.version)
        BY <3>1, ItemFacts, ZenonT(30)
    <3>3. worker[w].item.kind = "deleted" =>
            <<worker[w].item.key, worker[w].item.version>> # <<i.key, i.version>>
        BY <1>b, <2>4, <3>2, ZenonT(30)
    <3>4. <<i.key, i.version>> \in cleaned' => <<i.key, i.version>> \in cleaned
        BY <1>13, <3>3 DEF Sync
    <3>5. Held(i)' => Held(i)
        BY <2>2, ZenonT(30) DEF Held
    <3> QED
        BY <1>a, <2>0, <2>2, <3>4, <3>5, ZenonT(30) DEF Single
  <2> QED
      BY <2>3, <2>4, ZenonT(30)
<1>14. ASSUME CachesSynced PROVE Single(i)'
  <2>1. \A v \in Workers : worker'[v].item = NoItem
      BY <1>14, ZenonT(30) DEF CachesSynced, Worker
  <2>2. ~Held(i)'
      BY <1>b, <2>1, ZenonT(30) DEF Held
  <2>3. UNCHANGED <<pending, dirty, waiting, cleaned>> /\ Workers = Workers
      BY <1>14, ZenonT(30) DEF CachesSynced, Moved, queueVars, historyVars
  <2> QED
      BY <1>a, <1>b, <2>1, <2>2, <2>3, ZenonT(30) DEF Single
<1>15. ASSUME UNCHANGED <<pending, queueVars, worker, historyVars>> PROVE Single(i)'
    BY <1>15, <1>a, SingleKept, ZenonT(30) DEF queueVars, historyVars
<1>16. Connect \/ ConnectFails \/ StartCancelled \/ ShutDown \/ Cancel \/ UNCHANGED vars
       => UNCHANGED <<pending, queueVars, worker, historyVars>>
    BY ZenonT(30) DEF Connect, ConnectFails, StartCancelled, ShutDown, Cancel, Moved, vars
<1> QED
    BY <1>1, <1>2, <1>3, <1>4, <1>5, <1>6, <1>7, <1>8, <1>9, <1>10, <1>11, <1>12, <1>13,
       <1>14, <1>15, <1>16, ZenonT(30) DEF Next, Informer, Queue, Work, Start

-----------------------------------------------------------------------------
(***************************************************************************)
(* The steps.  Will(k, Q, W, v) is WillSync of a key with version v, when  *)
(* Q is queued and W are the workers.                                      *)
(***************************************************************************)
Will(k, Q, W, v) ==
    \/ KeyItems(k) \cap Q # {}
    \/ \E w \in Workers : W[w].item \in KeyItems(k) /\ (W[w].pc = "syncing" => W[w].read = v)

Owed == {k \in present : WillSync(k)}

LEMMA OwedFacts ==
    /\ Owed = {k \in present : Will(k, Queued, worker, version[k])}
    /\ Owed' = {k \in present' : Will(k, Queued', worker', version'[k])}
<1>1. \A k : WillSync(k) <=> Will(k, Queued, worker, version[k])
    BY ZenonT(30) DEF WillSync, Will, Queued
<1>2. \A k : WillSync(k)' <=> Will(k, Queued', worker', version'[k])
    BY ZenonT(30) DEF WillSync, Will, Queued, KeyItems, Item
<1>3. Owed = {k \in present : Will(k, Queued, worker, version[k])}
    BY <1>1, ZenonT(30) DEF Owed
<1>4. Owed' = {k \in present' : WillSync(k)'}
    BY ZenonT(30) DEF Owed
<1> QED
    BY <1>2, <1>3, <1>4, ZenonT(30)

\* More is owed, and all of it before too.
LEMMA RenewStep ==
    ASSUME UNCHANGED <<cacheVars, historyVars>>, ShuttingDown' <=> ShuttingDown,
           \A k \in present : Will(k, Queued, worker, version[k]) => Will(k, Queued', worker', version[k])
    PROVE  Promise!Next
<1>1. Owed \subseteq Owed' /\ Owed' \subseteq present
    BY OwedFacts, ZenonT(30) DEF cacheVars
<1>2. (~ShuttingDown)' = ~ShuttingDown
    BY ZenonT(30)
<1> QED
    BY <1>1, <1>2, ZenonT(30) DEF Promise!Next, Promise!Renew, Owed, cacheVars, historyVars

\* The loop has stopped, and nothing more is owed.
LEMMA DropStep ==
    ASSUME UNCHANGED <<phase, cacheVars, historyVars>>, ShuttingDown,
           \A k \in present : Will(k, Queued', worker', version[k]) => Will(k, Queued, worker, version[k])
    PROVE  Promise!Next
<1>1. Owed' \subseteq Owed
    BY OwedFacts, ZenonT(30) DEF cacheVars
<1>2. (~ShuttingDown)' = ~ShuttingDown
    BY ZenonT(30) DEF ShuttingDown
<1> QED
    BY <1>1, <1>2, ZenonT(30) DEF Promise!Next, Promise!Drop, Owed, cacheVars, historyVars

\* Worker w, which had read version v of k, is done with it.
LEMMA SettlesStep ==
    ASSUME TypeOK, NEW w \in Workers, worker[w].pc = "syncing",
           worker[w].item \in Items, worker[w].item.kind # "deleted",
           UNCHANGED cacheVars, UNCHANGED <<pending, dirty, waiting>>, Idle(w)
    PROVE  Promise!Settles(worker[w].item.key, worker[w].read)
<1> DEFINE k == worker[w].item.key
<1>1. \A u \in Workers : worker'[u] = IF u = w THEN Worker("idle", NoItem, 0) ELSE worker[u]
    BY ZenonT(30) DEF Idle, TypeOK
<1>2. Queued' = Queued /\ version' = version /\ present' = present
    BY ZenonT(30) DEF Queued, cacheVars
<1>3. \A j \in Keys : Will(j, Queued, worker', version[j]) => Will(j, Queued, worker, version[j])
    BY <1>1, KeyItemFacts DEF Will, Worker
<1>4. \A j \in Keys : Will(j, Queued, worker, version[j]) =>
        Will(j, Queued, worker', version[j]) \/ (j = k /\ worker[w].read = version[k])
  <2>1. \A j \in Keys : worker[w].item \in KeyItems(j) => j = k
      BY ItemFacts, ZenonT(30)
  <2> QED
      BY <1>1, <2>1, ZenonT(30) DEF Will
<1>5. present \subseteq Keys
    BY ZenonT(30) DEF TypeOK
<1>6. Owed' \subseteq Owed /\ Owed \subseteq Owed' \cup {k} /\ (Owed' # Owed => worker[w].read = version[k])
    BY <1>2, <1>3, <1>4, <1>5, OwedFacts, ZenonT(30)
<1>7. Owed' = Owed \/ (worker[w].read = version[k] /\ Owed' = Owed \ {k})
    BY <1>6, ZenonT(30)
<1> QED
    BY <1>7, ZenonT(30) DEF Promise!Settles, Owed

\* A step that changes only phase, and not to or from "stopped", or not at all.
LEMMA StartStep ==
    ASSUME IInv, Start \/ Cancel
    PROVE  Promise!Next
<1>1. UNCHANGED <<cacheVars, historyVars, pending, dirty, waiting>>
    BY ZenonT(30) DEF Start, Connect, ConnectFails, StartCancelled, CachesSynced, ShutDown, Cancel, Moved, queueVars
<1>2. Queued' = Queued /\ version' = version /\ present' = present
    BY <1>1, ZenonT(30) DEF Queued, cacheVars
<1>3. CASE worker' = worker /\ (ShuttingDown' <=> ShuttingDown)
    BY <1>1, <1>2, <1>3, RenewStep, ZenonT(30)
<1>4. CASE worker' = worker /\ ~ShuttingDown /\ ShuttingDown'
  <2>1. Owed' = Owed
      BY <1>2, <1>4, OwedFacts, ZenonT(30)
  <2>2. ~ShuttingDown /\ (~ShuttingDown)' = FALSE
      BY <1>4, ZenonT(30)
  <2> QED
      BY <1>1, <2>1, <2>2, ZenonT(30) DEF Promise!Next, Promise!Close, Owed, cacheVars, historyVars
<1>5. CASE CachesSynced
  <2>1. ShuttingDown' <=> ShuttingDown
      BY <1>5, ZenonT(30) DEF CachesSynced, Moved, ShuttingDown
  <2>2. \A w \in Workers : worker[w].item = NoItem
      BY <1>5, WorkerFacts, ZenonT(30) DEF CachesSynced, IInv, WorkersOff
  <2>3. \A k \in present : Will(k, Queued, worker, version[k]) => Will(k, Queued', worker', version[k])
    <3> SUFFICES ASSUME NEW k \in present, Will(k, Queued, worker, version[k])
                 PROVE  Will(k, Queued', worker', version[k])
        BY ZenonT(30)
    <3>1. k \in Keys
        BY ZenonT(30) DEF IInv, TypeOK
    <3> QED
        BY <1>2, <2>2, <3>1, KeyItemFacts, ZenonT(30) DEF Will
  <2> QED
      BY <1>1, <2>1, <2>3, RenewStep, ZenonT(30)
<1>6. ASSUME Connect \/ ConnectFails \/ StartCancelled \/ ShutDown \/ Cancel
      PROVE  worker' = worker /\ ((ShuttingDown' <=> ShuttingDown) \/ (~ShuttingDown /\ ShuttingDown'))
    BY <1>6, ZenonT(30) DEF Connect, ConnectFails, StartCancelled, ShutDown, Cancel, Moved, ShuttingDown
<1> QED
    BY <1>3, <1>4, <1>5, <1>6, ZenonT(30) DEF Start

\* A step of the queue: what is queued grows, or the loop has stopped.
LEMMA QueueStep ==
    ASSUME IInv, UNCHANGED <<phase, cacheVars, historyVars, worker>>,
           Queued \subseteq Queued' \/ (ShuttingDown /\ Queued' \subseteq Queued)
    PROVE  Promise!Next
<1>1. CASE Queued \subseteq Queued'
  <2>1. \A k : Will(k, Queued, worker, version[k]) => Will(k, Queued', worker', version[k])
      BY <1>1, ZenonT(30) DEF Will
  <2>2. ShuttingDown' <=> ShuttingDown
      BY ZenonT(30) DEF ShuttingDown
  <2> QED
      BY <2>1, <2>2, RenewStep, ZenonT(30)
<1>2. CASE ShuttingDown /\ Queued' \subseteq Queued
  <2>1. \A k : Will(k, Queued', worker', version[k]) => Will(k, Queued, worker, version[k])
      BY <1>2, ZenonT(30) DEF Will
  <2> QED
      BY <1>2, <2>1, DropStep, ZenonT(30)
<1> QED
    BY <1>1, <1>2, ZenonT(30)

LEMMA ChangeStep ==
    ASSUME IInv, NEW k \in Keys, Upsert(k) \/ Delete(k)
    PROVE  Promise!Next
<1> USE DEF IInv
<1>0. ~ShuttingDown /\ phase' = phase /\ (~ShuttingDown)' = ~ShuttingDown /\ ~ShuttingDown = TRUE
    BY ZenonT(30) DEF Upsert, Delete, Informing, ShuttingDown
<1>1. worker' = worker /\ handled' = handled /\ abandoned' = abandoned /\ cleaned' = cleaned
    BY ZenonT(30) DEF Upsert, Delete, historyVars
<1>2. present \subseteq Keys /\ version \in [Keys -> Versions]
    BY ZenonT(30) DEF TypeOK
<1>3. CASE Upsert(k)
  <2>1. /\ version' = [version EXCEPT ![k] = @ + 1] /\ present' = present \cup {k} /\ deleted' = deleted
        /\ Queued' = Queued \cup {Item("event", k, 0)}
      BY <1>3, ZenonT(30) DEF Upsert, Queued, queueVars
  <2>2. \A j \in Keys \ {k} : version'[j] = version[j] /\ Item("event", k, 0) \notin KeyItems(j)
      BY <1>2, <2>1, ZenonT(30) DEF KeyItems, Item
  <2>3. \A j \in Keys \ {k} : Will(j, Queued', worker', version'[j]) <=> Will(j, Queued, worker, version[j])
      BY <1>1, <2>1, <2>2, ZenonT(30) DEF Will
  <2>4. Will(k, Queued', worker', version'[k])
      BY <2>1, KeyItemFacts, ZenonT(30) DEF Will
  <2>5. Owed' = Owed \cup {k}
      BY <1>2, <2>1, <2>3, <2>4, OwedFacts, ZenonT(30)
  <2>6. Promise!Change(k)
      BY <1>0, <1>1, <2>1, <2>5, ZenonT(30) DEF Promise!Change, Owed
  <2> QED
      BY <2>6, ZenonT(30) DEF Promise!Next
<1>4. CASE Delete(k)
  <2>1. /\ version' = version /\ k \in present /\ present' = present \ {k}
        /\ deleted' = deleted \cup {<<k, version[k]>>}
        /\ Queued' = Queued \cup {Item("deleted", k, version[k])}
      BY <1>4, ZenonT(30) DEF Delete, Queued, queueVars
  <2>2. \A j \in Keys : Item("deleted", k, version[k]) \notin KeyItems(j)
      BY ZenonT(30) DEF KeyItems, Item
  <2>3. \A j \in Keys : Will(j, Queued', worker', version'[j]) <=> Will(j, Queued, worker, version[j])
      BY <1>1, <2>1, <2>2, ZenonT(30) DEF Will
  <2>5. Owed' = Owed \ {k}
      BY <1>2, <2>1, <2>3, OwedFacts, ZenonT(30)
  <2>6. Promise!Remove(k)
      BY <1>0, <1>1, <2>1, <2>5, ZenonT(30) DEF Promise!Remove, Owed
  <2> QED
      BY <2>6, ZenonT(30) DEF Promise!Next
<1> QED
    BY <1>3, <1>4, ZenonT(30)

\* A worker that takes, reads or leaves an item goes on owing what it did.
LEMMA TakeStep ==
    ASSUME IInv, NEW w \in Workers,
           (\E i \in Items : Get(w, i)) \/ Quit(w) \/ ReadMissing(w) \/ Read(w)
    PROVE  Promise!Next
<1> USE DEF IInv
<1>0. UNCHANGED <<phase, cacheVars, historyVars, pending, waiting>>
    BY ZenonT(30) DEF Get, Quit, ReadMissing, Read, queueVars
<1>1. ShuttingDown' <=> ShuttingDown
    BY <1>0, ZenonT(30) DEF ShuttingDown
<1> SUFFICES ASSUME NEW k \in present, Will(k, Queued, worker, version[k])
             PROVE  Will(k, Queued', worker', version[k])
    BY <1>0, <1>1, RenewStep, ZenonT(30)
<1>2. k \in Keys
    BY ZenonT(30) DEF TypeOK
<1>3. ASSUME NEW i \in Items, Get(w, i) PROVE Will(k, Queued', worker', version[k])
  <2>1. \A u \in Workers : worker'[u] = IF u = w THEN Worker("got", i, 0) ELSE worker[u]
      BY <1>3, ZenonT(30) DEF Get, TypeOK
  <2>2. worker[w].item \notin KeyItems(k)
      BY <1>2, <1>3, WorkerFacts, KeyItemFacts, ZenonT(30) DEF Get
  <2>3. Queued \subseteq Queued' \cup {i}
      BY <1>0, <1>3, ZenonT(30) DEF Get, Queued
  <2>4. worker'[w].item = i /\ worker'[w].pc # "syncing"
      BY <2>1 DEF Worker
  <2> QED
      BY <2>1, <2>2, <2>3, <2>4, ZenonT(30) DEF Will
<1>4. ASSUME Quit(w) PROVE Will(k, Queued', worker', version[k])
  <2>1. \A u \in Workers : u # w => worker'[u] = worker[u]
      BY <1>4, ZenonT(30) DEF Quit, TypeOK
  <2>2. worker[w].item \notin KeyItems(k)
      BY <1>2, <1>4, WorkerFacts, KeyItemFacts, ZenonT(30) DEF Quit
  <2>3. Queued' = Queued
      BY <1>4, ZenonT(30) DEF Quit, Queued, queueVars
  <2> QED
      BY <2>1, <2>2, <2>3, ZenonT(30) DEF Will
<1>5. ASSUME ReadMissing(w) PROVE Will(k, Queued', worker', version[k])
  <2>1. \A u \in Workers : u # w => worker'[u] = worker[u]
      BY <1>5, ZenonT(30) DEF ReadMissing, Idle, TypeOK
  <2>2. worker[w].item \in Items /\ worker[w].item.key # k
      BY <1>5, WorkerFacts, ZenonT(30) DEF ReadMissing
  <2>3. worker[w].item \notin KeyItems(k)
      BY <1>2, <2>2, ItemFacts, ZenonT(30)
  <2>4. Queued' = Queued
      BY <1>5, ZenonT(30) DEF ReadMissing, Queued
  <2> QED
      BY <2>1, <2>3, <2>4, ZenonT(30) DEF Will
<1>6. ASSUME Read(w) PROVE Will(k, Queued', worker', version[k])
  <2> DEFINE i == worker[w].item
             v == IF i.kind = "deleted" THEN 0 ELSE version[i.key]
  <2>1. \A u \in Workers : worker'[u] = IF u = w THEN Worker("syncing", i, v) ELSE worker[u]
      BY <1>6 DEF Read, TypeOK
  <2>2. worker'[w].item = i /\ worker'[w].read = v
    <3> HIDE DEF i, v
    <3> QED
        BY <2>1 DEF Worker
  <2>3. i \in Items
      BY <1>6, WorkerFacts, ZenonT(30) DEF Read
  <2>4. i \in KeyItems(k) => v = version[k]
      BY <1>2, <2>3, ItemFacts, ZenonT(30)
  <2>5. Queued' = Queued
      BY <1>6 DEF Read, Queued, queueVars
  <2> HIDE DEF i, v
  <2>6. \A u \in Workers : u # w => worker'[u] = worker[u]
      BY <2>1, ZenonT(30)
  <2>7. worker[w].item \in KeyItems(k) => worker'[w].item \in KeyItems(k) /\ worker'[w].read = version[k]
      BY <2>2, <2>4, ZenonT(30) DEF i
  <2> QED
      BY <2>5, <2>6, <2>7, ZenonT(30) DEF Will
<1> QED
    BY <1>3, <1>4, <1>5, <1>6, ZenonT(30)

\* A sync that fails is retried, or given up.
LEMMA FailStep ==
    ASSUME IInv, NEW w \in Workers, SyncFails(w)
    PROVE  Promise!Next
<1> USE DEF IInv
<1> DEFINE i == worker[w].item
<1>1. /\ worker[w].pc = "syncing" /\ i.kind # "deleted" /\ Idle(w)
      /\ UNCHANGED <<phase, cacheVars, pending, dirty, handled, cleaned>>
    BY ZenonT(30) DEF SyncFails
<1>2. i \in Items /\ worker[w].read \in Versions /\ i.key \in Keys /\ i \in KeyItems(i.key)
    BY <1>1, WorkerFacts, ItemFacts, ZenonT(30)
<1>3. \A u \in Workers : worker'[u] = IF u = w THEN Worker("idle", NoItem, 0) ELSE worker[u]
    BY <1>1, ZenonT(30) DEF Idle, TypeOK
<1>4. \A k \in present : k \in Keys
    BY ZenonT(30) DEF TypeOK
<1>5. CASE abandoned' = abandoned /\ waiting' = waiting \cup {i}
  <2>1. Queued \subseteq Queued' /\ i \in Queued'
      BY <1>1, <1>5, ZenonT(30) DEF Queued
  <2>2. \A k \in present : Will(k, Queued, worker, version[k]) => Will(k, Queued', worker', version[k])
      BY <1>3, <2>1, ZenonT(30) DEF Will
  <2>3. ShuttingDown' <=> ShuttingDown
      BY <1>1, ZenonT(30) DEF ShuttingDown
  <2> QED
      BY <1>1, <1>5, <2>2, <2>3, RenewStep, ZenonT(30) DEF historyVars
<1>6. CASE abandoned' = abandoned /\ waiting' = waiting /\ ShuttingDown
  <2>1. Queued' = Queued
      BY <1>1, <1>6, ZenonT(30) DEF Queued
  <2>2. \A k \in present : Will(k, Queued', worker', version[k]) => Will(k, Queued, worker, version[k])
    <3> SUFFICES ASSUME NEW k \in present, Will(k, Queued', worker', version[k])
                 PROVE  Will(k, Queued, worker, version[k])
        BY ZenonT(30)
    <3>1. worker'[w].item \notin KeyItems(k)
        BY <1>3, <1>4, KeyItemFacts DEF Worker
    <3> QED
        BY <1>3, <2>1, <3>1, ZenonT(30) DEF Will
  <2> QED
      BY <1>1, <1>6, <2>2, DropStep, ZenonT(30) DEF historyVars
<1>7. CASE abandoned' = abandoned \cup {<<i.key, worker[w].read>>} /\ waiting' = waiting
  <2>1. Promise!Settles(i.key, worker[w].read)
      BY <1>1, <1>2, <1>7, SettlesStep, ZenonT(30)
  <2>2. Promise!GiveUp(i.key, worker[w].read)
      BY <1>1, <1>7, <2>1, ZenonT(30) DEF Promise!GiveUp, cacheVars, ShuttingDown
  <2>3. worker[w].read \in 0..version[i.key]
      BY <1>1, <1>2 DEF ReadBefore, TypeOK, Versions
  <2> QED
      BY <1>2, <2>2, <2>3, ZenonT(30) DEF Promise!Next
<1> QED
    BY <1>5, <1>6, <1>7 DEF SyncFails, AddRateLimited, AddAfter

\* A sync succeeds, or the delete handler runs for the first time.
LEMMA SuccessStep ==
    ASSUME IInv, Once, NEW w \in Workers, Sync(w)
    PROVE  Promise!Next
<1> USE DEF IInv
<1> DEFINE i == worker[w].item
<1>1. /\ worker[w].pc = "syncing" /\ Idle(w)
      /\ UNCHANGED <<phase, cacheVars, pending, dirty, waiting, abandoned>>
    BY ZenonT(30) DEF Sync
<1>2. i \in Items /\ worker[w].read \in Versions /\ i.key \in Keys
    BY <1>1, WorkerFacts, ItemFacts, ZenonT(30)
<1>3. CASE i.kind # "deleted"
  <2>1. Promise!Settles(i.key, worker[w].read)
      BY <1>1, <1>2, <1>3, SettlesStep, ZenonT(30)
  <2>2. worker[w].read \in 0..version[i.key] /\ worker[w].read <= version[i.key]
      BY <1>1, <1>2, <1>3 DEF ReadBefore, TypeOK, Versions
  <2>3. /\ handled' = [handled EXCEPT ![i.key] = IF worker[w].read > @ THEN worker[w].read ELSE @]
        /\ cleaned' = cleaned
      BY <1>3, ZenonT(30) DEF Sync
  <2>4. Promise!Succeed(i.key, worker[w].read)
      BY <1>1, <2>1, <2>2, <2>3, ZenonT(30) DEF Promise!Succeed, cacheVars, ShuttingDown
  <2> QED
      BY <1>2, <2>2, <2>4, ZenonT(30) DEF Promise!Next
<1>4. CASE i.kind = "deleted"
  <2>1. cleaned' = cleaned \cup {<<i.key, i.version>>} /\ handled' = handled
      BY <1>4, ZenonT(30) DEF Sync
  <2>2. <<i.key, i.version>> \in deleted
      BY <1>4, ZenonT(30) DEF ItemsJustified, Justified
  <2>3. <<i.key, i.version>> \notin cleaned
      BY <1>2, <1>4, ZenonT(30) DEF Once, Single, Held
  <2>4. Queued' = Queued /\ version' = version /\ present' = present /\ present \subseteq Keys
      BY <1>1, ZenonT(30) DEF Queued, cacheVars, TypeOK
  <2>5. \A u \in Workers : worker'[u] = IF u = w THEN Worker("idle", NoItem, 0) ELSE worker[u]
      BY <1>1, ZenonT(30) DEF Idle, TypeOK
  <2>6. \A k \in Keys : worker[w].item \notin KeyItems(k) /\ worker'[w].item \notin KeyItems(k)
      BY <1>2, <1>4, <2>5, ItemFacts, KeyItemFacts DEF Worker
  <2>7. \A k \in Keys : Will(k, Queued', worker', version'[k]) <=> Will(k, Queued, worker, version[k])
      BY <2>4, <2>5, <2>6, ZenonT(30) DEF Will
  <2>8. Owed' = Owed
      BY <2>4, <2>7, OwedFacts, ZenonT(30)
  <2>9. Promise!Clean(<<i.key, i.version>>)
      BY <1>1, <2>1, <2>2, <2>3, <2>8, ZenonT(30) DEF Promise!Clean, Owed, cacheVars, ShuttingDown
  <2> QED
      BY <2>2, <2>9, ZenonT(30) DEF Promise!Next
<1> QED
    BY <1>3, <1>4, ZenonT(30)

LEMMA Simulates == IInv /\ Once /\ [Next]_vars => [Promise!Next]_(Promise!vars)
<1> SUFFICES ASSUME IInv, Once, [Next]_vars PROVE [Promise!Next]_(Promise!vars)
    BY ZenonT(30)
<1>1. ASSUME Resync PROVE Promise!Next
    BY <1>1, QueueStep, ZenonT(30) DEF Resync, Queued, queueVars
<1>2. ASSUME NEW i \in Items, Enqueue(i) PROVE Promise!Next
    BY <1>2, QueueStep, ZenonT(30) DEF Enqueue, Add, Queued
<1>3. ASSUME NEW i \in Items, DelayOver(i) PROVE Promise!Next
    BY <1>3, QueueStep, ZenonT(30) DEF DelayOver, Add, Queued
<1>4. ASSUME NEW k \in Keys, Requeue(k) PROVE Promise!Next
  <2>1. dirty \subseteq dirty'
      BY <1>4, ZenonT(30) DEF Requeue, Add
  <2> QED
      BY <1>4, <2>1, QueueStep, ZenonT(30) DEF Requeue, Queued
<1>5. ASSUME NEW k \in Keys, RequeueAfter(k) PROVE Promise!Next
  <2>1. waiting \subseteq waiting'
      BY <1>5, ZenonT(30) DEF RequeueAfter, AddAfter
  <2> QED
      BY <1>5, <2>1, QueueStep, ZenonT(30) DEF RequeueAfter, Queued
<1>6. ASSUME UNCHANGED vars PROVE UNCHANGED Promise!vars
  <2>1. Queued' = Queued /\ version' = version /\ present' = present /\ worker' = worker
      BY <1>6, ZenonT(30) DEF vars, Queued, cacheVars, queueVars
  <2>2. Owed' = Owed
      BY <2>1, OwedFacts, ZenonT(30)
  <2> QED
      BY <1>6, <2>2, ZenonT(30) DEF Promise!vars, Owed, vars, cacheVars, historyVars, ShuttingDown
<1> QED
    BY <1>1, <1>2, <1>3, <1>4, <1>5, <1>6, ChangeStep, TakeStep, FailStep, SuccessStep, StartStep, ZenonT(30)
       DEF Next, Informer, Queue, Work

LEMMA PromiseInit == Init => Promise!Init
<1> SUFFICES ASSUME Init PROVE Promise!Init
    BY ZenonT(30)
<1>1. ~ShuttingDown = TRUE
    BY ZenonT(30) DEF Init, ShuttingDown
<1>2. {k \in present : WillSync(k)} = {}
    BY ZenonT(30) DEF Init
<1> QED
    BY <1>1, <1>2, ZenonT(30) DEF Promise!Init, Init

(***************************************************************************)
(* The control loop, with its caches, queues, delays and workers,          *)
(* implements the promise: a change is owed a sync until one succeeds on   *)
(* the newest state or the retries of processNextWorkItem are used up, and *)
(* a delete handler is called at most once for a deletion.                 *)
(***************************************************************************)
THEOREM Implements == Spec => Delivers
<1>1. Past /\ Once /\ IInv /\ [Next]_vars => (Past /\ Once)'
    BY PastStep, OnceStep, ZenonT(30)
<1>2. Spec => [](Past /\ Once)
    BY <1>1, InitOnce, Invariance, PTL DEF Spec
<1> QED
    BY <1>2, Invariance, Simulates, PromiseInit, PTL DEF Spec, Delivers, Promise!Spec

=============================================================================
