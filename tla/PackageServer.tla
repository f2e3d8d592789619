--------------------------- MODULE PackageServer ---------------------------
(***************************************************************************)
(* The package server's provider (pkg/package-server/provider/registry.go) *)
(* over its own SourceStore: it keeps a cache of the PackageManifests that *)
(* the registries of all CatalogSources serve.                             *)
(*                                                                         *)
(* Three goroutines refresh and empty the cache at the same time: the      *)
(* worker that syncs the CatalogSource, the one that handles its deletion, *)
(* and the store's, which runs syncSourceState for one change of a         *)
(* connection's state after the other while the watchers wait.             *)
(*                                                                         *)
(* The variables and steps of the store are those of SourceStore.  Changes *)
(* of CatalogSources, registries and connections, and calls that fail, are *)
(* events, which MaxEvents bounds.                                         *)
(***************************************************************************)
EXTENDS SourceStore

CONSTANTS
    Packages,   \* names of packages
    Contents,   \* what a PackageManifest may say
    Catalogs,   \* the [Packages -> Contents \cup {None}] a registry may serve
    MaxEvents

ASSUME PackageAssumption ==
    /\ None \notin Contents
    /\ Catalogs \subseteq [Packages -> Contents \cup {None}]
    /\ MaxEvents \in Nat

VARIABLES
    served,   \* [Addresses -> Catalogs]: by the registry at an address
    cache,    \* [Keys -> [Packages -> Contents \cup {None}]]: RegistryProvider.cache
    task,     \* what each goroutine does about a CatalogSource
    events

storeVars == vars

providerVars == <<served, cache, task, events>>

Goroutines == {"sync", "delete", "notify"}

(* names: the packages left to get, or the stored ones left to delete;     *)
(* got: the manifests that are not in the cache yet; added: those that are *)
Task == [pc : {"idle", "remove", "client", "list", "fetch", "gc"},
         conn : Conns \cup {None},
         names : SUBSET Packages,
         got : [Packages -> Contents \cup {None}],
         added : SUBSET Packages]

Nothing == [p \in Packages |-> None]

TaskAt(pc, c, names) ==
    [pc |-> pc, conn |-> c, names |-> names, got |-> Nothing, added |-> {}]

NoTask == TaskAt("idle", None, {})

(* gcPackages(key, nil) *)
CollectAll == TaskAt("fetch", None, {})

(* Types of the provider's cache and of the locals of its goroutines *)
ProviderTypeOK ==
    /\ TypeOK
    /\ served \in [Addresses -> Catalogs]
    /\ cache \in [Keys -> [Packages -> Contents \cup {None}]]
    /\ task \in [Goroutines -> [Keys -> Task]]
    /\ events \in 0..MaxEvents

Idle(g, k) == task[g][k].pc = "idle"

SetTask(g, k, t) == task' = [task EXCEPT ![g][k] = t]

Events(n) == events + n <= MaxEvents /\ events' = events + n

Event == Events(1)

ProviderInit ==
    /\ Init
    /\ served \in [Addresses -> Catalogs]
    /\ cache = [k \in Keys |-> Nothing]
    /\ task = [g \in Goroutines |-> [k \in Keys |-> NoTask]]
    /\ events = 0

-----------------------------------------------------------------------------
(* CatalogSources, registries and connections                              *)

(* A CatalogSource is created again, or moves, which counts as two events: *)
(* its connections to both addresses live on for a while                   *)
Write(k, a) ==
    /\ \/ a = address[k] /\ ~catalog[k] /\ Event
       \/ a # address[k] /\ Events(2)
    /\ WriteCatalogSource(k, a)
    /\ UNCHANGED <<served, cache, task>>

Publish(a, f) ==
    /\ f # served[a]
    /\ served' = [served EXCEPT ![a] = f]
    /\ Event
    /\ UNCHANGED <<storeVars, cache, task>>

(* A connection comes up by itself, and goes down with an event *)
Channel(c, s) ==
    /\ ChannelStep(c, s)
    /\ \/ s \in {"Ready", "Idle"} /\ chan[c] # "Ready" /\ UNCHANGED events
       \/ Event
    /\ UNCHANGED <<served, cache, task>>

(* The delete event: catalogSourceDeleted removes the source first *)
CatalogSourceDeleted(k) ==
    /\ Idle("delete", k)
    /\ DeleteCatalogSource(k)
    /\ SetTask("delete", k, TaskAt("remove", None, {}))
    /\ Event
    /\ UNCHANGED <<served, cache>>

Removed(k) ==
    /\ task["delete"][k].pc = "remove"
    /\ At("delete", k, "idle")
    /\ SetTask("delete", k, CollectAll)
    /\ UNCHANGED <<storeVars, served, cache, events>>

-----------------------------------------------------------------------------
(* syncCatalogSource: a source for the same address is used to refresh the *)
(* cache, another one is replaced.                                         *)
SyncCatalogSource(k) ==
    /\ Idle("sync", k)
    /\ StartSync(k, "connection")
    /\ UNCHANGED providerVars

MutCompareAddress(k) ==
    /\ SyncConnection(k)
    /\ UNCHANGED providerVars

CompareAddress(k) ==
    /\ SyncConnection(k)
    /\ IF call'["sync"][k].pc = "idle" THEN SetTask("sync", k, TaskAt("client", None, {}))
       ELSE UNCHANGED task
    /\ UNCHANGED <<served, cache, events>>

(* Connections are dialed in one order: their names do not matter *)
Spare == {c \in Conns : target[c] = None}

Connect(k) ==
    /\ \/ UNCHANGED events /\ Spare # {} /\ Dial(k, CHOOSE c \in Spare : TRUE)
       \/ Event /\ DialFails(k)
    /\ UNCHANGED <<served, cache, task>>

(* syncSourceState *)
SyncSourceState(c) ==
    LET k == watcher[c].key
        s == watcher[c].state
    IN  /\ \A x \in Keys : Idle("notify", x)
        /\ WatchNotify(c)
        /\ CASE s = "Ready" -> SetTask("notify", k, TaskAt("client", None, {}))
             [] s \in {"TransientFailure", "Shutdown"} -> SetTask("notify", k, CollectAll)
             [] OTHER -> UNCHANGED task
        /\ UNCHANGED <<served, cache, events>>

(* The first half of registryClient *)
GetSource(g, k) ==
    /\ task[g][k].pc = "client"
    /\ SetTask(g, k, IF sources[k] = None THEN NoTask ELSE TaskAt("list", sources[k].conn, {}))
    /\ UNCHANGED <<storeVars, served, cache, events>>

Answers(c) == chan[c] = "Ready" /\ UNCHANGED events

Fails(c) == (chan[c] # "Ready" /\ UNCHANGED events) \/ Event

(* The rest of registryClient, and refreshCache up to the last name of a   *)
(* package: the names that were received before an error are used.         *)
ListPackages(g, k) ==
    LET c == task[g][k].conn
        listed == {p \in Packages : served[target[c]][p] # None}
    IN  /\ task[g][k].pc = "list"
        /\ \/ ~catalog[k] /\ SetTask(g, k, NoTask) /\ UNCHANGED events
           \/ catalog[k] /\ Fails(c) /\ SetTask(g, k, NoTask)
           \/ catalog[k] /\ Answers(c) /\ SetTask(g, k, TaskAt("fetch", c, listed))
           \/ /\ catalog[k] /\ Event
              /\ \E some \in SUBSET listed : SetTask(g, k, TaskAt("fetch", c, some))
        /\ UNCHANGED <<storeVars, served, cache>>

(* The goroutine of package p: GetPackage and newPackageManifest, which    *)
(* elide a package they cannot get ...                                     *)
GetPackage(g, k, p) ==
    LET t == task[g][k]
        found == served[target[t.conn]][p]
    IN  /\ t.pc = "fetch" /\ p \in t.names
        /\ \/ Answers(t.conn) /\ SetTask(g, k, [t EXCEPT !.names = @ \ {p}, !.got[p] = found])
           \/ Fails(t.conn) /\ SetTask(g, k, [t EXCEPT !.names = @ \ {p}])
        /\ UNCHANGED <<storeVars, served, cache>>

(* ... and cache.Add *)
AddPackage(g, k, p) ==
    LET t == task[g][k]
    IN  /\ t.pc = "fetch" /\ t.got[p] # None
        /\ cache' = [cache EXCEPT ![k][p] = t.got[p]]
        /\ SetTask(g, k, [t EXCEPT !.got[p] = None, !.added = @ \cup {p}])
        /\ UNCHANGED <<storeVars, served, events>>

(* gcPackages: the keys in the cache, when all goroutines are done ...     *)
IndexKeys(g, k) ==
    LET t == task[g][k]
        stored == {p \in Packages : cache[k][p] # None}
    IN  /\ t.pc = "fetch" /\ t.names = {} /\ t.got = Nothing
        /\ SetTask(g, k, IF stored \subseteq t.added THEN NoTask
                         ELSE TaskAt("gc", None, stored \ t.added))
        /\ UNCHANGED <<storeVars, served, cache, events>>

(* ... and the deletions, one by one *)
DeletePackage(g, k, p) ==
    LET t == task[g][k]
    IN  /\ t.pc = "gc" /\ p \in t.names
        /\ cache' = [cache EXCEPT ![k][p] = None]
        /\ SetTask(g, k, IF t.names = {p} THEN NoTask ELSE [t EXCEPT !.names = @ \ {p}])
        /\ UNCHANGED <<storeVars, served, events>>

-----------------------------------------------------------------------------
Store(k) ==
    \/ \E p \in Callers : RemoveStep(p, k) /\ UNCHANGED providerVars
    \/ Connect(k)

Watch(c) ==
    \/ (WatchDone(c) \/ WatchWait(c) \/ WatchLookup(c) \/ WatchWrite(c)) /\ UNCHANGED providerVars
    \/ SyncSourceState(c)

TaskStep(g, k) ==
    \/ GetSource(g, k) \/ ListPackages(g, k) \/ IndexKeys(g, k)
    \/ \E p \in Packages : GetPackage(g, k, p) \/ AddPackage(g, k, p) \/ DeletePackage(g, k, p)

Sync(k) == SyncCatalogSource(k) \/ CompareAddress(k)

Environment ==
    \/ \E k \in Keys : CatalogSourceDeleted(k) \/ \E a \in Addresses : Write(k, a)
    \/ \E a \in Addresses, f \in Catalogs : Publish(a, f)

ProviderNext ==
    \/ Environment
    \/ \E c \in Conns : Watch(c) \/ \E s \in States : Channel(c, s)
    \/ \E k \in Keys : Sync(k) \/ Store(k) \/ Removed(k) \/ \E g \in Goroutines : TaskStep(g, k)

ProviderSpec == ProviderInit /\ [][ProviderNext]_<<storeVars, providerVars>>

(* The informer resyncs, goroutines go on, connections come up and calls   *)
(* are answered or time out.                                               *)
ProviderFairness ==
    /\ \A k \in Keys :
        /\ WF_<<storeVars, providerVars>>(Sync(k)) /\ WF_<<storeVars, providerVars>>(Removed(k))
        /\ WF_<<storeVars, providerVars>>(Connect(k))
        /\ \A p \in Callers : WF_<<storeVars, providerVars>>(RemoveStep(p, k) /\ UNCHANGED providerVars)
        /\ \A g \in Goroutines : WF_<<storeVars, providerVars>>(TaskStep(g, k))
    /\ \A c \in Conns :
        /\ WF_<<storeVars, providerVars>>(Watch(c))
        /\ WF_<<storeVars, providerVars>>(\E s \in States : Channel(c, s))

-----------------------------------------------------------------------------
(* A connection that was closed is back in the map, for the address the    *)
(* CatalogSource has.                                                      *)
Restored(k) ==
    /\ sources[k] # None /\ sources[k].address = address[k]
    /\ chan[sources[k].conn] = "Shutdown"

(* However refreshes of several goroutines overlap, fail half-way or work  *)
(* on a connection that is being replaced, and whenever syncSourceState    *)
(* empties the cache for the end of an older connection: once the changes  *)
(* are over, the cache has what the registry at the CatalogSource's        *)
(* address serves, and keeps it.  Two cases are left out: the closed       *)
(* connection that an old watcher put back, which no sync ever replaces,   *)
(* and the bound on connections.                                           *)
PackagesSettle ==
    \A k \in Keys :
        <>[](catalog[k] => cache[k] = served[address[k]] \/ Restored(k)
                             \/ (Spare = {} /\ At("sync", k, "dial")))

=============================================================================
