---------------------------- MODULE SourceStore ----------------------------
(***************************************************************************)
(* The catalog operator's table of gRPC connections to catalog registries  *)
(* (pkg/controller/registry/grpc/source.go) with its callers in the        *)
(* catalog operator: the CatalogSource sync, which adds and removes        *)
(* connections, the handler of delete events, which removes them, and      *)
(* syncSourceState, which is told of every change of a connection's state. *)
(*                                                                         *)
(* sources is guarded by an RWMutex that Remove, Add and watch take and    *)
(* release several times: each critical section is a step of its own.      *)
(* A connection is named by a member of Conns; a name is never reused.     *)
(***************************************************************************)
EXTENDS Naturals

CONSTANTS
    Keys,        \* registry.CatalogKey
    Addresses,   \* the addresses a CatalogSource may have
    Conns,       \* every *grpc.ClientConn that is ever dialed: bounds the dials
    None         \* nil

(* connectivity.State of google.golang.org/grpc; Idle stands for Connecting *)
(* too, which no code tells from it.                                        *)
States == {"Idle", "Ready", "TransientFailure", "Shutdown"}

ASSUME SourceAssumption ==
    None \notin Conns \cup Addresses \cup Keys \cup States
      \cup [conn : Conns, address : Addresses]
      \cup [conn : Conns, address : Addresses, state : States]

(* A value of the map: SourceConn with its embedded SourceMeta *)
SourceConn == [conn : Conns, address : Addresses, state : States]

(* The goroutines that call Add and Remove: the worker syncing the         *)
(* CatalogSource and the one that runs handleCatSrcDeletion.  The delete   *)
(* event is another queue item, so the two run at the same time.           *)
Callers == {"sync", "delete"}

VARIABLES
    catalog,    \* [Keys -> BOOLEAN]: the CatalogSource exists
    address,    \* [Keys -> Addresses]: its current address
    sources,    \* SourceStore.sources, None for an absent key
    target,     \* the address every dialed connection was dialed with, None before
    chan,       \* the channel state of every dialed connection, None before
    cancelled,  \* connections whose watch context was cancelled
    call,       \* the call each caller is in, per key
    watcher     \* the watch goroutine of each connection

vars == <<catalog, address, sources, target, chan, cancelled, call, watcher>>

(* src: the connection of Remove's local source; then: where Remove        *)
(* returns to ("dial" when it was called by Add)                           *)
Call == [pc : {"idle", "connection", "lookup", "delete", "close", "dial"},
         src : Conns \cup {None},
         address : Addresses \cup {None},
         then : {"idle", "dial"}]

(* src: the struct read from the map, without the state it is about to get *)
Watcher == [pc : {"none", "wait", "lookup", "write", "notify", "done"},
            key : Keys \cup {None},
            state : States,
            src : [conn : Conns, address : Addresses] \cup {None}]

IdleCall == [pc |-> "idle", src |-> None, address |-> None, then |-> "idle"]

NoWatcher == [pc |-> "none", key |-> None, state |-> "Idle", src |-> None]

TypeOK ==
    /\ catalog \in [Keys -> BOOLEAN]
    /\ address \in [Keys -> Addresses]
    /\ sources \in [Keys -> SourceConn \cup {None}]
    /\ target \in [Conns -> Addresses \cup {None}]
    /\ chan \in [Conns -> States \cup {None}]
    /\ cancelled \subseteq Conns
    /\ call \in [Callers -> [Keys -> Call]]
    /\ watcher \in [Conns -> Watcher]

Init ==
    /\ catalog = [k \in Keys |-> TRUE]
    /\ address \in [Keys -> Addresses]
    /\ sources = [k \in Keys |-> None]
    /\ target = [c \in Conns |-> None]
    /\ chan = [c \in Conns |-> None]
    /\ cancelled = {}
    /\ call = [p \in Callers |-> [k \in Keys |-> IdleCall]]
    /\ watcher = [c \in Conns |-> NoWatcher]

-----------------------------------------------------------------------------
(* The CatalogSource and its sync (catalog/operator.go)                    *)

At(p, k, pc) == call[p][k].pc = pc

SetCall(p, k, c) == call' = [call EXCEPT ![p][k] = c]

SetWatcher(c, w) == watcher' = [watcher EXCEPT ![c] = w]

(* A worker takes the CatalogSource from the queue, where an informer      *)
(* event, the periodic resync or syncSourceState put it: at any time.      *)
StartSync(k, pc) ==
    /\ catalog[k]
    /\ At("sync", k, "idle")
    /\ SetCall("sync", k, [IdleCall EXCEPT !.pc = pc, !.address = address[k]])
    /\ UNCHANGED <<catalog, address, sources, target, chan, cancelled, watcher>>

(* syncRegistryServer goes on to syncConnection for a healthy server; for  *)
(* a server it just (re)created it removes the old connection, which a     *)
(* later sync dials again.  Its other outcomes end the sync here.          *)
SyncRegistryServer(k) == \E pc \in {"connection", "lookup"} : StartSync(k, pc)

(* syncConnection: dial when the key has no source, or one for another     *)
(* address than the CatalogSource's.                                       *)
SyncConnection(k) ==
    /\ At("sync", k, "connection")
    /\ IF sources[k] = None \/ sources[k].address # call["sync"][k].address
         THEN SetCall("sync", k, [call["sync"][k] EXCEPT !.pc = "lookup", !.then = "dial"])
         ELSE SetCall("sync", k, IdleCall)
    /\ UNCHANGED <<catalog, address, sources, target, chan, cancelled, watcher>>

(* The object is deleted: the delete event waits for its worker, or        *)
(* handleCatSrcDeletion is running, until the first step of its Remove.    *)
DeleteCatalogSource(k) ==
    /\ catalog[k]
    /\ At("delete", k, "idle")
    /\ catalog' = [catalog EXCEPT ![k] = FALSE]
    /\ SetCall("delete", k, [IdleCall EXCEPT !.pc = "lookup"])
    /\ UNCHANGED <<address, sources, target, chan, cancelled, watcher>>

(* It is created again, or its address changes                             *)
WriteCatalogSource(k, a) ==
    /\ catalog' = [catalog EXCEPT ![k] = TRUE]
    /\ address' = [address EXCEPT ![k] = a]
    /\ UNCHANGED <<sources, target, chan, cancelled, call, watcher>>

-----------------------------------------------------------------------------
(* SourceStore.Remove and SourceStore.Add                                  *)

(* Remove returns: to the dial of Add, or the caller is done               *)
Return(p, k) ==
    SetCall(p, k, IF call[p][k].then = "dial"
                    THEN [call[p][k] EXCEPT !.src = None, !.pc = "dial"]
                    ELSE IdleCall)

MutRemoveLookupUnchecked(p, k) ==
    /\ At(p, k, "lookup")
    /\ SetCall(p, k, [call[p][k] EXCEPT !.pc = "delete", !.src =
                         IF sources[k] = None THEN None ELSE sources[k].conn])
    /\ UNCHANGED <<catalog, address, sources, target, chan, cancelled, watcher>>

RemoveLookup(p, k) ==
    /\ At(p, k, "lookup")
    /\ IF sources[k] = None
         THEN Return(p, k)
         ELSE SetCall(p, k, [call[p][k] EXCEPT !.src = sources[k].conn, !.pc = "delete"])
    /\ UNCHANGED <<catalog, address, sources, target, chan, cancelled, watcher>>

RemoveDelete(p, k) ==
    /\ At(p, k, "delete")
    /\ sources' = [sources EXCEPT ![k] = None]
    /\ SetCall(p, k, [call[p][k] EXCEPT !.pc = "close"])
    /\ UNCHANGED <<catalog, address, target, chan, cancelled, watcher>>

(* source.cancel() and source.Conn.Close()                                 *)
RemoveClose(p, k) ==
    /\ At(p, k, "close")
    /\ cancelled' = cancelled \cup {call[p][k].src}
    /\ chan' = [chan EXCEPT ![call[p][k].src] = "Shutdown"]
    /\ Return(p, k)
    /\ UNCHANGED <<catalog, address, sources, target, watcher>>

(* grpcConnection inside Add: an address that does not parse is an error   *)
DialFails(k) ==
    /\ At("sync", k, "dial")
    /\ SetCall("sync", k, IdleCall)
    /\ UNCHANGED <<catalog, address, sources, target, chan, cancelled, watcher>>

(* The rest of Add: dial, store the source, start its watch goroutine      *)
Dial(k, c) ==
    /\ At("sync", k, "dial")
    /\ target[c] = None
    /\ target' = [target EXCEPT ![c] = call["sync"][k].address]
    /\ chan' = [chan EXCEPT ![c] = "Idle"]
    /\ sources' = [sources EXCEPT ![k] =
            [conn |-> c, address |-> call["sync"][k].address, state |-> "Idle"]]
    /\ SetWatcher(c, [NoWatcher EXCEPT !.pc = "wait", !.key = k])
    /\ SetCall("sync", k, IdleCall)
    /\ UNCHANGED <<catalog, address, cancelled>>

-----------------------------------------------------------------------------
(* SourceStore.watch, one goroutine per connection                         *)

WatchAt(c, pc) == watcher[c].pc = pc

(* The select at the head of the loop                                      *)
Loop(c) == [watcher[c] EXCEPT !.src = None,
                              !.pc = IF c \in cancelled THEN "done" ELSE "wait"]

(* WaitForStateChange(timer, state) returns false: the timer ended, which  *)
(* only starts another round, or ctx did, and the loop's select returns.   *)
WatchDone(c) ==
    /\ WatchAt(c, "wait")
    /\ c \in cancelled
    /\ SetWatcher(c, Loop(c))
    /\ UNCHANGED <<catalog, address, sources, target, chan, cancelled, call>>

(* WaitForStateChange returns true, and GetState reads the new state       *)
WatchWait(c) ==
    /\ WatchAt(c, "wait")
    /\ chan[c] # watcher[c].state
    /\ SetWatcher(c, [watcher[c] EXCEPT !.state = chan[c], !.pc = "lookup"])
    /\ UNCHANGED <<catalog, address, sources, target, chan, cancelled, call>>

(* src := s.Get(key); the return for a removed source leaves the closure,  *)
(* not the loop.                                                           *)
WatchLookup(c) ==
    LET src == sources[watcher[c].key] IN
    /\ WatchAt(c, "lookup")
    /\ IF src = None
         THEN SetWatcher(c, Loop(c))
         ELSE SetWatcher(c, [watcher[c] EXCEPT !.pc = "write",
                               !.src = [conn |-> src.conn, address |-> src.address]])
    /\ UNCHANGED <<catalog, address, sources, target, chan, cancelled, call>>

MutWatchWriteOwnConn(c) ==
    /\ WatchAt(c, "write")
    /\ sources' = [sources EXCEPT ![watcher[c].key] =
                       [conn |-> c, address |-> watcher[c].src.address,
                        state |-> watcher[c].state]]
    /\ SetWatcher(c, [watcher[c] EXCEPT !.src = None, !.pc = "notify"])
    /\ UNCHANGED <<catalog, address, target, chan, cancelled, call>>

(* s.sources[key] = *src with the new ConnectionState                      *)
WatchWrite(c) ==
    /\ WatchAt(c, "write")
    /\ sources' = [sources EXCEPT ![watcher[c].key] =
                       [conn |-> watcher[c].src.conn, address |-> watcher[c].src.address,
                        state |-> watcher[c].state]]
    /\ SetWatcher(c, [watcher[c] EXCEPT !.src = None, !.pc = "notify"])
    /\ UNCHANGED <<catalog, address, target, chan, cancelled, call>>

(* s.notify <- SourceState{...}, received by the goroutine of Start, which *)
(* calls syncSourceState: a Ready source invalidates the resolver cache    *)
(* and has its subscribers' namespaces resolved.  syncSourceState does not *)
(* block and changes nothing here, so the unbuffered send completes.       *)
WatchNotify(c) ==
    /\ WatchAt(c, "notify")
    /\ SetWatcher(c, Loop(c))
    /\ UNCHANGED <<catalog, address, sources, target, chan, cancelled, call>>

(* The gRPC channel changes state by itself; a closed one stays Shutdown   *)
ChannelStep(c, s) ==
    /\ <<chan[c], s>> \in {<<"Idle", "Ready">>, <<"Ready", "Idle">>,
                          <<"Idle", "TransientFailure">>, <<"TransientFailure", "Idle">>}
    /\ chan' = [chan EXCEPT ![c] = s]
    /\ UNCHANGED <<catalog, address, sources, target, cancelled, call, watcher>>

-----------------------------------------------------------------------------
RemoveStep(p, k) == RemoveLookup(p, k) \/ RemoveDelete(p, k) \/ RemoveClose(p, k)

WatchStep(c) ==
    WatchDone(c) \/ WatchWait(c) \/ WatchLookup(c) \/ WatchWrite(c) \/ WatchNotify(c)

Next ==
    \/ \E k \in Keys :
          \/ SyncRegistryServer(k) \/ SyncConnection(k) \/ DialFails(k)
          \/ DeleteCatalogSource(k)
          \/ \E a \in Addresses : WriteCatalogSource(k, a)
          \/ \E c \in Conns : Dial(k, c)
          \/ \E p \in Callers : RemoveStep(p, k)
    \/ \E c \in Conns : WatchStep(c) \/ \E s \in States : ChannelStep(c, s)

Spec == Init /\ [][Next]_vars

-----------------------------------------------------------------------------
(* The connections, with the address recorded beside them, that are in the *)
(* map or that a watch goroutine read from it and is about to write back   *)
Pairs ==
    {[conn |-> sources[k].conn, address |-> sources[k].address] :
        k \in {k \in Keys : sources[k] # None}}
      \cup {watcher[c].src : c \in {c \in Conns : watcher[c].src # None}}

(* A connection is only ever recorded with the address it was dialed with: *)
(* watch writes back the whole struct it read, so an old watcher may       *)
(* restore an old source over a new one, or mark it with its own state,    *)
(* but never mixes the two so that syncConnection takes a connection to    *)
(* one address for a connection to another.                                *)
DialedAddress == \A s \in Pairs : s.address = target[s.conn]

(* Where each goroutine is tells what its locals hold                      *)
LocalsOK ==
    /\ \A p \in Callers, k \in Keys :
         /\ call[p][k].pc \in {"delete", "close"} => call[p][k].src # None
         /\ call[p][k].pc \in {"connection", "dial"} => call[p][k].address # None
         /\ call[p][k].then = "dial" => call[p][k].address # None
         /\ p = "delete" => call[p][k].then = "idle"
    /\ \A c \in Conns :
         /\ watcher[c].pc \in {"wait", "lookup", "write", "notify"} => watcher[c].key # None
         /\ watcher[c].pc \in {"wait", "lookup", "write", "notify"} => chan[c] # None
         /\ watcher[c].pc = "write" <=> watcher[c].src # None

=============================================================================
