------------------------ MODULE PackageServerProofs ------------------------
(***************************************************************************)
(* Proofs about SourceStore and PackageServer for any sets of              *)
(* CatalogSources, addresses, packages and connections.  The provider uses *)
(* its SourceStore as the catalog operator does, so what is proved of the  *)
(* store holds in the package server too.                                  *)
(***************************************************************************)
EXTENDS PackageServer, TLAPS

-----------------------------------------------------------------------------
(* The store of connections, SourceStore.                                    *)

IInv == TypeOK /\ LocalsOK /\ DialedAddress

USE SourceAssumption

LEMMA InitIInv == Init => IInv
<1> SUFFICES ASSUME Init PROVE IInv
    BY ZenonT(30)
<1>1. TypeOK
    BY ZenonT(30) DEF Init, TypeOK, IdleCall, NoWatcher, Call, Watcher, States, Callers
<1>2. LocalsOK
    BY ZenonT(30) DEF Init, LocalsOK, IdleCall, NoWatcher
<1>3. Pairs = {}
    BY ZenonT(30) DEF Init, Pairs, NoWatcher
<1> QED
    BY <1>1, <1>2, <1>3, ZenonT(30) DEF IInv, DialedAddress

LEMMA CallType ==
    ASSUME TypeOK, NEW p \in Callers, NEW k \in Keys, NEW c \in Call, SetCall(p, k, c)
    PROVE  call' \in [Callers -> [Keys -> Call]]
BY ZenonT(30) DEF TypeOK, SetCall

LEMMA WatcherType ==
    ASSUME TypeOK, NEW c \in Conns, NEW w \in Watcher, SetWatcher(c, w)
    PROVE  watcher' \in [Conns -> Watcher]
BY ZenonT(30) DEF TypeOK, SetWatcher

LEMMA LoopType ==
    ASSUME TypeOK, NEW c \in Conns
    PROVE  Loop(c) \in Watcher
<1>1. watcher[c] \in Watcher
    BY ZenonT(30) DEF TypeOK
<1> QED
    BY <1>1, ZenonT(30) DEF Loop, Watcher

LEMMA ReturnType ==
    ASSUME TypeOK, NEW p \in Callers, NEW k \in Keys, Return(p, k)
    PROVE  call' \in [Callers -> [Keys -> Call]]
<1> DEFINE c == IF call[p][k].then = "dial"
                  THEN [call[p][k] EXCEPT !.src = None, !.pc = "dial"] ELSE IdleCall
<1>1. call[p][k] \in Call
    BY DEF TypeOK
<1>2. c \in Call
    BY <1>1, ZenonT(30) DEF Call, IdleCall
<1> QED
    BY <1>2, CallType, ZenonT(30) DEF Return

LEMMA TypeStep == TypeOK /\ LocalsOK /\ [Next]_vars => TypeOK'
<1> SUFFICES ASSUME TypeOK, LocalsOK, [Next]_vars PROVE TypeOK'
    BY ZenonT(30)
<1>a. "sync" \in Callers /\ "delete" \in Callers /\ IdleCall \in Call
    BY ZenonT(30) DEF Callers, IdleCall, Call
<1>b. \A p \in Callers, k \in Keys : call[p][k] \in Call
    BY DEF TypeOK
<1>c. \A c \in Conns : watcher[c] \in Watcher
    BY ZenonT(30) DEF TypeOK
<1>1. ASSUME NEW k \in Keys, SyncRegistryServer(k) PROVE TypeOK'
  <2>1. PICK pc \in {"connection", "lookup"} :
            SetCall("sync", k, [IdleCall EXCEPT !.pc = pc, !.address = address[k]])
      BY <1>1, ZenonT(30) DEF SyncRegistryServer, StartSync
  <2>2. [IdleCall EXCEPT !.pc = pc, !.address = address[k]] \in Call
      BY ZenonT(30) DEF TypeOK, Call, IdleCall
  <2> QED
      BY <1>1, <1>a, <2>1, <2>2, CallType, ZenonT(30) DEF SyncRegistryServer, StartSync, TypeOK
<1>2. ASSUME NEW k \in Keys, SyncConnection(k) PROVE TypeOK'
  <2>1. [call["sync"][k] EXCEPT !.pc = "lookup", !.then = "dial"] \in Call
      BY <1>a, <1>b, ZenonT(30) DEF Call
  <2> QED
      BY <1>2, <1>a, <2>1, CallType, ZenonT(30) DEF SyncConnection, TypeOK
<1>3. ASSUME NEW k \in Keys, DialFails(k) PROVE TypeOK'
    BY <1>3, <1>a, CallType, ZenonT(30) DEF DialFails, TypeOK
<1>4. ASSUME NEW k \in Keys, DeleteCatalogSource(k) PROVE TypeOK'
  <2>1. [IdleCall EXCEPT !.pc = "lookup"] \in Call
      BY ZenonT(30) DEF Call, IdleCall
  <2> QED
      BY <1>4, <1>a, <2>1, CallType, ZenonT(30) DEF DeleteCatalogSource, TypeOK
<1>5. ASSUME NEW k \in Keys, NEW a \in Addresses, WriteCatalogSource(k, a) PROVE TypeOK'
    BY <1>5, ZenonT(30) DEF WriteCatalogSource, TypeOK
<1>6. ASSUME NEW k \in Keys, NEW c \in Conns, Dial(k, c) PROVE TypeOK'
  <2>1. call["sync"][k].address \in Addresses
      BY <1>6, <1>a DEF Dial, At, LocalsOK, TypeOK, Call
  <2>2. [conn |-> c, address |-> call["sync"][k].address, state |-> "Idle"] \in SourceConn
      BY <2>1, ZenonT(30) DEF SourceConn, States
  <2>3. [NoWatcher EXCEPT !.pc = "wait", !.key = k] \in Watcher
      BY ZenonT(30) DEF NoWatcher, Watcher, States
  <2>4. "Idle" \in States
      BY ZenonT(30) DEF States
  <2> QED
      BY <1>6, <1>a, <2>1, <2>2, <2>3, <2>4, CallType, WatcherType, ZenonT(30) DEF Dial, TypeOK
<1>7. ASSUME NEW p \in Callers, NEW k \in Keys, RemoveLookup(p, k) PROVE TypeOK'
  <2>1. CASE sources[k] = None
      BY <1>7, <2>1, ReturnType, ZenonT(30) DEF RemoveLookup, TypeOK
  <2>2. CASE sources[k] # None
    <3>1. sources[k].conn \in Conns /\ call[p][k] \in Call
        BY <1>b, <2>2, ZenonT(30) DEF TypeOK, SourceConn
    <3>2. [call[p][k] EXCEPT !.src = sources[k].conn, !.pc = "delete"] \in Call
        BY <3>1, ZenonT(30) DEF Call
    <3> QED
        BY <1>7, <2>2, <3>2, CallType, ZenonT(30) DEF RemoveLookup, TypeOK
  <2> QED
      BY <2>1, <2>2, ZenonT(30)
<1>8. ASSUME NEW p \in Callers, NEW k \in Keys, RemoveDelete(p, k) PROVE TypeOK'
  <2>1. [call[p][k] EXCEPT !.pc = "close"] \in Call
      BY <1>b DEF Call
  <2> QED
      BY <1>8, <2>1, CallType, ZenonT(30) DEF RemoveDelete, TypeOK
<1>9. ASSUME NEW p \in Callers, NEW k \in Keys, RemoveClose(p, k) PROVE TypeOK'
  <2>1. call[p][k].src \in Conns /\ "Shutdown" \in States
      BY <1>9 DEF RemoveClose, At, LocalsOK, TypeOK, Call, States
  <2> QED
      BY <1>9, <2>1, ReturnType, ZenonT(30) DEF RemoveClose, TypeOK
<1>10. ASSUME NEW c \in Conns, WatchDone(c) \/ WatchNotify(c) PROVE TypeOK'
    BY <1>10, LoopType, WatcherType, ZenonT(30) DEF WatchDone, WatchNotify, TypeOK
<1>11. ASSUME NEW c \in Conns, WatchWait(c) PROVE TypeOK'
  <2>1. [watcher[c] EXCEPT !.state = chan[c], !.pc = "lookup"] \in Watcher
    <3>1. chan[c] \in States
        BY <1>11, ZenonT(30) DEF WatchWait, WatchAt, LocalsOK, TypeOK
    <3> QED
        BY <1>c, <3>1, ZenonT(30) DEF Watcher
  <2> QED
      BY <1>11, <2>1, WatcherType, ZenonT(30) DEF WatchWait, TypeOK
<1>12. ASSUME NEW c \in Conns, WatchLookup(c) PROVE TypeOK'
  <2> DEFINE src == sources[watcher[c].key]
             w == [watcher[c] EXCEPT !.pc = "write",
                     !.src = [conn |-> src.conn, address |-> src.address]]
  <2>1. watcher[c].key \in Keys
      BY <1>12, ZenonT(30) DEF WatchLookup, WatchAt, LocalsOK, TypeOK, Watcher
  <2>2. src # None => src \in SourceConn
      BY <2>1, ZenonT(30) DEF TypeOK
  <2>3. src # None => w \in Watcher
      BY <1>c, <2>2, ZenonT(30) DEF Watcher, SourceConn
  <2> QED
      BY <1>12, <2>3, LoopType, WatcherType, ZenonT(30) DEF WatchLookup, TypeOK
<1>13. ASSUME NEW c \in Conns, WatchWrite(c) PROVE TypeOK'
  <2> DEFINE s == [conn |-> watcher[c].src.conn, address |-> watcher[c].src.address,
                   state |-> watcher[c].state]
  <2>1. watcher[c].key \in Keys /\ s \in SourceConn
      BY <1>13, <1>c, ZenonT(30) DEF WatchWrite, WatchAt, LocalsOK, Watcher, SourceConn
  <2>2. [watcher[c] EXCEPT !.src = None, !.pc = "notify"] \in Watcher
      BY <1>c, ZenonT(30) DEF Watcher
  <2> QED
      BY <1>13, <2>1, <2>2, WatcherType, ZenonT(30) DEF WatchWrite, TypeOK
<1>14. ASSUME NEW c \in Conns, NEW s \in States, ChannelStep(c, s) PROVE TypeOK'
    BY <1>14, ZenonT(30) DEF ChannelStep, TypeOK
<1>15. CASE UNCHANGED vars
    BY <1>15, ZenonT(30) DEF vars, TypeOK
<1> QED
    BY <1>1, <1>2, <1>3, <1>4, <1>5, <1>6, <1>7, <1>8, <1>9, <1>10, <1>11, <1>12,
       <1>13, <1>14, <1>15, ZenonT(30) DEF Next, RemoveStep, WatchStep

(* Reading call and watcher after an update of one entry *)
LEMMA CallAt ==
    ASSUME TypeOK, NEW p \in Callers, NEW k \in Keys, NEW c, SetCall(p, k, c)
    PROVE  \A q \in Callers, j \in Keys :
              call'[q][j] = IF q = p /\ j = k THEN c ELSE call[q][j]
BY ZenonT(30) DEF TypeOK, SetCall

LEMMA WatcherAt ==
    ASSUME TypeOK, NEW c \in Conns, NEW w, SetWatcher(c, w)
    PROVE  \A d \in Conns : watcher'[d] = IF d = c THEN w ELSE watcher[d]
BY ZenonT(30) DEF TypeOK, SetWatcher

CallOK(c, p) ==
    /\ c.pc \in {"delete", "close"} => c.src # None
    /\ c.pc \in {"connection", "dial"} => c.address # None
    /\ c.then = "dial" => c.address # None
    /\ p = "delete" => c.then = "idle"

WatcherOK(w, ch) ==
    /\ w.pc \in {"wait", "lookup", "write", "notify"} => w.key # None
    /\ w.pc \in {"wait", "lookup", "write", "notify"} => ch # None
    /\ w.pc = "write" <=> w.src # None

LEMMA LocalsParts ==
    LocalsOK <=> /\ \A p \in Callers, k \in Keys : CallOK(call[p][k], p)
                 /\ \A c \in Conns : WatcherOK(watcher[c], chan[c])
BY ZenonT(30) DEF LocalsOK, CallOK, WatcherOK

LEMMA LocalsStep == TypeOK /\ LocalsOK /\ [Next]_vars => LocalsOK'
<1> SUFFICES ASSUME TypeOK, LocalsOK, [Next]_vars PROVE LocalsOK'
    BY ZenonT(30)
<1> DEFINE Calls == \A p \in Callers, k \in Keys : CallOK(call[p][k], p)
           Watchers == \A c \in Conns : WatcherOK(watcher[c], chan[c])
<1>a. Calls /\ Watchers
    BY LocalsParts, ZenonT(30)
<1>b. "sync" \in Callers /\ "delete" \in Callers /\ "sync" # "delete"
    BY ZenonT(30) DEF Callers
<1>c. ASSUME NEW p \in Callers, NEW k \in Keys, NEW c, SetCall(p, k, c), CallOK(c, p)
      PROVE  Calls'
    BY <1>a, <1>c, CallAt
<1>d. ASSUME NEW c \in Conns, NEW w, SetWatcher(c, w), WatcherOK(w, chan'[c]),
             \A d \in Conns \ {c} : chan'[d] = chan[d]
      PROVE  Watchers'
    BY <1>a, <1>d, WatcherAt
<1>e. ASSUME UNCHANGED watcher, \A d \in Conns : chan'[d] = chan[d] \/ chan'[d] # None
      PROVE  Watchers'
    BY <1>a, <1>e, ZenonT(30) DEF WatcherOK
<1>f. ASSUME NEW p \in Callers, NEW k \in Keys, Return(p, k) PROVE Calls'
  <2> DEFINE c == IF call[p][k].then = "dial"
                    THEN [call[p][k] EXCEPT !.src = None, !.pc = "dial"] ELSE IdleCall
  <2>1. call[p][k] \in Call /\ CallOK(call[p][k], p)
      BY <1>a DEF TypeOK
  <2>2. CallOK(c, p)
      BY <2>1, ZenonT(30) DEF CallOK, Call, IdleCall
  <2> QED
      BY <1>c, <1>f, <2>2, ZenonT(30) DEF Return
<1>g. ASSUME NEW c \in Conns, watcher[c].pc \in {"wait", "lookup", "notify"}
      PROVE  WatcherOK(Loop(c), chan[c])
  <2>1. watcher[c] \in Watcher /\ WatcherOK(watcher[c], chan[c])
      BY <1>a, ZenonT(30) DEF TypeOK
  <2> QED
      BY <1>g, <2>1, ZenonT(30) DEF WatcherOK, Loop, Watcher
<1>h. \A p \in Callers, k \in Keys : call[p][k] \in Call
    BY DEF TypeOK
<1>i. \A c \in Conns : watcher[c] \in Watcher
    BY ZenonT(30) DEF TypeOK
<1>1. ASSUME NEW k \in Keys, SyncRegistryServer(k) PROVE Calls' /\ Watchers'
  <2>1. PICK pc \in {"connection", "lookup"} :
            SetCall("sync", k, [IdleCall EXCEPT !.pc = pc, !.address = address[k]])
      BY <1>1, ZenonT(30) DEF SyncRegistryServer, StartSync
  <2>2. CallOK([IdleCall EXCEPT !.pc = pc, !.address = address[k]], "sync")
    <3>1. address[k] # None
        BY DEF TypeOK
    <3> QED
        BY <3>1, ZenonT(30) DEF CallOK, IdleCall
  <2> QED
      BY <1>1, <1>b, <1>c, <1>e, <2>1, <2>2, ZenonT(30) DEF SyncRegistryServer, StartSync
<1>2. ASSUME NEW k \in Keys, SyncConnection(k) PROVE Calls' /\ Watchers'
  <2>1. CallOK([call["sync"][k] EXCEPT !.pc = "lookup", !.then = "dial"], "sync")
    <3>1. call["sync"][k] \in Call /\ CallOK(call["sync"][k], "sync")
                /\ call["sync"][k].pc = "connection"
        BY <1>2, <1>a, <1>b, <1>h, ZenonT(30) DEF SyncConnection, At
    <3> QED
        BY <3>1, ZenonT(30) DEF CallOK, Call
  <2>2. CallOK(IdleCall, "sync")
      BY ZenonT(30) DEF CallOK, IdleCall
  <2> QED
      BY <1>2, <1>b, <1>c, <1>e, <2>1, <2>2, ZenonT(30) DEF SyncConnection
<1>3. ASSUME NEW k \in Keys, DialFails(k) PROVE Calls' /\ Watchers'
  <2>1. CallOK(IdleCall, "sync")
      BY ZenonT(30) DEF CallOK, IdleCall
  <2> QED
      BY <1>3, <1>b, <1>c, <1>e, <2>1, ZenonT(30) DEF DialFails
<1>4. ASSUME NEW k \in Keys, DeleteCatalogSource(k) PROVE Calls' /\ Watchers'
  <2>1. CallOK([IdleCall EXCEPT !.pc = "lookup"], "delete")
      BY ZenonT(30) DEF CallOK, IdleCall
  <2> QED
      BY <1>4, <1>b, <1>c, <1>e, <2>1, ZenonT(30) DEF DeleteCatalogSource
<1>5. ASSUME NEW k \in Keys, NEW a \in Addresses, WriteCatalogSource(k, a)
      PROVE Calls' /\ Watchers'
    BY <1>5, <1>a, ZenonT(30) DEF WriteCatalogSource
<1>6. ASSUME NEW k \in Keys, NEW c \in Conns, Dial(k, c) PROVE Calls' /\ Watchers'
  <2>1. CallOK(IdleCall, "sync")
      BY ZenonT(30) DEF CallOK, IdleCall
  <2>2. chan'[c] = "Idle" /\ \A d \in Conns \ {c} : chan'[d] = chan[d]
      BY <1>6, ZenonT(30) DEF Dial, TypeOK
  <2>3. WatcherOK([NoWatcher EXCEPT !.pc = "wait", !.key = k], chan'[c])
    <3>1. k # None /\ chan'[c] # None
        BY <2>2, ZenonT(30) DEF States
    <3> QED
        BY <3>1, ZenonT(30) DEF WatcherOK, NoWatcher
  <2> QED
      BY <1>6, <1>b, <1>c, <1>d, <2>1, <2>2, <2>3, ZenonT(30) DEF Dial
<1>7. ASSUME NEW p \in Callers, NEW k \in Keys, RemoveLookup(p, k) PROVE Calls' /\ Watchers'
  <2>1. Watchers'
      BY <1>7, <1>e, ZenonT(30) DEF RemoveLookup
  <2>2. CASE sources[k] = None
      BY <1>7, <1>f, <2>1, <2>2, ZenonT(30) DEF RemoveLookup
  <2>3. CASE sources[k] # None
    <3>1. sources[k].conn # None
        BY <2>3, ZenonT(30) DEF TypeOK, SourceConn
    <3>2. call[p][k] \in Call /\ CallOK(call[p][k], p)
        BY <1>a, <1>h, ZenonT(30)
    <3>3. CallOK([call[p][k] EXCEPT !.src = sources[k].conn, !.pc = "delete"], p)
        BY <3>1, <3>2, ZenonT(30) DEF CallOK, Call
    <3> QED
        BY <1>7, <1>c, <2>1, <2>3, <3>3, ZenonT(30) DEF RemoveLookup
  <2> QED
      BY <2>2, <2>3, ZenonT(30)
<1>8. ASSUME NEW p \in Callers, NEW k \in Keys, RemoveDelete(p, k) PROVE Calls' /\ Watchers'
  <2>1. call[p][k] \in Call /\ CallOK(call[p][k], p) /\ call[p][k].pc = "delete"
      BY <1>8, <1>a, <1>h, ZenonT(30) DEF RemoveDelete, At
  <2>2. CallOK([call[p][k] EXCEPT !.pc = "close"], p)
      BY <2>1, ZenonT(30) DEF CallOK, Call
  <2> QED
      BY <1>8, <1>c, <1>e, <2>2, ZenonT(30) DEF RemoveDelete
<1>9. ASSUME NEW p \in Callers, NEW k \in Keys, RemoveClose(p, k) PROVE Calls' /\ Watchers'
  <2>1. \A d \in Conns : chan'[d] = chan[d] \/ chan'[d] = "Shutdown"
      BY <1>9, ZenonT(30) DEF RemoveClose, TypeOK
  <2>2. "Shutdown" # None
      BY ZenonT(30) DEF States
  <2> QED
      BY <1>9, <1>e, <1>f, <2>1, <2>2, ZenonT(30) DEF RemoveClose
<1>10. ASSUME NEW c \in Conns, WatchDone(c) \/ WatchNotify(c) PROVE Calls' /\ Watchers'
  <2>1. watcher[c].pc \in {"wait", "lookup", "notify"}
      BY <1>10, ZenonT(30) DEF WatchDone, WatchNotify, WatchAt
  <2> QED
      BY <1>10, <1>a, <1>d, <1>g, <2>1, ZenonT(30) DEF WatchDone, WatchNotify
<1>11. ASSUME NEW c \in Conns, WatchWait(c) PROVE Calls' /\ Watchers'
  <2>1. watcher[c] \in Watcher /\ WatcherOK(watcher[c], chan[c]) /\ watcher[c].pc = "wait"
      BY <1>11, <1>a, <1>i, ZenonT(30) DEF WatchWait, WatchAt
  <2>2. WatcherOK([watcher[c] EXCEPT !.state = chan[c], !.pc = "lookup"], chan[c])
      BY <2>1, ZenonT(30) DEF WatcherOK, Watcher
  <2> QED
      BY <1>11, <1>a, <1>d, <2>2, ZenonT(30) DEF WatchWait
<1>12. ASSUME NEW c \in Conns, WatchLookup(c) PROVE Calls' /\ Watchers'
  <2> DEFINE src == sources[watcher[c].key]
             w == [watcher[c] EXCEPT !.pc = "write",
                     !.src = [conn |-> src.conn, address |-> src.address]]
  <2>1. watcher[c] \in Watcher /\ WatcherOK(watcher[c], chan[c]) /\ watcher[c].pc = "lookup"
      BY <1>12, <1>a, <1>i, ZenonT(30) DEF WatchLookup, WatchAt
  <2>2. src # None => [conn |-> src.conn, address |-> src.address] # None
    <3>1. watcher[c].key \in Keys
        BY <2>1, ZenonT(30) DEF WatcherOK, Watcher
    <3>2. src # None => src.conn \in Conns /\ src.address \in Addresses
        BY <3>1, ZenonT(30) DEF TypeOK, SourceConn
    <3> QED
        BY <3>2
  <2>3. src # None => WatcherOK(w, chan[c])
      BY <2>1, <2>2, ZenonT(30) DEF WatcherOK, Watcher
  <2> QED
      BY <1>12, <1>a, <1>d, <1>g, <2>1, <2>3, ZenonT(30) DEF WatchLookup
<1>13. ASSUME NEW c \in Conns, WatchWrite(c) PROVE Calls' /\ Watchers'
  <2>1. watcher[c] \in Watcher /\ WatcherOK(watcher[c], chan[c]) /\ watcher[c].pc = "write"
      BY <1>13, <1>a, <1>i, ZenonT(30) DEF WatchWrite, WatchAt
  <2>2. WatcherOK([watcher[c] EXCEPT !.src = None, !.pc = "notify"], chan[c])
      BY <2>1, ZenonT(30) DEF WatcherOK, Watcher
  <2> QED
      BY <1>13, <1>a, <1>d, <2>2, ZenonT(30) DEF WatchWrite
<1>14. ASSUME NEW c \in Conns, NEW s \in States, ChannelStep(c, s) PROVE Calls' /\ Watchers'
  <2>1. \A d \in Conns : chan'[d] = chan[d] \/ chan'[d] = s
      BY <1>14, ZenonT(30) DEF ChannelStep, TypeOK
  <2>2. Watchers'
      BY <1>14, <1>e, <2>1, ZenonT(30) DEF ChannelStep
  <2>3. UNCHANGED call
      BY <1>14, ZenonT(30) DEF ChannelStep
  <2> QED
      BY <1>a, <2>2, <2>3, ZenonT(30)
<1>15. ASSUME UNCHANGED vars PROVE Calls' /\ Watchers'
  <2>1. UNCHANGED <<call, watcher, chan>>
      BY <1>15, ZenonT(30) DEF vars
  <2> QED
      BY <1>a, <2>1, ZenonT(30)
<1>16. Calls' /\ Watchers'
    BY <1>1, <1>2, <1>3, <1>4, <1>5, <1>6, <1>7, <1>8, <1>9, <1>10, <1>11, <1>12,
       <1>13, <1>14, <1>15, ZenonT(30) DEF Next, RemoveStep, WatchStep
<1> QED
    BY <1>16, ZenonT(30) DEF LocalsOK, CallOK, WatcherOK

(* Pairs grows only by the pair Dial creates *)
LEMMA PairsStep ==
    ASSUME TypeOK, LocalsOK, Next,
           \A k \in Keys, c \in Conns : ~Dial(k, c)
    PROVE  Pairs' \subseteq Pairs
<1> DEFINE Stored(k) == [conn |-> sources[k].conn, address |-> sources[k].address]
<1>a. ASSUME \A k \in Keys : sources'[k] # None =>
                 (sources[k] # None /\ sources'[k] = sources[k]) \/ Stored(k)' \in Pairs,
             \A c \in Conns : watcher'[c].src # None => watcher'[c].src \in Pairs
      PROVE  Pairs' \subseteq Pairs
    BY <1>a, ZenonT(30) DEF Pairs
<1>b. ASSUME UNCHANGED sources, UNCHANGED watcher PROVE Pairs' \subseteq Pairs
    BY <1>b, ZenonT(30) DEF Pairs
<1>c. \A c \in Conns : watcher[c].src # None => watcher[c].src \in Pairs
    BY ZenonT(30) DEF Pairs
<1>d. \A c \in Conns : watcher[c] \in Watcher
    BY ZenonT(30) DEF TypeOK
<1>1. ASSUME NEW k \in Keys,
             \/ SyncRegistryServer(k) \/ SyncConnection(k) \/ DialFails(k)
             \/ DeleteCatalogSource(k) \/ \E a \in Addresses : WriteCatalogSource(k, a)
             \/ \E p \in Callers : RemoveLookup(p, k) \/ RemoveClose(p, k)
      PROVE  Pairs' \subseteq Pairs
    BY <1>1, <1>b, ZenonT(30) DEF SyncRegistryServer, StartSync, SyncConnection, DialFails, DeleteCatalogSource,
                      WriteCatalogSource, RemoveLookup, RemoveClose
<1>2. ASSUME NEW k \in Keys, NEW p \in Callers, RemoveDelete(p, k)
      PROVE  Pairs' \subseteq Pairs
  <2>1. \A j \in Keys : sources'[j] # None => sources'[j] = sources[j]
      BY <1>2, ZenonT(30) DEF RemoveDelete, TypeOK
  <2> QED
      BY <1>2, <1>a, <1>c, <2>1, ZenonT(30) DEF RemoveDelete
<1>3. ASSUME NEW c \in Conns, WatchDone(c) \/ WatchWait(c) \/ WatchNotify(c)
      PROVE  Pairs' \subseteq Pairs
  <2>1. Loop(c).src = None
      BY <1>d, ZenonT(30) DEF Loop, Watcher
  <2>2. [watcher[c] EXCEPT !.state = chan[c], !.pc = "lookup"].src = watcher[c].src
      BY <1>d, ZenonT(30) DEF Watcher
  <2>3. \A d \in Conns : watcher'[d].src # None => watcher'[d].src = watcher[d].src
      BY <1>3, <2>1, <2>2, WatcherAt, ZenonT(30) DEF WatchDone, WatchWait, WatchNotify
  <2> QED
      BY <1>3, <1>a, <1>c, <2>3, ZenonT(30) DEF WatchDone, WatchWait, WatchNotify
<1>4. ASSUME NEW c \in Conns, WatchLookup(c) PROVE Pairs' \subseteq Pairs
  <2> DEFINE src == sources[watcher[c].key]
             pair == [conn |-> src.conn, address |-> src.address]
             w == [watcher[c] EXCEPT !.pc = "write", !.src = pair]
  <2>1. watcher[c].key \in Keys
      BY <1>4, <1>d, ZenonT(30) DEF WatchLookup, WatchAt, LocalsOK, Watcher
  <2>2. src # None => pair \in Pairs
      BY <2>1, ZenonT(30) DEF Pairs
  <2>3. w.src = pair /\ Loop(c).src = None
      BY <1>d, ZenonT(30) DEF Loop, Watcher
  <2>4. src # None => SetWatcher(c, w)
      BY <1>4, ZenonT(30) DEF WatchLookup
  <2>5. src = None => SetWatcher(c, Loop(c))
      BY <1>4, ZenonT(30) DEF WatchLookup
  <2>6. UNCHANGED sources
      BY <1>4, ZenonT(30) DEF WatchLookup
  <2>7. \A d \in Conns : watcher'[d].src # None => watcher'[d].src \in Pairs
    <3> HIDE DEF src, pair, w
    <3> QED
        BY <1>c, <2>2, <2>3, <2>4, <2>5, WatcherAt
  <2> QED
      BY <1>a, <2>6, <2>7, ZenonT(30)
<1>5. ASSUME NEW c \in Conns, WatchWrite(c) PROVE Pairs' \subseteq Pairs
  <2> DEFINE k == watcher[c].key
             src == watcher[c].src
             s == [conn |-> src.conn, address |-> src.address, state |-> watcher[c].state]
  <2>1. k \in Keys /\ src # None /\ src \in [conn : Conns, address : Addresses]
      BY <1>5, <1>d, ZenonT(30) DEF WatchWrite, WatchAt, LocalsOK, Watcher
  <2>2. src \in Pairs /\ src = [conn |-> src.conn, address |-> src.address]
      BY <1>c, <2>1, ZenonT(30)
  <2>3. \A j \in Keys : sources'[j] = IF j = k THEN s ELSE sources[j]
      BY <1>5, ZenonT(30) DEF WatchWrite, TypeOK
  <2>4. \A j \in Keys : sources'[j] # None =>
            (sources[j] # None /\ sources'[j] = sources[j]) \/ Stored(j)' \in Pairs
    <3> SUFFICES ASSUME NEW j \in Keys, sources'[j] # None, j = k
                 PROVE  Stored(j)' \in Pairs
        BY <2>3, ZenonT(30)
    <3>1. sources'[j].conn = src.conn /\ sources'[j].address = src.address
        BY <2>3
    <3> QED
        BY <2>2, <3>1, ZenonT(30)
  <2>5. [watcher[c] EXCEPT !.src = None, !.pc = "notify"].src = None
      BY <1>d, ZenonT(30) DEF Watcher
  <2>6. \A d \in Conns : watcher'[d].src # None => watcher'[d].src = watcher[d].src
      BY <1>5, <2>5, WatcherAt, ZenonT(30) DEF WatchWrite
  <2> QED
      BY <1>a, <1>c, <2>4, <2>6, ZenonT(30)
<1>6. ASSUME NEW c \in Conns, NEW s \in States, ChannelStep(c, s)
      PROVE  Pairs' \subseteq Pairs
    BY <1>6, <1>b, ZenonT(30) DEF ChannelStep
<1> QED
    BY <1>1, <1>2, <1>3, <1>4, <1>5, <1>6, ZenonT(30) DEF Next, RemoveStep, WatchStep

LEMMA PairsInvStep ==
    ASSUME IInv, [Next]_vars
    PROVE  DialedAddress'
<1> USE DEF IInv
<1>a. \A s \in Pairs : s.conn \in Conns /\ s.address \in Addresses
    BY DEF Pairs, TypeOK, SourceConn, Watcher
<1>1. ASSUME Next, \A k \in Keys, c \in Conns : ~Dial(k, c)
      PROVE  DialedAddress'
  <2>1. Pairs' \subseteq Pairs
      BY <1>1, PairsStep, ZenonT(30)
  <2>2. UNCHANGED target
      BY <1>1, ZenonT(30) DEF Next, RemoveStep, WatchStep, SyncRegistryServer, StartSync, SyncConnection, DialFails,
            DeleteCatalogSource, WriteCatalogSource, RemoveLookup, RemoveDelete, RemoveClose,
            WatchDone, WatchWait, WatchLookup, WatchWrite, WatchNotify, ChannelStep
  <2> QED
      BY <2>1, <2>2, ZenonT(30) DEF DialedAddress
<1>2. ASSUME NEW k \in Keys, NEW c \in Conns, Dial(k, c)
      PROVE  DialedAddress'
  <2> DEFINE new == [conn |-> c, address |-> call["sync"][k].address]
             s0 == [conn |-> c, address |-> call["sync"][k].address, state |-> "Idle"]
  <2>1. \A j \in Keys : sources'[j] = IF j = k THEN s0 ELSE sources[j]
      BY <1>2, ZenonT(30) DEF Dial, TypeOK
  <2>2. \A d \in Conns : watcher'[d].src # None => watcher'[d].src = watcher[d].src
    <3>1. [NoWatcher EXCEPT !.pc = "wait", !.key = k].src = None
        BY ZenonT(30) DEF NoWatcher
    <3> QED
        BY <1>2, <3>1, WatcherAt, ZenonT(30) DEF Dial
  <2>3. Pairs' \subseteq Pairs \cup {new}
      BY <2>1, <2>2 DEF Pairs
  <2>4. target'[c] = call["sync"][k].address /\ \A d \in Conns \ {c} : target'[d] = target[d]
      BY <1>2, ZenonT(30) DEF Dial, TypeOK
  <2>5. \A s \in Pairs : s.conn # c
      BY <1>2, <1>a, ZenonT(30) DEF Dial, DialedAddress
  <2> QED
      BY <1>a, <2>3, <2>4, <2>5 DEF DialedAddress
<1>3. CASE UNCHANGED vars
    BY <1>3, ZenonT(30) DEF vars, DialedAddress, Pairs
<1> QED
    BY <1>1, <1>2, <1>3, ZenonT(30)

(* In every reachable state each variable has its type, and each goroutine *)
(* has the locals its place in Add, Remove or watch relies on.             *)
THEOREM TypeCorrect == Spec => []TypeOK
<1>1. Init => TypeOK /\ LocalsOK
    BY InitIInv, ZenonT(30) DEF IInv
<1>2. TypeOK /\ LocalsOK /\ [Next]_vars => TypeOK' /\ LocalsOK'
    BY TypeStep, LocalsStep, ZenonT(30)
<1> QED
    BY <1>1, <1>2, PTL DEF Spec

(* No interleaving of Add, Remove, the delete handler and the watch        *)
(* goroutines records a connection with an address it was not dialed with: *)
(* the address syncConnection compares with the CatalogSource's is true.   *)
THEOREM AddressSafe == Spec => []DialedAddress
<1>1. Init => IInv
    BY InitIInv, ZenonT(30)
<1>2. IInv /\ [Next]_vars => IInv'
    BY TypeStep, LocalsStep, PairsInvStep, ZenonT(30) DEF IInv
<1>3. IInv => DialedAddress
    BY ZenonT(30) DEF IInv
<1> QED
    BY <1>1, <1>2, <1>3, PTL DEF Spec

-----------------------------------------------------------------------------
(* The provider, PackageServer.                                              *)

LEMMA SpareConn == Spare # {} => (CHOOSE c \in Spare : TRUE) \in Conns
BY ZenonT(30) DEF Spare

\* Every step of the provider is a step of the store or leaves it alone.
LEMMA StoreStep == ProviderNext => Next \/ UNCHANGED vars
<1> SUFFICES ASSUME ProviderNext PROVE Next \/ UNCHANGED vars
    BY ZenonT(30)
<1>1. CASE Environment
  <2>1. ASSUME NEW k \in Keys, CatalogSourceDeleted(k) PROVE Next
      BY <2>1, ZenonT(30) DEF CatalogSourceDeleted, Next
  <2>2. ASSUME NEW k \in Keys, NEW a \in Addresses, Write(k, a) PROVE Next
      BY <2>2, ZenonT(30) DEF Write, Next
  <2>3. ASSUME NEW a \in Addresses, NEW f \in Catalogs, Publish(a, f) PROVE UNCHANGED vars
      BY <2>3, ZenonT(30) DEF Publish, storeVars
  <2> QED
      BY <1>1, <2>1, <2>2, <2>3, ZenonT(30) DEF Environment
<1>2. ASSUME NEW c \in Conns, Watch(c) PROVE Next
    BY <1>2, ZenonT(30) DEF Watch, SyncSourceState, WatchStep, Next
<1>3. ASSUME NEW c \in Conns, NEW s \in States, Channel(c, s) PROVE Next
    BY <1>3, ZenonT(30) DEF Channel, Next
<1>4. ASSUME NEW k \in Keys, Sync(k) PROVE Next
    BY <1>4, ZenonT(30) DEF Sync, SyncCatalogSource, CompareAddress, SyncRegistryServer, Next
<1>5. ASSUME NEW k \in Keys, Store(k) PROVE Next
    BY <1>5, SpareConn, ZenonT(30) DEF Store, Connect, Next
<1>6. ASSUME NEW k \in Keys, Removed(k) PROVE UNCHANGED vars
    BY <1>6, ZenonT(30) DEF Removed, storeVars
<1>7. ASSUME NEW k \in Keys, NEW g \in Goroutines, TaskStep(g, k) PROVE UNCHANGED vars
    BY <1>7, ZenonT(30) DEF TaskStep, GetSource, ListPackages, IndexKeys, GetPackage, AddPackage,
                DeletePackage, storeVars
<1> QED
    BY <1>1, <1>2, <1>3, <1>4, <1>5, <1>6, <1>7, ZenonT(30) DEF ProviderNext

(***************************************************************************)
(* The package server uses the store as SourceStore's callers do: nothing  *)
(* the provider does with it is outside of the store's specification.      *)
(***************************************************************************)
THEOREM UsesStore == ProviderSpec => Spec
<1>1. ProviderInit => Init
    BY ZenonT(30) DEF ProviderInit
<1>2. [ProviderNext]_<<storeVars, providerVars>> => [Next]_vars
    BY StoreStep, ZenonT(30) DEF storeVars
<1> QED
    BY <1>1, <1>2, PTL DEF ProviderSpec, Spec

(***************************************************************************)
(* A connection in the package server's store is recorded with the address *)
(* it was dialed with, so syncCatalogSource compares the right addresses.  *)
(***************************************************************************)
THEOREM ProviderAddressSafe == ProviderSpec => []DialedAddress
BY UsesStore, AddressSafe, PTL

-----------------------------------------------------------------------------
(***************************************************************************)
(* Types of the provider.  A goroutine that calls a registry does so on a  *)
(* connection that was dialed: it took it from the store, where            *)
(* connections have the address they were dialed with.                     *)
(***************************************************************************)
Calling(t, dialed) ==
    t.pc = "list" \/ (t.pc = "fetch" /\ t.names # {})
        => t.conn \in Conns /\ dialed[t.conn] \in Addresses

PInv ==
    /\ ProviderTypeOK
    /\ \A g \in Goroutines, k \in Keys : Calling(task[g][k], target)

USE PackageAssumption

LEMMA TaskType ==
    /\ Nothing \in [Packages -> Contents \cup {None}]
    /\ \A pc \in {"idle", "remove", "client", "list", "fetch", "gc"}, c \in Conns \cup {None},
          names \in SUBSET Packages : TaskAt(pc, c, names) \in Task
    /\ NoTask \in Task /\ CollectAll \in Task /\ TaskAt("remove", None, {}) \in Task
    /\ \A dialed : Calling(NoTask, dialed) /\ Calling(CollectAll, dialed)
    /\ \A pc \in {"remove", "client", "gc"} : \A names, c, dialed : Calling(TaskAt(pc, c, names), dialed)
<1>1. Nothing \in [Packages -> Contents \cup {None}]
    BY ZenonT(30) DEF Nothing
<1>2. \A pc \in {"idle", "remove", "client", "list", "fetch", "gc"}, c \in Conns \cup {None},
          names \in SUBSET Packages : TaskAt(pc, c, names) \in Task
    BY <1>1, ZenonT(30) DEF TaskAt, Task
<1>3. NoTask \in Task /\ CollectAll \in Task /\ TaskAt("remove", None, {}) \in Task
    BY <1>2, ZenonT(30) DEF NoTask, CollectAll
<1>4. \A dialed : Calling(NoTask, dialed) /\ Calling(CollectAll, dialed)
    BY ZenonT(30) DEF NoTask, CollectAll, TaskAt, Calling
<1>5. \A pc \in {"remove", "client", "gc"} : \A names, c, dialed : Calling(TaskAt(pc, c, names), dialed)
    BY ZenonT(30) DEF TaskAt, Calling
<1> QED
    BY <1>1, <1>2, <1>3, <1>4, <1>5, ZenonT(30)

\* What every step of the store and every count of events keeps.
LEMMA DialedKept ==
    ASSUME TypeOK, Next \/ UNCHANGED vars, NEW t, Calling(t, target)
    PROVE  Calling(t, target')
<1>1. \A c \in Conns : target[c] \in Addresses => target'[c] = target[c]
  <2>1. ASSUME NEW k \in Keys, NEW c \in Conns, Dial(k, c)
        PROVE  \A d \in Conns : target[d] \in Addresses => target'[d] = target[d]
      BY <2>1, SourceAssumption, ZenonT(30) DEF Dial, TypeOK
  <2>2. (\E k \in Keys, c \in Conns : Dial(k, c)) \/ UNCHANGED target
      BY ZenonT(30) DEF Next, RemoveStep, WatchStep, SyncRegistryServer, StartSync, SyncConnection, DialFails,
             DeleteCatalogSource, WriteCatalogSource, RemoveLookup, RemoveDelete, RemoveClose,
             WatchDone, WatchWait, WatchLookup, WatchWrite, WatchNotify, ChannelStep, vars
  <2> QED
      BY <2>1, <2>2, ZenonT(30)
<1> QED
    BY <1>1, ZenonT(30) DEF Calling

\* A step that gives one goroutine a new task.
LEMMA TaskStepKeeps ==
    ASSUME PInv, TypeOK', Next \/ UNCHANGED vars, NEW g \in Goroutines, NEW k \in Keys,
           NEW t \in Task, SetTask(g, k, t), Calling(t, target),
           served' \in [Addresses -> Catalogs],
           cache' \in [Keys -> [Packages -> Contents \cup {None}]], events' \in 0..MaxEvents
    PROVE  PInv'
<1>1. task \in [Goroutines -> [Keys -> Task]] /\ TypeOK
    BY ZenonT(30) DEF PInv, ProviderTypeOK
<1>2. task' \in [Goroutines -> [Keys -> Task]]
    BY <1>1, ZenonT(30) DEF SetTask
<1>3. \A h \in Goroutines, j \in Keys : task'[h][j] = IF h = g /\ j = k THEN t ELSE task[h][j]
    BY <1>1, ZenonT(30) DEF SetTask
<1>4. \A h \in Goroutines, j \in Keys : Calling(task'[h][j], target)
    BY <1>3, ZenonT(30) DEF PInv
<1>5. \A h \in Goroutines, j \in Keys : Calling(task'[h][j], target')
    BY <1>1, <1>4, DialedKept, ZenonT(30)
<1> QED
    BY <1>2, <1>5, ZenonT(30) DEF PInv, ProviderTypeOK

\* A step that changes no task.
LEMMA NoTaskStep ==
    ASSUME PInv, TypeOK', Next \/ UNCHANGED vars, UNCHANGED <<cache, task>>,
           served' \in [Addresses -> Catalogs], events' \in 0..MaxEvents
    PROVE  PInv'
<1>1. \A h \in Goroutines, j \in Keys : Calling(task[h][j], target')
    BY DialedKept, ZenonT(30) DEF PInv, ProviderTypeOK
<1> QED
    BY <1>1, ZenonT(30) DEF PInv, ProviderTypeOK

LEMMA EventType ==
    ASSUME events \in 0..MaxEvents
    PROVE  /\ \A n \in Nat : Events(n) => events' \in 0..MaxEvents
           /\ Event => events' \in 0..MaxEvents
           /\ UNCHANGED events => events' \in 0..MaxEvents
BY DEF Events, Event

LEMMA ProviderStep ==
    ASSUME PInv, LocalsOK, DialedAddress, TypeOK', ProviderNext
    PROVE  PInv'
<1>a. Next \/ UNCHANGED vars
    BY StoreStep, ZenonT(30)
<1>b. /\ TypeOK /\ events \in 0..MaxEvents /\ served \in [Addresses -> Catalogs]
      /\ cache \in [Keys -> [Packages -> Contents \cup {None}]]
      /\ task \in [Goroutines -> [Keys -> Task]]
    BY ZenonT(30) DEF PInv, ProviderTypeOK
<1>c. \A g \in Goroutines, k \in Keys : Calling(task[g][k], target) /\ task[g][k] \in Task
    BY <1>b DEF PInv
<1>1. CASE Environment
  <2>1. ASSUME NEW k \in Keys, CatalogSourceDeleted(k) PROVE PInv'
    <3>1. Calling(TaskAt("remove", None, {}), target)
        BY TaskType, ZenonT(30)
    <3> QED
        BY <1>a, <1>b, <2>1, <3>1, TaskType, TaskStepKeeps, EventType, ZenonT(30)
           DEF CatalogSourceDeleted, Goroutines
  <2>2. ASSUME NEW k \in Keys, NEW a \in Addresses, Write(k, a) PROVE PInv'
      BY <1>a, <1>b, <2>2, NoTaskStep, EventType, ZenonT(30) DEF Write
  <2>3. ASSUME NEW a \in Addresses, NEW f \in Catalogs, Publish(a, f) PROVE PInv'
      BY <1>a, <1>b, <2>3, NoTaskStep, EventType, ZenonT(30) DEF Publish
  <2> QED
      BY <1>1, <2>1, <2>2, <2>3, ZenonT(30) DEF Environment
<1>2. ASSUME NEW c \in Conns, Watch(c) PROVE PInv'
  <2>1. CASE UNCHANGED providerVars
      BY <1>a, <1>b, <2>1, NoTaskStep, ZenonT(30) DEF providerVars
  <2>2. CASE SyncSourceState(c)
    <3>1. UNCHANGED <<served, cache, events>> /\ watcher[c].key \in Keys
        BY <1>b, <2>2, ZenonT(30) DEF SyncSourceState, WatchNotify, WatchAt, LocalsOK, TypeOK, Watcher
    <3>2. CASE UNCHANGED task
        BY <1>a, <1>b, <3>1, <3>2, NoTaskStep, ZenonT(30)
    <3>3. CASE SetTask("notify", watcher[c].key, CollectAll)
        BY <1>a, <1>b, <3>1, <3>3, TaskType, TaskStepKeeps, ZenonT(30) DEF Goroutines
    <3>4. CASE SetTask("notify", watcher[c].key, TaskAt("client", None, {}))
      <4>1. TaskAt("client", None, {}) \in Task /\ Calling(TaskAt("client", None, {}), target)
          BY TaskType, ZenonT(30)
      <4> QED
          BY <1>a, <1>b, <3>1, <3>4, <4>1, TaskStepKeeps, ZenonT(30) DEF Goroutines
    <3> QED
        BY <2>2, <3>2, <3>3, <3>4, ZenonT(30) DEF SyncSourceState
  <2> QED
      BY <1>2, <2>1, <2>2, ZenonT(30) DEF Watch
<1>3. ASSUME NEW c \in Conns, NEW s \in States, Channel(c, s) PROVE PInv'
    BY <1>a, <1>b, <1>3, NoTaskStep, EventType, ZenonT(30) DEF Channel
<1>4. ASSUME NEW k \in Keys, Sync(k) PROVE PInv'
  <2>1. CASE SyncCatalogSource(k)
      BY <1>a, <1>b, <2>1, NoTaskStep, ZenonT(30) DEF SyncCatalogSource, providerVars
  <2>2. CASE CompareAddress(k)
    <3>1. TaskAt("client", None, {}) \in Task /\ Calling(TaskAt("client", None, {}), target)
        BY TaskType, ZenonT(30)
    <3>2. CASE UNCHANGED task
        BY <1>a, <1>b, <2>2, <3>2, NoTaskStep, ZenonT(30) DEF CompareAddress
    <3>3. CASE SetTask("sync", k, TaskAt("client", None, {}))
        BY <1>a, <1>b, <2>2, <3>1, <3>3, TaskStepKeeps, ZenonT(30) DEF CompareAddress, Goroutines
    <3> QED
        BY <2>2, <3>2, <3>3, ZenonT(30) DEF CompareAddress
  <2> QED
      BY <1>4, <2>1, <2>2, ZenonT(30) DEF Sync
<1>5. ASSUME NEW k \in Keys, Store(k) PROVE PInv'
  <2>1. CASE UNCHANGED providerVars
      BY <1>a, <1>b, <2>1, NoTaskStep, ZenonT(30) DEF providerVars
  <2>2. CASE Connect(k)
      BY <1>a, <1>b, <2>2, NoTaskStep, EventType, ZenonT(30) DEF Connect
  <2> QED
      BY <1>5, <2>1, <2>2, ZenonT(30) DEF Store
<1>6. ASSUME NEW k \in Keys, Removed(k) PROVE PInv'
    BY <1>a, <1>b, <1>6, TaskType, TaskStepKeeps, ZenonT(30) DEF Removed, Goroutines
<1>7. ASSUME NEW k \in Keys, NEW g \in Goroutines, TaskStep(g, k) PROVE PInv'
  <2> DEFINE t == task[g][k]
  <2>0. t \in Task /\ Calling(t, target)
      BY <1>c, ZenonT(30)
  <2>1. CASE GetSource(g, k)
    <3>1. CASE sources[k] = None
        BY <1>a, <1>b, <2>1, <3>1, TaskType, TaskStepKeeps, ZenonT(30) DEF GetSource
    <3>2. CASE sources[k] # None
      <4>1. sources[k] \in SourceConn
          BY <1>b, <3>2, ZenonT(30) DEF TypeOK
      <4>2. [conn |-> sources[k].conn, address |-> sources[k].address] \in Pairs
          BY <3>2, ZenonT(30) DEF Pairs
      <4>3. sources[k].conn \in Conns /\ target[sources[k].conn] \in Addresses
          BY <4>1, <4>2, ZenonT(30) DEF SourceConn, DialedAddress
      <4>4. Calling(TaskAt("list", sources[k].conn, {}), target)
          BY <4>3, ZenonT(30) DEF Calling, TaskAt
      <4>5. TaskAt("list", sources[k].conn, {}) \in Task
          BY <4>3, TaskType, ZenonT(30)
      <4> QED
          BY <1>a, <1>b, <2>1, <3>2, <4>4, <4>5, TaskStepKeeps, ZenonT(30) DEF GetSource
    <3> QED
        BY <3>1, <3>2, ZenonT(30)
  <2>2. CASE ListPackages(g, k)
    <3>1. t.conn \in Conns /\ target[t.conn] \in Addresses
        BY <2>0, <2>2, ZenonT(30) DEF ListPackages, Calling
    <3>2. events' \in 0..MaxEvents /\ served' = served /\ cache' = cache
        BY <1>b, <2>2, EventType, ZenonT(30) DEF ListPackages, Fails, Answers
    <3>3. \A names \in SUBSET Packages :
            TaskAt("fetch", t.conn, names) \in Task /\ Calling(TaskAt("fetch", t.conn, names), target)
        BY <3>1, TaskType, ZenonT(30) DEF Calling, TaskAt
    <3>4. SetTask(g, k, NoTask) \/ \E names \in SUBSET Packages : SetTask(g, k, TaskAt("fetch", t.conn, names))
        BY <2>2, ZenonT(30) DEF ListPackages
    <3>5. CASE SetTask(g, k, NoTask)
        BY <1>a, <1>b, <3>2, <3>5, TaskType, TaskStepKeeps, ZenonT(30)
    <3>6. ASSUME NEW names \in SUBSET Packages, SetTask(g, k, TaskAt("fetch", t.conn, names))
          PROVE  PInv'
        BY <1>a, <1>b, <3>2, <3>3, <3>6, TaskStepKeeps, ZenonT(30)
    <3> QED
        BY <3>4, <3>5, <3>6, ZenonT(30)
  <2>3. ASSUME NEW p \in Packages, GetPackage(g, k, p) PROVE PInv'
    <3>1. t.conn \in Conns /\ target[t.conn] \in Addresses /\ t.pc = "fetch"
        BY <2>0, <2>3, ZenonT(30) DEF GetPackage, Calling
    <3>2. served[target[t.conn]][p] \in Contents \cup {None}
        BY <1>b, <3>1
    <3>3. events' \in 0..MaxEvents /\ served' = served /\ cache' = cache
        BY <1>b, <2>3, EventType, ZenonT(30) DEF GetPackage, Fails, Answers
    <3> DEFINE u(v) == [t EXCEPT !.names = @ \ {p}, !.got[p] = v]
               x == [t EXCEPT !.names = @ \ {p}]
    <3>4. \A v \in Contents \cup {None} : u(v) \in Task /\ u(v).conn = t.conn
        BY <2>0, ZenonT(30) DEF Task
    <3>5. x \in Task /\ x.conn = t.conn
        BY <2>0, ZenonT(30) DEF Task
    <3>6. \A v \in Contents \cup {None} : Calling(u(v), target)
        BY <3>1, <3>4, ZenonT(30) DEF Calling
    <3>7. Calling(x, target)
        BY <3>1, <3>5, ZenonT(30) DEF Calling
    <3>8. SetTask(g, k, x) \/ SetTask(g, k, u(served[target[t.conn]][p]))
        BY <2>3, ZenonT(30) DEF GetPackage
    <3> HIDE DEF u, x
    <3> QED
        BY <1>a, <1>b, <3>2, <3>3, <3>4, <3>5, <3>6, <3>7, <3>8, TaskStepKeeps, ZenonT(30)
  <2>4. ASSUME NEW p \in Packages, AddPackage(g, k, p) PROVE PInv'
    <3> DEFINE x == [t EXCEPT !.got[p] = None, !.added = @ \cup {p}]
    <3>1. x \in Task /\ x.conn = t.conn /\ x.pc = t.pc /\ x.names = t.names
        BY <2>0, ZenonT(30) DEF Task
    <3>2. Calling(x, target)
        BY <2>0, <3>1, ZenonT(30) DEF Calling
    <3>3. t.got[p] \in Contents \cup {None}
        BY <2>0, ZenonT(30) DEF Task
    <3>4. cache' \in [Keys -> [Packages -> Contents \cup {None}]]
        BY <1>b, <2>4, <3>3, ZenonT(30) DEF AddPackage
    <3>5. SetTask(g, k, x) /\ served' = served /\ events' = events
        BY <2>4, ZenonT(30) DEF AddPackage
    <3> HIDE DEF x
    <3> QED
        BY <1>a, <1>b, <3>1, <3>2, <3>4, <3>5, TaskStepKeeps, ZenonT(30)
  <2>5. CASE IndexKeys(g, k)
    <3>1. \A names \in SUBSET Packages :
            TaskAt("gc", None, names) \in Task /\ Calling(TaskAt("gc", None, names), target)
        BY TaskType, ZenonT(30)
    <3>2. SetTask(g, k, NoTask) \/ \E names \in SUBSET Packages : SetTask(g, k, TaskAt("gc", None, names))
        BY <2>5, ZenonT(30) DEF IndexKeys
    <3> QED
        BY <1>a, <1>b, <2>5, <3>1, <3>2, TaskType, TaskStepKeeps, ZenonT(30) DEF IndexKeys
  <2>6. ASSUME NEW p \in Packages, DeletePackage(g, k, p) PROVE PInv'
    <3> DEFINE x == [t EXCEPT !.names = @ \ {p}]
    <3>1. x \in Task /\ x.pc = "gc"
        BY <2>0, <2>6, ZenonT(30) DEF Task, DeletePackage
    <3>2. Calling(x, target)
        BY <3>1, ZenonT(30) DEF Calling
    <3>3. cache' \in [Keys -> [Packages -> Contents \cup {None}]]
        BY <1>b, <2>6, ZenonT(30) DEF DeletePackage
    <3>4. (SetTask(g, k, x) \/ SetTask(g, k, NoTask)) /\ served' = served /\ events' = events
        BY <2>6, ZenonT(30) DEF DeletePackage
    <3> HIDE DEF x
    <3> QED
        BY <1>a, <1>b, <3>1, <3>2, <3>3, <3>4, TaskType, TaskStepKeeps, ZenonT(30)
  <2> QED
      BY <1>7, <2>1, <2>2, <2>3, <2>4, <2>5, <2>6, ZenonT(30) DEF TaskStep
<1> QED
    BY <1>1, <1>2, <1>3, <1>4, <1>5, <1>6, <1>7, ZenonT(30) DEF ProviderNext

(***************************************************************************)
(* Types: the goroutines of refreshCache and gcPackages only ever hold     *)
(* known packages, and call registries on connections that were dialed.    *)
(***************************************************************************)
THEOREM ProviderTypeCorrect == ProviderSpec => []ProviderTypeOK
<1>1. ProviderInit => PInv
  <2> SUFFICES ASSUME ProviderInit PROVE PInv
      BY ZenonT(30)
  <2>1. TypeOK
      BY InitIInv, ZenonT(30) DEF ProviderInit, IInv
  <2>2. task \in [Goroutines -> [Keys -> Task]] /\ cache \in [Keys -> [Packages -> Contents \cup {None}]]
      BY TaskType, ZenonT(30) DEF ProviderInit
  <2>3. \A g \in Goroutines, k \in Keys : Calling(task[g][k], target)
      BY TaskType, ZenonT(30) DEF ProviderInit
  <2> QED
      BY <2>1, <2>2, <2>3 DEF ProviderInit, PInv, ProviderTypeOK
<1>2. ASSUME PInv, LocalsOK, DialedAddress, TypeOK', [ProviderNext]_<<storeVars, providerVars>>
      PROVE  PInv'
  <2>1. CASE UNCHANGED <<storeVars, providerVars>>
      BY <1>2, <2>1, NoTaskStep, ZenonT(30) DEF storeVars, providerVars, PInv, ProviderTypeOK
  <2> QED
      BY <1>2, <2>1, ProviderStep, ZenonT(30)
<1>3. Spec => []IInv
  <2>1. IInv /\ [Next]_vars => IInv'
      BY TypeStep, LocalsStep, PairsInvStep, ZenonT(30) DEF IInv
  <2> QED
      BY <2>1, InitIInv, PTL DEF Spec
<1>4. IInv => TypeOK /\ LocalsOK /\ DialedAddress
    BY ZenonT(30) DEF IInv
<1>5. PInv => ProviderTypeOK
    BY ZenonT(30) DEF PInv
<1> QED
    BY <1>1, <1>2, <1>3, <1>4, <1>5, UsesStore, PTL DEF ProviderSpec
=============================================================================
