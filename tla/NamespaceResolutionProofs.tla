--------------------- MODULE NamespaceResolutionProofs ---------------------
(***************************************************************************)
(* Proofs about NamespaceResolution.  The types, with the lock, hold for   *)
(* any number of workers.  That generations are unique and that the        *)
(* Subscription points at the plan of its current CSV is proved for one    *)
(* worker per namespace, the case the queue's contract promises; with two  *)
(* of them TLC shows both to fail.                                         *)
(***************************************************************************)
EXTENDS NamespaceResolution, FiniteSetTheorems, SequenceTheorems, TLAPS

(* What the steps of a sync rely on: a plan is only looked for or created    *)
(* for a resolved version, and the status request follows the creation.      *)
LocalsOK ==
    \A w \in Workers :
        /\ sync[w].pc \in {"unpack", "list", "ensureip", "lock", "create", "status"}
              => sync[w].op \in Versions
        /\ sync[w].pc = "status" => sync[w].ref \in DOMAIN plans

TypeInv == TypeOK /\ LocalsOK

(* A reference that is set names an existing plan of the current CSV. *)
RefOK(s) == s.ref # 0 => s.ref \in DOMAIN plans /\ plans[s.ref].csv = s.current

(* Generations increase with the order of creation and the newest plan       *)
(* survives gcInstallPlans, so the maximum a sync computes is the maximum    *)
(* over all the plans there ever were.                                       *)
Increasing ==
    /\ \A p, q \in DOMAIN plans : p < q => plans[p].gen < plans[q].gen
    /\ Len(plans) # 0 => plans[Len(plans)].alive

(* The same for what a sync carries from one step to the next. *)
CarriesOK(r) ==
    /\ RefOK(r.sub)
    /\ RefOK(r.updated)
    /\ r.pc \in {"idle", "ensure", "update", "resolve"} => r.op = 0
    /\ r.pc \in {"ensureip", "lock", "create"} => \A p \in DOMAIN plans : plans[p].gen < r.gen
    /\ r.pc = "lock" => r.ref = 0
    /\ r.pc = "status" => plans[r.ref].csv = r.op
    /\ r.pc = "final" /\ r.op # 0 /\ r.updated.current # r.op
          => r.ref \in DOMAIN plans /\ plans[r.ref].csv = r.op

IInv ==
    /\ TypeInv
    /\ RefOK(sub)
    /\ Increasing
    /\ \A w \in Workers : CarriesOK(sync[w])
-----------------------------------------------------------------------------
(* The records of the initial state and of an idle sync are well typed. *)
LEMMA IdleType == NewSub \in SubStatus /\ IdleSync \in Syncs
<1> USE NamespaceResolutionAssumption
<1>1. NewSub \in SubStatus
    BY DEF NewSub, SubStatus
<1> QED
    BY <1>1 DEF IdleSync, Syncs, CondTypes

(* Replacing one worker's sync by a well typed one keeps sync well typed. *)
LEMMA SyncType ==
    ASSUME sync \in [Workers -> Syncs], NEW w \in Workers, NEW r \in Syncs, SetSync(w, r)
    PROVE  /\ sync' \in [Workers -> Syncs]
           /\ sync'[w] = r
           /\ \A v \in Workers : v # w => sync'[v] = sync[v]
    BY ZenonT(30) DEF SetSync

(* The status of a Subscription, whichever the step that wrote it. *)
LEMMA CSVStateType ==
    ASSUME NEW s \in SubStatus, NEW found \in BOOLEAN, NEW failed \in BOOLEAN
    PROVE  CSVState(s, found, failed) \in SubStatus
    BY ZenonT(30) DEF CSVState, SubStatus

LEMMA FinalStatusType ==
    ASSUME NEW w \in Workers, TypeOK, sync[w].pc = "final"
    PROVE  FinalStatus(w) \in SubStatus
<1>1. sync[w] \in Syncs
    BY ZenonT(30) DEF TypeOK
<1>2. /\ sync[w].sub \in SubStatus /\ sync[w].updated \in SubStatus
      /\ sync[w].op \in 0 .. MaxVersion /\ sync[w].ref \in 0 .. MaxPlans /\ sync[w].gen \in Nat
    BY <1>1, ZenonT(30) DEF Syncs
<1>3. [sync[w].sub EXCEPT !.conds = {}] \in SubStatus
    BY <1>2, ZenonT(30) DEF SubStatus
<1>4. [sync[w].updated EXCEPT !.current = sync[w].op, !.ref = sync[w].ref,
                              !.gen = sync[w].gen, !.state = "UpgradePending",
                              !.conds = @ \ {"ResolutionFailed"}] \in SubStatus
    BY <1>2, ZenonT(30) DEF SubStatus
<1> QED
    BY <1>3, <1>4, ZenonT(30) DEF FinalStatus

(* A step that moves one worker on, without touching the lock or the plans:  *)
(* the worker was not creating a plan and is not doing so afterwards.        *)
LEMMA MoveType ==
    ASSUME TypeInv, NEW w \in Workers, NEW r \in Syncs, SetSync(w, r),
           sync[w].pc \notin {"create", "status"}, r.pc \notin {"create", "status"},
           r.pc \in {"unpack", "list", "ensureip", "lock"} => r.op \in Versions,
           UNCHANGED <<head, plans, csvs, csvCache, subCache, muInstallPlan>>,
           sub' \in SubStatus, stale' \subseteq Workers, faults' \in 0 .. MaxFaults
    PROVE  TypeInv'
<1>1. sync \in [Workers -> Syncs]
    BY ZenonT(30) DEF TypeInv, TypeOK
<1>2. /\ sync' \in [Workers -> Syncs]
      /\ sync'[w] = r
      /\ \A v \in Workers : v # w => sync'[v] = sync[v]
    BY <1>1, SyncType, ZenonT(30)
<1>3. TypeOK'
    BY <1>2, ZenonT(30) DEF TypeInv, TypeOK
<1>4. LocalsOK'
    BY <1>2, ZenonT(30) DEF TypeInv, LocalsOK, Versions
<1> QED
    BY <1>3, <1>4, ZenonT(30) DEF TypeInv

(* What a step of a worker may rely on. *)
LEMMA SyncFacts ==
    ASSUME TypeInv, NEW w \in Workers
    PROVE  /\ sync[w] \in Syncs
           /\ sync[w].sub \in SubStatus /\ sync[w].updated \in SubStatus
           /\ sync[w].op \in 0 .. MaxVersion /\ sync[w].ref \in 0 .. MaxPlans
           /\ sync[w].gen \in Nat /\ sync[w].cond \in CondTypes
           /\ sub \in SubStatus /\ stale \subseteq Workers /\ faults \in 0 .. MaxFaults
<1>1. sync[w] \in Syncs
    BY ZenonT(30) DEF TypeInv, TypeOK
<1> QED
    BY <1>1, ZenonT(30) DEF TypeInv, TypeOK, Syncs

LEMMA PlansFacts ==
    ASSUME TypeInv
    PROVE  /\ plans \in Seq(Plans) /\ Len(plans) \in Nat /\ Len(plans) <= MaxPlans
           /\ DOMAIN plans = 1 .. Len(plans)
           /\ \A p \in DOMAIN plans : plans[p] \in Plans /\ plans[p].gen \in Nat
<1>1. plans \in Seq(Plans) /\ Len(plans) <= MaxPlans
    BY ZenonT(30) DEF TypeInv, TypeOK
<1>2. Len(plans) \in Nat /\ DOMAIN plans = 1 .. Len(plans) /\ plans \in [1 .. Len(plans) -> Plans]
    BY <1>1, LenProperties, ZenonT(30)
<1>3. \A p \in DOMAIN plans : plans[p] \in Plans
    BY <1>2, ZenonT(30)
<1> QED
    BY <1>1, <1>2, <1>3, ZenonT(30) DEF Plans

LEMMA FaultType ==
    ASSUME faults \in 0 .. MaxFaults, NEW kind, Fault(kind)
    PROVE  faults' \in 0 .. MaxFaults
    BY NamespaceResolutionAssumption DEF Fault

LEMMA WriteSubType ==
    ASSUME NEW w \in Workers, NEW s \in SubStatus, stale \subseteq Workers, WriteSub(w, s)
    PROVE  sub' \in SubStatus /\ stale' \subseteq Workers
    BY ZenonT(30) DEF WriteSub

(* Setting a condition from a step that is not creating a plan. *)
LEMMA SetCondType ==
    ASSUME TypeInv, NEW w \in Workers, NEW c \in CondTypes, SetCond(w, c),
           sync[w].pc \notin {"create", "status"}, faults' \in 0 .. MaxFaults,
           UNCHANGED <<head, sub, plans, csvs, csvCache, subCache, stale, muInstallPlan>>
    PROVE  TypeInv'
<1> DEFINE r == [sync[w] EXCEPT !.pc = "cond", !.cond = c]
<1>1. r \in Syncs /\ r.pc = "cond"
    BY SyncFacts, ZenonT(30) DEF Syncs
<1>2. SetSync(w, r)
    BY ZenonT(30) DEF SetCond
<1>3. sub' \in SubStatus /\ stale' \subseteq Workers
    BY SyncFacts, ZenonT(30)
<1> HIDE DEF r
<1> QED
    BY <1>1, <1>2, <1>3, MoveType, ZenonT(30)
(* Ending a sync from such a step. *)
LEMMA FinishType ==
    ASSUME TypeInv, NEW w \in Workers, Finish(w), sync[w].pc \notin {"create", "status"},
           sub' \in SubStatus, stale' \subseteq Workers, faults' \in 0 .. MaxFaults,
           UNCHANGED <<head, plans, csvs, csvCache, subCache, muInstallPlan>>
    PROVE  TypeInv'
<1>1. IdleSync \in Syncs /\ IdleSync.pc = "idle"
    BY IdleType, ZenonT(30) DEF IdleSync
<1> QED
    BY <1>1, MoveType, ZenonT(30) DEF Finish
-----------------------------------------------------------------------------
LEMMA StartSyncPlans ==
    ASSUME TypeInv, NEW w \in Workers, StartSync(w)
    PROVE  plans' \in Seq(Plans) /\ Len(plans') = Len(plans) /\ DOMAIN plans' = DOMAIN plans
<1>1. PICK gone :
          plans' = [p \in DOMAIN plans |->
                      [plans[p] EXCEPT !.alive = @ /\ p \notin gone]]
    BY ZenonT(30) DEF StartSync
<1>2. plans \in Seq(Plans) /\ DOMAIN plans = 1 .. Len(plans) /\ Len(plans) \in Nat
    BY DEF TypeInv, TypeOK
<1>3. ASSUME NEW p \in DOMAIN plans
      PROVE  [plans[p] EXCEPT !.alive = @ /\ p \notin gone] \in Plans
  <2>1. plans[p] \in Plans
      BY <1>2, <1>3
  <2>2. (plans[p].alive /\ p \notin gone) \in BOOLEAN
      BY ZenonT(30)
  <2> QED
      BY <2>1, <2>2, ZenonT(30) DEF Plans
<1>4. plans' \in [1 .. Len(plans) -> Plans]
    BY <1>1, <1>2, <1>3, ZenonT(30)
<1> QED
    BY <1>2, <1>4, SeqDef

LEMMA StartSyncType ==
    ASSUME TypeInv, NEW w \in Workers, StartSync(w)
    PROVE  TypeInv'
<1> DEFINE r == [IdleSync EXCEPT !.pc = "ensure", !.sub = sub]
<1>1. r \in Syncs /\ r.pc = "ensure"
    BY IdleType, SyncFacts, ZenonT(30) DEF Syncs, IdleSync
<1>2. SetSync(w, r) /\ sync[w].pc = "idle"
    BY ZenonT(30) DEF StartSync
<1>3. sync \in [Workers -> Syncs]
    BY ZenonT(30) DEF TypeInv, TypeOK
<1>4. /\ sync' \in [Workers -> Syncs]
      /\ sync'[w] = r
      /\ \A v \in Workers : v # w => sync'[v] = sync[v]
    BY <1>1, <1>2, <1>3, SyncType, ZenonT(30)
<1>5. plans' \in Seq(Plans) /\ Len(plans') = Len(plans) /\ DOMAIN plans' = DOMAIN plans
    BY StartSyncPlans, ZenonT(30)
<1>6. faults' \in 0 .. MaxFaults
    BY SyncFacts, FaultType, ZenonT(30) DEF StartSync
<1>7. TypeOK'
    BY <1>1, <1>2, <1>4, <1>5, <1>6, ZenonT(30) DEF TypeInv, TypeOK, StartSync
<1>8. LocalsOK'
    BY <1>1, <1>4, <1>5, ZenonT(30) DEF TypeInv, LocalsOK, Versions
<1> QED
    BY <1>7, <1>8, ZenonT(30) DEF TypeInv

LEMMA ensureSubscriptionCSVStateType ==
    ASSUME TypeInv, NEW w \in Workers, ensureSubscriptionCSVState(w)
    PROVE  TypeInv'
<1> DEFINE s == sync[w].sub
           Out(found, failed) == IF s.current = 0 THEN s ELSE CSVState(s, found, failed)
           r(found, failed) == [sync[w] EXCEPT !.pc = "update", !.sub = Out(found, failed)]
           t == [sync[w] EXCEPT !.pc = "resolve"]
<1>1. PICK found, failed \in BOOLEAN :
         /\ Fault("get") \/ UNCHANGED faults
         /\ SetSync(w, r(found, failed)) \/ SetSync(w, IdleSync) \/ SetSync(w, t)
    BY ZenonT(30) DEF ensureSubscriptionCSVState, Finish
<1>2. faults' \in 0 .. MaxFaults /\ sub' \in SubStatus /\ stale' \subseteq Workers
    BY <1>1, SyncFacts, FaultType, ZenonT(30) DEF ensureSubscriptionCSVState
<1>3. r(found, failed) \in Syncs /\ r(found, failed).pc = "update"
  <2>1. s \in SubStatus /\ sync[w] \in Syncs
      BY SyncFacts, ZenonT(30)
  <2>2. Out(found, failed) \in SubStatus
      BY <2>1, CSVStateType, ZenonT(30)
  <2> HIDE DEF Out
  <2> QED
      BY <2>1, <2>2, ZenonT(30) DEF Syncs
<1>4. t \in Syncs /\ t.pc = "resolve" /\ IdleSync \in Syncs /\ IdleSync.pc = "idle"
    BY SyncFacts, IdleType, ZenonT(30) DEF Syncs, IdleSync
<1>5. /\ sync[w].pc = "ensure"
      /\ UNCHANGED <<head, plans, csvs, csvCache, subCache, muInstallPlan>>
    BY ZenonT(30) DEF ensureSubscriptionCSVState
<1> HIDE DEF r, t
<1> QED
    BY <1>1, <1>2, <1>3, <1>4, <1>5, MoveType, ZenonT(30)

LEMMA UpdateSubscriptionType ==
    ASSUME TypeInv, NEW w \in Workers, UpdateSubscription(w)
    PROVE  TypeInv'
<1>1. sub' \in SubStatus /\ stale' \subseteq Workers /\ faults' \in 0 .. MaxFaults
    BY SyncFacts, WriteSubType, FaultType, ZenonT(30) DEF UpdateSubscription
<1>2. IdleSync \in Syncs /\ IdleSync.pc = "idle"
    BY IdleType, ZenonT(30) DEF IdleSync
<1> QED
    BY <1>1, <1>2, MoveType, ZenonT(30) DEF UpdateSubscription, Finish

LEMMA ResolveStepsType ==
    ASSUME TypeInv, NEW w \in Workers, ResolveSteps(w)
    PROVE  TypeInv'
<1> DEFINE r == [sync[w] EXCEPT !.pc = "final", !.updated = sub]
           t(op) == [sync[w] EXCEPT !.pc = "unpack", !.updated = sub, !.op = op]
<1>1. /\ sync[w].pc = "resolve"
      /\ UNCHANGED <<head, sub, plans, csvs, csvCache, subCache, stale, muInstallPlan>>
      /\ \/ SetCond(w, "ResolutionFailed")
         \/ SetSync(w, r)
         \/ \E op \in 0 .. MaxVersion : op # 0 /\ SetSync(w, t(op))
    BY ZenonT(30) DEF ResolveSteps
<1>2. faults' \in 0 .. MaxFaults
    BY SyncFacts, FaultType, ZenonT(30) DEF ResolveSteps
<1>3. CASE SetCond(w, "ResolutionFailed")
    BY <1>1, <1>2, <1>3, SetCondType, ZenonT(30) DEF CondTypes
<1>4. sub' \in SubStatus /\ stale' \subseteq Workers
    BY <1>1, SyncFacts, ZenonT(30)
<1>5. CASE SetSync(w, r)
  <2>1. r \in Syncs /\ r.pc = "final"
      BY SyncFacts, ZenonT(30) DEF Syncs
  <2> HIDE DEF r
  <2> QED
      BY <1>1, <1>2, <1>4, <1>5, <2>1, MoveType, ZenonT(30)
<1>6. ASSUME NEW op \in 0 .. MaxVersion, op # 0, SetSync(w, t(op)) PROVE TypeInv'
  <2>1. t(op) \in Syncs /\ t(op).pc = "unpack" /\ t(op).op = op
      BY SyncFacts, ZenonT(30) DEF Syncs
  <2>2. op \in Versions
      BY <1>6, NamespaceResolutionAssumption DEF Versions
  <2> HIDE DEF t
  <2> QED
      BY <1>1, <1>2, <1>4, <1>6, <2>1, <2>2, MoveType, ZenonT(30)
<1> QED
    BY <1>1, <1>3, <1>5, <1>6, ZenonT(30)

LEMMA unpackBundlesType ==
    ASSUME TypeInv, NEW w \in Workers, unpackBundles(w)
    PROVE  TypeInv'
<1> DEFINE r(pc) == [sync[w] EXCEPT !.pc = pc]
<1>1. /\ sync[w].pc = "unpack"
      /\ UNCHANGED <<head, sub, plans, csvs, csvCache, subCache, stale, muInstallPlan>>
      /\ \/ \E pc \in {"list", "final"} : SetSync(w, r(pc))
         \/ SetCond(w, "BundleUnpacking")
         \/ SetCond(w, "BundleUnpackFailed")
         \/ Finish(w)
    BY ZenonT(30) DEF unpackBundles
<1>2. faults' \in 0 .. MaxFaults
    BY SyncFacts, FaultType, ZenonT(30) DEF unpackBundles
<1>3. sub' \in SubStatus /\ stale' \subseteq Workers
    BY <1>1, SyncFacts, ZenonT(30)
<1>4. ASSUME NEW pc \in {"list", "final"}, SetSync(w, r(pc)) PROVE TypeInv'
  <2>1. r(pc) \in Syncs /\ r(pc).pc = pc /\ r(pc).op = sync[w].op
      BY SyncFacts, ZenonT(30) DEF Syncs
  <2>2. sync[w].op \in Versions
      BY <1>1, ZenonT(30) DEF TypeInv, LocalsOK
  <2> HIDE DEF r
  <2> QED
      BY <1>1, <1>2, <1>3, <1>4, <2>1, <2>2, MoveType, ZenonT(30)
<1>5. CASE Finish(w)
    BY <1>1, <1>2, <1>3, <1>5, FinishType, ZenonT(30)
<1> QED
    BY <1>1, <1>2, <1>4, <1>5, SetCondType, ZenonT(30) DEF CondTypes

LEMMA UpdateSubscriptionCondType ==
    ASSUME TypeInv, NEW w \in Workers, UpdateSubscriptionCond(w)
    PROVE  TypeInv'
<1> DEFINE s == [sync[w].sub EXCEPT !.conds = @ \cup {sync[w].cond}]
<1>1. s \in SubStatus
    BY SyncFacts, ZenonT(30) DEF SubStatus
<1>2. WriteSub(w, s) \/ UNCHANGED <<sub, stale>>
    BY ZenonT(30) DEF UpdateSubscriptionCond
<1> HIDE DEF s
<1>3. sub' \in SubStatus /\ stale' \subseteq Workers
    BY <1>1, <1>2, SyncFacts, WriteSubType, ZenonT(30)
<1>4. faults' \in 0 .. MaxFaults
    BY SyncFacts, FaultType, ZenonT(30) DEF UpdateSubscriptionCond
<1>5. IdleSync \in Syncs /\ IdleSync.pc = "idle"
    BY IdleType, ZenonT(30) DEF IdleSync
<1> QED
    BY <1>3, <1>4, <1>5, MoveType, ZenonT(30) DEF UpdateSubscriptionCond, Finish

LEMMA UpdateSubscriptionStatusesType ==
    ASSUME TypeInv, NEW w \in Workers, UpdateSubscriptionStatuses(w)
    PROVE  TypeInv'
<1>1. FinalStatus(w) \in SubStatus
    BY FinalStatusType, ZenonT(30) DEF TypeInv, UpdateSubscriptionStatuses
<1>2. sub' \in SubStatus /\ stale' \subseteq Workers
    BY <1>1, SyncFacts, WriteSubType, ZenonT(30) DEF UpdateSubscriptionStatuses
<1>3. faults' \in 0 .. MaxFaults
    BY SyncFacts, FaultType, ZenonT(30) DEF UpdateSubscriptionStatuses
<1>4. IdleSync \in Syncs /\ IdleSync.pc = "idle"
    BY IdleType, ZenonT(30) DEF IdleSync
<1> QED
    BY <1>2, <1>3, <1>4, MoveType, ZenonT(30) DEF UpdateSubscriptionStatuses, Finish

LEMMA ListInstallPlansType ==
    ASSUME TypeInv, NEW w \in Workers, ListInstallPlans(w)
    PROVE  TypeInv'
<1> DEFINE r(g, a) == [sync[w] EXCEPT !.pc = "ensureip", !.gen = g + 1, !.approval = a]
<1> SUFFICES ASSUME NEW g \in Generations(w), NEW a \in Approvals, SetSync(w, r(g, a))
             PROVE  TypeInv'
    BY FinishType, SyncFacts, FaultType, ZenonT(30) DEF ListInstallPlans
<1>2. g \in Nat
  <2>1. sync[w].sub.gen \in Nat
      BY SyncFacts, ZenonT(30) DEF SubStatus
  <2> QED
      BY <2>1, PlansFacts, ZenonT(30) DEF Generations, Alive
<1>3. r(g, a) \in Syncs /\ r(g, a).pc = "ensureip" /\ r(g, a).op = sync[w].op
  <2>1. g + 1 \in Nat /\ a \in {"Automatic", "Manual"}
      BY <1>2, NamespaceResolutionAssumption
  <2> QED
      BY <2>1, SyncFacts, ZenonT(30) DEF Syncs
<1>4. sync[w].pc = "list" /\ sync[w].op \in Versions
    BY ZenonT(30) DEF ListInstallPlans, TypeInv, LocalsOK
<1>5. /\ UNCHANGED <<head, sub, plans, csvs, csvCache, subCache, stale, muInstallPlan>>
      /\ sub' \in SubStatus /\ stale' \subseteq Workers /\ faults' \in 0 .. MaxFaults
    BY SyncFacts, FaultType, ZenonT(30) DEF ListInstallPlans
<1> HIDE DEF r
<1> QED
    BY <1>3, <1>4, <1>5, MoveType, ZenonT(30)

LEMMA ensureInstallPlanType ==
    ASSUME TypeInv, NEW w \in Workers, ensureInstallPlan(w)
    PROVE  TypeInv'
<1> DEFINE r(ref) == [sync[w] EXCEPT !.pc = "lock", !.ref = ref]
<1>1. /\ sync[w].pc = "ensureip" /\ faults' \in 0 .. MaxFaults
      /\ \/ \E ref \in {0} \cup Alive : SetSync(w, r(ref))
         \/ SetCond(w, "BundleUnpackFailed")
      /\ UNCHANGED <<head, sub, plans, csvs, csvCache, subCache, stale, muInstallPlan>>
    BY SyncFacts, FaultType, ZenonT(30) DEF ensureInstallPlan
<1> SUFFICES ASSUME NEW ref \in {0} \cup Alive, SetSync(w, r(ref))
             PROVE  TypeInv'
    BY <1>1, SetCondType, ZenonT(30) DEF CondTypes
<1>2. ref \in 0 .. MaxPlans
    BY NamespaceResolutionAssumption DEF TypeInv, TypeOK, Alive
<1>3. r(ref) \in Syncs /\ r(ref).pc = "lock" /\ r(ref).op = sync[w].op
    BY <1>2, SyncFacts, ZenonT(30) DEF Syncs
<1>4. sync[w].pc = "ensureip" /\ sync[w].op \in Versions
    BY <1>1, ZenonT(30) DEF TypeInv, LocalsOK
<1>5. sub' \in SubStatus /\ stale' \subseteq Workers
    BY <1>1, SyncFacts, ZenonT(30)
<1> HIDE DEF r
<1> QED
    BY <1>1, <1>3, <1>4, <1>5, MoveType, ZenonT(30)

(* The steps under the lock change it, the sync and the plans together. *)
LEMMA LockInstallPlanType ==
    ASSUME TypeInv, NEW w \in Workers, LockInstallPlan(w)
    PROVE  TypeInv'
<1> DEFINE r(pc) == [sync[w] EXCEPT !.pc = pc]
<1>1. /\ sync[w].pc = "lock" /\ sync[w].op \in Versions /\ muInstallPlan = None
      /\ sync \in [Workers -> Syncs] /\ None \notin Workers
    BY NamespaceResolutionAssumption, ZenonT(30) DEF LockInstallPlan, TypeInv, TypeOK, LocalsOK
<1>2. /\ UNCHANGED <<head, sub, plans, csvs, csvCache, subCache, stale>>
      /\ sub' \in SubStatus /\ stale' \subseteq Workers /\ faults' \in 0 .. MaxFaults
    BY SyncFacts, ZenonT(30) DEF LockInstallPlan
<1>3. ASSUME NEW pc \in {"final", "create"}
      PROVE  r(pc) \in Syncs /\ r(pc).pc = pc /\ r(pc).op = sync[w].op
    BY SyncFacts, ZenonT(30) DEF Syncs
<1>4. CASE SetSync(w, r("final")) /\ UNCHANGED muInstallPlan
  <2>1. r("final") \in Syncs /\ r("final").pc = "final"
      BY <1>3, ZenonT(30)
  <2> HIDE DEF r
  <2> QED
      BY <1>1, <1>2, <1>4, <2>1, MoveType, ZenonT(30)
<1>5. CASE SetSync(w, r("create")) /\ muInstallPlan' = w
  <2>1. r("create") \in Syncs /\ r("create").pc = "create" /\ r("create").op = sync[w].op
      BY <1>3, ZenonT(30)
  <2> HIDE DEF r
  <2>2. /\ sync' \in [Workers -> Syncs]
        /\ sync'[w] = r("create")
        /\ \A v \in Workers : v # w => sync'[v] = sync[v]
      BY <1>1, <1>5, <2>1, SyncType, ZenonT(30)
  <2>3. TypeOK'
      BY <1>1, <1>2, <1>5, <2>1, <2>2, ZenonT(30) DEF TypeInv, TypeOK
  <2>4. LocalsOK'
      BY <1>1, <1>2, <2>1, <2>2, ZenonT(30) DEF TypeInv, LocalsOK, Versions
  <2> QED
      BY <2>3, <2>4, ZenonT(30) DEF TypeInv
<1> QED
    BY <1>4, <1>5, ZenonT(30) DEF LockInstallPlan

(* Releasing the lock, with plans that only grew. *)
LEMMA UnlockType ==
    ASSUME TypeInv, NEW w \in Workers, NEW r \in Syncs, SetSync(w, r),
           sync[w].pc \in {"create", "status"}, r.pc \in {"cond", "final"},
           muInstallPlan' = None, UNCHANGED <<head, sub, csvs, csvCache, subCache, stale>>,
           plans' \in Seq(Plans), Len(plans') <= MaxPlans, DOMAIN plans' = DOMAIN plans,
           faults' \in 0 .. MaxFaults
    PROVE  TypeInv'
<1>1. /\ sync \in [Workers -> Syncs] /\ None \notin Workers
      /\ \A v \in Workers \ {w} : sync[v].pc \notin {"create", "status"}
    BY NamespaceResolutionAssumption, ZenonT(30) DEF TypeInv, TypeOK
<1>2. /\ sync' \in [Workers -> Syncs]
      /\ sync'[w] = r
      /\ \A v \in Workers : v # w => sync'[v] = sync[v]
    BY <1>1, SyncType, ZenonT(30)
<1>3. TypeOK'
    BY <1>1, <1>2, ZenonT(30) DEF TypeInv, TypeOK
<1>4. LocalsOK'
    BY <1>2, ZenonT(30) DEF TypeInv, LocalsOK, Versions
<1> QED
    BY <1>3, <1>4, ZenonT(30) DEF TypeInv

LEMMA CreateInstallPlanType ==
    ASSUME TypeInv, NEW w \in Workers, CreateInstallPlan(w)
    PROVE  TypeInv'
<1> DEFINE p == [gen |-> sync[w].gen, csv |-> sync[w].op, alive |-> TRUE,
                 approved |-> sync[w].approval = "Automatic", phase |-> ""]
           r == [sync[w] EXCEPT !.pc = "status", !.ref = Len(plans) + 1]
           c == [sync[w] EXCEPT !.pc = "cond", !.cond = "BundleUnpackFailed"]
<1>1. /\ sync[w].pc = "create" /\ sync[w].op \in Versions /\ muInstallPlan = w
      /\ sync \in [Workers -> Syncs] /\ plans \in Seq(Plans)
      /\ Len(plans) \in Nat /\ Len(plans) <= MaxPlans /\ DOMAIN plans = 1 .. Len(plans)
  <2>1. sync[w].pc = "create"
      BY ZenonT(30) DEF CreateInstallPlan
  <2> QED
      BY <2>1, PlansFacts, ZenonT(30) DEF TypeInv, TypeOK, LocalsOK
<1>2. UNCHANGED <<head, sub, csvs, csvCache, subCache, stale>>
    BY ZenonT(30) DEF CreateInstallPlan
<1>3. CASE /\ Len(plans) < MaxPlans /\ plans' = Append(plans, p) /\ SetSync(w, r)
           /\ UNCHANGED <<muInstallPlan, faults>>
  <2>1. p \in Plans
      BY <1>1, SyncFacts, ZenonT(30) DEF Plans
  <2>2. r \in Syncs /\ r.pc = "status" /\ r.ref = Len(plans) + 1 /\ r.op = sync[w].op
    <3>1. Len(plans) + 1 \in 0 .. MaxPlans
      <4>1. Len(plans) \in Nat /\ MaxPlans \in Nat /\ Len(plans) < MaxPlans
          BY <1>1, <1>3, NamespaceResolutionAssumption, ZenonT(30)
      <4> QED
          BY <4>1
    <3> QED
        BY <3>1, SyncFacts, ZenonT(30) DEF Syncs
  <2> HIDE DEF p, r
  <2>3. plans' \in Seq(Plans) /\ Len(plans') = Len(plans) + 1 /\ DOMAIN plans' = 1 .. Len(plans) + 1
      BY <1>1, <1>3, <2>1, AppendProperties, LenProperties
  <2>4. /\ sync' \in [Workers -> Syncs]
        /\ sync'[w] = r
        /\ \A v \in Workers : v # w => sync'[v] = sync[v]
      BY <1>1, <1>3, <2>2, SyncType, ZenonT(30)
  <2>5. Len(plans') <= MaxPlans
      BY <1>1, <1>3, <2>3, NamespaceResolutionAssumption
  <2>6. TypeOK'
      BY <1>1, <1>2, <1>3, <2>2, <2>3, <2>4, <2>5, ZenonT(30) DEF TypeInv, TypeOK
  <2>7. LocalsOK'
      BY <1>1, <2>2, <2>3, <2>4 DEF TypeInv, LocalsOK, Versions
  <2> QED
      BY <2>6, <2>7, ZenonT(30) DEF TypeInv
<1>4. CASE Fault("create") /\ SetSync(w, c) /\ muInstallPlan' = None /\ UNCHANGED plans
  <2>1. c \in Syncs /\ c.pc = "cond"
      BY SyncFacts, ZenonT(30) DEF Syncs, CondTypes
  <2>2. faults' \in 0 .. MaxFaults
      BY <1>4, SyncFacts, FaultType, ZenonT(30)
  <2> HIDE DEF c
  <2> QED
      BY <1>1, <1>2, <1>4, <2>1, <2>2, UnlockType, ZenonT(30)
<1> QED
    BY <1>3, <1>4, ZenonT(30) DEF CreateInstallPlan, SetCond

(* Changing a field of one plan keeps the plans well typed. *)
LEMMA PlansType ==
    ASSUME plans \in Seq(Plans), NEW p \in DOMAIN plans, NEW r \in Plans,
           plans' = [plans EXCEPT ![p] = r]
    PROVE  /\ plans' \in Seq(Plans) /\ Len(plans') = Len(plans)
           /\ DOMAIN plans' = DOMAIN plans
<1>1. p \in 1 .. Len(plans)
    BY LenProperties, ZenonT(30)
<1> QED
    BY <1>1, ExceptSeq, ZenonT(30)

LEMMA PhaseType ==
    ASSUME plans \in Seq(Plans), NEW p \in DOMAIN plans,
           NEW phase \in {"RequiresApproval", "Installing", "Complete", "Failed"},
           plans' = [plans EXCEPT ![p].phase = phase]
    PROVE  /\ plans' \in Seq(Plans) /\ Len(plans') = Len(plans)
           /\ DOMAIN plans' = DOMAIN plans
<1>1. plans[p] \in Plans
    BY LenProperties, ZenonT(30)
<1>2. [plans[p] EXCEPT !.phase = phase] \in Plans
    BY <1>1, ZenonT(30) DEF Plans
<1>3. plans' = [plans EXCEPT ![p] = [plans[p] EXCEPT !.phase = phase]]
    BY ZenonT(30)
<1> QED
    BY <1>2, <1>3, PlansType, ZenonT(30)

LEMMA UpdateInstallPlanStatusType ==
    ASSUME TypeInv, NEW w \in Workers, UpdateInstallPlanStatus(w)
    PROVE  TypeInv'
<1> DEFINE r == [sync[w] EXCEPT !.pc = "final"]
           c == [sync[w] EXCEPT !.pc = "cond", !.cond = "BundleUnpackFailed"]
<1>1. /\ sync[w].pc = "status" /\ sync[w].ref \in DOMAIN plans
      /\ plans \in Seq(Plans) /\ Len(plans) <= MaxPlans
      /\ UNCHANGED <<head, sub, csvs, csvCache, subCache, stale>> /\ muInstallPlan' = None
    BY ZenonT(30) DEF UpdateInstallPlanStatus, TypeInv, TypeOK, LocalsOK
<1>2. /\ r \in Syncs /\ r.pc = "final"
      /\ c \in Syncs /\ c.pc = "cond"
    BY SyncFacts, ZenonT(30) DEF Syncs, CondTypes
<1>3. faults' \in 0 .. MaxFaults
    BY SyncFacts, FaultType, ZenonT(30) DEF UpdateInstallPlanStatus
<1>4. \/ /\ \E phase \in {"RequiresApproval", "Installing"} :
              plans' = [plans EXCEPT ![sync[w].ref].phase = phase]
         /\ SetSync(w, r)
      \/ SetSync(w, c) /\ UNCHANGED plans
    BY ZenonT(30) DEF UpdateInstallPlanStatus, SetCond
<1>5. plans' \in Seq(Plans) /\ Len(plans') <= MaxPlans /\ DOMAIN plans' = DOMAIN plans
    BY <1>1, <1>4, PhaseType, ZenonT(30)
<1> HIDE DEF r, c
<1> QED
    BY <1>1, <1>2, <1>3, <1>4, <1>5, UnlockType, ZenonT(30)

(* The steps of the other actors leave the syncs and the lock alone. *)
LEMMA OtherType ==
    ASSUME TypeInv, UNCHANGED <<sync, stale, muInstallPlan, sub>>,
           plans' \in Seq(Plans), Len(plans') = Len(plans), DOMAIN plans' = DOMAIN plans,
           head' \in Versions, csvs' \subseteq Versions, csvCache' \subseteq Versions,
           subCache' \in 0 .. MaxVersion,
           faults' \in 0 .. MaxFaults
    PROVE  TypeInv'
<1>1. TypeOK'
    BY ZenonT(30) DEF TypeInv, TypeOK
<1>2. LocalsOK'
    BY ZenonT(30) DEF TypeInv, LocalsOK, Versions
<1> QED
    BY <1>1, <1>2, ZenonT(30) DEF TypeInv

LEMMA syncInstallPlansType ==
    ASSUME TypeInv, NEW p \in 1 .. MaxPlans, syncInstallPlans(p)
    PROVE  TypeInv'
<1>1. p \in DOMAIN plans /\ UNCHANGED <<head, sub, csvCache, subCache, sync, stale, muInstallPlan>>
    BY ZenonT(30) DEF syncInstallPlans, Alive
<1>2. /\ head \in Versions /\ csvs \subseteq Versions /\ csvCache \subseteq Versions
      /\ subCache \in 0 .. MaxVersion
      /\ faults \in 0 .. MaxFaults /\ plans \in Seq(Plans) /\ plans[p].csv \in Versions
    BY <1>1, PlansFacts, ZenonT(30) DEF TypeInv, TypeOK, Plans
<1>3. /\ \/ UNCHANGED plans
         \/ \E phase \in {"Installing", "Complete", "Failed"} :
              plans' = [plans EXCEPT ![p].phase = phase]
      /\ csvs' = csvs \/ csvs' = csvs \cup {plans[p].csv}
    BY ZenonT(30) DEF syncInstallPlans
<1>4. faults' \in 0 .. MaxFaults
    BY <1>2, FaultType, ZenonT(30) DEF syncInstallPlans
<1>5. plans' \in Seq(Plans) /\ Len(plans') = Len(plans) /\ DOMAIN plans' = DOMAIN plans
    BY <1>1, <1>2, <1>3, PhaseType, ZenonT(30)
<1> QED
    BY <1>1, <1>2, <1>3, <1>4, <1>5, OtherType, ZenonT(30)

LEMMA EnvironmentType ==
    ASSUME TypeInv,
           \/ \E p \in 1 .. MaxPlans : Approve(p)
           \/ \E v \in Versions : Replaced(v)
           \/ CatalogUpdate \/ CacheCSVs \/ CacheSub
    PROVE  TypeInv'
<1>1. /\ head \in Versions /\ csvs \subseteq Versions /\ csvCache \subseteq Versions
      /\ subCache \in 0 .. MaxVersion
      /\ faults \in 0 .. MaxFaults /\ plans \in Seq(Plans)
    BY ZenonT(30) DEF TypeInv, TypeOK
<1>2. ASSUME NEW p \in 1 .. MaxPlans, Approve(p) PROVE TypeInv'
  <2>1. p \in DOMAIN plans /\ plans[p] \in Plans
      BY <1>2, PlansFacts, ZenonT(30) DEF Approve, Alive
  <2>2. [plans[p] EXCEPT !.approved = TRUE] \in Plans
      BY <2>1, ZenonT(30) DEF Plans
  <2>3. plans' = [plans EXCEPT ![p] = [plans[p] EXCEPT !.approved = TRUE]]
      BY <1>2, ZenonT(30) DEF Approve
  <2>4. plans' \in Seq(Plans) /\ Len(plans') = Len(plans) /\ DOMAIN plans' = DOMAIN plans
      BY <1>1, <2>1, <2>2, <2>3, PlansType, ZenonT(30)
  <2> QED
      BY <1>1, <1>2, <2>4, OtherType, ZenonT(30) DEF Approve
<1>3. ASSUME NEW v \in Versions, Replaced(v) PROVE TypeInv'
    BY <1>1, <1>3, OtherType, ZenonT(30) DEF Replaced
<1>4. CASE CatalogUpdate
  <2>1. head + 1 \in Versions
      BY <1>1, <1>4, NamespaceResolutionAssumption DEF CatalogUpdate, Versions
  <2> QED
      BY <1>1, <1>4, <2>1, OtherType, ZenonT(30) DEF CatalogUpdate
<1>5. CASE CacheCSVs
    BY <1>1, <1>5, OtherType, ZenonT(30) DEF CacheCSVs
<1>6. CASE CacheSub
  <2>1. sub.installed \in 0 .. MaxVersion
      BY ZenonT(30) DEF TypeInv, TypeOK, SubStatus
  <2> QED
      BY <1>1, <1>6, <2>1, OtherType, ZenonT(30) DEF CacheSub
<1> QED
    BY <1>2, <1>3, <1>4, <1>5, <1>6, ZenonT(30)

LEMMA RestartType ==
    ASSUME TypeInv, Restart
    PROVE  TypeInv'
<1>1. /\ sync' = [w \in Workers |-> IdleSync] /\ stale' = {} /\ muInstallPlan' = None
      /\ csvCache' = csvs /\ subCache' = sub.installed /\ UNCHANGED <<head, sub, plans, csvs>>
    BY ZenonT(30) DEF Restart
<1>2. faults' \in 0 .. MaxFaults
    BY FaultType, ZenonT(30) DEF Restart, TypeInv, TypeOK
<1>3. IdleSync \in Syncs /\ IdleSync.pc = "idle" /\ None \notin Workers
    BY IdleType, NamespaceResolutionAssumption, ZenonT(30) DEF IdleSync
<1>4. sub.installed \in 0 .. MaxVersion
    BY ZenonT(30) DEF TypeInv, TypeOK, SubStatus
<1>5. TypeOK'
    BY <1>1, <1>2, <1>3, <1>4, ZenonT(30) DEF TypeInv, TypeOK
<1>6. LocalsOK'
    BY <1>1, <1>3, ZenonT(30) DEF LocalsOK
<1> QED
    BY <1>5, <1>6, ZenonT(30) DEF TypeInv

(* A step of a sync keeps the types: one case per action. *)
LEMMA SyncStepType ==
    ASSUME TypeInv, NEW w \in Workers, Sync(w)
    PROVE  TypeInv'
    BY StartSyncType, ensureSubscriptionCSVStateType, UpdateSubscriptionType,
       ResolveStepsType, unpackBundlesType, UpdateSubscriptionCondType,
       ListInstallPlansType, ensureInstallPlanType, LockInstallPlanType,
       CreateInstallPlanType, UpdateInstallPlanStatusType, UpdateSubscriptionStatusesType, ZenonT(30)
    DEF Sync

LEMMA TypeInit == Init => TypeInv
<1> SUFFICES ASSUME Init PROVE TypeInv
    BY ZenonT(30)
<1>1. IdleSync \in Syncs /\ NewSub \in SubStatus /\ IdleSync.pc = "idle"
    BY IdleType, ZenonT(30) DEF IdleSync
<1>2. plans \in Seq(Plans) /\ Len(plans) = 0
    BY DEF Init
<1>3. TypeOK
    BY <1>1, <1>2, NamespaceResolutionAssumption DEF Init, TypeOK, Versions
<1>4. LocalsOK
    BY <1>1, ZenonT(30) DEF Init, LocalsOK
<1> QED
    BY <1>3, <1>4, ZenonT(30) DEF TypeInv

LEMMA TypeStep == TypeInv /\ [Next]_vars => TypeInv'
<1> SUFFICES ASSUME TypeInv, [Next]_vars PROVE TypeInv'
    BY ZenonT(30)
<1>1. CASE UNCHANGED vars
    BY <1>1, ZenonT(30) DEF vars, TypeInv, TypeOK, LocalsOK, Versions
<1>2. CASE Next
    BY <1>2, SyncStepType, syncInstallPlansType, EnvironmentType, RestartType, ZenonT(30) DEF Next
<1> QED
    BY <1>1, <1>2, ZenonT(30)

(* The state keeps its types and muInstallPlan is held exactly by the worker *)
(* that is creating a plan, for any number of workers, versions and plans    *)
(* and whichever requests fail.                                              *)
THEOREM TypeCorrect == Spec => []TypeOK
<1>1. TypeInv => TypeOK
    BY ZenonT(30) DEF TypeInv
<1> QED
    BY <1>1, TypeInit, TypeStep, PTL DEF Spec
-----------------------------------------------------------------------------
(* From here on one worker: no other sync creates a plan meanwhile. *)
OneWorker == \A v, w \in Workers : v = w

LEMMA IdleOK == RefOK(NewSub) /\ CarriesOK(IdleSync)
    BY ZenonT(30) DEF RefOK, CarriesOK, NewSub, IdleSync

(* A step of the worker that leaves the plans alone. *)
LEMMA MoveOK ==
    ASSUME OneWorker, IInv, TypeInv', NEW w \in Workers, NEW r \in Syncs, SetSync(w, r),
           UNCHANGED plans, RefOK(sub'), CarriesOK(r)
    PROVE  IInv'
<1>1. \A v \in Workers : v = w
    BY ZenonT(30) DEF OneWorker
<1>2. sync' \in [Workers -> Syncs] /\ sync'[w] = r
    BY SyncType, ZenonT(30) DEF IInv, TypeInv, TypeOK
<1>3. RefOK(sub)'
    BY ZenonT(30) DEF RefOK
<1>4. Increasing'
    BY ZenonT(30) DEF IInv, Increasing
<1>5. CarriesOK(r)'
    BY ZenonT(30) DEF CarriesOK, RefOK
<1>6. ASSUME NEW v \in Workers PROVE CarriesOK(sync[v])'
  <2>1. sync'[v] = r
      BY <1>1, <1>2, ZenonT(30)
  <2> QED
      BY <1>5, <2>1, ZenonT(30) DEF CarriesOK, RefOK
<1> QED
    BY <1>3, <1>4, <1>6, ZenonT(30) DEF IInv

LEMMA SetCondOK ==
    ASSUME OneWorker, IInv, TypeInv', NEW w \in Workers, NEW c \in CondTypes, SetCond(w, c),
           UNCHANGED <<plans, sub>>
    PROVE  IInv'
<1> DEFINE r == [sync[w] EXCEPT !.pc = "cond", !.cond = c]
<1>1. sync[w] \in Syncs /\ CarriesOK(sync[w]) /\ RefOK(sub)
    BY SyncFacts, ZenonT(30) DEF IInv
<1>2. r \in Syncs /\ r.pc = "cond" /\ r.sub = sync[w].sub /\ r.updated = sync[w].updated
    BY <1>1, ZenonT(30) DEF Syncs
<1>3. SetSync(w, r)
    BY ZenonT(30) DEF SetCond
<1> HIDE DEF r
<1>4. CarriesOK(r)
    BY <1>1, <1>2, ZenonT(30) DEF CarriesOK
<1>5. RefOK(sub')
    BY <1>1, ZenonT(30)
<1> QED
    BY <1>2, <1>3, <1>4, <1>5, MoveOK, ZenonT(30)

(* The end of a sync. *)
LEMMA FinishOK ==
    ASSUME OneWorker, IInv, TypeInv', NEW w \in Workers, Finish(w), UNCHANGED plans, RefOK(sub')
    PROVE  IInv'
    BY MoveOK, IdleOK, IdleType, ZenonT(30) DEF Finish

LEMMA ensureSubscriptionCSVStateOK ==
    ASSUME OneWorker, IInv, TypeInv', NEW w \in Workers, ensureSubscriptionCSVState(w)
    PROVE  IInv'
<1> DEFINE s == sync[w].sub
           Out(found, failed) == IF s.current = 0 THEN s ELSE CSVState(s, found, failed)
           r(found, failed) == [sync[w] EXCEPT !.pc = "update", !.sub = Out(found, failed)]
           t == [sync[w] EXCEPT !.pc = "resolve"]
<1>1. PICK found, failed \in BOOLEAN :
         SetSync(w, r(found, failed)) \/ Finish(w) \/ SetSync(w, t)
    BY ZenonT(30) DEF ensureSubscriptionCSVState
<1>2. /\ sync[w] \in Syncs /\ s \in SubStatus /\ CarriesOK(sync[w])
      /\ RefOK(sub) /\ sync[w].pc = "ensure" /\ UNCHANGED <<plans, sub>>
    BY SyncFacts, ZenonT(30) DEF IInv, ensureSubscriptionCSVState
<1>3. Out(found, failed) \in SubStatus /\ Out(found, failed).ref = s.ref /\ Out(found, failed).current = s.current
    BY <1>2, CSVStateType, ZenonT(30) DEF CSVState, SubStatus
<1>4. CASE SetSync(w, r(found, failed))
  <2> HIDE DEF Out
  <2>1. /\ r(found, failed) \in Syncs /\ r(found, failed).pc = "update" /\ r(found, failed).sub = Out(found, failed)
        /\ r(found, failed).updated = sync[w].updated /\ r(found, failed).op = sync[w].op
      BY <1>2, <1>3, ZenonT(30) DEF Syncs
  <2> HIDE DEF r
  <2>2. CarriesOK(r(found, failed))
      BY <1>2, <1>3, <2>1, ZenonT(30) DEF CarriesOK, RefOK
  <2> QED
      BY <1>2, <1>4, <2>1, <2>2, MoveOK, ZenonT(30)
<1>5. CASE SetSync(w, t)
  <2>1. /\ t \in Syncs /\ t.pc = "resolve" /\ t.sub = s
        /\ t.updated = sync[w].updated /\ t.op = sync[w].op
      BY <1>2, ZenonT(30) DEF Syncs
  <2> HIDE DEF t
  <2>2. CarriesOK(t)
      BY <1>2, <2>1, ZenonT(30) DEF CarriesOK
  <2> QED
      BY <1>2, <1>5, <2>1, <2>2, MoveOK, ZenonT(30)
<1>6. CASE Finish(w)
    BY <1>2, <1>6, FinishOK, ZenonT(30)
<1> QED
    BY <1>1, <1>4, <1>5, <1>6, ZenonT(30)

LEMMA UpdateSubscriptionOK ==
    ASSUME OneWorker, IInv, TypeInv', NEW w \in Workers, UpdateSubscription(w)
    PROVE  IInv'
<1>1. RefOK(sub')
    BY ZenonT(30) DEF UpdateSubscription, WriteSub, IInv, CarriesOK
<1> QED
    BY <1>1, FinishOK, ZenonT(30) DEF UpdateSubscription

LEMMA ResolveStepsOK ==
    ASSUME OneWorker, IInv, TypeInv', NEW w \in Workers, ResolveSteps(w)
    PROVE  IInv'
<1> DEFINE r == [sync[w] EXCEPT !.pc = "final", !.updated = sub]
           t(op) == [sync[w] EXCEPT !.pc = "unpack", !.updated = sub, !.op = op]
<1>1. /\ sync[w].pc = "resolve" /\ UNCHANGED <<sub, plans>>
      /\ \/ SetCond(w, "ResolutionFailed")
         \/ SetSync(w, r)
         \/ \E op \in 0 .. MaxVersion : SetSync(w, t(op))
    BY ZenonT(30) DEF ResolveSteps
<1>2. sync[w] \in Syncs /\ sub \in SubStatus /\ CarriesOK(sync[w]) /\ RefOK(sub)
    BY SyncFacts, ZenonT(30) DEF IInv
<1>3. CASE SetSync(w, r)
  <2>1. /\ r \in Syncs /\ r.pc = "final" /\ r.sub = sync[w].sub
        /\ r.updated = sub /\ r.op = sync[w].op
      BY <1>2, ZenonT(30) DEF Syncs
  <2> HIDE DEF r
  <2>2. CarriesOK(r)
      BY <1>1, <1>2, <2>1, ZenonT(30) DEF CarriesOK
  <2> QED
      BY <1>1, <1>2, <1>3, <2>1, <2>2, MoveOK, ZenonT(30)
<1>4. ASSUME NEW op \in 0 .. MaxVersion, SetSync(w, t(op)) PROVE IInv'
  <2>1. t(op) \in Syncs /\ t(op).pc = "unpack" /\ t(op).sub = sync[w].sub /\ t(op).updated = sub
      BY <1>2, ZenonT(30) DEF Syncs
  <2> HIDE DEF t
  <2>2. CarriesOK(t(op))
      BY <1>2, <2>1, ZenonT(30) DEF CarriesOK
  <2> QED
      BY <1>1, <1>2, <1>4, <2>1, <2>2, MoveOK, ZenonT(30)
<1> QED
    BY <1>1, <1>3, <1>4, SetCondOK, ZenonT(30) DEF CondTypes

LEMMA unpackBundlesOK ==
    ASSUME OneWorker, IInv, TypeInv', NEW w \in Workers, unpackBundles(w)
    PROVE  IInv'
<1> DEFINE pc == IF Updates(w) THEN "list" ELSE "final"
           r == [sync[w] EXCEPT !.pc = pc]
<1>1. /\ UNCHANGED <<sub, plans>>
      /\ \/ SetSync(w, r) \/ Finish(w)
         \/ SetCond(w, "BundleUnpacking") \/ SetCond(w, "BundleUnpackFailed")
    BY ZenonT(30) DEF unpackBundles
<1>2. sync[w] \in Syncs /\ CarriesOK(sync[w]) /\ RefOK(sub)
    BY SyncFacts, ZenonT(30) DEF IInv
<1>3. CASE SetSync(w, r)
  <2>1. /\ r \in Syncs /\ r.pc = pc /\ r.sub = sync[w].sub
        /\ r.updated = sync[w].updated /\ r.op = sync[w].op
      BY <1>2, ZenonT(30) DEF Syncs
  <2> HIDE DEF r
  <2>2. CarriesOK(r)
      BY <1>2, <2>1, ZenonT(30) DEF CarriesOK, Updates
  <2> QED
      BY <1>1, <1>2, <1>3, <2>1, <2>2, MoveOK, ZenonT(30)
<1>4. CASE Finish(w)
    BY <1>1, <1>2, <1>4, FinishOK, ZenonT(30)
<1> QED
    BY <1>1, <1>3, <1>4, SetCondOK, ZenonT(30) DEF CondTypes

LEMMA UpdateSubscriptionCondOK ==
    ASSUME OneWorker, IInv, TypeInv', NEW w \in Workers, UpdateSubscriptionCond(w)
    PROVE  IInv'
<1> DEFINE s == [sync[w].sub EXCEPT !.conds = @ \cup {sync[w].cond}]
<1>1. /\ Finish(w) /\ UNCHANGED plans /\ (sub' = s \/ sub' = sub)
      /\ RefOK(sync[w].sub) /\ RefOK(sub) /\ sync[w].sub \in SubStatus
    BY SyncFacts, ZenonT(30) DEF UpdateSubscriptionCond, WriteSub, IInv, CarriesOK
<1>2. s.ref = sync[w].sub.ref /\ s.current = sync[w].sub.current
    BY <1>1, ZenonT(30) DEF SubStatus
<1> HIDE DEF s
<1>3. RefOK(sub')
    BY <1>1, <1>2, ZenonT(30) DEF RefOK
<1> QED
    BY <1>1, <1>3, FinishOK, ZenonT(30)

LEMMA UpdateSubscriptionStatusesOK ==
    ASSUME OneWorker, IInv, TypeInv', NEW w \in Workers, UpdateSubscriptionStatuses(w)
    PROVE  IInv'
<1> DEFINE u == sync[w].updated
           s == [u EXCEPT !.current = sync[w].op, !.ref = sync[w].ref, !.gen = sync[w].gen,
                          !.state = "UpgradePending", !.conds = @ \ {"ResolutionFailed"}]
           t == [sync[w].sub EXCEPT !.conds = {}]
<1>1. /\ Finish(w) /\ UNCHANGED plans /\ sync[w].pc = "final"
      /\ sub' = sub \/ sub' = IF Updates(w) THEN s ELSE t
    BY ZenonT(30) DEF UpdateSubscriptionStatuses, WriteSub, FinalStatus
<1>2. CarriesOK(sync[w]) /\ RefOK(sub) /\ sync[w].sub \in SubStatus /\ u \in SubStatus
    BY SyncFacts, ZenonT(30) DEF IInv
<1>3. /\ s.ref = sync[w].ref /\ s.current = sync[w].op
      /\ t.ref = sync[w].sub.ref /\ t.current = sync[w].sub.current
    BY <1>2, ZenonT(30) DEF SubStatus
<1> HIDE DEF s, t
<1>4. RefOK(sub')
    BY <1>1, <1>2, <1>3, ZenonT(30) DEF RefOK, CarriesOK, Updates
<1> QED
    BY <1>1, <1>4, FinishOK, ZenonT(30)

(* The newest plan is alive, so the maximum over the plans that are is above *)
(* the generation of every plan.                                             *)
LEMMA ListInstallPlansOK ==
    ASSUME OneWorker, IInv, TypeInv', NEW w \in Workers, ListInstallPlans(w)
    PROVE  IInv'
<1> DEFINE r(g, a) == [sync[w] EXCEPT !.pc = "ensureip", !.gen = g + 1, !.approval = a]
<1>1. CASE Finish(w)
    BY <1>1, FinishOK, ZenonT(30) DEF ListInstallPlans, IInv
<1> SUFFICES ASSUME NEW g \in Generations(w), NEW a \in Approvals,
                    \A h \in Generations(w) : h <= g, SetSync(w, r(g, a))
             PROVE  IInv'
    BY <1>1, ZenonT(30) DEF ListInstallPlans
<1>2. /\ sync[w] \in Syncs /\ CarriesOK(sync[w]) /\ RefOK(sub) /\ sync[w].pc = "list"
      /\ UNCHANGED <<sub, plans>> /\ TypeInv /\ sync[w].sub.gen \in Nat
    BY SyncFacts, ZenonT(30) DEF IInv, ListInstallPlans, SubStatus
<1>3. g \in Nat
    BY <1>2, PlansFacts, ZenonT(30) DEF Generations, Alive
<1>4. \A p \in DOMAIN plans : plans[p].gen < g + 1
  <2> SUFFICES ASSUME NEW p \in DOMAIN plans PROVE plans[p].gen < g + 1
      BY ZenonT(30)
  <2> DEFINE n == Len(plans)
  <2>1. n \in Nat /\ DOMAIN plans = 1 .. n /\ p \in 1 .. n /\ n \in DOMAIN plans
      BY <1>2, PlansFacts
  <2>2. n \in Alive
      BY <2>1 DEF IInv, Increasing, Alive
  <2>3. plans[n].gen <= g
      BY <2>2, ZenonT(30) DEF Generations
  <2>4. p = n \/ p < n
      BY <2>1
  <2>5. plans[p].gen \in Nat /\ plans[n].gen \in Nat /\ plans[p].gen <= plans[n].gen
      BY <1>2, <2>1, <2>4, PlansFacts DEF IInv, Increasing
  <2> QED
      BY <1>3, <2>3, <2>5
<1>5. r(g, a) \in Syncs
  <2>1. g + 1 \in Nat /\ a \in {"Automatic", "Manual"}
      BY <1>3, NamespaceResolutionAssumption
  <2> QED
      BY <1>2, <2>1, ZenonT(30) DEF Syncs
<1>6. /\ r(g, a).pc = "ensureip" /\ r(g, a).gen = g + 1
      /\ r(g, a).sub = sync[w].sub /\ r(g, a).updated = sync[w].updated
    BY <1>2, ZenonT(30) DEF Syncs
<1> HIDE DEF r
<1>7. CarriesOK(r(g, a))
    BY <1>2, <1>4, <1>6, ZenonT(30) DEF CarriesOK
<1> QED
    BY <1>2, <1>5, <1>7, MoveOK, ZenonT(30)

LEMMA ensureInstallPlanOK ==
    ASSUME OneWorker, IInv, TypeInv', NEW w \in Workers, ensureInstallPlan(w)
    PROVE  IInv'
<1> DEFINE r == [sync[w] EXCEPT !.pc = "lock", !.ref = 0]
<1>1. /\ sync[w] \in Syncs /\ CarriesOK(sync[w]) /\ RefOK(sub) /\ sync[w].pc = "ensureip"
      /\ UNCHANGED <<sub, plans>> /\ TypeInv /\ sync[w].gen \in Nat
    BY SyncFacts, ZenonT(30) DEF IInv, ensureInstallPlan
<1>2. \A p \in DOMAIN plans : plans[p].gen # sync[w].gen
    BY <1>1, PlansFacts, SMTT(30) DEF CarriesOK
<1>3. {p \in Alive : plans[p].gen = sync[w].gen} = {}
    BY <1>2, ZenonT(30) DEF Alive
<1>4. SetSync(w, r) \/ SetCond(w, "BundleUnpackFailed")
    BY <1>3, ZenonT(30) DEF ensureInstallPlan
<1>5. /\ r \in Syncs /\ r.pc = "lock" /\ r.ref = 0 /\ r.gen = sync[w].gen
      /\ r.sub = sync[w].sub /\ r.updated = sync[w].updated
  <2>1. 0 \in 0 .. MaxPlans
      BY NamespaceResolutionAssumption
  <2> QED
      BY <1>1, <2>1, ZenonT(30) DEF Syncs
<1> HIDE DEF r
<1>6. CarriesOK(r)
    BY <1>1, <1>5, ZenonT(30) DEF CarriesOK
<1>7. CASE SetSync(w, r)
    BY <1>1, <1>5, <1>6, <1>7, MoveOK, ZenonT(30)
<1> QED
    BY <1>1, <1>4, <1>7, SetCondOK, ZenonT(30) DEF CondTypes

LEMMA LockInstallPlanOK ==
    ASSUME OneWorker, IInv, TypeInv', NEW w \in Workers, LockInstallPlan(w)
    PROVE  IInv'
<1> DEFINE r == [sync[w] EXCEPT !.pc = "create"]
<1>1. /\ sync[w] \in Syncs /\ CarriesOK(sync[w]) /\ RefOK(sub) /\ sync[w].pc = "lock"
      /\ UNCHANGED <<sub, plans>>
    BY SyncFacts, ZenonT(30) DEF IInv, LockInstallPlan
<1>2. SetSync(w, r)
    BY <1>1, ZenonT(30) DEF LockInstallPlan, CarriesOK
<1>3. /\ r \in Syncs /\ r.pc = "create" /\ r.gen = sync[w].gen
      /\ r.sub = sync[w].sub /\ r.updated = sync[w].updated
    BY <1>1, ZenonT(30) DEF Syncs
<1> HIDE DEF r
<1>4. CarriesOK(r)
    BY <1>1, <1>3, ZenonT(30) DEF CarriesOK
<1> QED
    BY <1>1, <1>2, <1>3, <1>4, MoveOK, ZenonT(30)

(* Plans whose fields but alive, approved and phase are the same, the newest *)
(* of which is still alive.                                                  *)
PlansKept ==
    /\ DOMAIN plans' = DOMAIN plans /\ Len(plans') = Len(plans)
    /\ \A p \in DOMAIN plans : plans'[p].csv = plans[p].csv /\ plans'[p].gen = plans[p].gen
    /\ Len(plans) # 0 => plans'[Len(plans)].alive

LEMMA KeptOK ==
    ASSUME IInv, TypeInv', PlansKept, UNCHANGED <<sub, sync>>
    PROVE  IInv'
<1>1. RefOK(sub)'
    BY ZenonT(30) DEF IInv, PlansKept, RefOK
<1>2. Increasing'
    BY ZenonT(30) DEF IInv, PlansKept, Increasing
<1>3. ASSUME NEW w \in Workers PROVE CarriesOK(sync[w])'
  <2>1. CarriesOK(sync[w])
      BY ZenonT(30) DEF IInv
  <2>2. sync[w].pc = "status" => sync[w].ref \in DOMAIN plans
      BY ZenonT(30) DEF IInv, TypeInv, LocalsOK
  <2> QED
      BY <2>1, <2>2, ZenonT(30) DEF PlansKept, CarriesOK, RefOK
<1> QED
    BY <1>1, <1>2, <1>3, ZenonT(30) DEF IInv

(* The garbage collection never takes the newest plan: no plan it considers  *)
(* has a higher generation.                                                  *)
LEMMA StartSyncOK ==
    ASSUME OneWorker, IInv, TypeInv', NEW w \in Workers, StartSync(w)
    PROVE  IInv'
<1> DEFINE r == [IdleSync EXCEPT !.pc = "ensure", !.sub = sub]
<1>0. PICK ips \in SUBSET Alive : \E gone \in SUBSET Expired(ips) :
         plans' = [p \in DOMAIN plans |->
                     [plans[p] EXCEPT !.alive = @ /\ p \notin gone]]
    BY ZenonT(30) DEF StartSync
<1>1. PICK gone \in SUBSET Expired(ips) :
         plans' = [p \in DOMAIN plans |->
                     [plans[p] EXCEPT !.alive = @ /\ p \notin gone]]
    BY <1>0, ZenonT(30)
<1>2. /\ SetSync(w, r) /\ UNCHANGED sub /\ TypeInv
      /\ \A v \in Workers : v = w
    BY ZenonT(30) DEF StartSync, IInv, OneWorker
<1>3. /\ plans \in Seq(Plans) /\ Len(plans) \in Nat /\ DOMAIN plans = 1 .. Len(plans)
      /\ \A p \in DOMAIN plans : plans[p] \in Plans /\ plans[p].gen \in Nat
    BY <1>2, PlansFacts, ZenonT(30)
<1>4. Len(plans) # 0 => Len(plans) \notin Expired(ips)
  <2> SUFFICES ASSUME Len(plans) # 0, Len(plans) \in ips PROVE Len(plans) \notin Expired(ips)
      BY ZenonT(30) DEF Expired
  <2> DEFINE n == Len(plans)
             Newer == {q \in ips : \/ plans[n].gen < plans[q].gen
                                   \/ plans[n].gen = plans[q].gen /\ n < q}
  <2>1. ips \subseteq 1 .. n /\ n \in 1 .. n
      BY <1>1, <1>3, ZenonT(30) DEF Alive
  <2>2. ASSUME NEW q \in ips PROVE q = n \/ plans[q].gen < plans[n].gen
    <3>1. q \in DOMAIN plans /\ n \in DOMAIN plans /\ (q = n \/ q < n)
      <4>1. q \in 1 .. n /\ n \in Nat
          BY <1>3, <2>1, ZenonT(30)
      <4>2. q = n \/ q < n
          BY <4>1
      <4> QED
          BY <1>3, <2>1, <4>1, <4>2, ZenonT(30)
    <3> QED
        BY <3>1, ZenonT(30) DEF IInv, Increasing
  <2>3. Newer = {}
    <3> SUFFICES ASSUME NEW q \in Newer PROVE FALSE
        BY ZenonT(30)
    <3>1. q \in 1 .. n /\ plans[q].gen \in Nat /\ plans[n].gen \in Nat
        BY <1>3, <2>1, ZenonT(30)
    <3> QED
        BY <2>2, <3>1
  <2>4. Cardinality(Newer) = 0
      BY <2>3, FS_EmptySet, ZenonT(30)
  <2>5. ~(Cardinality(Newer) >= MaxInstallPlanCount)
      BY <2>4, NamespaceResolutionAssumption
  <2> QED
      BY <2>5, ZenonT(30) DEF Expired
<1>5. PlansKept
  <2>1. DOMAIN plans' = DOMAIN plans /\ Len(plans') = Len(plans)
      BY <1>2, StartSyncPlans, ZenonT(30)
  <2>2. ASSUME NEW p \in DOMAIN plans
        PROVE  /\ plans'[p].csv = plans[p].csv /\ plans'[p].gen = plans[p].gen
               /\ plans'[p].alive = (plans[p].alive /\ p \notin gone)
    <3>1. plans'[p] = [plans[p] EXCEPT !.alive = @ /\ p \notin gone]
        BY <1>1, ZenonT(30)
    <3>2. plans[p] \in Plans
        BY <1>3, ZenonT(30)
    <3> QED
        BY <3>1, <3>2, ZenonT(30) DEF Plans
  <2>3. Len(plans) # 0 => Len(plans) \in DOMAIN plans /\ plans[Len(plans)].alive
      BY <1>3 DEF IInv, Increasing
  <2> QED
      BY <1>1, <1>4, <2>1, <2>2, <2>3, ZenonT(30) DEF PlansKept
<1>6. sync' \in [Workers -> Syncs] /\ sync'[w] = r /\ r.pc = "ensure" /\ r.op = 0
      /\ r.sub = sub /\ r.updated = NewSub
  <2>1. r \in Syncs /\ r.pc = "ensure" /\ r.op = 0 /\ r.sub = sub /\ r.updated = NewSub
      BY <1>2, IdleType, SyncFacts, ZenonT(30) DEF Syncs, IdleSync
  <2> HIDE DEF r
  <2> QED
      BY <1>2, <2>1, SyncType, ZenonT(30) DEF TypeInv, TypeOK
<1> HIDE DEF r
<1>7. RefOK(sub)'
    BY <1>2, <1>5, ZenonT(30) DEF IInv, PlansKept, RefOK
<1>8. Increasing'
    BY <1>5, ZenonT(30) DEF IInv, PlansKept, Increasing
<1>9. ASSUME NEW v \in Workers PROVE CarriesOK(sync[v])'
  <2>1. sync'[v] = r
      BY <1>2, <1>6, ZenonT(30)
  <2> QED
    <3>1. /\ sync'[v].sub = sub' /\ sync'[v].updated = NewSub /\ NewSub.ref = 0
          /\ sync'[v].pc = "ensure" /\ sync'[v].op = 0
        BY <1>2, <1>6, <2>1, ZenonT(30) DEF NewSub
    <3> QED
        BY <1>7, <3>1, ZenonT(30) DEF CarriesOK, RefOK
<1> QED
    BY <1>7, <1>8, <1>9, ZenonT(30) DEF IInv

LEMMA CreateInstallPlanOK ==
    ASSUME OneWorker, IInv, TypeInv', NEW w \in Workers, CreateInstallPlan(w)
    PROVE  IInv'
<1> DEFINE p == [gen |-> sync[w].gen, csv |-> sync[w].op, alive |-> TRUE,
                 approved |-> sync[w].approval = "Automatic", phase |-> ""]
           n == Len(plans) + 1
           r == [sync[w] EXCEPT !.pc = "status", !.ref = n]
<1>1. /\ sync[w] \in Syncs /\ CarriesOK(sync[w]) /\ RefOK(sub) /\ UNCHANGED sub
      /\ sync[w].pc = "create" /\ TypeInv /\ \A v \in Workers : v = w
    BY SyncFacts, ZenonT(30) DEF IInv, CreateInstallPlan, OneWorker
<1>2. CASE SetCond(w, "BundleUnpackFailed") /\ UNCHANGED plans
    BY <1>1, <1>2, SetCondOK, ZenonT(30) DEF CondTypes
<1>3. CASE Len(plans) < MaxPlans /\ plans' = Append(plans, p) /\ SetSync(w, r)
  <2>1. /\ plans \in Seq(Plans) /\ Len(plans) \in Nat /\ DOMAIN plans = 1 .. Len(plans)
        /\ MaxPlans \in Nat /\ sync[w].gen \in Nat
      BY <1>1, PlansFacts, SyncFacts, NamespaceResolutionAssumption, ZenonT(30)
  <2>2. p \in Plans /\ p.gen = sync[w].gen /\ p.csv = sync[w].op /\ p.alive
      BY <1>1, <2>1, ZenonT(30) DEF Plans, TypeInv, LocalsOK
  <2>3. r \in Syncs /\ r.pc = "status" /\ r.ref = n /\ r.op = sync[w].op
        /\ r.sub = sync[w].sub /\ r.updated = sync[w].updated
    <3>1. n \in 0 .. MaxPlans
      <4>1. Len(plans) \in Nat /\ MaxPlans \in Nat /\ Len(plans) < MaxPlans
          BY <1>3, <2>1, ZenonT(30)
      <4> QED
          BY <4>1
    <3> HIDE DEF n
    <3> QED
        BY <1>1, <3>1, ZenonT(30) DEF Syncs
  <2> HIDE DEF p, r
  <2>4. /\ DOMAIN plans' = 1 .. n /\ Len(plans') = n /\ plans'[n] = p
        /\ \A q \in DOMAIN plans : plans'[q] = plans[q]
      BY <1>3, <2>1, <2>2, AppendProperties, LenProperties
  <2>5. sync'[w] = r
      BY <1>1, <1>3, <2>3, SyncType, SMTT(30) DEF TypeInv, TypeOK
  <2>6. \A s : RefOK(s) => (s.ref # 0 => s.ref \in DOMAIN plans' /\ plans'[s.ref].csv = s.current)
      BY <2>1, <2>4, SMTT(30) DEF RefOK
  <2>7. RefOK(sub)'
      BY <1>1, <2>6, ZenonT(30) DEF RefOK
  <2>8. Increasing'
    <3>1. \A q \in DOMAIN plans : plans[q].gen < sync[w].gen
        BY <1>1, ZenonT(30) DEF CarriesOK
    <3>2. ASSUME NEW i \in DOMAIN plans', NEW j \in DOMAIN plans', i < j
          PROVE  plans'[i].gen < plans'[j].gen
      <4>1. i \in DOMAIN plans /\ (j = n \/ j \in DOMAIN plans)
          BY <2>1, <2>4, <3>2, SMTT(30)
      <4> QED
          BY <2>2, <2>4, <3>1, <3>2, <4>1, ZenonT(30) DEF IInv, Increasing
    <3> QED
        BY <2>2, <2>4, <3>2, ZenonT(30) DEF Increasing
  <2>9. ASSUME NEW v \in Workers PROVE CarriesOK(sync[v])'
    <3>1. /\ sync'[v] = r /\ plans'[r.ref].csv = r.op
          /\ RefOK(sync[w].sub) /\ RefOK(sync[w].updated)
        BY <1>1, <2>2, <2>3, <2>4, <2>5, ZenonT(30) DEF CarriesOK
    <3>2. /\ r.sub.ref # 0 => r.sub.ref \in DOMAIN plans' /\ plans'[r.sub.ref].csv = r.sub.current
          /\ r.updated.ref # 0 => /\ r.updated.ref \in DOMAIN plans'
                                  /\ plans'[r.updated.ref].csv = r.updated.current
        BY <2>3, <2>6, <3>1, ZenonT(30)
    <3> QED
        BY <2>3, <3>1, <3>2, ZenonT(30) DEF CarriesOK, RefOK
  <2> QED
      BY <2>7, <2>8, <2>9, ZenonT(30) DEF IInv
<1> QED
    BY <1>2, <1>3, ZenonT(30) DEF CreateInstallPlan

(* Setting the phase or the approval of a plan keeps the rest of it. *)
LEMMA PlanFieldKept ==
    ASSUME IInv, NEW p \in DOMAIN plans,
           \/ UNCHANGED plans
           \/ \E phase : plans' = [plans EXCEPT ![p].phase = phase]
           \/ plans' = [plans EXCEPT ![p].approved = TRUE]
    PROVE  PlansKept
<1>1. /\ plans \in Seq(Plans) /\ Len(plans) \in Nat /\ DOMAIN plans = 1 .. Len(plans)
      /\ \A q \in DOMAIN plans : plans[q] \in Plans
    BY PlansFacts, ZenonT(30) DEF IInv
<1>2. DOMAIN plans' = DOMAIN plans /\ Len(plans') = Len(plans)
    BY <1>1
<1>3. ASSUME NEW q \in DOMAIN plans
      PROVE  /\ plans'[q].csv = plans[q].csv /\ plans'[q].gen = plans[q].gen
             /\ plans'[q].alive = plans[q].alive
  <2>1. plans[q] \in Plans
      BY <1>1, ZenonT(30)
  <2>2. \/ plans'[q] = plans[q]
        \/ \E phase : plans'[q] = [plans[q] EXCEPT !.phase = phase]
        \/ plans'[q] = [plans[q] EXCEPT !.approved = TRUE]
      BY <1>1, ZenonT(30)
  <2> QED
      BY <2>1, <2>2, ZenonT(30) DEF Plans
<1>4. Len(plans) # 0 => Len(plans) \in DOMAIN plans /\ plans[Len(plans)].alive
    BY <1>1 DEF IInv, Increasing
<1> QED
    BY <1>2, <1>3, <1>4, ZenonT(30) DEF PlansKept

LEMMA UpdateInstallPlanStatusOK ==
    ASSUME OneWorker, IInv, TypeInv', NEW w \in Workers, UpdateInstallPlanStatus(w)
    PROVE  IInv'
<1> DEFINE r == [sync[w] EXCEPT !.pc = "final"]
<1>1. /\ sync[w] \in Syncs /\ CarriesOK(sync[w]) /\ RefOK(sub) /\ UNCHANGED sub
      /\ sync[w].pc = "status" /\ sync[w].ref \in DOMAIN plans
      /\ TypeInv /\ \A v \in Workers : v = w
    BY SyncFacts, ZenonT(30) DEF IInv, UpdateInstallPlanStatus, OneWorker, TypeInv, LocalsOK
<1>2. CASE SetCond(w, "BundleUnpackFailed") /\ UNCHANGED plans
    BY <1>1, <1>2, SetCondOK, ZenonT(30) DEF CondTypes
<1>3. CASE (\E phase : plans' = [plans EXCEPT ![sync[w].ref].phase = phase]) /\ SetSync(w, r)
  <2>1. PlansKept
      BY <1>1, <1>3, PlanFieldKept, ZenonT(30)
  <2>2. /\ r \in Syncs /\ r.pc = "final" /\ r.ref = sync[w].ref /\ r.op = sync[w].op
        /\ r.sub = sync[w].sub /\ r.updated = sync[w].updated
      BY <1>1, ZenonT(30) DEF Syncs
  <2> HIDE DEF r
  <2>3. sync'[w] = r
      BY <1>1, <1>3, <2>2, SyncType, ZenonT(30) DEF TypeInv, TypeOK
  <2>4. RefOK(sub)'
      BY <1>1, <2>1, ZenonT(30) DEF PlansKept, RefOK
  <2>5. Increasing'
      BY <2>1, ZenonT(30) DEF IInv, PlansKept, Increasing
  <2>6. ASSUME NEW v \in Workers PROVE CarriesOK(sync[v])'
    <3>1. sync'[v] = r
        BY <1>1, <2>3, ZenonT(30)
    <3> QED
        BY <1>1, <2>1, <2>2, <3>1, ZenonT(90) DEF CarriesOK, PlansKept, RefOK
  <2> QED
      BY <2>4, <2>5, <2>6, ZenonT(30) DEF IInv
<1> QED
    BY <1>2, <1>3, ZenonT(30) DEF UpdateInstallPlanStatus

LEMMA OtherStepsOK ==
    ASSUME IInv, TypeInv',
           \/ \E p \in 1 .. MaxPlans : syncInstallPlans(p) \/ Approve(p)
           \/ \E v \in Versions : Replaced(v)
           \/ CatalogUpdate \/ CacheCSVs \/ CacheSub
    PROVE  IInv'
<1>1. UNCHANGED <<sub, sync>>
    BY ZenonT(30) DEF syncInstallPlans, Approve, Replaced, CatalogUpdate, CacheCSVs, CacheSub
<1>2. CASE UNCHANGED plans
    BY <1>1, <1>2, ZenonT(30) DEF IInv, RefOK, Increasing, CarriesOK
<1>3. ASSUME NEW p \in 1 .. MaxPlans, syncInstallPlans(p) \/ Approve(p) PROVE IInv'
  <2>1. /\ p \in DOMAIN plans
        /\ \/ UNCHANGED plans
           \/ \E phase : plans' = [plans EXCEPT ![p].phase = phase]
           \/ plans' = [plans EXCEPT ![p].approved = TRUE]
      BY <1>3, ZenonT(30) DEF syncInstallPlans, Approve, Alive
  <2>2. PlansKept
      BY <2>1, PlanFieldKept, ZenonT(30)
  <2> QED
      BY <1>1, <2>2, KeptOK, ZenonT(30)
<1> QED
    BY <1>2, <1>3, ZenonT(30) DEF Replaced, CatalogUpdate, CacheCSVs, CacheSub

LEMMA RestartOK ==
    ASSUME IInv, TypeInv', Restart
    PROVE  IInv'
<1>1. sync' = [w \in Workers |-> IdleSync] /\ UNCHANGED <<sub, plans>>
    BY ZenonT(30) DEF Restart
<1>2. RefOK(sub)' /\ Increasing'
    BY <1>1, ZenonT(30) DEF IInv, RefOK, Increasing
<1>3. ASSUME NEW w \in Workers PROVE CarriesOK(sync[w])'
  <2>1. sync'[w] = IdleSync
      BY <1>1, ZenonT(30)
  <2> QED
    <3>1. /\ IdleSync.pc = "idle" /\ IdleSync.op = 0
          /\ IdleSync.sub.ref = 0 /\ IdleSync.updated.ref = 0
        BY ZenonT(30) DEF IdleSync, NewSub
    <3> QED
        BY <2>1, <3>1, ZenonT(30) DEF CarriesOK, RefOK
<1> QED
    BY <1>2, <1>3, ZenonT(30) DEF IInv

LEMMA SyncStepOK ==
    ASSUME OneWorker, IInv, TypeInv', NEW w \in Workers, Sync(w)
    PROVE  IInv'
    BY StartSyncOK, ensureSubscriptionCSVStateOK, UpdateSubscriptionOK, ResolveStepsOK,
       unpackBundlesOK, UpdateSubscriptionCondOK, ListInstallPlansOK, ensureInstallPlanOK,
       LockInstallPlanOK, CreateInstallPlanOK, UpdateInstallPlanStatusOK,
       UpdateSubscriptionStatusesOK, ZenonT(30)
    DEF Sync

LEMMA IInvInit == Init => IInv
<1> SUFFICES ASSUME Init PROVE IInv
    BY ZenonT(30)
<1>1. TypeInv
    BY TypeInit, ZenonT(30)
<1>2. RefOK(sub) /\ \A w \in Workers : CarriesOK(sync[w])
    BY IdleOK, ZenonT(30) DEF Init
<1>3. Increasing
    BY DEF Init, Increasing
<1> QED
    BY <1>1, <1>2, <1>3, ZenonT(30) DEF IInv

LEMMA IInvStep == OneWorker /\ IInv /\ [Next]_vars => IInv'
<1> SUFFICES ASSUME OneWorker, IInv, [Next]_vars PROVE IInv'
    BY ZenonT(30)
<1>1. TypeInv'
    BY TypeStep, ZenonT(30) DEF IInv
<1>2. CASE UNCHANGED vars
    BY <1>1, <1>2, ZenonT(30) DEF vars, IInv, RefOK, Increasing, CarriesOK
<1>3. CASE Next
    BY <1>1, <1>3, SyncStepOK, OtherStepsOK, RestartOK, ZenonT(30) DEF Next
<1> QED
    BY <1>2, <1>3, ZenonT(30)

(* With one worker per namespace, whichever requests fail and wherever the   *)
(* operator restarts, the Subscription never points at a plan of another CSV *)
(* than its current one.                                                     *)
THEOREM PlansSafe ==
    ASSUME OneWorker
    PROVE  Spec => []ReferencedPlan
<1>1. IInv => ReferencedPlan
    BY ZenonT(30) DEF IInv, RefOK, ReferencedPlan
<1>2. IInv /\ [Next]_vars => IInv'
    BY IInvStep, ZenonT(30)
<1> QED
    BY <1>1, <1>2, IInvInit, PTL DEF Spec

(* Nor do two InstallPlans ever have the same generation: the newest one     *)
(* survives gcInstallPlans, so the maximum over the plans that are left is   *)
(* the maximum over all there were.                                          *)
THEOREM GenerationSafe ==
    ASSUME OneWorker
    PROVE  Spec => []OnePlanPerGeneration
<1>1. IInv => OnePlanPerGeneration
  <2> SUFFICES ASSUME IInv, NEW p \in DOMAIN plans, NEW q \in DOMAIN plans,
                      plans[p].gen = plans[q].gen
               PROVE  p = q
      BY ZenonT(30) DEF OnePlanPerGeneration
  <2>1. p \in Nat /\ q \in Nat /\ plans[p].gen \in Nat /\ plans[q].gen \in Nat
      BY PlansFacts DEF IInv
  <2>2. ~(p < q) /\ ~(q < p)
      BY <2>1, SMTT(30) DEF IInv, Increasing
  <2> QED
      BY <2>1, <2>2
<1>2. IInv /\ [Next]_vars => IInv'
    BY IInvStep, ZenonT(30)
<1> QED
    BY <1>1, <1>2, IInvInit, PTL DEF Spec
-----------------------------------------------------------------------------
(* What the Subscription's status says of its plan.  One that waits for its  *)
(* CSV points at the newest plan, unless the plan failed: the loop resolves  *)
(* nothing before that.                                                      *)
FailedPlan(s) == s.ref # 0 /\ plans[s.ref].phase = "Failed"

Ready(s) == s.ref # 0 => s.installed = s.current \/ FailedPlan(s)

StatusOK(s) ==
    /\ s.state = "AtLatestKnown" => s.installed = s.current
    /\ s.state = "Failed" => FailedPlan(s)
    /\ s.current # 0 => s.ref # 0
    /\ Ready(s) \/ s.ref = Len(plans)

Resolved == {"unpack", "list", "ensureip", "lock", "create", "status", "final"}

(* The worker is the only writer of the Subscription: what it listed is what *)
(* is there, but for the change ensureSubscriptionCSVState is about to write.*)
StepOK(w) ==
    /\ sync[w].pc = "update" => /\ StatusOK(sync[w].sub)
                                /\ sync[w].sub.current = sub.current
                                /\ sync[w].sub.installed \in {sub.installed, sub.current}
    /\ sync[w].pc \notin {"idle", "update"} => sync[w].sub = sub
    /\ sync[w].pc \notin {"idle", "ensure", "update"} => Ready(sub)
    /\ sync[w].pc \in Resolved => sync[w].updated = sub
    /\ sync[w].pc = "status" => plans[sync[w].ref].phase = ""
    /\ sync[w].pc = "status" \/ (sync[w].pc = "final" /\ Updates(w))
          => sync[w].ref = Len(plans)

ResolveInv == StatusOK(sub) /\ \A w \in Workers : StepOK(w)

-----------------------------------------------------------------------------
(* The steps of a sync, field by field: from the worker's sync to the next,  *)
(* and the write of the Subscription if there is one.                        *)
Ends(w) == sync'[w].pc = "idle"

Keeps(w) ==
    /\ sync'[w].sub = sync[w].sub
    /\ sync'[w].updated = sync[w].updated
    /\ sync'[w].op = sync[w].op

Starts(w) == sync'[w].pc = "ensure" /\ sync'[w].sub = sub

Finds(w) ==
    LET s == sync[w].sub  t == sync'[w].sub
    IN  /\ sync[w].pc = "ensure" /\ sync'[w].pc = "update"
        /\ t.current = s.current /\ t.ref = s.ref
        /\ \/ t.state = "AtLatestKnown" /\ t.installed = s.current
           \/ t.state = "UpgradePending" /\ t.installed = s.installed
           \/ t.state = "Failed" /\ t.installed = s.installed /\ FailedPlan(s)

Goes(w) ==
    LET s == sync[w].sub
    IN  /\ sync[w].pc = "ensure" /\ sync'[w].pc = "resolve" /\ Keeps(w)
        /\ ~nothingToUpdate(s)
        /\ s.current # 0 => s.state \in {"AtLatestKnown", "UpgradePending", "Failed"}

Resolves(w) ==
    /\ sync[w].pc = "resolve" /\ sync'[w].pc \in {"unpack", "final"}
    /\ sync'[w].sub = sync[w].sub /\ sync'[w].updated = sub
    /\ sync'[w].pc = "final" => sync'[w].op = 0
    /\ sync'[w].op # 0 => Resolve(sub, sync'[w].op)

Fails(w) ==
    /\ sync[w].pc \notin {"idle", "ensure", "update"} /\ sync'[w].pc = "cond"
    /\ sync'[w].sub = sync[w].sub

Advances(w) ==
    /\ sync[w].pc \in Resolved \ {"status"} /\ sync'[w].pc \in Resolved \ {"status"}
    /\ Keeps(w)
    /\ sync'[w].pc = "final" => ~Updates(w)

Completes(w) ==
    /\ sync[w].pc = "status" /\ sync'[w].pc = "final"
    /\ Keeps(w) /\ sync'[w].ref = sync[w].ref

Local(w) ==
    /\ UNCHANGED sub
    /\ \/ Starts(w) \/ Ends(w) \/ Finds(w) \/ Goes(w) \/ Resolves(w) \/ Fails(w)
       \/ Advances(w) \/ Completes(w)

Writes(w) ==
    /\ Ends(w) /\ UNCHANGED plans
    /\ \/ sync[w].pc = "update" /\ sub' = sync[w].sub
       \/ sync[w].pc = "cond" /\ \E c : sub' = [sync[w].sub EXCEPT !.conds = c]
       \/ sync[w].pc = "final" /\ sub' = FinalStatus(w)

Creates(w) ==
    /\ UNCHANGED sub
    /\ sync[w].pc = "create" /\ sync'[w].pc = "status" /\ Keeps(w)
    /\ Len(plans') = Len(plans) + 1 /\ sync'[w].ref = Len(plans')
    /\ plans'[Len(plans')].phase = ""

(* The plans after a step: their number, and that a failed one stays so. *)
SameNumber == Len(plans') = Len(plans)

FailedStay ==
    \A p \in DOMAIN plans : plans[p].phase = "Failed" => plans'[p].phase = "Failed"

(* A step that only sets fields of the worker's sync. *)
LEMMA SyncSet ==
    ASSUME TypeInv, NEW w \in Workers, NEW r, SetSync(w, r)
    PROVE  sync'[w] = r
    BY ZenonT(30) DEF SetSync, TypeInv, TypeOK

LEMMA FinishEnds ==
    ASSUME TypeInv, NEW w \in Workers, Finish(w)
    PROVE  Ends(w)
    BY SyncSet, SMTT(30) DEF Finish, IdleSync, Ends

LEMMA SetCondFails ==
    ASSUME TypeInv, NEW w \in Workers, NEW c, SetCond(w, c),
           sync[w].pc \notin {"idle", "ensure", "update"}
    PROVE  Fails(w)
<1>1. sync'[w] = [sync[w] EXCEPT !.pc = "cond", !.cond = c] /\ sync[w] \in Syncs
    BY SyncSet, SyncFacts, ZenonT(30) DEF SetCond
<1> QED
    BY <1>1, ZenonT(30) DEF Fails, Syncs

LEMMA StartSyncShape ==
    ASSUME IInv, NEW w \in Workers, StartSync(w)
    PROVE  Local(w) /\ SameNumber /\ FailedStay
<1>1. PICK gone : plans' = [p \in DOMAIN plans |-> [plans[p] EXCEPT !.alive = @ /\ p \notin gone]]
    BY ZenonT(30) DEF StartSync
<1>2. /\ plans \in Seq(Plans) /\ Len(plans) \in Nat /\ DOMAIN plans = 1 .. Len(plans)
      /\ \A p \in DOMAIN plans : plans[p] \in Plans
    BY PlansFacts, ZenonT(30) DEF IInv
<1>3. SameNumber
    BY <1>1, <1>2 DEF SameNumber
<1>4. FailedStay
    BY <1>1, <1>2, ZenonT(30) DEF FailedStay, Plans
<1>5. sync'[w] = [IdleSync EXCEPT !.pc = "ensure", !.sub = sub] /\ UNCHANGED sub
    BY SyncSet, ZenonT(30) DEF StartSync, IInv
<1>6. Local(w)
    BY <1>5, ZenonT(30) DEF Local, Starts, IdleSync
<1> QED
    BY <1>3, <1>4, <1>6, ZenonT(30)

LEMMA ensureSubscriptionCSVStateShape ==
    ASSUME IInv, NEW w \in Workers, ensureSubscriptionCSVState(w)
    PROVE  Local(w)
<1> DEFINE s == sync[w].sub
           Out(found, failed) == IF s.current = 0 THEN s ELSE CSVState(s, found, failed)
<1>1. PICK found, failed \in BOOLEAN :
         /\ failed => PlanFailed(s)
         /\ IF Out(found, failed).state # s.state
            THEN SetSync(w, [sync[w] EXCEPT !.pc = "update", !.sub = Out(found, failed)])
            ELSE IF nothingToUpdate(s) THEN Finish(w)
            ELSE SetSync(w, [sync[w] EXCEPT !.pc = "resolve"])
    BY ZenonT(30) DEF ensureSubscriptionCSVState
<1>2. sync[w] \in Syncs /\ s \in SubStatus /\ sync[w].pc = "ensure" /\ UNCHANGED sub /\ TypeInv
    BY SyncFacts, ZenonT(30) DEF IInv, ensureSubscriptionCSVState
<1>3. failed => FailedPlan(s)
  <2>1. 0 \notin DOMAIN plans
      BY <1>2, PlansFacts
  <2> QED
      BY <1>1, <2>1, ZenonT(30) DEF PlanFailed, FailedPlan, Alive
<1>4. s.current # 0 =>
         /\ Out(found, failed).current = s.current /\ Out(found, failed).ref = s.ref
         /\ \/ Out(found, failed).state = "AtLatestKnown" /\ Out(found, failed).installed = s.current
            \/ Out(found, failed).state = "UpgradePending" /\ Out(found, failed).installed = s.installed
            \/ Out(found, failed).state = "Failed" /\ Out(found, failed).installed = s.installed /\ failed
    BY <1>2, ZenonT(30) DEF CSVState, SubStatus
<1>5. CASE Out(found, failed).state # s.state
  <2>1. sync'[w] = [sync[w] EXCEPT !.pc = "update", !.sub = Out(found, failed)]
      BY <1>1, <1>2, <1>5, SyncSet, ZenonT(30)
  <2>2. s.current # 0
      BY <1>5, ZenonT(30)
  <2>3. sync'[w].pc = "update" /\ sync'[w].sub = Out(found, failed)
      BY <1>2, <2>1, ZenonT(30) DEF Syncs
  <2> HIDE DEF Out
  <2>4. Finds(w)
      BY <1>2, <1>3, <1>4, <2>2, <2>3, ZenonT(30) DEF Finds
  <2> QED
      BY <1>2, <2>4, ZenonT(30) DEF Local
<1>6. CASE Out(found, failed).state = s.state /\ nothingToUpdate(s)
    BY <1>1, <1>2, <1>6, FinishEnds, ZenonT(30) DEF Local
<1>7. CASE Out(found, failed).state = s.state /\ ~nothingToUpdate(s)
  <2>1. sync'[w] = [sync[w] EXCEPT !.pc = "resolve"]
      BY <1>1, <1>2, <1>7, SyncSet, ZenonT(30)
  <2>2. sync'[w].pc = "resolve" /\ Keeps(w)
      BY <1>2, <2>1, ZenonT(30) DEF Syncs, Keeps
  <2>3. Goes(w)
      BY <1>2, <1>4, <1>7, <2>2, ZenonT(30) DEF Goes
  <2> QED
      BY <1>2, <2>3, ZenonT(30) DEF Local
<1> QED
    BY <1>5, <1>6, <1>7, ZenonT(30)

LEMMA UpdateSubscriptionShape ==
    ASSUME IInv, NEW w \in Workers, UpdateSubscription(w)
    PROVE  Local(w) \/ Writes(w)
    BY FinishEnds, ZenonT(30) DEF UpdateSubscription, WriteSub, Local, Writes, IInv

LEMMA ResolveStepsShape ==
    ASSUME IInv, NEW w \in Workers, ResolveSteps(w)
    PROVE  Local(w)
<1>1. sync[w] \in Syncs /\ sync[w].op = 0 /\ sync[w].pc = "resolve" /\ UNCHANGED sub /\ TypeInv
    BY SyncFacts, ZenonT(30) DEF IInv, ResolveSteps, CarriesOK
<1>2. \/ SetCond(w, "ResolutionFailed")
      \/ SetSync(w, [sync[w] EXCEPT !.pc = "final", !.updated = sub])
      \/ \E op \in 0 .. MaxVersion :
            /\ Resolve(sub, op)
            /\ SetSync(w, [sync[w] EXCEPT !.pc = "unpack", !.updated = sub, !.op = op])
    BY ZenonT(30) DEF ResolveSteps
<1>3. CASE SetCond(w, "ResolutionFailed")
    BY <1>1, <1>3, SetCondFails, ZenonT(30) DEF Local
<1>4. CASE SetSync(w, [sync[w] EXCEPT !.pc = "final", !.updated = sub])
  <2>1. sync'[w] = [sync[w] EXCEPT !.pc = "final", !.updated = sub]
      BY <1>1, <1>4, SyncSet, ZenonT(30)
  <2>2. Resolves(w)
      BY <1>1, <2>1, ZenonT(30) DEF Resolves, Syncs
  <2> QED
      BY <1>1, <2>2, ZenonT(30) DEF Local
<1>5. ASSUME NEW op \in 0 .. MaxVersion, Resolve(sub, op),
             SetSync(w, [sync[w] EXCEPT !.pc = "unpack", !.updated = sub, !.op = op])
      PROVE  Local(w)
  <2>1. sync'[w] = [sync[w] EXCEPT !.pc = "unpack", !.updated = sub, !.op = op]
      BY <1>1, <1>5, SyncSet, ZenonT(30)
  <2>2. /\ sync'[w].pc = "unpack" /\ sync'[w].sub = sync[w].sub
        /\ sync'[w].updated = sub /\ sync'[w].op = op
      BY <1>1, <2>1, ZenonT(30) DEF Syncs
  <2>3. Resolves(w)
      BY <1>1, <1>5, <2>2, ZenonT(30) DEF Resolves
  <2> QED
      BY <1>1, <2>3, ZenonT(30) DEF Local
<1> QED
    BY <1>2, <1>3, <1>4, <1>5, ZenonT(30)

LEMMA unpackBundlesShape ==
    ASSUME IInv, NEW w \in Workers, unpackBundles(w)
    PROVE  Local(w)
<1> DEFINE pc == IF Updates(w) THEN "list" ELSE "final"
<1>1. sync[w] \in Syncs /\ sync[w].pc = "unpack" /\ UNCHANGED sub /\ TypeInv
    BY SyncFacts, ZenonT(30) DEF IInv, unpackBundles
<1>2. CASE SetSync(w, [sync[w] EXCEPT !.pc = pc])
  <2>1. sync'[w] = [sync[w] EXCEPT !.pc = pc]
      BY <1>1, <1>2, SyncSet, ZenonT(30)
  <2>2. sync'[w].pc = pc /\ Keeps(w)
      BY <1>1, <2>1, ZenonT(30) DEF Syncs, Keeps
  <2> QED
      BY <1>1, <2>2, ZenonT(30) DEF Local, Advances, Resolved
<1>3. CASE Finish(w)
    BY <1>1, <1>3, FinishEnds, ZenonT(30) DEF Local
<1>4. CASE \E c : SetCond(w, c)
    BY <1>1, <1>4, SetCondFails, ZenonT(30) DEF Local
<1> QED
    BY <1>2, <1>3, <1>4, ZenonT(30) DEF unpackBundles

LEMMA UpdateSubscriptionCondShape ==
    ASSUME IInv, NEW w \in Workers, UpdateSubscriptionCond(w)
    PROVE  Local(w) \/ Writes(w)
<1>1. Ends(w) /\ sync[w].pc = "cond" /\ UNCHANGED plans
    BY FinishEnds, ZenonT(30) DEF UpdateSubscriptionCond, IInv
<1>2. \/ sub' = [sync[w].sub EXCEPT !.conds = @ \cup {sync[w].cond}]
      \/ UNCHANGED sub
    BY ZenonT(30) DEF UpdateSubscriptionCond, WriteSub
<1> QED
    BY <1>1, <1>2, ZenonT(30) DEF Local, Writes

LEMMA ListInstallPlansShape ==
    ASSUME IInv, NEW w \in Workers, ListInstallPlans(w)
    PROVE  Local(w)
<1>1. sync[w] \in Syncs /\ sync[w].pc = "list" /\ UNCHANGED sub /\ TypeInv
    BY SyncFacts, ZenonT(30) DEF IInv, ListInstallPlans
<1>2. ASSUME NEW gen, NEW approval,
             SetSync(w, [sync[w] EXCEPT !.pc = "ensureip", !.gen = gen, !.approval = approval])
      PROVE  Local(w)
  <2>1. sync'[w] = [sync[w] EXCEPT !.pc = "ensureip", !.gen = gen, !.approval = approval]
      BY <1>1, <1>2, SyncSet, ZenonT(30)
  <2>2. sync'[w].pc = "ensureip" /\ Keeps(w)
      BY <1>1, <2>1, ZenonT(30) DEF Syncs, Keeps
  <2> QED
      BY <1>1, <2>2, ZenonT(30) DEF Local, Advances, Resolved
<1>3. CASE Finish(w)
    BY <1>1, <1>3, FinishEnds, ZenonT(30) DEF Local
<1> QED
    BY <1>2, <1>3, ZenonT(30) DEF ListInstallPlans

LEMMA ensureInstallPlanShape ==
    ASSUME IInv, NEW w \in Workers, ensureInstallPlan(w)
    PROVE  Local(w)
<1>1. sync[w] \in Syncs /\ sync[w].pc = "ensureip" /\ UNCHANGED sub /\ TypeInv
    BY SyncFacts, ZenonT(30) DEF IInv, ensureInstallPlan
<1>2. ASSUME NEW ref, SetSync(w, [sync[w] EXCEPT !.pc = "lock", !.ref = ref])
      PROVE  Local(w)
  <2>1. sync'[w] = [sync[w] EXCEPT !.pc = "lock", !.ref = ref]
      BY <1>1, <1>2, SyncSet, ZenonT(30)
  <2>2. sync'[w].pc = "lock" /\ Keeps(w)
      BY <1>1, <2>1, ZenonT(30) DEF Syncs, Keeps
  <2> QED
      BY <1>1, <2>2, ZenonT(30) DEF Local, Advances, Resolved
<1>3. CASE \E c : SetCond(w, c)
    BY <1>1, <1>3, SetCondFails, ZenonT(30) DEF Local
<1> QED
    BY <1>2, <1>3, ZenonT(30) DEF ensureInstallPlan

LEMMA LockInstallPlanShape ==
    ASSUME IInv, NEW w \in Workers, LockInstallPlan(w)
    PROVE  Local(w)
<1>1. /\ sync[w] \in Syncs /\ sync[w].pc = "lock" /\ sync[w].ref = 0 /\ UNCHANGED sub
      /\ TypeInv
    BY SyncFacts, ZenonT(30) DEF IInv, LockInstallPlan, CarriesOK
<1>2. SetSync(w, [sync[w] EXCEPT !.pc = "create"])
    BY <1>1, ZenonT(30) DEF LockInstallPlan
<1>3. sync'[w] = [sync[w] EXCEPT !.pc = "create"]
    BY <1>1, <1>2, SyncSet, ZenonT(30)
<1>4. sync'[w].pc = "create" /\ Keeps(w)
    BY <1>1, <1>3, ZenonT(30) DEF Syncs, Keeps
<1> QED
    BY <1>1, <1>4, ZenonT(30) DEF Local, Advances, Resolved

LEMMA CreateInstallPlanShape ==
    ASSUME IInv, NEW w \in Workers, CreateInstallPlan(w)
    PROVE  /\ (Local(w) /\ SameNumber) \/ Creates(w)
           /\ FailedStay
<1> DEFINE new == [gen |-> sync[w].gen, csv |-> sync[w].op, alive |-> TRUE,
                   approved |-> sync[w].approval = "Automatic", phase |-> ""]
<1>1. sync[w] \in Syncs /\ sync[w].pc = "create" /\ UNCHANGED sub /\ TypeInv
    BY SyncFacts, ZenonT(30) DEF IInv, CreateInstallPlan
<1>2. CASE SetCond(w, "BundleUnpackFailed") /\ UNCHANGED plans
    BY <1>1, <1>2, SetCondFails, ZenonT(30) DEF Local, SameNumber, FailedStay
<1>3. CASE /\ plans' = Append(plans, new)
           /\ SetSync(w, [sync[w] EXCEPT !.pc = "status", !.ref = Len(plans) + 1])
  <2>1. plans \in Seq(Plans) /\ Len(plans) \in Nat /\ DOMAIN plans = 1 .. Len(plans)
      BY <1>1, PlansFacts, ZenonT(30)
  <2>2. new.phase = ""
      BY ZenonT(30)
  <2> HIDE DEF new
  <2>3. /\ Len(plans') = Len(plans) + 1 /\ plans'[Len(plans) + 1] = new
        /\ \A p \in DOMAIN plans : plans'[p] = plans[p]
      BY <1>3, <2>1
  <2>4. sync'[w] = [sync[w] EXCEPT !.pc = "status", !.ref = Len(plans) + 1]
      BY <1>1, <1>3, SyncSet, ZenonT(30)
  <2>5. sync'[w].pc = "status" /\ Keeps(w) /\ sync'[w].ref = Len(plans) + 1
      BY <1>1, <2>4, ZenonT(30) DEF Syncs, Keeps
  <2>6. Creates(w)
      BY <1>1, <2>2, <2>3, <2>5, ZenonT(30) DEF Creates
  <2>7. FailedStay
      BY <2>3, ZenonT(30) DEF FailedStay
  <2> QED
      BY <2>6, <2>7, ZenonT(30)
<1> QED
    BY <1>2, <1>3, ZenonT(30) DEF CreateInstallPlan

(* A phase that is set on a plan that has not failed leaves failed plans so. *)
LEMMA PhaseShape ==
    ASSUME IInv, NEW p \in DOMAIN plans, plans[p].phase # "Failed",
           NEW phase, plans' = [plans EXCEPT ![p].phase = phase]
    PROVE  SameNumber /\ FailedStay
<1>1. /\ plans \in Seq(Plans) /\ Len(plans) \in Nat /\ DOMAIN plans = 1 .. Len(plans)
      /\ \A q \in DOMAIN plans : plans[q] \in Plans
    BY PlansFacts, ZenonT(30) DEF IInv
<1>2. SameNumber
    BY <1>1 DEF SameNumber
<1>3. ASSUME NEW q \in DOMAIN plans, plans[q].phase = "Failed" PROVE plans'[q] = plans[q]
    BY <1>1, <1>3, ZenonT(30)
<1> QED
    BY <1>2, <1>3, ZenonT(30) DEF FailedStay

LEMMA UpdateInstallPlanStatusShape ==
    ASSUME IInv, ResolveInv, NEW w \in Workers, UpdateInstallPlanStatus(w)
    PROVE  Local(w) /\ SameNumber /\ FailedStay
<1>1. /\ sync[w] \in Syncs /\ sync[w].pc = "status" /\ sync[w].ref \in DOMAIN plans
      /\ plans[sync[w].ref].phase = "" /\ UNCHANGED sub /\ TypeInv
    BY SyncFacts, ZenonT(30) DEF IInv, TypeInv, LocalsOK, ResolveInv, StepOK, UpdateInstallPlanStatus
<1>2. CASE SetCond(w, "BundleUnpackFailed") /\ UNCHANGED plans
    BY <1>1, <1>2, SetCondFails, ZenonT(30) DEF Local, SameNumber, FailedStay
<1>3. ASSUME NEW phase, plans' = [plans EXCEPT ![sync[w].ref].phase = phase],
             SetSync(w, [sync[w] EXCEPT !.pc = "final"])
      PROVE  Local(w) /\ SameNumber /\ FailedStay
  <2>1. SameNumber /\ FailedStay
      BY <1>1, <1>3, PhaseShape, ZenonT(30)
  <2>2. sync'[w] = [sync[w] EXCEPT !.pc = "final"]
      BY <1>1, <1>3, SyncSet, ZenonT(30)
  <2>3. sync'[w].pc = "final" /\ Keeps(w) /\ sync'[w].ref = sync[w].ref
      BY <1>1, <2>2, ZenonT(30) DEF Syncs, Keeps
  <2> QED
      BY <1>1, <2>1, <2>3, ZenonT(30) DEF Local, Completes
<1> QED
    BY <1>2, <1>3, ZenonT(30) DEF UpdateInstallPlanStatus

LEMMA UpdateSubscriptionStatusesShape ==
    ASSUME IInv, NEW w \in Workers, UpdateSubscriptionStatuses(w)
    PROVE  Local(w) \/ Writes(w)
    BY FinishEnds, ZenonT(30) DEF UpdateSubscriptionStatuses, WriteSub, Local, Writes, IInv

LEMMA SyncShape ==
    ASSUME IInv, ResolveInv, NEW w \in Workers, Sync(w)
    PROVE  /\ ((Local(w) \/ Writes(w)) /\ SameNumber) \/ Creates(w)
           /\ FailedStay /\ UNCHANGED head
<1>1. UNCHANGED head
    BY ZenonT(30) DEF Sync, StartSync, ensureSubscriptionCSVState, UpdateSubscription, ResolveSteps,
           unpackBundles, UpdateSubscriptionCond, ListInstallPlans, ensureInstallPlan,
           LockInstallPlan, CreateInstallPlan, UpdateInstallPlanStatus, UpdateSubscriptionStatuses
<1>2. CASE StartSync(w)
    BY <1>1, <1>2, StartSyncShape, ZenonT(30)
<1>3. CASE CreateInstallPlan(w)
    BY <1>1, <1>3, CreateInstallPlanShape, ZenonT(30)
<1>4. CASE UpdateInstallPlanStatus(w)
    BY <1>1, <1>4, UpdateInstallPlanStatusShape, ZenonT(30)
<1>5. CASE \/ ensureSubscriptionCSVState(w) \/ UpdateSubscription(w) \/ ResolveSteps(w)
           \/ unpackBundles(w) \/ UpdateSubscriptionCond(w) \/ ListInstallPlans(w)
           \/ ensureInstallPlan(w) \/ LockInstallPlan(w) \/ UpdateSubscriptionStatuses(w)
  <2>1. Local(w) \/ Writes(w)
      BY <1>5, ensureSubscriptionCSVStateShape, UpdateSubscriptionShape, ResolveStepsShape,
         unpackBundlesShape, UpdateSubscriptionCondShape, ListInstallPlansShape,
         ensureInstallPlanShape, LockInstallPlanShape, UpdateSubscriptionStatusesShape, ZenonT(30)
  <2>2. UNCHANGED plans
      BY <1>5, ZenonT(30) DEF ensureSubscriptionCSVState, UpdateSubscription, ResolveSteps, unpackBundles,
                  UpdateSubscriptionCond, ListInstallPlans, ensureInstallPlan, LockInstallPlan,
                  UpdateSubscriptionStatuses
  <2> QED
      BY <1>1, <2>1, <2>2, ZenonT(30) DEF SameNumber, FailedStay
<1> QED
    BY <1>2, <1>3, <1>4, <1>5, ZenonT(30) DEF Sync

(* The other steps leave the Subscription alone, and the sync or end it. *)
OthersShape ==
    /\ UNCHANGED sub /\ SameNumber /\ FailedStay /\ head <= head'
    /\ \A w \in Workers : sync'[w] = sync[w] \/ Ends(w)
    /\ \A w \in Workers : sync[w].pc = "status" =>
          plans'[sync[w].ref].phase = plans[sync[w].ref].phase

LEMMA OtherShape ==
    ASSUME IInv, ResolveInv,
           \/ \E p \in 1 .. MaxPlans : syncInstallPlans(p) \/ Approve(p)
           \/ \E v \in Versions : Replaced(v)
           \/ CatalogUpdate \/ CacheCSVs \/ CacheSub \/ Restart \/ UNCHANGED vars
    PROVE  OthersShape
<1>1. head \in Nat
    BY NamespaceResolutionAssumption, SMTT(30) DEF IInv, TypeInv, TypeOK, Versions
<1>2. CASE UNCHANGED plans
  <2>1. UNCHANGED sub /\ head <= head' /\ \A w \in Workers : sync'[w] = sync[w] \/ Ends(w)
      BY <1>1, <1>2, SMTT(30)
         DEF syncInstallPlans, Approve, Replaced, CatalogUpdate, CacheCSVs, CacheSub, Restart,
             vars, Ends, IdleSync
  <2> QED
      BY <1>2, <2>1, ZenonT(30) DEF OthersShape, SameNumber, FailedStay
<1>3. ASSUME NEW p \in 1 .. MaxPlans, syncInstallPlans(p), plans' # plans
      PROVE  OthersShape
  <2>1. /\ p \in DOMAIN plans /\ plans[p].phase \in {"RequiresApproval", "Installing"}
        /\ UNCHANGED <<sub, sync, head>>
      BY <1>3, ZenonT(30) DEF syncInstallPlans, Alive
  <2>2. PICK phase : plans' = [plans EXCEPT ![p].phase = phase]
      BY <1>3, ZenonT(30) DEF syncInstallPlans
  <2>3. SameNumber /\ FailedStay
      BY <2>1, <2>2, PhaseShape, ZenonT(30)
  <2>4. ASSUME NEW w \in Workers, sync[w].pc = "status"
        PROVE  plans'[sync[w].ref].phase = plans[sync[w].ref].phase
    <3>1. plans[sync[w].ref].phase = "" /\ sync[w].ref \in DOMAIN plans
        BY <2>4, ZenonT(30) DEF ResolveInv, StepOK, IInv, TypeInv, LocalsOK
    <3>2. plans \in [1 .. Len(plans) -> Plans] /\ DOMAIN plans = 1 .. Len(plans)
        BY PlansFacts, LenProperties, ZenonT(30) DEF IInv
    <3>3. plans'[sync[w].ref] = plans[sync[w].ref]
        BY <2>1, <2>2, <3>1, <3>2, ZenonT(30)
    <3> QED
        BY <2>1, <3>3, ZenonT(30)
  <2> QED
      BY <1>1, <2>1, <2>3, <2>4, SMTT(30) DEF OthersShape
<1>4. ASSUME NEW p \in 1 .. MaxPlans, Approve(p) PROVE OthersShape
  <2>1. /\ p \in DOMAIN plans /\ plans' = [plans EXCEPT ![p].approved = TRUE]
        /\ UNCHANGED <<sub, sync, head>>
      BY <1>4, ZenonT(30) DEF Approve, Alive
  <2>2. /\ plans \in Seq(Plans) /\ Len(plans) \in Nat /\ DOMAIN plans = 1 .. Len(plans)
        /\ \A q \in DOMAIN plans : plans[q] \in Plans
      BY PlansFacts, ZenonT(30) DEF IInv
  <2>3. SameNumber
      BY <2>1, <2>2 DEF SameNumber
  <2>4. ASSUME NEW q \in DOMAIN plans PROVE plans'[q].phase = plans[q].phase
    <3>1. plans'[q] = plans[q] \/ plans'[q] = [plans[q] EXCEPT !.approved = TRUE]
        BY <2>1, <2>2, ZenonT(30)
    <3> QED
        BY <2>2, <3>1, ZenonT(30) DEF Plans
  <2>5. \A w \in Workers : sync[w].pc = "status" => sync[w].ref \in DOMAIN plans
      BY ZenonT(30) DEF IInv, TypeInv, LocalsOK
  <2> QED
      BY <1>1, <2>1, <2>3, <2>4, <2>5 DEF OthersShape, FailedStay
<1>5. CASE plans' # plans
    BY <1>3, <1>4, <1>5, ZenonT(30) DEF Replaced, CatalogUpdate, CacheCSVs, CacheSub, Restart, vars
<1> QED
    BY <1>2, <1>5, ZenonT(30)

-----------------------------------------------------------------------------
LEMMA SubFacts ==
    ASSUME IInv
    PROVE  /\ sub \in SubStatus
           /\ sub.ref # 0 => sub.ref \in DOMAIN plans /\ sub.current # 0
<1>1. sub \in SubStatus /\ RefOK(sub)
    BY ZenonT(30) DEF IInv, TypeInv, TypeOK
<1>2. \A p \in DOMAIN plans : plans[p].csv \in Versions
    BY PlansFacts, ZenonT(30) DEF IInv, Plans
<1>3. 0 \notin Versions
    BY NamespaceResolutionAssumption DEF Versions
<1> QED
    BY <1>1, <1>2, <1>3, ZenonT(30) DEF RefOK

(* The status is as good as before when it and the number of plans are the   *)
(* same, and when it did not wait for its plan.                              *)
LEMMA SubKept ==
    ASSUME IInv, UNCHANGED sub, FailedStay
    PROVE  /\ Ready(sub) => Ready(sub)'
           /\ FailedPlan(sub) => FailedPlan(sub)'
           /\ StatusOK(sub) /\ (SameNumber \/ Ready(sub)) => StatusOK(sub)'
<1>1. sub.ref # 0 => sub.ref \in DOMAIN plans
    BY SubFacts, ZenonT(30)
<1>2. FailedPlan(sub) => FailedPlan(sub)'
    BY <1>1, ZenonT(30) DEF FailedPlan, FailedStay
<1>3. Ready(sub) => Ready(sub)'
    BY <1>2, ZenonT(30) DEF Ready
<1> QED
    BY <1>2, <1>3, ZenonT(30) DEF StatusOK, SameNumber

LEMMA LocalStep ==
    ASSUME IInv, ResolveInv, NEW w \in Workers, Local(w), SameNumber, FailedStay
    PROVE  StatusOK(sub)' /\ StepOK(w)'
<1> USE DEF Resolved
<1>1. UNCHANGED sub /\ StatusOK(sub) /\ StepOK(w)
    BY ZenonT(30) DEF Local, ResolveInv
<1>2. /\ Ready(sub) => Ready(sub)'
      /\ FailedPlan(sub) => FailedPlan(sub)'
      /\ StatusOK(sub)'
    BY <1>1, SubKept, ZenonT(30)
<1>3. CASE Starts(w)
  <2>1. sync'[w].pc = "ensure" /\ sync'[w].sub = sub
      BY <1>3, ZenonT(30) DEF Starts
  <2> QED
      BY <1>1, <1>2, <2>1, ZenonT(30) DEF StepOK
<1>a. CASE Ends(w)
    BY <1>2, <1>a, ZenonT(30) DEF Ends, StepOK
<1>4. CASE Finds(w)
  <2>1. sync[w].sub = sub /\ sync'[w].pc = "update"
      BY <1>1, <1>4, ZenonT(30) DEF StepOK, Finds
  <2>2. /\ sync'[w].sub.current = sub.current /\ sync'[w].sub.ref = sub.ref
        /\ sync'[w].sub.installed \in {sub.installed, sub.current}
        /\ sync'[w].sub.state = "AtLatestKnown" => sync'[w].sub.installed = sub.current
        /\ sync'[w].sub.state = "Failed" => FailedPlan(sub)
      BY <1>4, <2>1, ZenonT(30) DEF Finds
  <2>3. FailedPlan(sub)' => FailedPlan(sync[w].sub)'
      BY <1>1, <2>2, ZenonT(30) DEF FailedPlan
  <2>4. (Ready(sub) \/ sub.ref = Len(plans)) => (Ready(sync[w].sub) \/ sync[w].sub.ref = Len(plans))'
      BY <1>1, <1>2, <2>2, <2>3, ZenonT(30) DEF Ready, SameNumber
  <2>5. StatusOK(sync[w].sub)'
      BY <1>1, <1>2, <2>2, <2>3, <2>4, ZenonT(30) DEF StatusOK
  <2> QED
      BY <1>1, <1>2, <2>1, <2>2, <2>5, ZenonT(30) DEF StepOK
<1>5. CASE Goes(w)
  <2>1. sync'[w].pc = "resolve" /\ sync'[w].sub = sub /\ sync[w].sub = sub
      BY <1>1, <1>5, ZenonT(30) DEF StepOK, Goes, Keeps
  <2>2. Ready(sub)
      BY <1>1, <1>5, <2>1, SubFacts, ZenonT(30) DEF Goes, nothingToUpdate, StatusOK, Ready
  <2> QED
      BY <1>1, <1>2, <2>1, <2>2, ZenonT(30) DEF StepOK
<1>6. CASE Resolves(w)
    BY <1>1, <1>2, <1>6, ZenonT(30) DEF Resolves, StepOK, Updates
<1>7. CASE Fails(w)
    BY <1>1, <1>2, <1>7, ZenonT(30) DEF Fails, StepOK
<1>8. CASE Advances(w)
    BY <1>1, <1>2, <1>8, ZenonT(30) DEF Advances, Keeps, StepOK, Updates
<1>9. CASE Completes(w)
    BY <1>1, <1>2, <1>9, ZenonT(30) DEF Completes, Keeps, StepOK, Updates, SameNumber
<1> QED
    BY <1>2, <1>3, <1>a, <1>4, <1>5, <1>6, <1>7, <1>8, <1>9, ZenonT(30) DEF Local

LEMMA FinalFields ==
    ASSUME IInv, ResolveInv, NEW w \in Workers, sync[w].pc = "final"
    PROVE  /\ Updates(w) => /\ FinalStatus(w).current = sync[w].op
                            /\ FinalStatus(w).installed = sub.installed
                            /\ FinalStatus(w).ref = Len(plans) /\ Len(plans) # 0
                            /\ FinalStatus(w).state = "UpgradePending"
           /\ ~Updates(w) => FinalStatus(w) = [sub EXCEPT !.conds = {}]
<1>1. sync[w].sub = sub /\ sync[w].updated = sub /\ sub \in SubStatus
    BY SubFacts, ZenonT(30) DEF ResolveInv, StepOK, Resolved
<1>2. ASSUME Updates(w) PROVE sync[w].ref = Len(plans) /\ Len(plans) # 0
  <2>1. sync[w].ref \in DOMAIN plans
      BY <1>2, ZenonT(30) DEF IInv, CarriesOK, Updates
  <2>2. 0 \notin DOMAIN plans
      BY PlansFacts, SMTT(30) DEF IInv
  <2> QED
      BY <1>2, <2>1, <2>2, ZenonT(30) DEF ResolveInv, StepOK
<1>3. ASSUME Updates(w)
      PROVE  /\ FinalStatus(w).current = sync[w].op /\ FinalStatus(w).installed = sub.installed
             /\ FinalStatus(w).ref = sync[w].ref /\ FinalStatus(w).state = "UpgradePending"
    BY <1>1, <1>3, ZenonT(30) DEF FinalStatus, SubStatus
<1> QED
    BY <1>1, <1>2, <1>3, ZenonT(30) DEF FinalStatus

LEMMA WritesStep ==
    ASSUME IInv, ResolveInv, NEW w \in Workers, Writes(w)
    PROVE  StatusOK(sub)' /\ StepOK(w)'
<1>1. StepOK(w)' /\ UNCHANGED plans
    BY ZenonT(30) DEF Writes, Ends, StepOK, Resolved
<1>2. CASE sync[w].pc = "update" /\ sub' = sync[w].sub
  <2>1. StatusOK(sync[w].sub)
      BY <1>2, ZenonT(30) DEF ResolveInv, StepOK
  <2> QED
      BY <1>1, <1>2, <2>1, ZenonT(30) DEF StatusOK, Ready, FailedPlan
<1>3. ASSUME NEW c, sub' = [sub EXCEPT !.conds = c] PROVE StatusOK(sub)'
  <2>1. /\ sub'.state = sub.state /\ sub'.installed = sub.installed
        /\ sub'.current = sub.current /\ sub'.ref = sub.ref
      BY <1>3, SubFacts, ZenonT(30) DEF SubStatus
  <2> QED
      BY <1>1, <2>1, ZenonT(30) DEF ResolveInv, StatusOK, Ready, FailedPlan
<1>4. CASE sync[w].pc = "cond" /\ \E c : sub' = [sync[w].sub EXCEPT !.conds = c]
  <2>1. sync[w].sub = sub
      BY <1>4, ZenonT(30) DEF ResolveInv, StepOK
  <2> QED
      BY <1>1, <1>3, <1>4, <2>1, ZenonT(30)
<1>5. CASE sync[w].pc = "final" /\ sub' = FinalStatus(w)
  <2>1. CASE Updates(w)
      BY <1>1, <1>5, <2>1, FinalFields, ZenonT(30) DEF StatusOK
  <2>2. CASE ~Updates(w)
      BY <1>1, <1>3, <1>5, <2>2, FinalFields, ZenonT(30)
  <2> QED
      BY <2>1, <2>2, ZenonT(30)
<1> QED
    BY <1>2, <1>4, <1>5, ZenonT(30) DEF Writes

LEMMA CreatesStep ==
    ASSUME IInv, ResolveInv, NEW w \in Workers, Creates(w), FailedStay
    PROVE  StatusOK(sub)' /\ StepOK(w)'
<1>1. /\ UNCHANGED sub /\ StatusOK(sub) /\ Ready(sub) /\ sync[w].sub = sub
      /\ sync[w].updated = sub
    BY ZenonT(30) DEF Creates, ResolveInv, StepOK, Resolved
<1>2. Ready(sub)' /\ StatusOK(sub)'
    BY <1>1, SubKept, ZenonT(30)
<1> QED
    BY <1>1, <1>2, ZenonT(30) DEF Creates, Keeps, StepOK, Resolved

LEMMA OthersStep ==
    ASSUME IInv, ResolveInv, OthersShape
    PROVE  ResolveInv'
<1>1. UNCHANGED sub /\ SameNumber /\ FailedStay /\ StatusOK(sub)
    BY ZenonT(30) DEF OthersShape, ResolveInv
<1>2. (Ready(sub) => Ready(sub)') /\ StatusOK(sub)'
    BY <1>1, SubKept, ZenonT(30)
<1>3. ASSUME NEW w \in Workers PROVE StepOK(w)'
  <2>1. StepOK(w)
      BY ZenonT(30) DEF ResolveInv
  <2>2. CASE Ends(w)
      BY <2>2, ZenonT(30) DEF Ends, StepOK, Resolved
  <2>3. CASE sync'[w] = sync[w]
    <3>1. ASSUME sync[w].pc = "update" PROVE StatusOK(sync[w].sub)'
      <4>1. RefOK(sync[w].sub) /\ StatusOK(sync[w].sub)
          BY <2>1, <3>1, ZenonT(30) DEF IInv, CarriesOK, StepOK
      <4>2. FailedPlan(sync[w].sub) => FailedPlan(sync[w].sub)'
          BY <1>1, <2>3, <4>1, ZenonT(30) DEF FailedPlan, FailedStay, RefOK
      <4> QED
          BY <1>1, <2>3, <4>1, <4>2, ZenonT(30) DEF StatusOK, Ready, SameNumber
    <3>2. Updates(w)' <=> Updates(w)
        BY <2>3, ZenonT(30) DEF Updates
    <3>3. sync[w].pc = "status" => plans'[sync[w].ref].phase = plans[sync[w].ref].phase
        BY ZenonT(30) DEF OthersShape
    <3> QED
        BY <1>1, <1>2, <2>1, <2>3, <3>1, <3>2, <3>3, ZenonT(30) DEF StepOK, SameNumber
  <2> QED
      BY <2>2, <2>3, ZenonT(30) DEF OthersShape
<1> QED
    BY <1>2, <1>3, ZenonT(30) DEF ResolveInv

(* The steps of the specification, by shape. *)
LEMMA StepShape ==
    ASSUME IInv, ResolveInv, [Next]_vars
    PROVE  \/ OthersShape
           \/ /\ \E w \in Workers : ((Local(w) \/ Writes(w)) /\ SameNumber) \/ Creates(w)
              /\ FailedStay /\ UNCHANGED head
    BY SyncShape, OtherShape, ZenonT(30) DEF Next

LEMMA ResolveInit == Init => ResolveInv
<1> SUFFICES ASSUME Init PROVE ResolveInv
    BY ZenonT(30)
<1>1. sub.ref = 0 /\ sub.current = 0 /\ sub.state = ""
    BY ZenonT(30) DEF Init, NewSub
<1>2. \A w \in Workers : sync[w].pc = "idle"
    BY ZenonT(30) DEF Init, IdleSync
<1> QED
    BY <1>1, <1>2, ZenonT(30) DEF ResolveInv, StatusOK, Ready, StepOK, Resolved

LEMMA ResolveStep == OneWorker /\ IInv /\ ResolveInv /\ [Next]_vars => ResolveInv'
<1> SUFFICES ASSUME OneWorker, IInv, ResolveInv, [Next]_vars PROVE ResolveInv'
    BY ZenonT(30)
<1>1. ASSUME NEW w \in Workers, ((Local(w) \/ Writes(w)) /\ SameNumber) \/ Creates(w), FailedStay
      PROVE  ResolveInv'
  <2>1. StatusOK(sub)' /\ StepOK(w)'
      BY <1>1, LocalStep, WritesStep, CreatesStep, ZenonT(30)
  <2>2. \A v \in Workers : v = w
      BY ZenonT(30) DEF OneWorker
  <2> QED
      BY <2>1, <2>2, ZenonT(30) DEF ResolveInv
<1> QED
    BY <1>1, StepShape, OthersStep, ZenonT(30)

(* With one worker per namespace, whichever requests fail and wherever the   *)
(* operator restarts, gcInstallPlans never deletes the plan of an upgrade    *)
(* that is pending: it is the newest one.                                    *)
THEOREM PendingSafe ==
    ASSUME OneWorker
    PROVE  Spec => []PendingPlanKept
<1> DEFINE Inv == IInv /\ ResolveInv
<1>1. Inv => PendingPlanKept
  <2> SUFFICES ASSUME Inv, nothingToUpdate(sub), sub.installed # sub.current,
                      plans[sub.ref].phase # "Failed"
               PROVE  sub.ref \in Alive
      BY ZenonT(30) DEF PendingPlanKept
  <2>1. sub.ref # 0 /\ sub.ref = Len(plans) /\ sub.ref \in DOMAIN plans
      BY SubFacts, ZenonT(30) DEF nothingToUpdate, ResolveInv, StatusOK, Ready, FailedPlan
  <2> QED
      BY <2>1, ZenonT(30) DEF IInv, Increasing, Alive
<1>2. Init => Inv
    BY IInvInit, ResolveInit, ZenonT(30)
<1>3. Inv /\ [Next]_vars => Inv'
    BY IInvStep, ResolveStep, ZenonT(30)
<1> QED
    BY <1>1, <1>2, <1>3, PTL DEF Spec

-----------------------------------------------------------------------------
(* The channel's edges lead upwards. *)
SkipsUp == \A e \in Skips : e[1] < e[2]

ForwardInv ==
    /\ sub.installed <= sub.current /\ sub.current <= head
    /\ \A w \in Workers : sync[w].pc \in Resolved /\ sync[w].op # 0 =>
          /\ sub.installed <= sync[w].op /\ sync[w].op <= head
          /\ sub.current <= sync[w].op \/ FailedPlan(sub)

(* The types the comparisons need. *)
LEMMA NumberFacts ==
    ASSUME IInv
    PROVE  /\ sub.installed \in Nat /\ sub.current \in Nat /\ head \in Nat /\ head # 0
           /\ \A w \in Workers : sync[w].op \in Nat
<1>1. sub.installed \in 0 .. MaxVersion /\ sub.current \in 0 .. MaxVersion
    BY SubFacts, ZenonT(30) DEF SubStatus
<1>2. head \in Versions
    BY ZenonT(30) DEF IInv, TypeInv, TypeOK
<1>3. \A w \in Workers : sync[w].op \in 0 .. MaxVersion
    BY SyncFacts, ZenonT(30) DEF IInv
<1> QED
    BY <1>1, <1>2, <1>3, NamespaceResolutionAssumption DEF Versions

(* What the resolver finds for a Subscription that does not wait for a CSV:  *)
(* a version above the installed one or, if the lister lacks that, the head. *)
LEMMA ResolveUp ==
    ASSUME SkipsUp, IInv, StatusOK(sub), Ready(sub), sub.installed <= sub.current,
           sub.current <= head, NEW op, op # 0, Resolve(sub, op)
    PROVE  /\ sub.installed <= op /\ op <= head
           /\ sub.current <= op \/ FailedPlan(sub)
<1>1. op \in Candidates(sub) /\ \A v \in Candidates(sub) : v <= op
    BY ZenonT(30) DEF Resolve
<1>2. sub.installed \in Nat /\ sub.current \in Nat /\ head \in Nat /\ head # 0
    BY NumberFacts, ZenonT(30)
<1>3. op \in 1 .. head
    BY <1>1, ZenonT(30) DEF Candidates
<1>4. CASE sub.installed \in csvCache
  <2>1. sub.installed < op
    <3>1. op = sub.installed + 1 \/ <<sub.installed, op>> \in Skips
        BY <1>1, <1>4, ZenonT(30) DEF Candidates
    <3>2. <<sub.installed, op>> \in Skips => sub.installed < op
        BY ZenonT(30) DEF SkipsUp
    <3> QED
        BY <1>2, <1>3, <3>1, <3>2
  <2>2. sub.current = sub.installed \/ sub.current = 0 \/ FailedPlan(sub)
      BY ZenonT(30) DEF StatusOK, Ready
  <2> QED
      BY <1>2, <1>3, <2>1, <2>2, SMTT(30)
<1>5. CASE sub.installed \notin csvCache
  <2>1. head \in Candidates(sub)
      BY <1>2, <1>5 DEF Candidates
  <2>2. head <= op
      BY <1>1, <2>1, ZenonT(30)
  <2> QED
      BY <1>2, <1>3, <2>2
<1> QED
    BY <1>4, <1>5, ZenonT(30)

(* What NoDowngrade says of a step. *)
Forward ==
    /\ sub'.installed >= sub.installed
    /\ sub'.current >= sub.installed
    /\ sub'.current < sub.current => sub.ref # 0 /\ plans[sub.ref].phase = "Failed"

LEMMA WritesForward ==
    ASSUME IInv, ResolveInv, ForwardInv, NEW w \in Workers, Writes(w)
    PROVE  Forward /\ sub'.installed <= sub'.current /\ sub'.current <= head
<1>1. /\ sub.installed \in Nat /\ sub.current \in Nat /\ head \in Nat /\ sync[w].op \in Nat
      /\ sub.installed <= sub.current /\ sub.current <= head
    BY NumberFacts, ZenonT(30) DEF ForwardInv
<1>2. ASSUME sub'.current = sub.current, sub'.installed \in {sub.installed, sub.current}
      PROVE  Forward /\ sub'.installed <= sub'.current /\ sub'.current <= head
    BY <1>1, <1>2, SMTT(30) DEF Forward
<1>3. CASE sync[w].pc = "update" /\ sub' = sync[w].sub
    BY <1>2, <1>3, ZenonT(30) DEF ResolveInv, StepOK
<1>4. ASSUME NEW c, sub' = [sub EXCEPT !.conds = c]
      PROVE  sub'.current = sub.current /\ sub'.installed = sub.installed
    BY <1>4, SubFacts, ZenonT(30) DEF SubStatus
<1>5. CASE sync[w].pc = "cond" /\ \E c : sub' = [sync[w].sub EXCEPT !.conds = c]
  <2>1. sync[w].sub = sub
      BY <1>5, ZenonT(30) DEF ResolveInv, StepOK
  <2> QED
      BY <1>2, <1>4, <1>5, <2>1, ZenonT(30)
<1>6. CASE sync[w].pc = "final" /\ sub' = FinalStatus(w)
  <2>1. CASE Updates(w)
    <3>1. sub'.current = sync[w].op /\ sub'.installed = sub.installed
        BY <1>6, <2>1, FinalFields, ZenonT(30)
    <3>2. /\ sub.installed <= sync[w].op /\ sync[w].op <= head
          /\ sub.current <= sync[w].op \/ FailedPlan(sub)
        BY <1>6, <2>1, ZenonT(30) DEF ForwardInv, Updates, Resolved
    <3> QED
        BY <1>1, <3>1, <3>2, SMTT(30) DEF Forward, FailedPlan
  <2>2. CASE ~Updates(w)
      BY <1>2, <1>4, <1>6, <2>2, FinalFields, ZenonT(30)
  <2> QED
      BY <2>1, <2>2, ZenonT(30)
<1> QED
    BY <1>3, <1>5, <1>6, ZenonT(30) DEF Writes

LEMMA ForwardStep ==
    ASSUME OneWorker, SkipsUp, IInv, ResolveInv, ForwardInv, [Next]_vars
    PROVE  ForwardInv' /\ Forward
<1> DEFINE OK(w) == /\ sub.installed <= sync[w].op /\ sync[w].op <= head
                    /\ sub.current <= sync[w].op \/ FailedPlan(sub)
<1>1. /\ sub.installed \in Nat /\ sub.current \in Nat /\ head \in Nat
      /\ sub.installed <= sub.current /\ sub.current <= head
      /\ \A w \in Workers : sync[w].op \in Nat
    BY NumberFacts, ZenonT(30) DEF ForwardInv
<1>2. ASSUME UNCHANGED sub, FailedStay
      PROVE  (FailedPlan(sub) => FailedPlan(sub)') /\ Forward
    BY <1>1, <1>2, SubKept, SMTT(30) DEF Forward
<1>3. ASSUME NEW w \in Workers, Local(w) \/ Creates(w), FailedStay, UNCHANGED head
      PROVE  ForwardInv' /\ Forward
  <2>1. UNCHANGED sub
      BY <1>3, ZenonT(30) DEF Local, Creates
  <2>2. ASSUME sync'[w].pc \in Resolved, sync'[w].op # 0 PROVE OK(w)'
    <3>1. CASE Resolves(w)
      <4>1. StatusOK(sub) /\ Ready(sub) /\ Resolve(sub, sync'[w].op)
          BY <2>2, <3>1, ZenonT(30) DEF Resolves, ResolveInv, StepOK
      <4>2. /\ sub.installed <= sync'[w].op /\ sync'[w].op <= head
            /\ sub.current <= sync'[w].op \/ FailedPlan(sub)
          BY <1>1, <2>2, <4>1, ResolveUp, ZenonT(30)
      <4> QED
          BY <1>2, <1>3, <2>1, <4>2, ZenonT(30)
    <3>2. CASE Advances(w) \/ Completes(w) \/ Creates(w)
      <4>1. sync[w].pc \in Resolved /\ sync'[w].op = sync[w].op
          BY <3>2, ZenonT(30) DEF Advances, Completes, Creates, Keeps, Resolved
      <4> QED
          BY <1>2, <1>3, <2>1, <2>2, <4>1, ZenonT(30) DEF ForwardInv
    <3>3. ~(Starts(w) \/ Ends(w) \/ Finds(w) \/ Goes(w) \/ Fails(w))
        BY <2>2, ZenonT(30) DEF Starts, Ends, Finds, Goes, Fails, Resolved
    <3> QED
        BY <1>3, <3>1, <3>2, <3>3, ZenonT(30) DEF Local
  <2>3. \A v \in Workers : v = w
      BY ZenonT(30) DEF OneWorker
  <2>4. sub'.installed <= sub'.current /\ sub'.current <= head'
      BY <1>1, <1>3, <2>1, ZenonT(30)
  <2>5. ForwardInv'
      BY <2>2, <2>3, <2>4, ZenonT(30) DEF ForwardInv
  <2> QED
      BY <1>2, <1>3, <2>1, <2>5, ZenonT(30)
<1>4. ASSUME NEW w \in Workers, Writes(w), UNCHANGED head PROVE ForwardInv' /\ Forward
  <2>1. Forward /\ sub'.installed <= sub'.current /\ sub'.current <= head'
      BY <1>4, WritesForward, ZenonT(30)
  <2>2. \A v \in Workers : sync'[v].pc \notin Resolved
      BY <1>4, ZenonT(30) DEF OneWorker, Writes, Ends, Resolved
  <2> QED
      BY <2>1, <2>2, ZenonT(30) DEF ForwardInv
<1>5. CASE OthersShape
  <2>1. UNCHANGED sub /\ FailedStay /\ head <= head' /\ head' \in Nat
    <3>1. head' \in Versions
        BY TypeStep, ZenonT(30) DEF IInv, TypeInv, TypeOK
    <3> QED
        BY <1>5, <3>1, NamespaceResolutionAssumption, SMTT(30) DEF OthersShape, Versions
  <2>2. ASSUME NEW w \in Workers, sync'[w].pc \in Resolved, sync'[w].op # 0 PROVE OK(w)'
    <3>1. sync'[w] = sync[w]
        BY <1>5, <2>2, ZenonT(30) DEF OthersShape, Ends, Resolved
    <3>2. OK(w)
        BY <2>2, <3>1, ZenonT(30) DEF ForwardInv
    <3> QED
        BY <1>1, <1>2, <2>1, <3>1, <3>2, SMTT(30)
  <2>3. sub'.installed <= sub'.current /\ sub'.current <= head'
      BY <1>1, <2>1, SMTT(30)
  <2> QED
      BY <1>2, <2>1, <2>2, <2>3, ZenonT(30) DEF ForwardInv
<1> QED
    BY <1>3, <1>4, <1>5, StepShape, ZenonT(30)

(* With one worker per namespace and a channel whose edges lead upwards,     *)
(* whatever the listers lack, whichever requests fail and wherever the       *)
(* operator restarts, the installed CSV of the Subscription never goes back, *)
(* and its current CSV only from one whose plan failed.                      *)
THEOREM DowngradeSafe ==
    ASSUME OneWorker, SkipsUp
    PROVE  Spec => NoDowngrade
<1> DEFINE Inv == IInv /\ ResolveInv /\ ForwardInv
<1>1. Init => Inv
  <2> SUFFICES ASSUME Init PROVE ForwardInv
      BY IInvInit, ResolveInit, ZenonT(30)
  <2>1. sub.installed = 0 /\ sub.current = 0 /\ \A w \in Workers : sync[w].pc = "idle"
      BY ZenonT(30) DEF Init, NewSub, IdleSync
  <2>2. head \in Nat
      BY IInvInit, NumberFacts, ZenonT(30)
  <2> QED
      BY <2>1, <2>2, SMTT(30) DEF ForwardInv, Resolved
<1>2. Inv /\ [Next]_vars => Inv'
    BY IInvStep, ResolveStep, ForwardStep, ZenonT(30)
<1>3. Inv /\ [Next]_vars => [Forward]_vars
    BY ForwardStep, ZenonT(30)
<1> QED
    BY <1>1, <1>2, <1>3, PTL DEF Spec, NoDowngrade, Forward

=============================================================================
