------------------------- MODULE InstallPlansProofs -------------------------
(***************************************************************************)
(* Proofs about InstallPlans, for any number of workers, plans, versions,  *)
(* steps and faults.                                                       *)
(***************************************************************************)
EXTENDS InstallPlans, SequenceTheorems, WellFoundedInduction, TLAPS

(* What holds of a record of plan p, in the cluster or in a worker's hands,  *)
(* when A, X and E are applied, expired and problem.                         *)
RecOK(rec, p, A, X, E) ==
    /\ rec.phase = "Complete" => A[p] = Steps
    /\ rec.phase = "Failed" => p \in X /\ "other" \in E[p]
    /\ \A s \in Steps : rec.status[s] \in {"Created", "Present", "WaitingForApi"} => s \in A[p]
    /\ rec.phase # "RequiresApproval" => rec.approved

(* Writing new over old undoes nothing, and old may still be written. *)
Continues(old, new) ==
    /\ \A s \in Steps : old.status[s] \in {"Created", "Present"} => new.status[s] = old.status[s]
    /\ old.started => new.started
    /\ old.approved => new.approved
    /\ old.sa => new.sa
    /\ old.phase \notin {"Complete", "Failed"}

(* What a worker relies on: the steps it is past were applied, and as long   *)
(* as the API server would accept its copy, the copy continues the plan.     *)
WorkerOK(r, P, A, X, E, c) ==
    /\ RecOK(r.out, r.p, A, X, E)
    /\ r.late => r.p \in X
    /\ r.pc = "query" => r.out.phase \in {"RequiresApproval", "Installing"}
    /\ r.pc = "step" => /\ r.out.phase = "Installing"
                        /\ \A s \in Steps : s < r.i => s \in A[r.p]
    /\ r.fresh => r.p <= c /\ Continues(P[r.p], r.out)

(* The inductive invariant *)
IInv ==
    /\ TypeOK
    /\ \A p \in live : p <= created
    /\ \A p \in PlanIds : RecOK(plan[p], p, applied, expired, problem)
    /\ \A w \in Workers : WorkerOK(sync[w], plan, applied, expired, problem, created)

-----------------------------------------------------------------------------
(* Constants *)

LEMMA StepsType == Len(Kind) \in Nat \ {0} /\ Steps = 1..Len(Kind)
<1>1. Kind \in Seq(Kinds) /\ Kind # <<>>
    BY ConstantsAssumption, ZenonT(30)
<1>2. Len(Kind) \in Nat /\ DOMAIN Kind = 1..Len(Kind)
    BY <1>1, LenProperties, ZenonT(30)
<1>3. Len(Kind) # 0
    BY <1>1, EmptySeq, ZenonT(30)
<1> QED
    BY <1>2, <1>3, ZenonT(30) DEF Steps

LEMMA MinMember ==
    ASSUME NEW S, S \subseteq Nat, S # {}
    PROVE  Min(S) \in S /\ \A y \in S : Min(S) <= y
<1>1. PICK x \in S : \A y \in S : ~(<<y, x>> \in OpToRel(<, Nat))
    BY NatLessThanWellFounded, WFMin, ZenonT(30)
<1>2. \A y \in S : ~(y < x)
    BY <1>1, Zenon DEF OpToRel
<1>3. \A y \in S : x <= y
    BY <1>2
<1> QED
    BY <1>3, ZenonT(30) DEF Min

(* ExecutePlan passes only steps that were applied. *)
LEMMA ToDoNext ==
    ASSUME NEW out \in PlanRec, NEW i \in 1..(Len(Kind) + 1)
    PROVE  /\ ToDo(out, i) \in 1..(Len(Kind) + 1)
           /\ ToDo(out, i) >= i
           /\ \A s \in Steps : i <= s /\ s < ToDo(out, i) =>
                 out.status[s] \in {"Created", "Present", "WaitingForApi"}
<1> DEFINE left == {s \in Steps : /\ s >= i
                                  /\ out.status[s] \notin {"Present", "Created"}
                                  /\ out.status[s] = "WaitingForApi" => Kind[s] = "CRD"}
<1>1. Len(Kind) \in Nat /\ Steps = 1..Len(Kind)
    BY StepsType, ZenonT(30)
<1>2. ToDo(out, i) = IF left = {} THEN Len(Kind) + 1 ELSE Min(left)
    BY ZenonT(30) DEF ToDo
<1>3. left \subseteq Nat
    BY <1>1
<1>4. left # {} => Min(left) \in left /\ \A y \in left : Min(left) <= y
    BY <1>3, MinMember, ZenonT(30)
<1>5. \A s \in Steps : s \notin left /\ i <= s =>
          out.status[s] \in {"Created", "Present", "WaitingForApi"}
    BY <1>1, ZenonT(30)
<1>6. \A s \in left : s \in Steps /\ s >= i
    BY ZenonT(30)
<1> HIDE DEF left
<1>7. CASE left = {}
    <2>1. ToDo(out, i) = Len(Kind) + 1
        BY <1>2, <1>7, ZenonT(30)
    <2>2. \A s \in Steps : s \notin left
        BY <1>7, ZenonT(30)
    <2> QED
        BY <1>1, <1>5, <2>1, <2>2
<1>8. CASE left # {}
    <2>1. ToDo(out, i) = Min(left)
        BY <1>2, <1>8, ZenonT(30)
    <2>2. Min(left) \in Steps /\ Min(left) >= i
        BY <1>4, <1>6, <1>8, ZenonT(30)
    <2>3. \A s \in Steps : s < Min(left) => s \notin left
        BY <1>1, <1>4, <1>6, <1>8, <2>2
    <2> QED
        BY <1>1, <1>5, <2>1, <2>2, <2>3
<1> QED
    BY <1>7, <1>8, ZenonT(30)

-----------------------------------------------------------------------------
(* Types *)

LEMMA NewPlanType ==
    ASSUME NEW v \in Versions, NEW a \in {"Automatic", "Manual"}
    PROVE  NewPlan(v, a) \in PlanRec
    BY ZenonT(30) DEF NewPlan, PlanRec, Phases, Conds, Statuses

LEMMA FirstVersion == 1 \in Versions /\ 1 \in PlanIds
    BY ConstantsAssumption DEF Versions, PlanIds

LEMMA IdleType == Idle \in SyncRec
<1>1. NewPlan(1, "Automatic") \in PlanRec
    BY FirstVersion, NewPlanType, ZenonT(30)
<1>2. 1 \in 1..(Len(Kind) + 1)
    BY StepsType
<1> QED
    BY <1>1, <1>2, FirstVersion, ZenonT(30) DEF Idle, SyncRec

LEMMA RecType ==
    ASSUME NEW rec \in PlanRec
    PROVE  /\ \A x \in Phases : [rec EXCEPT !.phase = x] \in PlanRec
           /\ \A x \in Conds : [rec EXCEPT !.cond = x] \in PlanRec
           /\ \A x \in Phases, y \in Conds : [rec EXCEPT !.phase = x, !.cond = y] \in PlanRec
           /\ [rec EXCEPT !.sa = TRUE] \in PlanRec
           /\ [rec EXCEPT !.approved = TRUE] \in PlanRec
           /\ [rec EXCEPT !.started = TRUE] \in PlanRec
           /\ \A s \in Steps, x \in Statuses : [rec EXCEPT !.status[s] = x] \in PlanRec
    BY ZenonT(30) DEF PlanRec

LEMMA RecFields ==
    ASSUME NEW rec \in PlanRec
    PROVE  /\ rec.version \in Versions /\ rec.phase \in Phases /\ rec.cond \in Conds
           /\ rec.approved \in BOOLEAN /\ rec.started \in BOOLEAN /\ rec.sa \in BOOLEAN
           /\ rec.status \in [Steps -> Statuses]
    BY ZenonT(30) DEF PlanRec

LEMMA SyncFields ==
    ASSUME NEW r \in SyncRec
    PROVE  /\ r.pc \in {"idle", "query", "step", "write"} /\ r.p \in PlanIds
           /\ r.out \in PlanRec /\ r.i \in 1..(Len(Kind) + 1)
           /\ r.fresh \in BOOLEAN /\ r.late \in BOOLEAN
    BY ZenonT(30) DEF SyncRec

LEMMA AfterExecuteType ==
    ASSUME NEW out \in PlanRec, NEW err, NEW late
    PROVE  AfterExecute(out, err, late) \in PlanRec
<1>1. /\ [out EXCEPT !.phase = "Failed", !.cond = "ComponentFailed"] \in PlanRec
      /\ [out EXCEPT !.phase = "Complete", !.cond = "Met"] \in PlanRec
    BY RecType, ZenonT(30) DEF Phases, Conds
<1> QED
    BY <1>1, ZenonT(30) DEF AfterExecute

LEMMA FaultType ==
    ASSUME faults \in 0..MaxFaults, NEW kind, Fault(kind)
    PROVE  faults' \in 0..MaxFaults
    BY ConstantsAssumption DEF Fault

(* Every worker but w keeps its record, up to the flag that a write clears.  *)
LEMMA OutdateType ==
    ASSUME sync \in [Workers -> SyncRec], NEW w \in Workers, NEW next \in SyncRec, NEW p
    PROVE  /\ Outdate(p, w, next) \in [Workers -> SyncRec]
           /\ Outdate(p, w, next)[w] = next
           /\ \A x \in Workers : x # w =>
                 Outdate(p, w, next)[x] = [sync[x] EXCEPT !.fresh = @ /\ sync[x].p # p]
<1>1. \A x \in Workers : [sync[x] EXCEPT !.fresh = @ /\ sync[x].p # p] \in SyncRec
    BY ZenonT(30) DEF SyncRec
<1> QED
    BY <1>1, ZenonT(30) DEF Outdate

LEMMA UpdateStatusType ==
    ASSUME TypeOK, NEW w \in Workers, NEW rec \in PlanRec, NEW next \in SyncRec,
           Put(w, rec, next)
    PROVE  plan' \in [PlanIds -> PlanRec] /\ sync' \in [Workers -> SyncRec]
<1>1. /\ plan \in [PlanIds -> PlanRec] /\ sync \in [Workers -> SyncRec]
      /\ Outdate(sync[w].p, w, next) \in [Workers -> SyncRec]
    BY OutdateType, ZenonT(30) DEF TypeOK
<1> QED
    BY <1>1, IdleType, ZenonT(30) DEF Put

LEMMA DoneType ==
    ASSUME TypeOK, NEW w \in Workers, sync[w].i \in Steps, NEW x \in Statuses, Done(w, x)
    PROVE  /\ sync' \in [Workers -> SyncRec]
           /\ sync' = [sync EXCEPT ![w] =
                         [sync[w] EXCEPT !.out = [sync[w].out EXCEPT !.status[sync[w].i] = x],
                                         !.i = ToDo(sync[w].out, sync[w].i + 1)]]
<1> DEFINE out == [sync[w].out EXCEPT !.status[sync[w].i] = x]
           next == ToDo(sync[w].out, sync[w].i + 1)
<1>1. sync \in [Workers -> SyncRec] /\ sync[w] \in SyncRec
    BY ZenonT(30) DEF TypeOK
<1>2. sync[w].out \in PlanRec
    BY <1>1, SyncFields, ZenonT(30)
<1>3. out \in PlanRec
    BY <1>2, RecType, ZenonT(30)
<1>4. sync[w].i + 1 \in 1..(Len(Kind) + 1)
    BY StepsType
<1>5. next \in 1..(Len(Kind) + 1)
    BY <1>2, <1>4, ToDoNext, ZenonT(30)
<1>6. sync' = [sync EXCEPT ![w] = [sync[w] EXCEPT !.out = out, !.i = next]]
    BY <1>1, <1>2, ZenonT(30) DEF Done, SyncRec, PlanRec
<1> HIDE DEF out, next
<1>7. [sync[w] EXCEPT !.out = out, !.i = next] \in SyncRec
    BY <1>1, <1>3, <1>5, ZenonT(30) DEF SyncRec
<1>8. sync' \in [Workers -> SyncRec]
    BY <1>1, <1>6, <1>7, ZenonT(30)
<1> QED
    BY <1>6, <1>8, ZenonT(30) DEF out, next

LEMMA InitType == Init => TypeOK
<1> SUFFICES ASSUME Init PROVE TypeOK
    BY ZenonT(30)
<1> USE ConstantsAssumption
<1>1. NewPlan(1, "Automatic") \in PlanRec
    BY FirstVersion, NewPlanType, ZenonT(30)
<1>2. plan \in [PlanIds -> PlanRec] /\ created \in 0..MaxPlans
    BY <1>1 DEF Init
<1>3. live \subseteq PlanIds /\ expired \subseteq PlanIds /\ rbac \subseteq PlanIds
    BY ZenonT(30) DEF Init
<1>4. csvs \subseteq Versions /\ object \in [Steps -> 0..MaxVersion] /\ established \subseteq Steps
    BY DEF Init
<1>5. denied \subseteq Steps
    BY ZenonT(30) DEF Init
<1>6. head \in Versions /\ sub \in SubRec
    BY FirstVersion DEF Init, SubRec, SubStates
<1>7. sync \in [Workers -> SyncRec]
    BY IdleType, ZenonT(30) DEF Init
<1>8. subSync \in SubSyncRec
    BY ZenonT(30) DEF Init, SubIdle, SubSyncRec, Phases
<1>9. faults \in 0..MaxFaults /\ applied \in [PlanIds -> SUBSET Steps]
    BY DEF Init
<1>10. problem \in [PlanIds -> SUBSET {"forbidden", "other"}]
    BY ZenonT(30) DEF Init
<1> QED
    BY <1>2, <1>3, <1>4, <1>5, <1>6, <1>7, <1>8, <1>9, <1>10, ZenonT(30) DEF TypeOK

(* A step of a worker writes at most its plan, its record, the objects of    *)
(* the cluster and the histories.                                            *)
LEMMA WorkerType ==
    ASSUME TypeOK, UNCHANGED <<live, created, expired, established, denied, rbac, head, sub, subSync>>,
           plan' \in [PlanIds -> PlanRec], sync' \in [Workers -> SyncRec],
           csvs' \subseteq Versions, object' \in [Steps -> 0..MaxVersion],
           faults' \in 0..MaxFaults, applied' \in [PlanIds -> SUBSET Steps],
           problem' \in [PlanIds -> SUBSET {"forbidden", "other"}]
    PROVE  TypeOK'
    BY ZenonT(30) DEF TypeOK

(* What a worker's step may rely on. *)
LEMMA WorkerFacts ==
    ASSUME TypeOK, NEW w \in Workers
    PROVE  /\ plan \in [PlanIds -> PlanRec] /\ sync \in [Workers -> SyncRec]
           /\ csvs \subseteq Versions /\ object \in [Steps -> 0..MaxVersion]
           /\ faults \in 0..MaxFaults /\ applied \in [PlanIds -> SUBSET Steps]
           /\ problem \in [PlanIds -> SUBSET {"forbidden", "other"}]
           /\ sync[w] \in SyncRec /\ sync[w].p \in PlanIds /\ sync[w].out \in PlanRec
           /\ sync[w].out.version \in Versions /\ sync[w].out.status \in [Steps -> Statuses]
           /\ sync[w].i \in 1..(Len(Kind) + 1)
           /\ plan[sync[w].p] \in PlanRec
<1>1. sync[w] \in SyncRec /\ plan \in [PlanIds -> PlanRec]
    BY ZenonT(30) DEF TypeOK
<1>2. sync[w].p \in PlanIds /\ sync[w].out \in PlanRec /\ sync[w].i \in 1..(Len(Kind) + 1)
    BY <1>1, SyncFields, ZenonT(30)
<1>3. sync[w].out.version \in Versions /\ sync[w].out.status \in [Steps -> Statuses]
    BY <1>2, RecFields, ZenonT(30)
<1> QED
    BY <1>1, <1>2, <1>3, ZenonT(30) DEF TypeOK

(* ExecutePlan stopping at a step, or past the last one. *)
LEMMA StopType ==
    ASSUME TypeOK, NEW w \in Workers, NEW err,
           sync' = [sync EXCEPT ![w].pc = "write", ![w].out = AfterExecute(@, err, sync[w].late)]
    PROVE  /\ sync' \in [Workers -> SyncRec]
           /\ sync' = [sync EXCEPT ![w] = [sync[w] EXCEPT !.pc = "write",
                                            !.out = AfterExecute(sync[w].out, err, sync[w].late)]]
<1> DEFINE out == AfterExecute(sync[w].out, err, sync[w].late)
<1>1. sync \in [Workers -> SyncRec] /\ sync[w] \in SyncRec /\ out \in PlanRec
    BY WorkerFacts, AfterExecuteType, ZenonT(30)
<1>2. sync' = [sync EXCEPT ![w] = [sync[w] EXCEPT !.pc = "write", !.out = out]]
    BY <1>1, ZenonT(30) DEF SyncRec
<1> HIDE DEF out
<1>3. [sync[w] EXCEPT !.pc = "write", !.out = out] \in SyncRec
    BY <1>1, ZenonT(30) DEF SyncRec
<1>4. sync' \in [Workers -> SyncRec]
    BY <1>1, <1>2, <1>3, ZenonT(30)
<1> QED
    BY <1>2, <1>4, ZenonT(30) DEF out

LEMMA ReachedType ==
    ASSUME TypeOK, NEW w \in Workers, sync[w].i \in Steps, Reached(w)
    PROVE  applied' \in [PlanIds -> SUBSET Steps]
    BY WorkerFacts, ZenonT(30) DEF Reached

LEMMA ProblemType ==
    ASSUME TypeOK, NEW w \in Workers, NEW err \in {"forbidden", "other"}, Stop(w, err)
    PROVE  problem' \in [PlanIds -> SUBSET {"forbidden", "other"}]
    BY WorkerFacts, ZenonT(30) DEF Stop

(* A status write, accepted or refused or lost. *)
LEMMA StatusWriteType ==
    ASSUME TypeOK, NEW w \in Workers, NEW rec \in PlanRec, NEW next \in SyncRec,
           UpdateStatus(w, rec, next),
           UNCHANGED <<live, created, expired, clusterVars, rbac, head, sub, subSync, applied, problem>>
    PROVE  TypeOK'
<1>1. CASE Put(w, rec, next) /\ UNCHANGED faults
    <2>1. plan' \in [PlanIds -> PlanRec] /\ sync' \in [Workers -> SyncRec]
        BY <1>1, UpdateStatusType, ZenonT(30)
    <2> QED
        BY <1>1, <2>1, WorkerFacts, WorkerType, ZenonT(30) DEF clusterVars
<1>2. CASE Accepted(w) /\ Fault("write") /\ sync' = [sync EXCEPT ![w] = Idle] /\ UNCHANGED plan
    <2>1. faults' \in 0..MaxFaults
        BY <1>2, FaultType, WorkerFacts, ZenonT(30)
    <2>2. sync' \in [Workers -> SyncRec]
        BY <1>2, IdleType, WorkerFacts, ZenonT(30)
    <2> QED
        BY <1>2, <2>1, <2>2, WorkerFacts, WorkerType, ZenonT(30) DEF clusterVars
<1> QED
    BY <1>1, <1>2, ZenonT(30) DEF UpdateStatus

LEMMA SyncStepType ==
    ASSUME TypeOK, NEW w \in Workers, SyncStep(w)
    PROVE  TypeOK'
<1> DEFINE r == sync[w]
<1>0. /\ r \in SyncRec /\ r.p \in PlanIds /\ r.out \in PlanRec /\ r.out.version \in Versions
      /\ r.out.phase \in Phases /\ r.i \in 1..(Len(Kind) + 1)
    BY WorkerFacts, RecFields, ZenonT(30)
<1>v. Version(w) \in 0..MaxVersion /\ object \in [Steps -> 0..MaxVersion]
    BY <1>0, WorkerFacts, ConstantsAssumption DEF Version, Versions
<1>1. CASE QueryFails(w)
    <2> DEFINE rec == [r.out EXCEPT !.cond = "InstallCheckFailed"]
    <2>1. rec \in PlanRec
        BY <1>0, RecType, ZenonT(30) DEF Conds
    <2>2. plan' \in [PlanIds -> PlanRec] /\ sync' \in [Workers -> SyncRec]
        BY <1>1, <2>1, IdleType, UpdateStatusType, ZenonT(30) DEF QueryFails
    <2>3. faults' \in 0..MaxFaults
        BY <1>1, FaultType, WorkerFacts, ZenonT(30) DEF QueryFails
    <2> QED
        BY <1>1, <2>2, <2>3, WorkerFacts, WorkerType, ZenonT(30) DEF QueryFails, clusterVars
<1>2. CASE ResetCondition(w)
    <2> DEFINE rec == [r.out EXCEPT !.cond = ""]
    <2>1. rec \in PlanRec
        BY <1>0, RecType, ZenonT(30) DEF Conds
    <2>2. UpdateStatus(w, rec, [r EXCEPT !.out = rec])
        BY <1>2, ZenonT(30) DEF ResetCondition
    <2> HIDE DEF rec
    <2>3. [r EXCEPT !.out = rec] \in SyncRec
        BY <1>0, <2>1, ZenonT(30) DEF SyncRec
    <2> QED
        BY <1>2, <2>1, <2>2, <2>3, StatusWriteType, ZenonT(30) DEF ResetCondition
<1>3. CASE Attach(w)
    <2>1. [r.out EXCEPT !.sa = TRUE] \in PlanRec
        BY <1>0, RecType, ZenonT(30)
    <2> QED
        BY <1>3, <2>1, IdleType, StatusWriteType, ZenonT(30) DEF Attach
<1>4. CASE Transition(w)
    <2>1. /\ [r.out EXCEPT !.phase = "Installing"] \in PlanRec
          /\ [r.out EXCEPT !.phase = r.out.phase] \in PlanRec
          /\ [r.out EXCEPT !.started = TRUE] \in PlanRec
        BY <1>0, RecType, ZenonT(30) DEF Phases
    <2>2. ToDo(r.out, 1) \in 1..(Len(Kind) + 1)
        BY <1>0, ToDoNext, StepsType
    <2>3. (r.out.started /\ r.p \in expired) \in BOOLEAN
        BY ZenonT(30)
    <2>4. sync' \in [Workers -> SyncRec]
        <3>1. CASE r.out.phase = "RequiresApproval"
            <4>1. sync' = [sync EXCEPT ![w] = [r EXCEPT !.pc = "write",
                             !.out = [r.out EXCEPT !.phase = IF r.out.approved THEN "Installing" ELSE r.out.phase]]]
                BY <1>0, <1>4, <3>1, WorkerFacts, ZenonT(30) DEF Transition, SyncRec
            <4>2. [r.out EXCEPT !.phase = IF r.out.approved THEN "Installing" ELSE r.out.phase] \in PlanRec
                BY <2>1, ZenonT(30)
            <4>3. \A x \in PlanRec : [r EXCEPT !.pc = "write", !.out = x] \in SyncRec
                BY <1>0, ZenonT(30) DEF SyncRec
            <4> QED
                BY <4>1, <4>2, <4>3, WorkerFacts, ZenonT(30)
        <3>2. CASE r.out.phase # "RequiresApproval"
            <4>1. sync' = [sync EXCEPT ![w] = [r EXCEPT !.pc = "step", !.i = ToDo(r.out, 1),
                             !.out = [r.out EXCEPT !.started = TRUE],
                             !.late = r.out.started /\ r.p \in expired]]
                BY <1>0, <1>4, <3>2, WorkerFacts, ZenonT(30) DEF Transition, SyncRec
            <4>2. \A x \in PlanRec, k \in 1..(Len(Kind) + 1), b \in BOOLEAN :
                     [r EXCEPT !.pc = "step", !.i = k, !.out = x, !.late = b] \in SyncRec
                BY <1>0, ZenonT(30) DEF SyncRec
            <4>3. [r EXCEPT !.pc = "step", !.i = ToDo(r.out, 1), !.out = [r.out EXCEPT !.started = TRUE],
                            !.late = r.out.started /\ r.p \in expired] \in SyncRec
                BY <4>2, <2>1, <2>2, <2>3, Zenon
            <4> QED
                BY <4>1, <4>3, WorkerFacts, ZenonT(30)
        <3> QED
            BY <3>1, <3>2, ZenonT(30)
    <2> QED
        BY <1>4, <2>4, WorkerFacts, WorkerType, ZenonT(30) DEF Transition, planVars, clusterVars
<1>5. CASE CSVStep(w)
    <2>1. sync' \in [Workers -> SyncRec]
        BY <1>5, DoneType, ZenonT(30) DEF CSVStep, Executing, EnsureClusterServiceVersion, Statuses
    <2>2. applied' \in [PlanIds -> SUBSET Steps]
        BY <1>5, ReachedType, ZenonT(30) DEF CSVStep, Executing
    <2>3. csvs' \subseteq Versions
        BY <1>5, <1>0, WorkerFacts, ZenonT(30) DEF CSVStep, Version
    <2> QED
        BY <1>5, <2>1, <2>2, <2>3, WorkerFacts, WorkerType, ZenonT(30) DEF CSVStep, planVars
<1>6. CASE CRDWait(w)
    <2>1. sync' \in [Workers -> SyncRec]
        BY <1>6, DoneType, ZenonT(30) DEF CRDWait, Executing, CRDWaitStatus, Statuses
    <2> QED
        BY <1>6, <2>1, WorkerFacts, WorkerType, ZenonT(30) DEF CRDWait, planVars, clusterVars
<1>7. CASE CRDStep(w)
    <2>1. sync' \in [Workers -> SyncRec]
        BY <1>7, DoneType, ZenonT(30) DEF CRDStep, Executing, Statuses
    <2>2. applied' \in [PlanIds -> SUBSET Steps]
        BY <1>7, ReachedType, ZenonT(30) DEF CRDStep, Executing
    <2>3. object' \in [Steps -> 0..MaxVersion]
        BY <1>7, <1>v, ZenonT(30) DEF CRDStep, Executing
    <2> QED
        BY <1>7, <2>1, <2>2, <2>3, WorkerFacts, WorkerType, ZenonT(30) DEF CRDStep, planVars
<1>8. CASE RoleStep(w)
    <2>1. sync' \in [Workers -> SyncRec]
        BY <1>8, DoneType, ZenonT(30) DEF RoleStep, Executing, EnsureStatus, Statuses
    <2>2. applied' \in [PlanIds -> SUBSET Steps]
        BY <1>8, ReachedType, ZenonT(30) DEF RoleStep, Executing
    <2>3. object' \in [Steps -> 0..MaxVersion]
        BY <1>8, <1>v, ZenonT(30) DEF RoleStep, EnsureRole, Executing
    <2> QED
        BY <1>8, <2>1, <2>2, <2>3, WorkerFacts, WorkerType, ZenonT(30) DEF RoleStep, planVars
<1>9. CASE SecretStep(w)
    <2>1. sync' \in [Workers -> SyncRec]
        BY <1>9, DoneType, ZenonT(30) DEF SecretStep, Executing, EnsureStatus, Statuses
    <2>2. applied' \in [PlanIds -> SUBSET Steps]
        BY <1>9, ReachedType, ZenonT(30) DEF SecretStep, Executing
    <2>3. object' \in [Steps -> 0..MaxVersion]
        BY <1>9, <1>v, ZenonT(30) DEF SecretStep, Executing
    <2> QED
        BY <1>9, <2>1, <2>2, <2>3, WorkerFacts, WorkerType, ZenonT(30) DEF SecretStep, planVars
<1>10. CASE StepForbidden(w)
    <2>1. PICK err \in {"forbidden", "other"} : Stop(w, err)
        BY <1>10, ZenonT(30) DEF StepForbidden, Refusal
    <2> QED
        BY <1>10, <2>1, StopType, ProblemType, WorkerFacts, WorkerType, ZenonT(30)
        DEF StepForbidden, Stop, planVars, clusterVars
<1>11. CASE OwnerMissing(w)
    BY <1>11, StopType, ProblemType, WorkerFacts, WorkerType, ZenonT(30) DEF OwnerMissing, Stop, planVars, clusterVars
<1>12. CASE StepFails(w)
    <2>1. faults' \in 0..MaxFaults
        BY <1>12, FaultType, WorkerFacts, ZenonT(30) DEF StepFails
    <2> QED
        BY <1>12, <2>1, StopType, ProblemType, WorkerFacts, WorkerType, ZenonT(30)
        DEF StepFails, Stop, planVars, clusterVars
<1>13. CASE StepsDone(w)
    BY <1>13, StopType, WorkerFacts, WorkerType, ZenonT(30) DEF StepsDone, planVars, clusterVars
<1>14. CASE Write(w)
    BY <1>14, <1>0, IdleType, StatusWriteType, ZenonT(30) DEF Write
<1> QED
    BY <1>1, <1>2, <1>3, <1>4, <1>5, <1>6, <1>7, <1>8, <1>9, <1>10, <1>11, <1>12, <1>13, <1>14, ZenonT(30)
    DEF SyncStep

LEMMA StartSyncType ==
    ASSUME TypeOK, NEW w \in Workers, NEW p \in PlanIds, StartSync(w, p)
    PROVE  TypeOK'
<1>1. plan[p] \in PlanRec
    BY WorkerFacts, ZenonT(30)
<1>2. [Idle EXCEPT !.pc = "query", !.p = p, !.out = plan[p], !.fresh = TRUE] \in SyncRec
    BY <1>1, IdleType, ZenonT(30) DEF SyncRec
<1>3. sync' \in [Workers -> SyncRec]
    BY <1>2, WorkerFacts, ZenonT(30) DEF StartSync
<1> QED
    BY <1>3, WorkerFacts, WorkerType, ZenonT(30) DEF StartSync, planVars, clusterVars

(* A write by another process leaves the workers with copies out of date. *)
LEMMA StaleType ==
    ASSUME sync \in [Workers -> SyncRec], NEW p,
           sync' = [x \in Workers |-> [sync[x] EXCEPT !.fresh = @ /\ sync[x].p # p]]
    PROVE  sync' \in [Workers -> SyncRec]
<1>1. \A x \in Workers : [sync[x] EXCEPT !.fresh = @ /\ sync[x].p # p] \in SyncRec
    BY ZenonT(30) DEF SyncRec
<1> QED
    BY <1>1, ZenonT(30)

LEMMA PlanActionType ==
    ASSUME TypeOK, NEW p \in PlanIds,
           TriggerRetry(p) \/ Approve(p) \/ DeletePlan(p) \/ Expire(p)
    PROVE  TypeOK'
<1>0. plan \in [PlanIds -> PlanRec] /\ plan[p] \in PlanRec /\ sync \in [Workers -> SyncRec]
    BY ZenonT(30) DEF TypeOK
<1>1. [plan[p] EXCEPT !.phase = "Installing"] \in PlanRec /\ [plan[p] EXCEPT !.approved = TRUE] \in PlanRec
    BY <1>0, RecType, ZenonT(30) DEF Phases
<1>2. CASE TriggerRetry(p)
    <2>1. plan' \in [PlanIds -> PlanRec] /\ sync' \in [Workers -> SyncRec] /\ rbac' \subseteq PlanIds
        BY <1>0, <1>1, <1>2, StaleType, ZenonT(30) DEF TriggerRetry, TypeOK
    <2> QED
        BY <1>2, <2>1, ZenonT(30) DEF TriggerRetry, TypeOK, clusterVars
<1>3. CASE Approve(p)
    <2>1. plan' \in [PlanIds -> PlanRec] /\ sync' \in [Workers -> SyncRec]
        BY <1>0, <1>1, <1>3, StaleType, ZenonT(30) DEF Approve
    <2> QED
        BY <1>3, <2>1, ZenonT(30) DEF Approve, TypeOK, clusterVars
<1>4. CASE DeletePlan(p)
    <2>1. faults' \in 0..MaxFaults
        BY <1>4, FaultType, ZenonT(30) DEF DeletePlan, TypeOK
    <2> QED
        BY <1>4, <2>1, ZenonT(30) DEF DeletePlan, TypeOK, clusterVars
<1>5. CASE Expire(p)
    BY <1>5, ZenonT(30) DEF Expire, TypeOK, clusterVars
<1> QED
    BY <1>2, <1>3, <1>4, <1>5, ZenonT(30)

LEMMA ObjectActionType ==
    ASSUME TypeOK,
           \/ \E s \in Steps : DeleteCRD(s) \/ Establish(s)
           \/ \E v \in Versions : DeleteCSV(v)
           \/ CatalogUpdate \/ Grant \/ Restart
    PROVE  TypeOK'
<1>1. ASSUME NEW s \in Steps, DeleteCRD(s) PROVE TypeOK'
    <2>1. faults' \in 0..MaxFaults
        BY <1>1, FaultType, ZenonT(30) DEF DeleteCRD, TypeOK
    <2>2. object' \in [Steps -> 0..MaxVersion] /\ established' \subseteq Steps
        BY <1>1, ConstantsAssumption DEF DeleteCRD, TypeOK
    <2> QED
        BY <1>1, <2>1, <2>2, ZenonT(30) DEF DeleteCRD, TypeOK, planVars
<1>2. ASSUME NEW s \in Steps, Establish(s) PROVE TypeOK'
    BY <1>2, ZenonT(30) DEF Establish, TypeOK, planVars
<1>3. ASSUME NEW v \in Versions, DeleteCSV(v) PROVE TypeOK'
    <2>1. faults' \in 0..MaxFaults
        BY <1>3, FaultType, ZenonT(30) DEF DeleteCSV, TypeOK
    <2> QED
        BY <1>3, <2>1, ZenonT(30) DEF DeleteCSV, TypeOK, planVars
<1>4. CASE CatalogUpdate
    <2>1. faults' \in 0..MaxFaults
        BY <1>4, FaultType, ZenonT(30) DEF CatalogUpdate, TypeOK
    <2>2. head' \in Versions
        BY <1>4, ConstantsAssumption DEF CatalogUpdate, TypeOK, Versions
    <2> QED
        BY <1>4, <2>1, <2>2, ZenonT(30) DEF CatalogUpdate, TypeOK, planVars, clusterVars
<1>5. CASE Grant
    BY <1>5, ZenonT(30) DEF Grant, TypeOK, planVars
<1>6. CASE Restart
    <2>1. faults' \in 0..MaxFaults
        BY <1>6, FaultType, ZenonT(30) DEF Restart, TypeOK
    <2>2. sync' \in [Workers -> SyncRec]
        BY <1>6, IdleType, ZenonT(30) DEF Restart
    <2>3. subSync' \in SubSyncRec
        BY <1>6, ZenonT(30) DEF Restart, SubIdle, SubSyncRec, Phases
    <2> QED
        BY <1>6, <2>1, <2>2, <2>3, ZenonT(30) DEF Restart, TypeOK, planVars, clusterVars
<1> QED
    BY <1>1, <1>2, <1>3, <1>4, <1>5, <1>6, ZenonT(30)

LEMMA SubActionType ==
    ASSUME TypeOK, SubRead \/ SubWrite \/ Resolve
    PROVE  TypeOK'
<1>1. CASE SubRead
    <2>1. \A p \in PlanIds : plan[p].phase \in Phases
        BY RecFields, ZenonT(30) DEF TypeOK
    <2>2. sub.ref \in live => sub.ref \in PlanIds
        BY ZenonT(30) DEF TypeOK
    <2>3. subSync' \in SubSyncRec
        BY <1>1, <2>1, <2>2, ZenonT(30) DEF SubRead, SubSyncRec
    <2> QED
        BY <1>1, <2>3, ZenonT(30) DEF SubRead, TypeOK, planVars, clusterVars
<1>2. CASE SubWrite
    <2>1. sub \in SubRec
        BY ZenonT(30) DEF TypeOK
    <2>2. CheckInstallPlanStatus(sub, subSync.phase) \in SubRec
        BY <2>1, ZenonT(30) DEF CheckInstallPlanStatus, SubRec, SubConds
    <2>3. InstallPlanNotFound(sub) \in SubRec
        BY <2>1, ConstantsAssumption DEF InstallPlanNotFound, SubRec, SubConds, SubStates
    <2>4. sub' \in SubRec
        BY <1>2, <2>1, <2>2, <2>3, ZenonT(30) DEF SubWrite, Reconciled
    <2>5. subSync' \in SubSyncRec
        BY <1>2, ZenonT(30) DEF SubWrite, SubIdle, SubSyncRec, Phases
    <2> QED
        BY <1>2, <2>4, <2>5, ZenonT(30) DEF SubWrite, TypeOK, planVars, clusterVars
<1>3. CASE Resolve
    <2> DEFINE state == IF sub.csv = 0 THEN sub.state
                        ELSE IF sub.csv \in csvs THEN "AtLatestKnown" ELSE "UpgradePending"
               upgrade == state # "UpgradePending" /\ head \notin csvs /\ created < MaxPlans
    <2>1. state \in SubStates
        BY ZenonT(30) DEF SubStates, SubRec, TypeOK
    <2>2. subSync' \in SubSyncRec
        BY <1>3, ZenonT(30) DEF Resolve, SubIdle, SubSyncRec, Phases
    <2>3. CASE upgrade
        <3>1. created' = created + 1 /\ created' \in PlanIds /\ created' \in 0..MaxPlans
            BY <1>3, <2>3, ConstantsAssumption DEF Resolve, TypeOK, PlanIds
        <3>2. PICK a \in Approvals : plan' = [plan EXCEPT ![created'] = NewPlan(head, a)]
            BY <1>3, <2>3, ZenonT(30) DEF Resolve
        <3>3. NewPlan(head, a) \in PlanRec
            BY NewPlanType, ConstantsAssumption, ZenonT(30) DEF TypeOK
        <3>4. plan' \in [PlanIds -> PlanRec]
            BY <3>1, <3>2, <3>3, ZenonT(30) DEF TypeOK
        <3>5. live' \subseteq PlanIds
            BY <1>3, <2>3, <3>1, ZenonT(30) DEF Resolve, TypeOK
        <3>6. sub' = [sub EXCEPT !.state = "UpgradePending", !.ref = created', !.csv = head]
            BY <1>3, <2>3, ZenonT(30) DEF Resolve
        <3>7. sub' \in SubRec
            <4>1. head \in 0..MaxVersion
                BY ConstantsAssumption DEF TypeOK, Versions
            <4>2. \A k \in 0..MaxPlans, v \in 0..MaxVersion :
                     [sub EXCEPT !.state = "UpgradePending", !.ref = k, !.csv = v] \in SubRec
                BY ZenonT(30) DEF TypeOK, SubRec, SubStates
            <4> QED
                BY <3>1, <3>6, <4>1, <4>2, Zenon
        <3> QED
            BY <1>3, <2>2, <3>1, <3>4, <3>5, <3>7, ZenonT(30) DEF Resolve, TypeOK, clusterVars
    <2>4. CASE ~upgrade
        <3>0. sub' = [sub EXCEPT !.state = state] /\ UNCHANGED <<created, live, plan>>
            BY <1>3, <2>4, ZenonT(30) DEF Resolve
        <3> HIDE DEF state
        <3>1. sub' \in SubRec
            BY <2>1, <3>0, ZenonT(30) DEF TypeOK, SubRec
        <3> QED
            BY <1>3, <2>2, <3>0, <3>1, ZenonT(30) DEF Resolve, TypeOK, clusterVars
    <2> QED
        BY <2>3, <2>4, ZenonT(30)
<1> QED
    BY <1>1, <1>2, <1>3, ZenonT(30)

LEMMA TypeNext == TypeOK /\ [Next]_vars => TypeOK'
<1> SUFFICES ASSUME TypeOK, [Next]_vars PROVE TypeOK'
    BY ZenonT(30)
<1>1. CASE UNCHANGED vars
    BY <1>1, ZenonT(30) DEF TypeOK, vars, planVars, clusterVars
<1> QED
    BY <1>1, SyncStepType, StartSyncType, PlanActionType, ObjectActionType, SubActionType, ZenonT(30) DEF Next

(* Plans, cluster objects, Subscription and workers keep their types in      *)
(* every behaviour (syncInstallPlans, installPlanReconciler).                *)
THEOREM TypeCorrect == Spec => []TypeOK
    BY InitType, TypeNext, PTL DEF Spec

-----------------------------------------------------------------------------
(* The invariant.  What holds of a record goes on holding while the          *)
(* histories and the set of expired plans grow.                              *)

LEMMA RecGrows ==
    ASSUME NEW rec, NEW p, NEW A, NEW X, NEW E, NEW A2, NEW X2, NEW E2,
           RecOK(rec, p, A, X, E), A[p] \subseteq A2[p], A2[p] \subseteq Steps,
           X \subseteq X2, E[p] \subseteq E2[p]
    PROVE  RecOK(rec, p, A2, X2, E2)
    BY ZenonT(30) DEF RecOK

LEMMA WorkerGrows ==
    ASSUME NEW r, NEW P, NEW A, NEW X, NEW E, NEW c, NEW A2, NEW X2, NEW E2,
           WorkerOK(r, P, A, X, E, c), A[r.p] \subseteq A2[r.p], A2[r.p] \subseteq Steps,
           X \subseteq X2, E[r.p] \subseteq E2[r.p]
    PROVE  WorkerOK(r, P, A2, X2, E2, c)
<1>1. RecOK(r.out, r.p, A2, X2, E2)
    BY RecGrows, ZenonT(30) DEF WorkerOK
<1> QED
    BY <1>1, ZenonT(30) DEF WorkerOK

LEMMA NewPlanOK ==
    ASSUME NEW v, NEW a, NEW p, NEW A, NEW X, NEW E
    PROVE  RecOK(NewPlan(v, a), p, A, X, E)
    BY ZenonT(30) DEF RecOK, NewPlan

LEMMA IdleOK ==
    ASSUME NEW P, NEW A, NEW X, NEW E, NEW c
    PROVE  WorkerOK(Idle, P, A, X, E, c)
<1>1. RecOK(Idle.out, Idle.p, A, X, E)
    BY NewPlanOK, ZenonT(30) DEF Idle
<1> QED
    BY <1>1, ZenonT(30) DEF WorkerOK, Idle

(* Clearing the flag takes nothing away. *)
LEMMA StaleOK ==
    ASSUME NEW r \in SyncRec, NEW p, NEW P, NEW P2, NEW A, NEW X, NEW E, NEW c,
           WorkerOK(r, P, A, X, E, c), r.p # p => P2[r.p] = P[r.p]
    PROVE  WorkerOK([r EXCEPT !.fresh = @ /\ r.p # p], P2, A, X, E, c)
<1> DEFINE n == [r EXCEPT !.fresh = @ /\ r.p # p]
<1>1. /\ n.pc = r.pc /\ n.p = r.p /\ n.out = r.out /\ n.i = r.i /\ n.late = r.late
      /\ n.fresh => r.fresh /\ r.p # p
    BY ZenonT(30) DEF SyncRec
<1> HIDE DEF n
<1>2. n.fresh => P2[n.p] = P[r.p]
    BY <1>1, ZenonT(30)
<1>3. WorkerOK(n, P2, A, X, E, c)
    BY <1>1, <1>2, ZenonT(30) DEF WorkerOK
<1> QED
    BY <1>3, ZenonT(30) DEF n

LEMMA InitInv == Init => IInv
<1> SUFFICES ASSUME Init PROVE IInv
    BY ZenonT(30)
<1>1. TypeOK
    BY InitType, ZenonT(30)
<1>2. \A p \in PlanIds : RecOK(plan[p], p, applied, expired, problem)
    BY NewPlanOK, ZenonT(30) DEF Init
<1>3. \A w \in Workers : WorkerOK(sync[w], plan, applied, expired, problem, created)
    BY IdleOK, ZenonT(30) DEF Init
<1>4. \A p \in live : p <= created
    BY ZenonT(30) DEF Init
<1> QED
    BY <1>1, <1>2, <1>3, <1>4, ZenonT(30) DEF IInv

(* A step that leaves the plans alone and moves one worker on. *)
LEMMA MoveInv ==
    ASSUME IInv, TypeOK', NEW w \in Workers, NEW r, sync' = [sync EXCEPT ![w] = r],
           UNCHANGED planVars,
           \A p \in PlanIds : applied[p] \subseteq applied'[p] /\ problem[p] \subseteq problem'[p],
           WorkerOK(r, plan, applied', expired, problem', created)
    PROVE  IInv' /\ Keeps
<1>1. /\ plan' = plan /\ live' = live /\ created' = created /\ expired' = expired
      /\ \A p \in PlanIds : applied'[p] \subseteq Steps
      /\ sync \in [Workers -> SyncRec] /\ sync' \in [Workers -> SyncRec]
    BY ZenonT(30) DEF planVars, IInv, TypeOK
<1>2. \A p \in PlanIds : RecOK(plan[p], p, applied', expired, problem')
    BY <1>1, RecGrows, ZenonT(30) DEF IInv
<1>3. \A v \in Workers : v # w => sync'[v] = sync[v] /\ sync[v].p \in PlanIds
    BY <1>1, SyncFields, ZenonT(30)
<1>4. \A v \in Workers : v # w => WorkerOK(sync[v], plan, applied', expired, problem', created)
    BY <1>1, <1>3, WorkerGrows, ZenonT(30) DEF IInv
<1>5. sync'[w] = r
    BY <1>1, ZenonT(30)
<1>6. \A v \in Workers : WorkerOK(sync'[v], plan, applied', expired, problem', created)
    BY <1>3, <1>4, <1>5, ZenonT(30)
<1>7. IInv'
    BY <1>1, <1>2, <1>6, ZenonT(30) DEF IInv
<1>8. Keeps
    BY <1>1, ZenonT(30) DEF Keeps
<1> QED
    BY <1>7, <1>8, ZenonT(30)

(* A status write: only a copy that continues the plan is accepted. *)
LEMMA PutInv ==
    ASSUME IInv, TypeOK', NEW w \in Workers, NEW rec \in PlanRec, NEW next \in SyncRec,
           Put(w, rec, next), UNCHANGED <<live, created, expired, applied, problem>>,
           RecOK(rec, sync[w].p, applied, expired, problem),
           sync[w].fresh => Continues(plan[sync[w].p], rec),
           sync[w].fresh => WorkerOK(next, [plan EXCEPT ![sync[w].p] = rec],
                                     applied, expired, problem, created)
    PROVE  IInv' /\ Keeps
<1> DEFINE p == sync[w].p
<1>1. /\ plan \in [PlanIds -> PlanRec] /\ sync \in [Workers -> SyncRec]
      /\ p \in PlanIds /\ live \subseteq PlanIds
    BY WorkerFacts, ZenonT(30) DEF IInv, TypeOK
<1>2. CASE ~Accepted(w)
    <2>1. sync' = [sync EXCEPT ![w] = Idle] /\ UNCHANGED planVars
        BY <1>2, ZenonT(30) DEF Put, planVars
    <2> QED
        BY <2>1, IdleOK, MoveInv, ZenonT(30)
<1>3. CASE Accepted(w)
    <2>1. sync[w].fresh /\ plan' = [plan EXCEPT ![p] = rec]
        BY <1>3, ZenonT(30) DEF Put, Accepted
    <2>2. plan'[p] = rec /\ \A q \in PlanIds : q # p => plan'[q] = plan[q]
        BY <1>1, <2>1, ZenonT(30)
    <2>3. \A q : q # p => plan'[q] = plan[q]
        BY <1>1, <2>1
    <2>4. \A q \in PlanIds : RecOK(plan'[q], q, applied, expired, problem)
        BY <2>2, ZenonT(30) DEF IInv
    <2>5. CASE rec = plan[p]
        <3>1. plan' = plan /\ sync' = [sync EXCEPT ![w] = next] /\ UNCHANGED planVars
            BY <1>1, <1>3, <2>1, <2>5, ZenonT(30) DEF Put, planVars
        <3>2. WorkerOK(next, plan, applied, expired, problem, created)
            BY <2>1, <3>1, ZenonT(30)
        <3> QED
            BY <3>1, <3>2, MoveInv, ZenonT(30)
    <2>6. CASE rec # plan[p]
        <3>1. sync' = Outdate(p, w, next)
            BY <1>3, <2>6, ZenonT(30) DEF Put
        <3>2. /\ sync'[w] = next
              /\ \A x \in Workers : x # w =>
                    sync'[x] = [sync[x] EXCEPT !.fresh = @ /\ sync[x].p # p]
            BY <1>1, <3>1, OutdateType
        <3>3. \A x \in Workers : x # w =>
                  WorkerOK([sync[x] EXCEPT !.fresh = @ /\ sync[x].p # p],
                           plan', applied, expired, problem, created)
            <4> TAKE x \in Workers
            <4>1. sync[x] \in SyncRec /\ WorkerOK(sync[x], plan, applied, expired, problem, created)
                BY <1>1, ZenonT(30) DEF IInv
            <4>2. sync[x].p # p => plan'[sync[x].p] = plan[sync[x].p]
                BY <2>3, ZenonT(30)
            <4> QED
                BY <4>1, <4>2, StaleOK, ZenonT(30)
        <3>4. \A x \in Workers : WorkerOK(sync'[x], plan', applied, expired, problem, created)
            BY <2>1, <3>2, <3>3, ZenonT(30)
        <3>5. IInv'
            BY <2>4, <3>4, ZenonT(30) DEF IInv
        <3>6. Keeps
            <4> SUFFICES ASSUME NEW q \in live
                         PROVE  /\ \A s \in Steps : plan[q].status[s] \in {"Created", "Present"}
                                                      => plan'[q].status[s] = plan[q].status[s]
                                /\ plan[q].started => plan'[q].started
                                /\ plan[q].approved => plan'[q].approved
                                /\ plan[q].sa => plan'[q].sa
                                /\ plan[q].phase = "Complete" => plan'[q] = plan[q]
                                /\ plan[q].phase = "Failed" => plan'[q].phase \in {"Failed", "Installing"}
                BY ZenonT(30) DEF Keeps
            <4>1. CASE q = p
                <5>1. plan'[q] = rec /\ Continues(plan[q], rec)
                    BY <2>1, <2>2, <4>1, ZenonT(30)
                <5> QED
                    BY <5>1, ZenonT(30) DEF Continues
            <4>2. CASE q # p
                BY <1>1, <2>2, <4>2, ZenonT(30)
            <4> QED
                BY <4>1, <4>2, ZenonT(30)
        <3> QED
            BY <3>5, <3>6, ZenonT(30)
    <2> QED
        BY <2>5, <2>6, ZenonT(30)
<1> QED
    BY <1>2, <1>3, ZenonT(30)

LEMMA UpdateStatusInv ==
    ASSUME IInv, TypeOK', NEW w \in Workers, NEW rec \in PlanRec, NEW next \in SyncRec,
           UpdateStatus(w, rec, next), UNCHANGED <<live, created, expired, applied, problem>>,
           RecOK(rec, sync[w].p, applied, expired, problem),
           sync[w].fresh => Continues(plan[sync[w].p], rec),
           sync[w].fresh => WorkerOK(next, [plan EXCEPT ![sync[w].p] = rec],
                                     applied, expired, problem, created)
    PROVE  IInv' /\ Keeps
<1>1. CASE Put(w, rec, next)
    BY <1>1, PutInv, ZenonT(30)
<1>2. CASE sync' = [sync EXCEPT ![w] = Idle] /\ UNCHANGED plan
    BY <1>2, IdleOK, MoveInv, ZenonT(30) DEF planVars
<1> QED
    BY <1>1, <1>2, ZenonT(30) DEF UpdateStatus

(* ExecutePlan goes past a step it has applied. *)
LEMMA DoneInv ==
    ASSUME IInv, TypeOK', NEW w \in Workers, sync[w].pc = "step", sync[w].i \in Steps,
           Status(w) \notin {"Created", "Present"}, NEW x \in Statuses, Done(w, x),
           sync[w].i \in applied'[sync[w].p], UNCHANGED <<planVars, problem>>,
           \A p \in PlanIds : applied[p] \subseteq applied'[p]
    PROVE  IInv' /\ Keeps
<1> DEFINE r == sync[w]
           p == r.p
           out == [r.out EXCEPT !.status[r.i] = x]
           next == ToDo(r.out, r.i + 1)
           new == [r EXCEPT !.out = out, !.i = next]
<1>1. /\ r \in SyncRec /\ p \in PlanIds /\ r.out \in PlanRec /\ r.i \in 1..(Len(Kind) + 1)
      /\ r.out.status \in [Steps -> Statuses] /\ applied'[p] \subseteq Steps
    BY WorkerFacts, ZenonT(30) DEF IInv, TypeOK
<1>2. sync' = [sync EXCEPT ![w] = new]
    BY DoneType, ZenonT(30) DEF IInv
<1>3. WorkerOK(r, plan, applied, expired, problem, created)
    BY ZenonT(30) DEF IInv
<1>4. RecOK(r.out, p, applied', expired, problem)
    BY <1>1, <1>3, RecGrows, ZenonT(30) DEF WorkerOK
<1>5. /\ out.phase = r.out.phase /\ out.approved = r.out.approved /\ out.started = r.out.started
      /\ out.sa = r.out.sa
      /\ out.status = [r.out.status EXCEPT ![r.i] = x]
    BY <1>1, ZenonT(30) DEF PlanRec
<1>6. new.pc = r.pc /\ new.p = p /\ new.out = out /\ new.i = next /\ new.late = r.late /\ new.fresh = r.fresh
    BY <1>1, ZenonT(30) DEF SyncRec
<1>7. RecOK(out, p, applied', expired, problem)
    <2> HIDE DEF out
    <2>1. \A s \in Steps : s # r.i => out.status[s] = r.out.status[s]
        BY <1>1, <1>5, ZenonT(30)
    <2> QED
        BY <1>4, <1>5, <2>1, ZenonT(30) DEF RecOK
<1>8. \A s \in Steps : s < next => s \in applied'[p]
    <2>1. r.i + 1 \in 1..(Len(Kind) + 1)
        BY StepsType
    <2>2. \A s \in Steps : r.i + 1 <= s /\ s < next =>
              r.out.status[s] \in {"Created", "Present", "WaitingForApi"}
        BY <1>1, <2>1, ToDoNext, ZenonT(30)
    <2>3. \A s \in Steps : s < r.i => s \in applied'[p]
        BY <1>1, <1>3, ZenonT(30) DEF WorkerOK
    <2> HIDE DEF next
    <2>4. \A s \in Steps : r.i + 1 <= s /\ s < next => s \in applied'[p]
        BY <1>4, <2>2, ZenonT(30) DEF RecOK
    <2>5. \A s \in Steps : s < r.i \/ s = r.i \/ r.i + 1 <= s
        BY <1>1, StepsType
    <2> QED
        BY <2>3, <2>4, <2>5, ZenonT(30)
<1>9. r.fresh => Continues(plan[p], out)
    <2> HIDE DEF out
    <2>1. \A s \in Steps : s # r.i => out.status[s] = r.out.status[s]
        BY <1>1, <1>5, ZenonT(30)
    <2> QED
        BY <1>3, <1>5, <2>1, ZenonT(30) DEF WorkerOK, Continues, Status
<1> HIDE DEF out, next, new
<1>10. WorkerOK(new, plan, applied', expired, problem, created)
    BY <1>3, <1>5, <1>6, <1>7, <1>8, <1>9, ZenonT(30) DEF WorkerOK
<1> QED
    BY <1>2, <1>10, MoveInv, ZenonT(30) DEF planVars

(* ExecutePlan stops, at an error or after the last step. *)
LEMMA StopInv ==
    ASSUME IInv, TypeOK', NEW w \in Workers, sync[w].pc = "step", NEW err,
           sync' = [sync EXCEPT ![w].pc = "write", ![w].out = AfterExecute(@, err, sync[w].late)],
           \/ err = "none" /\ sync[w].i \notin Steps
           \/ err = "forbidden"
           \/ err = "other" /\ "other" \in problem'[sync[w].p],
           UNCHANGED <<planVars, applied>>,
           \A p \in PlanIds : problem[p] \subseteq problem'[p]
    PROVE  IInv' /\ Keeps
<1> DEFINE r == sync[w]
           p == r.p
           out == AfterExecute(r.out, err, r.late)
           new == [r EXCEPT !.pc = "write", !.out = out]
<1>1. /\ r \in SyncRec /\ p \in PlanIds /\ r.out \in PlanRec /\ r.i \in 1..(Len(Kind) + 1)
      /\ applied[p] \subseteq Steps
    BY WorkerFacts, ZenonT(30) DEF IInv, TypeOK
<1>2. sync' = [sync EXCEPT ![w] = new]
    BY StopType, ZenonT(30) DEF IInv
<1>3. WorkerOK(r, plan, applied, expired, problem, created)
    BY ZenonT(30) DEF IInv
<1>4. RecOK(r.out, p, applied, expired, problem')
    BY <1>1, <1>3, RecGrows, ZenonT(30) DEF WorkerOK
<1>5. /\ out.approved = r.out.approved /\ out.started = r.out.started
      /\ out.sa = r.out.sa /\ out.status = r.out.status
    BY <1>1, ZenonT(30) DEF PlanRec, AfterExecute
<1>6. /\ out.phase \in {"Installing", "Failed", "Complete"}
      /\ out.phase = "Failed" => err = "other" /\ r.late
      /\ out.phase = "Complete" => err = "none"
    BY <1>1, <1>3, ZenonT(30) DEF PlanRec, AfterExecute, WorkerOK
<1>7. err = "none" => applied[p] = Steps
    <2>1. err = "none" => \A s \in Steps : s < r.i
        BY <1>1, StepsType
    <2> QED
        BY <1>1, <1>3, <2>1, ZenonT(30) DEF WorkerOK
<1>8. new.pc = "write" /\ new.p = p /\ new.out = out /\ new.late = r.late /\ new.fresh = r.fresh
    BY <1>1, ZenonT(30) DEF SyncRec
<1> HIDE DEF out, new
<1>9. RecOK(out, p, applied, expired, problem')
    BY <1>3, <1>4, <1>5, <1>6, <1>7, ZenonT(30) DEF RecOK, WorkerOK
<1>10. r.fresh => Continues(plan[p], out)
    BY <1>3, <1>5, ZenonT(30) DEF WorkerOK, Continues
<1>11. WorkerOK(new, plan, applied, expired, problem', created)
    BY <1>3, <1>8, <1>9, <1>10, ZenonT(30) DEF WorkerOK
<1> QED
    BY <1>2, <1>11, MoveInv, ZenonT(30) DEF planVars

(* The steps that write the plan, or read it for what follows. *)
LEMMA RequestInv ==
    ASSUME IInv, TypeOK', NEW w \in Workers,
           QueryFails(w) \/ ResetCondition(w) \/ Attach(w) \/ Transition(w) \/ Write(w)
    PROVE  IInv' /\ Keeps
<1> DEFINE r == sync[w]
           p == r.p
<1>0. /\ r \in SyncRec /\ p \in PlanIds /\ r.out \in PlanRec /\ plan \in [PlanIds -> PlanRec]
      /\ WorkerOK(r, plan, applied, expired, problem, created)
      /\ Idle \in SyncRec /\ TypeOK
    BY WorkerFacts, IdleType, ZenonT(30) DEF IInv
<1>1. \A P, A, X, E, c : WorkerOK(Idle, P, A, X, E, c)
    BY IdleOK, ZenonT(30)
<1>2. CASE QueryFails(w)
    <2> DEFINE rec == [r.out EXCEPT !.cond = "InstallCheckFailed"]
    <2>1. rec \in PlanRec
        BY <1>0, RecType, ZenonT(30) DEF Conds
    <2>2. RecOK(rec, p, applied, expired, problem) /\ (r.fresh => Continues(plan[p], rec))
        BY <1>0, ZenonT(30) DEF WorkerOK, RecOK, Continues, PlanRec
    <2>3. Put(w, rec, Idle) /\ UNCHANGED <<live, created, expired, applied, problem>>
        BY <1>2, ZenonT(30) DEF QueryFails
    <2> HIDE DEF rec
    <2> QED
        BY <1>0, <1>1, <2>1, <2>2, <2>3, PutInv, ZenonT(30)
<1>3. CASE ResetCondition(w)
    <2> DEFINE rec == [r.out EXCEPT !.cond = ""]
               next == [r EXCEPT !.out = rec]
    <2>1. rec \in PlanRec
        BY <1>0, RecType, ZenonT(30) DEF Conds
    <2>2. RecOK(rec, p, applied, expired, problem) /\ (r.fresh => Continues(plan[p], rec))
        BY <1>0, ZenonT(30) DEF WorkerOK, RecOK, Continues, PlanRec
    <2>3. UpdateStatus(w, rec, next) /\ UNCHANGED <<live, created, expired, applied, problem>>
        BY <1>3, ZenonT(30) DEF ResetCondition
    <2>4. rec.phase = r.out.phase /\ rec.phase \in {"RequiresApproval", "Installing"} /\ r.pc = "query"
        BY <1>0, <1>3, ZenonT(30) DEF PlanRec, WorkerOK, ResetCondition
    <2> HIDE DEF rec
    <2>5. next \in SyncRec
        BY <1>0, <2>1, ZenonT(30) DEF SyncRec
    <2>6. next.pc = "query" /\ next.p = p /\ next.out = rec /\ next.late = r.late /\ next.fresh = r.fresh
        BY <1>0, <2>4, ZenonT(30) DEF SyncRec
    <2> HIDE DEF next
    <2>7. Continues(rec, rec)
        BY <2>4, ZenonT(30) DEF Continues
    <2>8. [plan EXCEPT ![p] = rec][p] = rec
        BY <1>0, ZenonT(30)
    <2>9. WorkerOK(next, [plan EXCEPT ![p] = rec], applied, expired, problem, created)
        BY <1>0, <2>2, <2>4, <2>6, <2>7, <2>8, ZenonT(30) DEF WorkerOK
    <2> QED
        BY <1>0, <2>1, <2>2, <2>3, <2>5, <2>9, UpdateStatusInv, ZenonT(30)
<1>4. CASE Attach(w)
    <2> DEFINE rec == [r.out EXCEPT !.sa = TRUE]
    <2>1. rec \in PlanRec
        BY <1>0, RecType, ZenonT(30)
    <2>2. RecOK(rec, p, applied, expired, problem) /\ (r.fresh => Continues(plan[p], rec))
        BY <1>0, ZenonT(30) DEF WorkerOK, RecOK, Continues, PlanRec
    <2>3. UpdateStatus(w, rec, Idle) /\ UNCHANGED <<live, created, expired, applied, problem>>
        BY <1>4, ZenonT(30) DEF Attach
    <2> HIDE DEF rec
    <2> QED
        BY <1>0, <1>1, <2>1, <2>2, <2>3, UpdateStatusInv, ZenonT(30)
<1>5. CASE Write(w)
    <2>1. RecOK(r.out, p, applied, expired, problem) /\ (r.fresh => Continues(plan[p], r.out))
        BY <1>0, ZenonT(30) DEF WorkerOK
    <2>2. UpdateStatus(w, r.out, Idle) /\ UNCHANGED <<live, created, expired, applied, problem>>
        BY <1>5, ZenonT(30) DEF Write
    <2> QED
        BY <1>0, <1>1, <2>1, <2>2, UpdateStatusInv, ZenonT(30)
<1>6. CASE Transition(w) /\ r.out.phase = "RequiresApproval"
    <2> DEFINE rec == [r.out EXCEPT !.phase = IF r.out.approved THEN "Installing" ELSE r.out.phase]
               new == [r EXCEPT !.pc = "write", !.out = rec]
    <2>1. sync' = [sync EXCEPT ![w] = new] /\ UNCHANGED <<planVars, applied, problem>>
        BY <1>0, <1>6, ZenonT(30) DEF Transition, SyncRec
    <2>2. /\ rec.phase \in {"RequiresApproval", "Installing"}
          /\ rec.phase # "RequiresApproval" => rec.approved
          /\ rec.status = r.out.status /\ rec.started = r.out.started
          /\ rec.approved = r.out.approved /\ rec.sa = r.out.sa
        BY <1>0, <1>6, ZenonT(30) DEF PlanRec
    <2>3. new.pc = "write" /\ new.p = p /\ new.out = rec /\ new.late = r.late /\ new.fresh = r.fresh
        BY <1>0, ZenonT(30) DEF SyncRec
    <2> HIDE DEF rec, new
    <2>4. RecOK(rec, p, applied, expired, problem) /\ (r.fresh => Continues(plan[p], rec))
        BY <1>0, <2>2, ZenonT(30) DEF WorkerOK, RecOK, Continues
    <2>5. WorkerOK(new, plan, applied, expired, problem, created)
        BY <1>0, <2>3, <2>4, ZenonT(30) DEF WorkerOK
    <2> QED
        BY <2>1, <2>5, MoveInv, ZenonT(30)
<1>7. CASE Transition(w) /\ r.out.phase # "RequiresApproval"
    <2> DEFINE rec == [r.out EXCEPT !.started = TRUE]
               next == ToDo(r.out, 1)
               new == [r EXCEPT !.pc = "step", !.i = next, !.out = rec,
                                !.late = r.out.started /\ p \in expired]
    <2>1. sync' = [sync EXCEPT ![w] = new] /\ UNCHANGED <<planVars, applied, problem>>
        BY <1>0, <1>7, ZenonT(30) DEF Transition, SyncRec
    <2>2. /\ rec.phase = "Installing" /\ rec.status = r.out.status /\ rec.started
          /\ rec.approved = r.out.approved /\ rec.sa = r.out.sa
        BY <1>0, <1>7, ZenonT(30) DEF PlanRec, WorkerOK, Transition, Queried
    <2>3. /\ new.pc = "step" /\ new.p = p /\ new.out = rec /\ new.i = next /\ new.fresh = r.fresh
          /\ new.late => p \in expired
        BY <1>0, ZenonT(30) DEF SyncRec
    <2>4. \A s \in Steps : s < next => s \in applied[p]
        <3>1. 1 \in 1..(Len(Kind) + 1) /\ \A s \in Steps : 1 <= s
            BY StepsType
        <3>2. \A s \in Steps : s < next => r.out.status[s] \in {"Created", "Present", "WaitingForApi"}
            BY <1>0, <3>1, ToDoNext, ZenonT(30)
        <3> QED
            BY <1>0, <3>2, ZenonT(30) DEF WorkerOK, RecOK
    <2> HIDE DEF rec, new, next
    <2>5. RecOK(rec, p, applied, expired, problem) /\ (r.fresh => Continues(plan[p], rec))
        BY <1>0, <1>7, <2>2, ZenonT(30) DEF WorkerOK, RecOK, Continues
    <2>6. WorkerOK(new, plan, applied, expired, problem, created)
        BY <1>0, <2>2, <2>3, <2>4, <2>5, ZenonT(30) DEF WorkerOK
    <2> QED
        BY <2>1, <2>6, MoveInv, ZenonT(30)
<1> QED
    BY <1>2, <1>3, <1>4, <1>5, <1>6, <1>7, ZenonT(30)

(* The steps of ExecutePlan. *)
LEMMA ExecuteInv ==
    ASSUME IInv, TypeOK', NEW w \in Workers,
           \/ CSVStep(w) \/ CRDWait(w) \/ CRDStep(w) \/ RoleStep(w) \/ SecretStep(w)
           \/ StepForbidden(w) \/ OwnerMissing(w) \/ StepFails(w) \/ StepsDone(w)
    PROVE  IInv' /\ Keeps
<1>0. /\ sync[w].p \in PlanIds /\ sync[w].out.status \in [Steps -> Statuses]
      /\ applied \in [PlanIds -> SUBSET Steps]
      /\ problem \in [PlanIds -> SUBSET {"forbidden", "other"}]
    BY WorkerFacts, ZenonT(30) DEF IInv
<1>1. Reached(w) => /\ sync[w].i \in applied'[sync[w].p]
                    /\ \A p \in PlanIds : applied[p] \subseteq applied'[p]
    BY <1>0, ZenonT(30) DEF Reached
<1>2. \A err \in {"forbidden", "other"} : Stop(w, err) =>
          err \in problem'[sync[w].p] /\ \A p \in PlanIds : problem[p] \subseteq problem'[p]
    BY <1>0 DEF Stop
<1>3. CASE CSVStep(w)
    <2>1. EnsureClusterServiceVersion(Version(w)) \in Statuses
        BY ZenonT(30) DEF EnsureClusterServiceVersion, Statuses
    <2> QED
        BY <1>1, <1>3, <2>1, DoneInv, ZenonT(30) DEF CSVStep, Executing, Attempted
<1>4. CASE CRDWait(w)
    <2>1. CRDWaitStatus(sync[w].i) \in Statuses
        BY ZenonT(30) DEF CRDWaitStatus, Statuses
    <2>2. sync[w].i \in applied[sync[w].p]
        BY <1>4, ZenonT(30) DEF IInv, WorkerOK, RecOK, CRDWait, Executing, Status
    <2> QED
        BY <1>4, <2>1, <2>2, DoneInv, ZenonT(30) DEF CRDWait, Executing
<1>5. CASE CRDStep(w)
    <2>1. "WaitingForApi" \in Statuses /\ "Present" \in Statuses
        BY ZenonT(30) DEF Statuses
    <2> QED
        BY <1>1, <1>5, <2>1, DoneInv, ZenonT(30) DEF CRDStep, Executing, Attempted
<1>6. CASE RoleStep(w) \/ SecretStep(w)
    <2>1. EnsureStatus(sync[w].i) \in Statuses
        BY ZenonT(30) DEF EnsureStatus, Statuses
    <2> QED
        BY <1>1, <1>6, <2>1, DoneInv, ZenonT(30) DEF RoleStep, SecretStep, Executing, Attempted
<1>7. CASE StepForbidden(w)
    <2>1. PICK err \in {"forbidden", "other"} : Stop(w, err)
        BY <1>7, ZenonT(30) DEF StepForbidden, Refusal
    <2> QED
        BY <1>2, <1>7, <2>1, StopInv, ZenonT(30) DEF StepForbidden, Stop
<1>8. CASE OwnerMissing(w)
    BY <1>2, <1>8, StopInv, ZenonT(30) DEF OwnerMissing, Executing, Stop
<1>9. CASE StepFails(w)
    BY <1>2, <1>9, StopInv, ZenonT(30) DEF StepFails, Stop, planVars
<1>10. CASE StepsDone(w)
    BY <1>10, StopInv, ZenonT(30) DEF StepsDone
<1> QED
    BY <1>3, <1>4, <1>5, <1>6, <1>7, <1>8, <1>9, <1>10, ZenonT(30)

LEMMA StartSyncInv ==
    ASSUME IInv, TypeOK', NEW w \in Workers, NEW p \in PlanIds, StartSync(w, p)
    PROVE  IInv' /\ Keeps
<1> DEFINE new == [Idle EXCEPT !.pc = "query", !.p = p, !.out = plan[p], !.fresh = TRUE]
<1>1. /\ new.pc = "query" /\ new.p = p /\ new.out = plan[p] /\ new.fresh /\ ~new.late
      /\ sync' = [sync EXCEPT ![w] = new] /\ UNCHANGED <<planVars, applied, problem>>
    BY ZenonT(30) DEF StartSync, Idle
<1>2. plan[p].phase \in {"RequiresApproval", "Installing"} /\ p <= created
    BY RecFields, ZenonT(30) DEF StartSync, IInv, TypeOK, Phases
<1>3. RecOK(plan[p], p, applied, expired, problem)
    BY ZenonT(30) DEF IInv
<1>4. Continues(plan[p], plan[p])
    BY <1>2, ZenonT(30) DEF Continues
<1> HIDE DEF new
<1>5. WorkerOK(new, plan, applied, expired, problem, created)
    BY <1>1, <1>2, <1>3, <1>4, ZenonT(30) DEF WorkerOK
<1> QED
    BY <1>1, <1>5, MoveInv, ZenonT(30)

(* Someone else writes plan p: the retry of a failed plan, or a user. *)
LEMMA OtherWriteInv ==
    ASSUME IInv, TypeOK', NEW p \in PlanIds, NEW rec,
           plan' = [plan EXCEPT ![p] = rec], RecOK(rec, p, applied, expired, problem),
           sync' = [x \in Workers |-> [sync[x] EXCEPT !.fresh = @ /\ sync[x].p # p]],
           UNCHANGED <<live, created, expired, applied, problem>>
    PROVE  IInv'
<1>1. plan \in [PlanIds -> PlanRec] /\ sync \in [Workers -> SyncRec]
    BY ZenonT(30) DEF IInv, TypeOK
<1>2. plan'[p] = rec /\ \A q : q # p => plan'[q] = plan[q]
    BY <1>1
<1>3. \A q \in PlanIds : RecOK(plan'[q], q, applied, expired, problem)
    BY <1>2, ZenonT(30) DEF IInv
<1>4. \A x \in Workers : WorkerOK([sync[x] EXCEPT !.fresh = @ /\ sync[x].p # p],
                                   plan', applied, expired, problem, created)
    <2> TAKE x \in Workers
    <2>1. sync[x] \in SyncRec /\ WorkerOK(sync[x], plan, applied, expired, problem, created)
        BY <1>1, ZenonT(30) DEF IInv
    <2>2. sync[x].p # p => plan'[sync[x].p] = plan[sync[x].p]
        BY <1>2, ZenonT(30)
    <2> QED
        BY <2>1, <2>2, StaleOK, ZenonT(30)
<1>5. \A x \in Workers : WorkerOK(sync'[x], plan', applied, expired, problem, created)
    BY <1>4, ZenonT(30)
<1> QED
    BY <1>3, <1>5, ZenonT(30) DEF IInv

LEMMA PlanActionInv ==
    ASSUME IInv, TypeOK', NEW p \in PlanIds,
           TriggerRetry(p) \/ Approve(p) \/ DeletePlan(p) \/ Expire(p)
    PROVE  IInv' /\ Keeps
<1>0. plan \in [PlanIds -> PlanRec] /\ plan[p] \in PlanRec /\ sync \in [Workers -> SyncRec]
      /\ live \subseteq PlanIds
    BY ZenonT(30) DEF IInv, TypeOK
<1>1. RecOK(plan[p], p, applied, expired, problem)
    BY ZenonT(30) DEF IInv
<1>2. CASE TriggerRetry(p) /\ plan' # plan
    <2> DEFINE rec == [plan[p] EXCEPT !.phase = "Installing"]
    <2>1. /\ plan[p].phase = "Failed" /\ plan' = [plan EXCEPT ![p] = rec]
          /\ sync' = [x \in Workers |-> [sync[x] EXCEPT !.fresh = @ /\ sync[x].p # p]]
          /\ UNCHANGED <<live, created, expired, applied, problem>>
        BY <1>0, <1>2, ZenonT(30) DEF TriggerRetry
    <2>2. /\ rec.phase = "Installing" /\ rec.status = plan[p].status /\ rec.approved = plan[p].approved
          /\ rec.started = plan[p].started /\ rec.sa = plan[p].sa
        BY <1>0, ZenonT(30) DEF PlanRec
    <2> HIDE DEF rec
    <2>3. RecOK(rec, p, applied, expired, problem)
        BY <1>1, <2>1, <2>2, ZenonT(30) DEF RecOK
    <2>4. IInv'
        BY <2>1, <2>3, OtherWriteInv, ZenonT(30)
    <2>5. Keeps
        BY <1>0, <2>1, <2>2, ZenonT(30) DEF Keeps
    <2> QED
        BY <2>4, <2>5, ZenonT(30)
<1>3. CASE TriggerRetry(p) /\ plan' = plan
    <2>1. CASE sync' = sync
        BY <1>3, <2>1, ZenonT(30) DEF TriggerRetry, IInv, Keeps
    <2>2. CASE sync' # sync
        <3>1. /\ plan[p].phase = "Failed" /\ plan' = [plan EXCEPT ![p].phase = "Installing"]
            BY <1>3, <2>2, ZenonT(30) DEF TriggerRetry
        <3>2. plan'[p].phase = "Installing"
            BY <1>0, <3>1, ZenonT(30) DEF PlanRec
        <3> QED
            BY <1>3, <3>1, <3>2, ZenonT(30)
    <2> QED
        BY <2>1, <2>2, ZenonT(30)
<1>4. CASE Approve(p)
    <2> DEFINE rec == [plan[p] EXCEPT !.approved = TRUE]
    <2>1. /\ ~plan[p].approved /\ plan' = [plan EXCEPT ![p] = rec]
          /\ sync' = [x \in Workers |-> [sync[x] EXCEPT !.fresh = @ /\ sync[x].p # p]]
          /\ UNCHANGED <<live, created, expired, applied, problem>>
        BY <1>0, <1>4, ZenonT(30) DEF Approve
    <2>2. /\ rec.phase = plan[p].phase /\ rec.status = plan[p].status /\ rec.approved
          /\ rec.started = plan[p].started /\ rec.sa = plan[p].sa
        BY <1>0, ZenonT(30) DEF PlanRec
    <2>3. plan[p].phase = "RequiresApproval"
        BY <1>1, <2>1, ZenonT(30) DEF RecOK
    <2> HIDE DEF rec
    <2>4. RecOK(rec, p, applied, expired, problem)
        BY <1>1, <2>2, ZenonT(30) DEF RecOK
    <2>5. IInv'
        BY <2>1, <2>4, OtherWriteInv, ZenonT(30)
    <2>6. Keeps
        BY <1>0, <2>1, <2>2, <2>3, ZenonT(30) DEF Keeps
    <2> QED
        BY <2>5, <2>6, ZenonT(30)
<1>5. CASE DeletePlan(p)
    BY <1>5, ZenonT(30) DEF DeletePlan, IInv, Keeps
<1>6. CASE Expire(p)
    <2>1. /\ expired \subseteq expired' /\ UNCHANGED <<plan, live, created, sync, applied, problem>>
          /\ \A q \in PlanIds : applied[q] \subseteq Steps
        BY <1>6, ZenonT(30) DEF Expire, IInv, TypeOK
    <2>2. \A q \in PlanIds : RecOK(plan[q], q, applied, expired', problem)
        BY <2>1, RecGrows, ZenonT(30) DEF IInv
    <2>3. \A x \in Workers : WorkerOK(sync[x], plan, applied, expired', problem, created)
        BY <1>0, <2>1, WorkerGrows, SyncFields, ZenonT(30) DEF IInv
    <2> QED
        BY <2>1, <2>2, <2>3, ZenonT(30) DEF IInv, Keeps
<1> QED
    BY <1>2, <1>3, <1>4, <1>5, <1>6, ZenonT(30)

LEMMA ResolveInv ==
    ASSUME IInv, TypeOK', Resolve
    PROVE  IInv' /\ Keeps
<1>0. /\ plan \in [PlanIds -> PlanRec] /\ sync \in [Workers -> SyncRec] /\ created \in Nat
      /\ live \subseteq PlanIds /\ PlanIds \subseteq Nat
    BY ConstantsAssumption DEF IInv, TypeOK, PlanIds
<1>1. CASE UNCHANGED <<created, live, plan>>
    BY <1>1, ZenonT(30) DEF Resolve, IInv, Keeps
<1>2. CASE created' = created + 1
    <2>1. PICK a \in Approvals : plan' = [plan EXCEPT ![created'] = NewPlan(head, a)]
        BY <1>0, <1>2 DEF Resolve
    <2>2. /\ live' = live \cup {created'} /\ UNCHANGED <<sync, expired, applied, problem>>
        BY <1>0, <1>2 DEF Resolve
    <2>3. \A q : q # created' => plan'[q] = plan[q]
        BY <1>0, <2>1
    <2>4. \A q \in PlanIds : RecOK(plan'[q], q, applied, expired, problem)
        <3>1. \A q \in PlanIds : q = created' => plan'[q] = NewPlan(head, a)
            BY <1>0, <2>1, ZenonT(30)
        <3> QED
            BY <2>3, <3>1, NewPlanOK, ZenonT(30) DEF IInv
    <2>5. \A q \in live' : q <= created'
        BY <1>0, <1>2, <2>2 DEF IInv
    <2>6. \A x \in Workers : sync[x].fresh =>
              sync[x].p \in Nat /\ sync[x].p <= created /\ plan'[sync[x].p] = plan[sync[x].p]
        <3>1. \A x \in Workers : sync[x].p \in Nat
            BY <1>0, SyncFields, ZenonT(30)
        <3>2. \A x \in Workers : sync[x].fresh => sync[x].p <= created
            BY ZenonT(30) DEF IInv, WorkerOK
        <3> QED
            BY <1>0, <1>2, <2>3, <3>1, <3>2
    <2>7. \A x \in Workers : WorkerOK(sync[x], plan', applied, expired, problem, created')
        <3>1. \A x \in Workers : sync[x].fresh => sync[x].p <= created'
            BY <1>0, <1>2, <2>6
        <3> QED
            BY <2>6, <3>1, ZenonT(30) DEF IInv, WorkerOK
    <2>8. Keeps
        <3>1. \A q \in live : plan'[q] = plan[q]
            BY <1>0, <1>2, <2>3 DEF IInv
        <3> QED
            BY <3>1, ZenonT(30) DEF Keeps
    <2> QED
        BY <2>2, <2>4, <2>5, <2>7, <2>8, ZenonT(30) DEF IInv
<1> QED
    BY <1>1, <1>2, ZenonT(30) DEF Resolve

LEMMA NextInv == IInv /\ [Next]_vars => IInv' /\ (Keeps \/ UNCHANGED vars)
<1> SUFFICES ASSUME IInv, [Next]_vars PROVE IInv' /\ (Keeps \/ UNCHANGED vars)
    BY ZenonT(30)
<1>1. TypeOK'
    BY TypeNext, ZenonT(30) DEF IInv
<1>2. ASSUME UNCHANGED <<planVars, sync, applied, problem>> PROVE IInv' /\ Keeps
    BY <1>1, <1>2, ZenonT(30) DEF IInv, Keeps, planVars
<1>3. CASE UNCHANGED vars
    BY <1>2, <1>3, ZenonT(30) DEF vars
<1>4. ASSUME NEW w \in Workers, SyncStep(w) PROVE IInv' /\ Keeps
    BY <1>1, <1>4, RequestInv, ExecuteInv, ZenonT(30) DEF SyncStep
<1>5. ASSUME NEW w \in Workers, NEW p \in PlanIds, StartSync(w, p) PROVE IInv' /\ Keeps
    BY <1>1, <1>5, StartSyncInv, ZenonT(30)
<1>6. CASE \E s \in Steps : DeleteCRD(s) \/ Establish(s)
    BY <1>2, <1>6, ZenonT(30) DEF DeleteCRD, Establish
<1>7. CASE \E v \in Versions : DeleteCSV(v)
    BY <1>2, <1>7, ZenonT(30) DEF DeleteCSV
<1>8. CASE SubRead \/ SubWrite \/ CatalogUpdate \/ Grant
    BY <1>2, <1>8, ZenonT(30) DEF SubRead, SubWrite, CatalogUpdate, Grant
<1>9. CASE Restart
    <2>1. \A w \in Workers : sync'[w] = Idle
        BY <1>9, ZenonT(30) DEF Restart
    <2>2. UNCHANGED <<plan, live, created, expired, applied, problem>>
        BY <1>9, ZenonT(30) DEF Restart, planVars
    <2>3. \A w \in Workers : WorkerOK(sync'[w], plan, applied, expired, problem, created)
        BY <2>1, IdleOK, ZenonT(30)
    <2> QED
        BY <1>1, <2>2, <2>3, ZenonT(30) DEF IInv, Keeps
<1> QED
    BY <1>1, <1>3, <1>4, <1>5, <1>6, <1>7, <1>8, <1>9, PlanActionInv, ResolveInv, ZenonT(30) DEF Next

-----------------------------------------------------------------------------
(* A plan becomes Complete only after every step of it was applied, whatever *)
(* the number of workers, conflicts, lost writes, retries and restarts       *)
(* (ExecutePlan, transitionInstallPlanState).                                *)
THEOREM CompleteSafe == Spec => []CompleteApplied
<1>1. IInv => CompleteApplied
    BY ZenonT(30) DEF IInv, TypeOK, RecOK, CompleteApplied
<1> QED
    BY <1>1, InitInv, NextInv, PTL DEF Spec

(* A plan fails only after its timeout, with an error that was not a         *)
(* forbidden one (transitionInstallPlanState).                               *)
THEOREM FailedSafe == Spec => []FailedJustified
<1>1. IInv => FailedJustified
    BY ZenonT(30) DEF IInv, TypeOK, RecOK, FailedJustified
<1> QED
    BY <1>1, InitInv, NextInv, PTL DEF Spec

(* No step undoes what a plan records, however many workers sync it at once  *)
(* (syncInstallPlans, triggerInstallPlanRetry).                              *)
THEOREM StatusSafe == Spec => StatusKept
<1>1. IInv /\ [Next]_vars => [Keeps]_vars
    BY NextInv, ZenonT(30)
<1> QED
    BY <1>1, InitInv, NextInv, PTL DEF Spec, StatusKept
=============================================================================
