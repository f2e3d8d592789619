---------------------------- MODULE InstallPlans ----------------------------
(***************************************************************************)
(* The execution of InstallPlans by the catalog operator                   *)
(* (pkg/controller/operators/catalog: operator.go, step.go,                *)
(* step_ensurer.go, installplan_sync.go) together with the part of the     *)
(* Subscription sync that watches the plan a Subscription references       *)
(* (pkg/controller/operators/catalog/subscription).                        *)
(*                                                                         *)
(* Several workers sync plans; one sync is a read of the plan, a few API   *)
(* calls and the UpdateStatus at its end, with anything happening in       *)
(* between.  A worker's copy is what it read at StartSync: the informer's  *)
(* lag is the time it then waits before its next step.  "fresh" says that  *)
(* the plan has not been written since the copy was read, so that the API  *)
(* server accepts the copy's resource version.                             *)
(***************************************************************************)
EXTENDS Integers, Sequences, FiniteSets, FiniteSetsExt

CONSTANTS
    Kind,         \* the kinds of the steps of a plan, in order
    Workers,      \* the workers of the InstallPlan queue
    MaxPlans,     \* bound: plans ever created
    MaxVersion,   \* bound: versions the catalog ever offers
    Scoped,       \* the OperatorGroup names a service account
    Denials,      \* the sets of steps it may lack the permissions for
    Approvals,    \* the approval strategies a plan may be created with
    Faults,       \* the kinds of faults and user actions that may happen
    MaxFaults     \* bound: how many of them

Steps == DOMAIN Kind
PlanIds == 1..MaxPlans
Versions == 1..MaxVersion

Kinds == {"CSV", "CRD", "Role", "Secret"}
Statuses == {"Unknown", "NotPresent", "Present", "Created", "WaitingForApi"}
Phases == {"RequiresApproval", "Installing", "Complete", "Failed"}
Conds == {"", "InstallCheckFailed", "ComponentFailed", "Met"}
SubStates == {"None", "UpgradePending", "AtLatestKnown"}
SubConds == {"InstallPlanMissing", "InstallPlanPending", "InstallPlanFailed"}

ASSUME ConstantsAssumption ==
    /\ MaxPlans \in Nat \ {0} /\ MaxVersion \in Nat \ {0} /\ MaxFaults \in Nat
    /\ Kind \in Seq(Kinds) /\ Kind # <<>>
    /\ Scoped \in BOOLEAN /\ Denials \subseteq SUBSET Steps
    /\ Approvals \subseteq {"Automatic", "Manual"}

VARIABLES
    plan,        \* the InstallPlans, in the cluster when in live
    live,        \* the InstallPlans the API server has
    created,     \* how many were ever created
    expired,     \* plans whose start time is further back than the timeout
    csvs,        \* the versions whose CSV exists
    object,      \* for every step that is not a CSV: the version its object
                 \* was last written with, 0 when there is none
    established, \* the CRDs the API server serves
    denied,      \* the steps whose object the service account may not write
    rbac,        \* plans an RBAC event is still to be checked against
    head,        \* the newest version in the catalog
    sub,         \* the Subscription's status
    sync,        \* the workers of the InstallPlan queue
    subSync,     \* the Subscription worker, inside installPlanReconciler
    faults,      \* faults and user actions so far
    applied,     \* history: the steps of a plan that ever reached the cluster
    problem      \* history: the kinds of errors a plan's steps ever returned

planVars == <<plan, live, created, expired>>
clusterVars == <<csvs, object, established, denied>>
vars == <<planVars, clusterVars, rbac, head, sub, sync, subSync, faults,
          applied, problem>>

-----------------------------------------------------------------------------
(* State *)

NewPlan(version, approval) ==
    [version |-> version, approved |-> approval = "Automatic",
     phase |-> IF approval = "Automatic" THEN "Installing" ELSE "RequiresApproval",
     started |-> FALSE, sa |-> FALSE, cond |-> "",
     status |-> [s \in Steps |-> "Unknown"]]

Idle == [pc |-> "idle", p |-> 1, out |-> NewPlan(1, "Automatic"), i |-> 1,
         fresh |-> FALSE, late |-> FALSE]

SubIdle == [pc |-> "idle", phase |-> "Complete"]

Init ==
    /\ plan = [p \in PlanIds |-> NewPlan(1, "Automatic")]
    /\ live = {} /\ created = 0 /\ expired = {}
    /\ csvs = {} /\ object = [s \in Steps |-> 0] /\ established = {}
    /\ denied \in (IF Scoped THEN Denials ELSE {{}})
    /\ rbac = {} /\ head = 1
    /\ sub = [state |-> "None", ref |-> 0, csv |-> 0, conds |-> {}]
    /\ sync = [w \in Workers |-> Idle] /\ subSync = SubIdle
    /\ faults = 0
    /\ applied = [p \in PlanIds |-> {}] /\ problem = [p \in PlanIds |-> {}]

Fault(kind) ==
    /\ kind \in Faults
    /\ faults < MaxFaults
    /\ faults' = faults + 1

-----------------------------------------------------------------------------
(* syncInstallPlans *)

\* A write of plan p makes every other worker's copy of it out of date.
Outdate(p, w, next) ==
    [x \in Workers |-> IF x = w THEN next
                       ELSE [sync[x] EXCEPT !.fresh = @ /\ sync[x].p # p]]

\* The API server refuses a stale resource version and a plan that is gone.
Accepted(w) == sync[w].fresh /\ sync[w].p \in live

\* What the API server does with the worker's UpdateStatus(rec).  A refused
\* call ends the sync with an error, and the plan is queued again.
Put(w, rec, next) ==
    IF Accepted(w)
    THEN /\ plan' = [plan EXCEPT ![sync[w].p] = rec]
         /\ sync' = IF rec = plan[sync[w].p] THEN [sync EXCEPT ![w] = next]
                                             ELSE Outdate(sync[w].p, w, next)
    ELSE /\ sync' = [sync EXCEPT ![w] = Idle]
         /\ UNCHANGED plan

UpdateStatus(w, rec, next) ==
    \/ Put(w, rec, next) /\ UNCHANGED faults
    \/ /\ Accepted(w) /\ Fault("write")
       /\ sync' = [sync EXCEPT ![w] = Idle]
       /\ UNCHANGED plan

\* Mutant: a plan in a terminal phase is synced like any other.
MutStartSync(w, p) ==
    /\ sync[w].pc = "idle" /\ p \in live
    /\ sync' = [sync EXCEPT ![w] = [Idle EXCEPT !.pc = "query", !.p = p,
                                                !.out = plan[p], !.fresh = TRUE]]
    /\ UNCHANGED <<planVars, clusterVars, rbac, head, sub, subSync, faults, applied, problem>>

\* A plan in a terminal phase is not looked at again.
StartSync(w, p) ==
    /\ sync[w].pc = "idle" /\ p \in live
    /\ plan[p].phase \notin {"Failed", "Complete"}
    /\ sync' = [sync EXCEPT ![w] = [Idle EXCEPT !.pc = "query", !.p = p,
                                                !.out = plan[p], !.fresh = TRUE]]
    /\ UNCHANGED <<planVars, clusterVars, rbac, head, sub, subSync, faults, applied, problem>>

\* The service account query fails: the condition says so, the sync is retried.
QueryFails(w) ==
    /\ sync[w].pc = "query" /\ Fault("query")
    /\ Put(w, [sync[w].out EXCEPT !.cond = "InstallCheckFailed"], Idle)
    /\ UNCHANGED <<live, created, expired, clusterVars, rbac, head, sub, subSync, applied, problem>>

\* The query succeeds.  A condition an earlier failure left is reset first,
\* and the sync goes on with the plan that update returned.
ResetCondition(w) ==
    /\ sync[w].pc = "query" /\ sync[w].out.cond = "InstallCheckFailed"
    /\ LET rec == [sync[w].out EXCEPT !.cond = ""] IN
       UpdateStatus(w, rec, [sync[w] EXCEPT !.out = rec])
    /\ UNCHANGED <<live, created, expired, clusterVars, rbac, head, sub, subSync, applied, problem>>

\* The copy the sync goes on with after the query.
Queried(w) == sync[w].pc = "query" /\ sync[w].out.cond # "InstallCheckFailed"

\* A plan that does not name the service account yet gets it, and that is all
\* this sync does.
Attach(w) ==
    /\ Queried(w) /\ Scoped /\ ~sync[w].out.sa
    /\ UpdateStatus(w, [sync[w].out EXCEPT !.sa = TRUE], Idle)
    /\ UNCHANGED <<live, created, expired, clusterVars, rbac, head, sub, subSync, applied, problem>>

-----------------------------------------------------------------------------
(* transitionInstallPlanState *)

\* The first step from i on that ExecutePlan has something to do for: Present
\* and Created steps are passed, and so is one that waits for an API, CRDs
\* excepted.
ToDo(out, i) ==
    LET left == {s \in Steps : /\ s >= i
                               /\ out.status[s] \notin {"Present", "Created"}
                               /\ out.status[s] = "WaitingForApi" => Kind[s] = "CRD"}
    IN IF left = {} THEN Len(Kind) + 1 ELSE Min(left)

\* now is read here; a copy without a start time gets now as its start time,
\* and then no time has passed.
Transition(w) ==
    LET out == sync[w].out IN
    /\ Queried(w) /\ (Scoped => out.sa)
    /\ sync' = [sync EXCEPT ![w] =
                  IF out.phase = "RequiresApproval"
                  THEN [@ EXCEPT !.pc = "write",
                                 !.out.phase = IF out.approved THEN "Installing" ELSE out.phase]
                  ELSE [@ EXCEPT !.pc = "step", !.i = ToDo(out, 1), !.out.started = TRUE,
                                 !.late = out.started /\ sync[w].p \in expired]]
    /\ UNCHANGED <<planVars, clusterVars, rbac, head, sub, subSync, faults, applied, problem>>

NeedsRequeue(out) == \E s \in Steps : out.status[s] = "WaitingForApi"

MutExecuteIgnoresErrors(out, err, late) ==
    IF err = "other" /\ late
    THEN [out EXCEPT !.phase = "Failed", !.cond = "ComponentFailed"]
    ELSE IF NeedsRequeue(out) THEN out
    ELSE [out EXCEPT !.phase = "Complete", !.cond = "Met"]

MutExecuteFailsAtOnce(out, err, late) ==
    IF err # "none"
    THEN IF err = "forbidden" THEN out
         ELSE [out EXCEPT !.phase = "Failed", !.cond = "ComponentFailed"]
    ELSE IF NeedsRequeue(out) THEN out
    ELSE [out EXCEPT !.phase = "Complete", !.cond = "Met"]

\* The plan after ExecutePlan.  Forbidden problems are never terminal.
AfterExecute(out, err, late) ==
    IF err # "none"
    THEN IF err = "forbidden" \/ ~late THEN out
         ELSE [out EXCEPT !.phase = "Failed", !.cond = "ComponentFailed"]
    ELSE IF NeedsRequeue(out) THEN out
    ELSE [out EXCEPT !.phase = "Complete", !.cond = "Met"]

MutDone(w, status) ==
    sync' = [sync EXCEPT ![w].out.status[sync[w].i] = status,
                         ![w].i = ToDo(sync[w].out, @ + 1) + 1]

\* Step i left the object and the step's status behind: on to the next one.
Done(w, status) ==
    sync' = [sync EXCEPT ![w].out.status[sync[w].i] = status,
                         ![w].i = ToDo(sync[w].out, @ + 1)]

\* Step i returned an error: ExecutePlan stops there.
Stop(w, err) ==
    /\ sync' = [sync EXCEPT ![w].pc = "write",
                            ![w].out = AfterExecute(@, err, sync[w].late)]
    /\ problem' = [problem EXCEPT ![sync[w].p] = @ \cup {err}]

Executing(w, kind) ==
    /\ sync[w].pc = "step" /\ sync[w].i \in Steps
    /\ Kind[sync[w].i] = kind

Status(w) == sync[w].out.status[sync[w].i]
Version(w) == sync[w].out.version
Attempted(w) == Status(w) \in {"Unknown", "NotPresent"}

Reached(w) == applied' = [applied EXCEPT ![sync[w].p] = @ \cup {sync[w].i}]

\* The service account's client lets the worker write the step's object.
Allowed(w) == sync[w].i \notin denied

\* EnsureClusterServiceVersion (and EnsureSubscription): an existing one is
\* left alone.
EnsureClusterServiceVersion(v) == IF v \in csvs THEN "Present" ELSE "Created"

CSVStep(w) ==
    /\ Executing(w, "CSV") /\ Attempted(w) /\ Allowed(w)
    /\ csvs' = csvs \cup {Version(w)}
    /\ Done(w, EnsureClusterServiceVersion(Version(w)))
    /\ Reached(w)
    /\ UNCHANGED <<planVars, object, established, denied, rbac, head, sub, subSync, faults, problem>>

\* The Status() of a CRD stepper that waits for the API.  A CRD that is not
\* established falls out of the switch: Unknown, and no error.
MutCRDWaitStatus(s) ==
    IF s \in established THEN "Created" ELSE "WaitingForApi"

CRDWaitStatus(s) ==
    IF object[s] = 0 THEN "NotPresent"
    ELSE IF s \in established THEN "Created" ELSE "Unknown"

CRDWait(w) ==
    /\ Executing(w, "CRD") /\ Status(w) = "WaitingForApi"
    /\ Done(w, CRDWaitStatus(sync[w].i))
    /\ UNCHANGED <<planVars, clusterVars, rbac, head, sub, subSync, faults, applied, problem>>

\* The Status() of a CRD stepper that has not applied its CRD: created, it has
\* to become available; one that exists is updated.  OLM's own client is used.
CRDStep(w) ==
    /\ Executing(w, "CRD") /\ Attempted(w)
    /\ object' = [object EXCEPT ![sync[w].i] = Version(w)]
    /\ Done(w, IF object[sync[w].i] = 0 THEN "WaitingForApi" ELSE "Present")
    /\ Reached(w)
    /\ UNCHANGED <<planVars, csvs, established, denied, rbac, head, sub, subSync, faults, problem>>

\* EnsureRole and its siblings (cluster role, bindings, service account,
\* service, config map, bundle secret, any other object): create, or update
\* what exists.
EnsureRole(s, v) == object' = [object EXCEPT ![s] = v]
EnsureStatus(s) == IF object[s] = 0 THEN "Created" ELSE "Present"

\* Their owner references need the CSV (those of cluster roles and their
\* bindings do not; they are not a kind of their own).
RoleStep(w) ==
    /\ Executing(w, "Role") /\ Attempted(w) /\ Allowed(w) /\ Version(w) \in csvs
    /\ EnsureRole(sync[w].i, Version(w))
    /\ Done(w, EnsureStatus(sync[w].i))
    /\ Reached(w)
    /\ UNCHANGED <<planVars, csvs, established, denied, rbac, head, sub, subSync, faults, problem>>

\* EnsureSecret: a secret that exists is left alone, and has no owner.
SecretStep(w) ==
    /\ Executing(w, "Secret") /\ Attempted(w) /\ Allowed(w)
    /\ object' = [object EXCEPT ![sync[w].i] = IF @ = 0 THEN Version(w) ELSE @]
    /\ Done(w, EnsureStatus(sync[w].i))
    /\ Reached(w)
    /\ UNCHANGED <<planVars, csvs, established, denied, rbac, head, sub, subSync, faults, problem>>

\* What apierrors.IsForbidden makes of the API server's refusal: EnsureSecret
\* formats it into an error of its own.
Refusal(kind) == IF kind = "Secret" THEN "other" ELSE "forbidden"

\* The API server forbids the service account to write the object.
StepForbidden(w) ==
    /\ sync[w].pc = "step" /\ sync[w].i \in Steps
    /\ Kind[sync[w].i] # "CRD" /\ Attempted(w) /\ ~Allowed(w)
    /\ Kind[sync[w].i] = "Role" => Version(w) \in csvs
    /\ Stop(w, Refusal(Kind[sync[w].i]))
    /\ UNCHANGED <<planVars, clusterVars, rbac, head, sub, subSync, faults, applied>>

\* The CSV that is to own the object is not there.
OwnerMissing(w) ==
    /\ Executing(w, "Role") /\ Attempted(w) /\ Version(w) \notin csvs
    /\ Stop(w, "other")
    /\ UNCHANGED <<planVars, clusterVars, rbac, head, sub, subSync, faults, applied>>

\* Any other error: an unavailable API server, a CRD whose new schema rejects
\* existing resources, a manifest that cannot be read (it is read for every
\* step, also for those already done).
StepFails(w) ==
    /\ sync[w].pc = "step" /\ sync[w].i \in Steps
    /\ Fault("step")
    /\ Stop(w, "other")
    /\ UNCHANGED <<planVars, clusterVars, rbac, head, sub, subSync, applied>>

\* Every step was passed without an error.
StepsDone(w) ==
    /\ sync[w].pc = "step" /\ sync[w].i \notin Steps
    /\ sync' = [sync EXCEPT ![w].pc = "write",
                            ![w].out = AfterExecute(@, "none", sync[w].late)]
    /\ UNCHANGED <<planVars, clusterVars, rbac, head, sub, subSync, faults, applied, problem>>

\* The status is written whatever ExecutePlan returned.
Write(w) ==
    /\ sync[w].pc = "write"
    /\ UpdateStatus(w, sync[w].out, Idle)
    /\ UNCHANGED <<live, created, expired, clusterVars, rbac, head, sub, subSync, applied, problem>>

\* The process ends and starts again: what the workers held is gone.
Restart ==
    /\ Fault("restart")
    /\ sync' = [w \in Workers |-> Idle] /\ subSync' = SubIdle
    /\ UNCHANGED <<planVars, clusterVars, rbac, head, sub, applied, problem>>

SyncStep(w) ==
    \/ QueryFails(w) \/ ResetCondition(w) \/ Attach(w) \/ Transition(w)
    \/ CSVStep(w) \/ CRDWait(w) \/ CRDStep(w) \/ RoleStep(w) \/ SecretStep(w)
    \/ StepForbidden(w) \/ OwnerMissing(w) \/ StepFails(w) \/ StepsDone(w)
    \/ Write(w)

-----------------------------------------------------------------------------
(* triggerInstallPlanRetry *)

\* Someone gives the service account its permissions with a Role and a
\* RoleBinding; the event is handled for the plans there are.
Grant ==
    /\ denied # {}
    /\ denied' = {} /\ rbac' = live
    /\ UNCHANGED <<planVars, csvs, object, established, head, sub, sync, subSync, faults, applied, problem>>

\* The handler's loop, one plan: a failed plan that names a service account
\* is put back to Installing, its start time kept.
TriggerRetry(p) ==
    /\ p \in rbac
    /\ rbac' = rbac \ {p}
    /\ IF p \in live /\ plan[p].phase = "Failed" /\ plan[p].sa
       THEN /\ plan' = [plan EXCEPT ![p].phase = "Installing"]
            /\ sync' = [x \in Workers |-> [sync[x] EXCEPT !.fresh = @ /\ sync[x].p # p]]
       ELSE UNCHANGED <<plan, sync>>
    /\ UNCHANGED <<live, created, expired, clusterVars, head, sub, subSync, faults, applied, problem>>

-----------------------------------------------------------------------------
(* The Subscription: installPlanReconciler *)

\* CheckInstallPlanStatus: the conditions for a plan in that phase.
CheckInstallPlanStatus(s, phase) ==
    [s EXCEPT !.conds = (@ \ SubConds) \cup
        CASE phase \in {"RequiresApproval", "Installing"} -> {"InstallPlanPending"}
          [] phase = "Failed" -> {"InstallPlanFailed"}
          [] OTHER -> {}]

\* InstallPlanNotFound: a pending upgrade gives up the reference.
InstallPlanNotFound(s) ==
    LET rest == s.conds \ {"InstallPlanPending", "InstallPlanFailed"} IN
    IF s.state = "UpgradePending"
    THEN [state |-> "None", ref |-> 0, csv |-> 0, conds |-> rest]
    ELSE [s EXCEPT !.conds = rest \cup {"InstallPlanMissing"}]

\* What the reconciler would write for the Subscription and the plan it read.
Reconciled(s, phase) ==
    IF phase = "Missing" THEN InstallPlanNotFound(s) ELSE CheckInstallPlanStatus(s, phase)

\* Nothing is written when the conditions have not changed.
MutUnchanged(s, out) == out.ref = s.ref

Unchanged(s, out) == out.conds = s.conds

\* The Subscription and the plan's phase are read from the informers.  When
\* someone else writes the Subscription before the reconciler does, the API
\* server refuses the reconciler's write and the sync starts again: subSync is
\* idle again from that other write on, so sub is what was read here for as
\* long as the reconciler may still write.
SubRead ==
    /\ subSync.pc = "idle" /\ sub.ref # 0
    /\ subSync' = [pc |-> "write",
                   phase |-> IF sub.ref \in live THEN plan[sub.ref].phase ELSE "Missing"]
    /\ UNCHANGED <<planVars, clusterVars, rbac, head, sub, sync, faults, applied, problem>>

SubWrite ==
    LET out == Reconciled(sub, subSync.phase) IN
    /\ subSync.pc = "write"
    /\ subSync' = SubIdle
    /\ sub' = IF Unchanged(sub, out) THEN sub ELSE out
    /\ UNCHANGED <<planVars, clusterVars, rbac, head, sync, faults, applied, problem>>

-----------------------------------------------------------------------------
(* The rest of the system *)

\* The resolution of the namespace in one step (module NamespaceResolution has
\* it in full): the state follows the CSV; a new plan is made when the
\* catalog has a version without a CSV and no upgrade is pending.
Resolve ==
    LET state == IF sub.csv = 0 THEN sub.state
                 ELSE IF sub.csv \in csvs THEN "AtLatestKnown" ELSE "UpgradePending"
        upgrade == state # "UpgradePending" /\ head \notin csvs /\ created < MaxPlans
    IN
    /\ \/ /\ upgrade
          /\ created' = created + 1 /\ live' = live \cup {created'}
          /\ \E a \in Approvals : plan' = [plan EXCEPT ![created'] = NewPlan(head, a)]
          /\ sub' = [sub EXCEPT !.state = "UpgradePending", !.ref = created', !.csv = head]
       \/ /\ ~upgrade /\ state # sub.state
          /\ sub' = [sub EXCEPT !.state = state]
          /\ UNCHANGED <<created, live, plan>>
    /\ subSync' = SubIdle
    /\ UNCHANGED <<expired, clusterVars, rbac, head, sync, faults, applied, problem>>

\* The catalog gets a newer version.
CatalogUpdate ==
    /\ head < MaxVersion /\ Fault("catalog")
    /\ head' = head + 1
    /\ UNCHANGED <<planVars, clusterVars, rbac, sub, sync, subSync, applied, problem>>

\* A user approves a plan.
Approve(p) ==
    /\ p \in live /\ ~plan[p].approved
    /\ plan' = [plan EXCEPT ![p].approved = TRUE]
    /\ sync' = [x \in Workers |-> [sync[x] EXCEPT !.fresh = @ /\ sync[x].p # p]]
    /\ UNCHANGED <<live, created, expired, clusterVars, rbac, head, sub, subSync, faults, applied, problem>>

\* A plan is deleted, by a user or by gcInstallPlans.
DeletePlan(p) ==
    /\ p \in live /\ Fault("deletePlan")
    /\ live' = live \ {p}
    /\ UNCHANGED <<plan, created, expired, clusterVars, rbac, head, sub, sync, subSync, applied, problem>>

\* A user deletes a CSV.
DeleteCSV(v) ==
    /\ v \in csvs /\ Fault("deleteCSV")
    /\ csvs' = csvs \ {v}
    /\ UNCHANGED <<planVars, object, established, denied, rbac, head, sub, sync, subSync, applied, problem>>

\* A user deletes a CRD.
DeleteCRD(s) ==
    /\ object[s] # 0 /\ Kind[s] = "CRD" /\ Fault("deleteCRD")
    /\ object' = [object EXCEPT ![s] = 0] /\ established' = established \ {s}
    /\ UNCHANGED <<planVars, csvs, denied, rbac, head, sub, sync, subSync, applied, problem>>

\* The API server starts to serve a CRD.
Establish(s) ==
    /\ Kind[s] = "CRD" /\ object[s] # 0 /\ s \notin established
    /\ established' = established \cup {s}
    /\ UNCHANGED <<planVars, csvs, object, denied, rbac, head, sub, sync, subSync, faults, applied, problem>>

\* The plan's start time is now further back than the timeout.
Expire(p) ==
    /\ p \in live /\ plan[p].started /\ p \notin expired
    /\ expired' = expired \cup {p}
    /\ UNCHANGED <<plan, live, created, clusterVars, rbac, head, sub, sync, subSync, faults, applied, problem>>

-----------------------------------------------------------------------------
Next ==
    \/ \E w \in Workers : SyncStep(w) \/ \E p \in PlanIds : StartSync(w, p)
    \/ \E p \in PlanIds : TriggerRetry(p) \/ Approve(p) \/ DeletePlan(p) \/ Expire(p)
    \/ \E s \in Steps : DeleteCRD(s) \/ Establish(s)
    \/ \E v \in Versions : DeleteCSV(v)
    \/ SubRead \/ SubWrite \/ Resolve \/ CatalogUpdate \/ Grant \/ Restart

\* Queued items are synced and retried (first in, first out workqueue, RequeueAfter, resync), the
\* clock advances and the API server establishes CRDs.  Nobody has to approve
\* a plan or to grant a permission.
Fairness ==
    /\ \A p \in PlanIds : SF_vars(\E w \in Workers : StartSync(w, p))
    /\ \A w \in Workers : WF_vars(SyncStep(w))
    /\ WF_vars(\E p \in PlanIds : TriggerRetry(p))
    /\ WF_vars(\E p \in PlanIds : Expire(p))
    /\ WF_vars(\E s \in Steps : Establish(s))
    /\ WF_vars(SubRead \/ SubWrite)
    /\ WF_vars(Resolve)

Spec == Init /\ [][Next]_vars
FairSpec == Spec /\ Fairness

-----------------------------------------------------------------------------
(* Properties *)

PlanRec == [version : Versions, approved : BOOLEAN, phase : Phases, started : BOOLEAN,
            sa : BOOLEAN, cond : Conds, status : [Steps -> Statuses]]
SubRec == [state : SubStates, ref : 0..MaxPlans, csv : 0..MaxVersion, conds : SUBSET SubConds]
SyncRec == [pc : {"idle", "query", "step", "write"}, p : PlanIds, out : PlanRec,
            i : 1..(Len(Kind) + 1), fresh : BOOLEAN, late : BOOLEAN]
SubSyncRec == [pc : {"idle", "write"}, phase : Phases \cup {"Missing"}]

\* The type invariant of plans, cluster objects, Subscription and workers.
TypeOK ==
    /\ plan \in [PlanIds -> PlanRec] /\ created \in 0..MaxPlans
    /\ live \subseteq PlanIds /\ expired \subseteq PlanIds /\ rbac \subseteq PlanIds
    /\ csvs \subseteq Versions /\ object \in [Steps -> 0..MaxVersion]
    /\ established \subseteq Steps /\ denied \subseteq Steps
    /\ head \in Versions /\ sub \in SubRec
    /\ sync \in [Workers -> SyncRec] /\ subSync \in SubSyncRec
    /\ faults \in 0..MaxFaults
    /\ applied \in [PlanIds -> SUBSET Steps]
    /\ problem \in [PlanIds -> SUBSET {"forbidden", "other"}]

\* A plan is Complete only when every one of its steps reached the cluster:
\* whatever was retried, refused by the API server, done twice by two workers
\* or lost with the process, no step is skipped (ExecutePlan,
\* transitionInstallPlanState).
CompleteApplied ==
    \A p \in live : plan[p].phase = "Complete" => applied[p] = Steps

\* A plan fails only when it had been Installing for longer than the timeout
\* and a step returned an error that was not a forbidden one
\* (transitionInstallPlanState).
FailedJustified ==
    \A p \in live : plan[p].phase = "Failed" => p \in expired /\ "other" \in problem[p]

\* A step keeps what the plans record.
Keeps ==
    \A p \in live :
        /\ \A s \in Steps : plan[p].status[s] \in {"Created", "Present"}
                              => plan'[p].status[s] = plan[p].status[s]
        /\ plan[p].started => plan'[p].started
        /\ plan[p].approved => plan'[p].approved
        /\ plan[p].sa => plan'[p].sa
        /\ plan[p].phase = "Complete" => plan'[p] = plan[p]
        /\ plan[p].phase = "Failed" => plan'[p].phase \in {"Failed", "Installing"}

\* No write of a worker undoes what another one recorded: a step that is
\* Created or Present stays so, a plan that was started, approved or given a
\* service account stays so, Complete is final, and a Failed plan can only be
\* taken up again (syncInstallPlans, triggerInstallPlanRetry).
StatusKept == [][Keeps]_vars

\* With the permissions they need, the plans that are Installing all end in a
\* terminal phase: neither a lost status, a conflict, a deleted CRD nor the wait
\* for an API keeps a plan Installing (syncInstallPlans).
PlansFinish ==
    []<>(denied = {} => \A p \in live : plan[p].phase # "Installing")

\* The conditions the Subscription should show for the plan it references.
Shows(s) ==
    IF s.ref = 0 THEN {}
    ELSE IF s.ref \notin live THEN {"InstallPlanMissing"}
    ELSE CASE plan[s.ref].phase \in {"RequiresApproval", "Installing"} -> {"InstallPlanPending"}
           [] plan[s.ref].phase = "Failed" -> {"InstallPlanFailed"}
           [] OTHER -> {}

\* The Subscription's conditions catch up with the plan it references, also
\* when the plan fails, is taken up again or is deleted after its CSV was
\* installed (installPlanReconciler).
SubscriptionFollows ==
    []<>(\/ sub.conds = Shows(sub)
         \/ sub.state = "UpgradePending" /\ sub.ref # 0 /\ sub.ref \notin live)

\* A pending upgrade whose InstallPlan is missing gives up the reference, "so
\* the resolution can happen again" (InstallPlanNotFound).
MissingPlanCleared ==
    (sub.state = "UpgradePending" /\ sub.ref # 0 /\ sub.ref \notin live)
        ~> (sub.state # "UpgradePending" \/ sub.ref = 0 \/ sub.ref \in live)

\* A plan is Complete only after the API of every CRD it created became
\* available: "make sure to wait for the API to become available"
\* (NewCRDV1Step).
EstablishedBeforeComplete ==
    \A p \in live : plan[p].phase = "Complete" =>
        \A s \in Steps : plan[p].status[s] \in {"Created", "Present"}

\* Forbidden problems are never terminal (transitionInstallPlanState).
ForbiddenNotTerminal ==
    faults = 0 => \A p \in live : plan[p].phase # "Failed"
=============================================================================
