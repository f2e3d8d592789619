------------------------ MODULE NamespaceResolution ------------------------
(***************************************************************************)
(* The resolution loop of the catalog operator for one namespace that      *)
(* holds one Subscription: syncResolvingNamespace compares the             *)
(* Subscription with the cluster, resolves the next version of its package *)
(* in the catalog, unpacks the bundle, creates an InstallPlan and points   *)
(* the Subscription's status at it; syncInstallPlans executes the plans.   *)
(*                                                                         *)
(* A version is a number: the catalog's channel holds 1 .. head, each      *)
(* version replaces the one below it, and Skips adds the pairs             *)
(* <<installed, version>> a skipRange or a skips entry allows.  A plan is  *)
(* its position in the sequence plans, the order of creation.  0 is the    *)
(* empty version or the nil reference.                                     *)
(***************************************************************************)
EXTENDS Naturals, Sequences, FiniteSets

CONSTANTS Workers,              \* the workers of nsResolveQueue
          MaxVersion,           \* bound: the newest version the catalog may get
          MaxPlans,             \* bound: InstallPlans ever created
          MaxInstallPlanCount,  \* plans kept by gcInstallPlans
          MaxDeletesPerSweep,   \* plans gcInstallPlans deletes in one sweep
          Skips,                \* the upgrade edges besides v -> v + 1
          Approvals,            \* the installPlanApproval values the user may set
          FailForward,          \* the OperatorGroup's upgradeStrategy
          Faults,               \* the kinds of failure that may happen
          MaxFaults,            \* bound: how many of them
          None                  \* no worker

ASSUME NamespaceResolutionAssumption ==
    /\ MaxVersion \in Nat \ {0} /\ MaxPlans \in Nat /\ MaxFaults \in Nat
    /\ MaxInstallPlanCount \in Nat \ {0} /\ MaxDeletesPerSweep \in Nat
    /\ Skips \subseteq (1 .. MaxVersion) \X (1 .. MaxVersion)
    /\ Approvals \subseteq {"Automatic", "Manual"} /\ FailForward \in BOOLEAN /\ None \notin Workers

VARIABLES head,      \* the newest version of the channel in the catalog
          sub,       \* the Subscription's status
          plans,     \* the InstallPlans, in the order of creation
          csvs,      \* the versions whose CSV exists
          csvCache,  \* the versions the CSV lister holds
          subCache,  \* the installedCSV of the Subscription in its lister
          sync,      \* what each worker is doing
          stale,     \* workers whose listed Subscription has been overwritten
          muInstallPlan, \* the worker that holds the lock
          faults     \* failures so far

vars == <<head, sub, plans, csvs, csvCache, subCache, sync, stale, muInstallPlan, faults>>

Versions == 1 .. MaxVersion

CondTypes == {"ResolutionFailed", "BundleUnpacking", "BundleUnpackFailed"}

SubStatus == [current: 0 .. MaxVersion, installed: 0 .. MaxVersion,
              ref: 0 .. MaxPlans, gen: Nat,
              state: {"", "UpgradePending", "AtLatestKnown", "Failed"},
              conds: SUBSET CondTypes]

NewSub == [current |-> 0, installed |-> 0, ref |-> 0, gen |-> 0, state |-> "",
           conds |-> {}]

Plans == [gen: Nat, csv: Versions, alive: BOOLEAN,
          approved: BOOLEAN,
          phase: {"", "RequiresApproval", "Installing", "Complete", "Failed"}]

Syncs == [pc: {"idle", "ensure", "update", "resolve", "unpack", "cond", "list",
               "ensureip", "lock", "create", "status", "final"},
          sub: SubStatus,       \* the Subscription as the sync listed it
          updated: SubStatus,   \* the Subscription as ResolveSteps listed it
          op: 0 .. MaxVersion,  \* the version resolved, if it is new
          gen: Nat,             \* the generation of the plan to create
          ref: 0 .. MaxPlans,   \* the plan found or created
          approval: {"Automatic", "Manual"},  \* the approval the plan gets
          cond: CondTypes]      \* the condition about to be written

IdleSync == [pc |-> "idle", sub |-> NewSub, updated |-> NewSub, op |-> 0,
             gen |-> 0, ref |-> 0, approval |-> "Automatic",
             cond |-> "ResolutionFailed"]

Alive == {p \in DOMAIN plans : plans[p].alive}

Init ==
    /\ head \in Versions
    /\ sub = NewSub
    /\ plans = << >>
    /\ csvs = {}
    /\ csvCache = {}
    /\ subCache = 0
    /\ sync = [w \in Workers |-> IdleSync]
    /\ stale = {}
    /\ muInstallPlan = None
    /\ faults = 0

(* A failure the code handles, out of a budget. *)
Fault(kind) ==
    /\ kind \in Faults
    /\ faults < MaxFaults
    /\ faults' = faults + 1

SetSync(w, r) == sync' = [sync EXCEPT ![w] = r]

Finish(w) == SetSync(w, IdleSync)

(* A write of the Subscription makes what the other syncs listed stale. *)
WriteSub(w, status) ==
    /\ sub' = status
    /\ stale' = stale \cup {v \in Workers \ {w} : sync[v].pc # "idle"}

-----------------------------------------------------------------------------
MutExpired(ips) ==
    {p \in ips : Cardinality({q \in ips : q < p}) >= MaxInstallPlanCount}

(* The plans gcInstallPlans deletes out of those it considers: the lowest    *)
(* generations first, within a generation the oldest first.                  *)
Expired(ips) ==
    LET Older(p, q) == \/ plans[p].gen < plans[q].gen
                       \/ plans[p].gen = plans[q].gen /\ p < q
    IN  {p \in ips : Cardinality({q \in ips : Older(p, q)}) >= MaxInstallPlanCount}

(* syncResolvingNamespace up to the loop over the Subscriptions: the garbage *)
(* collection of plans and the list of the Subscriptions.  Of the plans to   *)
(* delete only some go if the lister lags behind or a request fails.         *)
StartSync(w) ==
    /\ sync[w].pc = "idle"
    /\ \E ips \in SUBSET Alive :
         /\ \/ ips = Alive /\ Cardinality(ips) <= MaxInstallPlanCount + MaxDeletesPerSweep
            \/ Cardinality(ips) = MaxInstallPlanCount + MaxDeletesPerSweep
         /\ \E gone \in SUBSET Expired(ips) :
              /\ IF gone = Expired(ips) THEN UNCHANGED faults ELSE Fault("delete")
              /\ plans' = [p \in DOMAIN plans |->
                             [plans[p] EXCEPT !.alive = @ /\ p \notin gone]]
    /\ SetSync(w, [IdleSync EXCEPT !.pc = "ensure", !.sub = sub])
    /\ stale' = stale \ {w}
    /\ UNCHANGED <<head, sub, csvs, csvCache, subCache, muInstallPlan>>

nothingToUpdate(s) == s.ref # 0 /\ s.state = "UpgradePending"

MutCSVStateKeepsInstalled(s, found, failed) ==
    [s EXCEPT !.state = IF found THEN "AtLatestKnown" ELSE "UpgradePending"]

MutCSVStateClears(s, found, failed) ==
    [s EXCEPT !.state = IF found THEN "AtLatestKnown" ELSE "UpgradePending",
              !.installed = IF found THEN s.current ELSE 0]

(* The state ensureSubscriptionCSVState gives a Subscription whose CSV it    *)
(* found or not and whose plan it saw failed or not.                         *)
CSVState(s, found, failed) ==
    IF found
    THEN [s EXCEPT !.state = "AtLatestKnown", !.installed = s.current]
    ELSE [s EXCEPT !.state = IF failed THEN "Failed" ELSE "UpgradePending"]

(* With fail forward it looks at the plan, if it is still there. *)
PlanFailed(s) == FailForward /\ s.ref \in Alive /\ plans[s.ref].phase = "Failed"

(* ensureSubscriptionCSVState as far as its write, and, when the status      *)
(* represents the cluster, the test whether there is anything to update.     *)
(* Any error of a GET counts as a missing CSV or a plan that has not failed. *)
ensureSubscriptionCSVState(w) ==
    /\ sync[w].pc = "ensure"
    /\ LET s == sync[w].sub
       IN  \E found, failed \in BOOLEAN :
             /\ found => s.current \in csvs
             /\ failed => PlanFailed(s)
             /\ IF found = (s.current \in csvs) /\ failed = PlanFailed(s)
                THEN UNCHANGED faults ELSE Fault("get")
             /\ LET out == IF s.current = 0 THEN s ELSE CSVState(s, found, failed)
                IN  IF out.state # s.state
                    THEN SetSync(w, [sync[w] EXCEPT !.pc = "update", !.sub = out])
                    ELSE IF nothingToUpdate(s)
                    THEN Finish(w)
                    ELSE SetSync(w, [sync[w] EXCEPT !.pc = "resolve"])
    /\ UNCHANGED <<head, sub, plans, csvs, csvCache, subCache, stale, muInstallPlan>>

(* Its write, which fails if the Subscription has changed since the list;    *)
(* either way the sync is over.                                              *)
UpdateSubscription(w) ==
    /\ sync[w].pc = "update"
    /\ \/ w \in stale /\ UNCHANGED <<sub, stale, faults>>
       \/ w \notin stale /\ WriteSub(w, sync[w].sub) /\ UNCHANGED faults
       \/ Fault("update") /\ UNCHANGED <<sub, stale>>
    /\ Finish(w)
    /\ UNCHANGED <<head, plans, csvs, csvCache, subCache, muInstallPlan>>
-----------------------------------------------------------------------------
(* Resolve for one package.  A CSV the cached Subscription does not name is  *)
(* an error if the live one names it, and otherwise mandatory: it excludes   *)
(* every other version of the package, so nothing satisfies the Subscription *)
(* beside it.  (Every CSV succeeds here, so that fail forward leaves none    *)
(* out.)  An installed version offers the versions that may replace it,      *)
(* newest first, and itself last; without one the whole channel is offered,  *)
(* newest first.                                                             *)
Unreferenced == csvCache \ {subCache}

Candidates(s) ==
    IF s.installed \in csvCache
    THEN {v \in 1 .. head : v = s.installed + 1 \/ <<s.installed, v>> \in Skips}
    ELSE 1 .. head

Resolve(s, op) ==
    IF Candidates(s) = {}
    THEN op = 0
    ELSE op \in Candidates(s) /\ \A v \in Candidates(s) : v <= op

SetCond(w, cond) == SetSync(w, [sync[w] EXCEPT !.pc = "cond", !.cond = cond])

(* ResolveSteps lists the Subscription again and resolves.  A version is new *)
(* unless it is the current one and its CSV is cached; the Subscription is   *)
(* updated only if it names another one (updated.current = op otherwise).    *)
ResolveSteps(w) ==
    /\ sync[w].pc = "resolve"
    /\ \/ /\ Fault("resolve")
          /\ SetCond(w, "ResolutionFailed")
       \/ /\ UNCHANGED faults
          /\ IF Unreferenced # {}
             THEN SetCond(w, "ResolutionFailed")
             ELSE \E op \in 0 .. MaxVersion :
                    /\ Resolve(sub, op)
                    /\ IF op = 0 \/ (op = sub.current /\ op \in csvCache)
                       THEN SetSync(w, [sync[w] EXCEPT !.pc = "final", !.updated = sub])
                       ELSE SetSync(w, [sync[w] EXCEPT !.pc = "unpack",
                                                       !.updated = sub, !.op = op])
    /\ UNCHANGED <<head, sub, plans, csvs, csvCache, subCache, stale, muInstallPlan>>

Updates(w) == sync[w].op # 0 /\ sync[w].updated.current # sync[w].op

(* unpackBundles: unpacked, still unpacking, failed or a fatal error, or an  *)
(* error to retry.  A plan is created only for a Subscription that is        *)
(* updated.                                                                  *)
unpackBundles(w) ==
    /\ sync[w].pc = "unpack"
    /\ \/ /\ SetSync(w, [sync[w] EXCEPT !.pc = IF Updates(w) THEN "list" ELSE "final"])
          /\ UNCHANGED faults
       \/ Fault("unpacking") /\ SetCond(w, "BundleUnpacking")
       \/ Fault("unpack") /\ (SetCond(w, "BundleUnpackFailed") \/ Finish(w))
    /\ UNCHANGED <<head, sub, plans, csvs, csvCache, subCache, stale, muInstallPlan>>

(* setSubsCond and updateSubscriptionStatuses: the condition is added to the *)
(* Subscription as listed at the start, and that status is written over the  *)
(* latest one.  A condition already there is written only if its reason or   *)
(* message differs.                                                          *)
UpdateSubscriptionCond(w) ==
    /\ sync[w].pc = "cond"
    /\ LET s == sync[w].sub
       IN  \/ /\ WriteSub(w, [s EXCEPT !.conds = @ \cup {sync[w].cond}])
              /\ UNCHANGED faults
           \/ sync[w].cond \in s.conds /\ UNCHANGED <<sub, stale, faults>>
           \/ Fault("update") /\ UNCHANGED <<sub, stale>>
    /\ Finish(w)
    /\ UNCHANGED <<head, plans, csvs, csvCache, subCache, muInstallPlan>>
-----------------------------------------------------------------------------
(* The next plan's generation is above the Subscription's, as listed at the  *)
(* start, and above those of the plans; its approval is the Subscription's.  *)
Generations(w) == {sync[w].sub.gen} \cup {plans[p].gen : p \in Alive}

ListInstallPlans(w) ==
    /\ sync[w].pc = "list"
    /\ \/ /\ \E maxGeneration \in Generations(w), approval \in Approvals :
               /\ \A gen \in Generations(w) : gen <= maxGeneration
               /\ SetSync(w, [sync[w] EXCEPT !.pc = "ensureip", !.gen = maxGeneration + 1,
                                             !.approval = approval])
          /\ UNCHANGED faults
       \/ Fault("list") /\ Finish(w)
    /\ UNCHANGED <<head, sub, plans, csvs, csvCache, subCache, stale, muInstallPlan>>

(* ensureInstallPlan lists the plans before it takes the lock; a plan of the *)
(* same generation in that list is used instead of a new one.                *)
ensureInstallPlan(w) ==
    /\ sync[w].pc = "ensureip"
    /\ \/ /\ LET same == {p \in Alive : plans[p].gen = sync[w].gen}
             IN  \E ref \in IF same = {} THEN {0} ELSE same :
                   SetSync(w, [sync[w] EXCEPT !.pc = "lock", !.ref = ref])
          /\ UNCHANGED faults
       \/ Fault("list") /\ SetCond(w, "BundleUnpackFailed")
    /\ UNCHANGED <<head, sub, plans, csvs, csvCache, subCache, stale, muInstallPlan>>

LockInstallPlan(w) ==
    /\ sync[w].pc = "lock"
    /\ muInstallPlan = None
    /\ IF sync[w].ref # 0
       THEN /\ SetSync(w, [sync[w] EXCEPT !.pc = "final"])
            /\ UNCHANGED muInstallPlan
       ELSE /\ SetSync(w, [sync[w] EXCEPT !.pc = "create"])
            /\ muInstallPlan' = w
    /\ UNCHANGED <<head, sub, plans, csvs, csvCache, subCache, stale, faults>>

(* createInstallPlan is two requests, the object and its status. *)
CreateInstallPlan(w) ==
    /\ sync[w].pc = "create"
    /\ \/ /\ Len(plans) < MaxPlans
          /\ plans' = Append(plans, [gen |-> sync[w].gen, csv |-> sync[w].op, alive |-> TRUE,
                                     approved |-> sync[w].approval = "Automatic",
                                     phase |-> ""])
          /\ SetSync(w, [sync[w] EXCEPT !.pc = "status", !.ref = Len(plans) + 1])
          /\ UNCHANGED <<muInstallPlan, faults>>
       \/ /\ Fault("create")
          /\ SetCond(w, "BundleUnpackFailed")
          /\ muInstallPlan' = None
          /\ UNCHANGED plans
    /\ UNCHANGED <<head, sub, csvs, csvCache, subCache, stale>>

MutUpdateInstallPlanStatus(w) ==
    /\ sync[w].pc = "status"
    /\ \/ /\ plans' = [plans EXCEPT ![sync[w].ref].phase = "Installing"]
          /\ SetSync(w, [sync[w] EXCEPT !.pc = "final"])
          /\ muInstallPlan' = None
          /\ UNCHANGED faults
       \/ /\ Fault("status")
          /\ SetCond(w, "BundleUnpackFailed")
          /\ UNCHANGED <<plans, muInstallPlan>>
    /\ UNCHANGED <<head, sub, csvs, csvCache, subCache, stale>>

UpdateInstallPlanStatus(w) ==
    /\ sync[w].pc = "status"
    /\ \/ /\ plans' = [plans EXCEPT ![sync[w].ref].phase =
                         IF sync[w].approval = "Manual" THEN "RequiresApproval" ELSE "Installing"]
          /\ SetSync(w, [sync[w] EXCEPT !.pc = "final"])
          /\ UNCHANGED faults
       \/ /\ Fault("status")
          /\ SetCond(w, "BundleUnpackFailed")
          /\ UNCHANGED plans
    /\ muInstallPlan' = None
    /\ UNCHANGED <<head, sub, csvs, csvCache, subCache, stale>>

MutFinalStatus(w) ==
    IF Updates(w)
    THEN [sync[w].updated EXCEPT !.current = sync[w].op,
                                 !.ref = IF @ = 0 THEN sync[w].ref ELSE @,
                                 !.state = "UpgradePending"]
    ELSE [sync[w].sub EXCEPT !.conds = {}]

(* What the sync writes at its end: the Subscription ResolveSteps updated,   *)
(* pointing at the plan (setIPReference), with its resolution condition      *)
(* removed; or else the Subscription as listed, with all three removed.      *)
FinalStatus(w) ==
    IF Updates(w)
    THEN [sync[w].updated EXCEPT !.current = sync[w].op,
                                 !.ref = sync[w].ref,
                                 !.gen = sync[w].gen,
                                 !.state = "UpgradePending",
                                 !.conds = @ \ {"ResolutionFailed"}]
    ELSE [sync[w].sub EXCEPT !.conds = {}]

(* The end of syncResolvingNamespace.  updateSubscriptionStatuses writes     *)
(* over the latest revision; its request may fail.                           *)
UpdateSubscriptionStatuses(w) ==
    /\ sync[w].pc = "final"
    /\ \/ WriteSub(w, FinalStatus(w)) /\ UNCHANGED faults
       \/ Fault("update") /\ UNCHANGED <<sub, stale>>
    /\ Finish(w)
    /\ UNCHANGED <<head, plans, csvs, csvCache, subCache, muInstallPlan>>
-----------------------------------------------------------------------------
(* syncInstallPlans for a plan that has a status and is not terminal:        *)
(* transitionInstallPlanState on an approved plan, then on one being         *)
(* installed.  ExecutePlan creates the CSV; the write of the status may be   *)
(* lost; an execution that keeps failing until the timeout fails the plan.   *)
syncInstallPlans(p) ==
    /\ p \in Alive
    /\ \/ /\ plans[p].phase = "RequiresApproval"
          /\ plans[p].approved
          /\ plans' = [plans EXCEPT ![p].phase = "Installing"]
          /\ UNCHANGED <<csvs, faults>>
       \/ /\ plans[p].phase = "Installing"
          /\ \/ /\ csvs' = csvs \cup {plans[p].csv}
                /\ \/ plans' = [plans EXCEPT ![p].phase = "Complete"] /\ UNCHANGED faults
                   \/ Fault("planstatus") /\ UNCHANGED plans
             \/ /\ Fault("install")
                /\ plans' = [plans EXCEPT ![p].phase = "Failed"]
                /\ UNCHANGED csvs
    /\ UNCHANGED <<head, sub, csvCache, subCache, sync, stale, muInstallPlan>>

(* The user approves a plan. *)
Approve(p) ==
    /\ p \in Alive
    /\ ~plans[p].approved
    /\ plans' = [plans EXCEPT ![p].approved = TRUE]
    /\ UNCHANGED <<head, sub, csvs, csvCache, subCache, sync, stale, muInstallPlan, faults>>

(* The catalog gets a new head of the channel. *)
CatalogUpdate ==
    /\ head < MaxVersion
    /\ head' = head + 1
    /\ UNCHANGED <<sub, plans, csvs, csvCache, subCache, sync, stale, muInstallPlan, faults>>

(* The OLM operator deletes a CSV once one that replaces it has succeeded. *)
Replaced(v) ==
    /\ v \in csvs
    /\ \E u \in csvs : u = v + 1 \/ <<v, u>> \in Skips
    /\ csvs' = csvs \ {v}
    /\ UNCHANGED <<head, sub, plans, csvCache, subCache, sync, stale, muInstallPlan, faults>>

(* The informers bring the listers up to date. *)
CacheCSVs ==
    /\ csvCache # csvs
    /\ csvCache' = csvs
    /\ UNCHANGED <<head, sub, plans, csvs, subCache, sync, stale, muInstallPlan, faults>>

CacheSub ==
    /\ subCache # sub.installed
    /\ subCache' = sub.installed
    /\ UNCHANGED <<head, sub, plans, csvs, csvCache, sync, stale, muInstallPlan, faults>>

(* The catalog operator is killed and starts again. *)
Restart ==
    /\ Fault("crash")
    /\ \E w \in Workers : sync[w].pc # "idle"
    /\ sync' = [w \in Workers |-> IdleSync]
    /\ stale' = {}
    /\ muInstallPlan' = None
    /\ csvCache' = csvs
    /\ subCache' = sub.installed
    /\ UNCHANGED <<head, sub, plans, csvs>>

Sync(w) ==
    \/ StartSync(w) \/ ensureSubscriptionCSVState(w) \/ UpdateSubscription(w)
    \/ ResolveSteps(w) \/ unpackBundles(w) \/ UpdateSubscriptionCond(w)
    \/ ListInstallPlans(w) \/ ensureInstallPlan(w) \/ LockInstallPlan(w)
    \/ CreateInstallPlan(w) \/ UpdateInstallPlanStatus(w)
    \/ UpdateSubscriptionStatuses(w)

Next ==
    \/ \E w \in Workers : Sync(w)
    \/ \E p \in 1 .. MaxPlans : syncInstallPlans(p) \/ Approve(p)
    \/ \E v \in Versions : Replaced(v)
    \/ CatalogUpdate \/ CacheCSVs \/ CacheSub \/ Restart

Spec == Init /\ [][Next]_vars

(* Workers keep taking items, the resync re-enqueues every namespace and     *)
(* every plan, the informers catch up, and the OLM operator keeps going.    *)
Fairness ==
    /\ \A w \in Workers : WF_vars(Sync(w))
    /\ WF_vars(\E p \in 1 .. MaxPlans : syncInstallPlans(p))
    /\ WF_vars(\E v \in Versions : Replaced(v))
    /\ WF_vars(CacheCSVs)
    /\ WF_vars(CacheSub)

FairSpec == Spec /\ Fairness
-----------------------------------------------------------------------------
(* The types of the state, and that muInstallPlan is held exactly by the     *)
(* worker that is creating a plan.                                           *)
TypeOK ==
    /\ head \in Versions
    /\ sub \in SubStatus
    /\ plans \in Seq(Plans) /\ Len(plans) <= MaxPlans
    /\ csvs \subseteq Versions
    /\ csvCache \subseteq Versions
    /\ subCache \in 0 .. MaxVersion
    /\ sync \in [Workers -> Syncs]
    /\ stale \subseteq Workers
    /\ muInstallPlan \in Workers \cup {None}
    /\ faults \in 0 .. MaxFaults
    /\ \A w \in Workers : muInstallPlan = w <=> sync[w].pc \in {"create", "status"}

(* The plan the Subscription points at is the one that installs its current  *)
(* CSV.  While the upgrade is pending the loop resolves nothing              *)
(* (nothingToUpdate), so a reference to a plan of another CSV would leave    *)
(* the current one uninstalled for good.                                     *)
ReferencedPlan == sub.ref # 0 => plans[sub.ref].csv = sub.current

(* No two plans have the same generation, whatever gcInstallPlans removed,   *)
(* whichever request failed and wherever the operator was restarted: its     *)
(* sort by creation time "shouldn't ever be hit".                            *)
OnePlanPerGeneration ==
    \A p, q \in DOMAIN plans : plans[p].gen = plans[q].gen => p = q

(* The plan of an upgrade that is still pending is never one that            *)
(* gcInstallPlans deletes, unless it had already failed.                     *)
PendingPlanKept ==
    nothingToUpdate(sub) /\ sub.current \notin csvs /\ sub.installed # sub.current
        => sub.ref \in Alive \/ plans[sub.ref].phase = "Failed"

(* The Subscription follows the channel upwards: no sync, however its        *)
(* requests fail, gives it an older installed CSV or a current one older     *)
(* than that.  Its current CSV goes back only from one whose plan failed: if *)
(* it was resolved while the CSV lister lacked the installed one, the next   *)
(* resolution may find that the installed CSV does not lead that far.        *)
NoDowngrade ==
    [][/\ sub'.installed >= sub.installed
       /\ sub'.current >= sub.installed
       /\ sub'.current < sub.current => sub.ref # 0 /\ plans[sub.ref].phase = "Failed"]_vars

UpToDate == sub.installed = head /\ sub.state = "AtLatestKnown"

(* A CSV newer than the Subscription's current one: the status that should   *)
(* name it was never written.                                                *)
Orphaned == \E v \in csvs : v > sub.current

(* The Subscription's plan failed, or the user has not approved it. *)
PlanBlocked ==
    sub.ref # 0 /\ \/ plans[sub.ref].phase = "Failed"
                   \/ plans[sub.ref].phase = "RequiresApproval" /\ ~plans[sub.ref].approved

(* Once the catalog stops changing the Subscription reaches its head and     *)
(* stays there, unless its plan fails or waits for approval, or the status   *)
(* of an installed CSV was lost: no other failed request, and no condition   *)
(* written along the way, keeps it from getting there.                       *)
KeptUpToDateUnlessBlocked == <>[](UpToDate \/ Orphaned \/ PlanBlocked)

=============================================================================
