----------------------------- MODULE UnpackJobs -----------------------------
(***************************************************************************)
(* The bundle unpacker (pkg/controller/bundle/bundle_unpacker.go): the     *)
(* catalog operator asks it for the content of a bundle image, and every   *)
(* call of UnpackBundle brings a ConfigMap, a Role with its RoleBinding    *)
(* and a Job one step closer to the state in which the content can be read *)
(* from the ConfigMap.  A Job that fails is retried after an interval by a *)
(* Job with a generated name, and old failed Jobs are cleaned up.          *)
(*                                                                         *)
(* All objects are read from informer caches (cachedJobs, cachedCM; for    *)
(* the Role see rights and EnsureRole) that lag behind the cluster (jobs,  *)
(* cm, rights), each at its own pace.  Jobs and the ConfigMap's content    *)
(* are written by the Job controller and the Job's pod; objects whose      *)
(* owner is gone are garbage collected.                                    *)
(***************************************************************************)
EXTENDS Integers, FiniteSets

CONSTANTS
    MaxJobs,          \* Jobs with a generated name that can exist at once
    MaxRetainedJobs,  \* maxRetainedJobs of ensureJob
    MaxFailures,      \* failures of Jobs and faults there may be together
    UnpackRetry,      \* whether the OperatorGroup sets a retry interval > 0
    Faults,           \* the faults that may happen
    MaxFaults         \* how many of them

\* ensureJob retains at least one Job (its maxRetainedJobs is 5).
ASSUME UnpackBounds ==
    /\ MaxJobs \in Nat
    /\ MaxRetainedJobs \in Nat \ {0}
    /\ MaxFailures \in Nat
    /\ MaxFaults \in Nat

VARIABLES
    jobs,        \* the Jobs of the bundle in the cluster, by name
    cachedJobs,  \* the Jobs in the informer cache
    cm,          \* the ConfigMap in the cluster
    cachedCM,    \* the ConfigMap in the informer cache
    rights,      \* the UID that owns the Role and the RoleBinding, 0 if they do not
                 \* exist, Collected if they do only in the caches
    catalog,     \* whether the CatalogSource exists
    spec,        \* what the Job's spec is computed from: secrets and timeout
    elapsed,     \* the last failure the retry interval has passed for
    failures,    \* how many failures there were: the time of the last one
    worker,      \* the call of UnpackBundle in progress
    lookup,      \* what the last call reported: the condition of the BundleLookup
                 \* (BundleLookupPending, BundleLookupFailed, none), or an error
    panicked,    \* whether sortUnpackJobs dereferenced a nil condition
    faults       \* how many faults there were

vars == <<jobs, cachedJobs, cm, cachedCM, rights, catalog, spec, elapsed, failures,
          worker, lookup, panicked, faults>>

\* The name of the first Job is that of the ConfigMap, the Jobs of the retries
\* have generated names.
Base == 0
Name == Base .. MaxJobs
JobSpec == 1 .. 2
UID == 0 .. MaxFaults + 1
Collected == -1

NoJob == [phase |-> "none", at |-> 0, owner |-> 0, spec |-> 1]
NewJob(uid) == [phase |-> "running", at |-> 0, owner |-> uid, spec |-> spec]
Idle == [pc |-> "idle", uid |-> 0, data |-> FALSE]

Fault(kind) ==
    /\ kind \in Faults
    /\ faults < MaxFaults /\ failures + faults < MaxFailures
    /\ faults' = faults + 1

-----------------------------------------------------------------------------

Existing(J) == {n \in Name : J[n].phase # "none"}

\* getCondition(job, JobFailed)
Failed(job) == job.phase = "failed"

\* The comparison of sortUnpackJobs: a Job that has not failed comes first,
\* then the one that failed last.
Before(J, m, n) ==
    IF Failed(J[m]) # Failed(J[n]) THEN ~Failed(J[m]) ELSE J[m].at > J[n].at

\* Where a Job comes in the order: its index in the sorted list.  Jobs fail at
\* different times, so that the order is total where the comparison is defined.
Position(J, n) == Cardinality({m \in Existing(J) : Before(J, m, n)})

\* Two Jobs that have not failed have no condition to compare the times of:
\* the comparison dereferences a nil pointer.
ComparesNil(J) == \E m, n \in Existing(J) : m # n /\ ~Failed(J[m]) /\ ~Failed(J[n])

\* The Jobs sortUnpackJobs returns for deletion: at most max of them, after the
\* max first ones and before the oldest.
MutToDelete(J) ==
    {n \in Existing(J) : Position(J, n) >= MaxRetainedJobs}

ToDelete(J) ==
    {n \in Existing(J) :
        LET i == Position(J, n) IN
        IF MaxRetainedJobs = 0 THEN i >= 1
        ELSE /\ i \in MaxRetainedJobs .. 2 * MaxRetainedJobs - 1
             /\ i < Cardinality(Existing(J)) - 1}

Delete(J, names) == [n \in Name |-> IF n \in names THEN NoJob ELSE J[n]]

-----------------------------------------------------------------------------

Init ==
    /\ jobs = [n \in Name |-> NoJob]
    /\ cachedJobs = jobs
    /\ cm = [uid |-> 0, there |-> FALSE, data |-> FALSE]
    /\ cachedCM = cm
    /\ rights = 0
    /\ catalog = TRUE
    /\ spec = 1
    /\ elapsed = 0
    /\ failures = 0
    /\ worker = Idle
    /\ lookup = "pending"
    /\ panicked = FALSE
    /\ faults = 0

\* The bundle is not unpacked yet, and the process has not panicked.
Awaited == ~panicked /\ lookup # "unpacked"

cluster == <<jobs, cachedJobs, cm, cachedCM, rights, catalog, spec, elapsed, failures>>

\* ensureConfigmap: one that exists, but not in the cache, is fetched and
\* labelled.
EnsureConfigMap ==
    /\ cm' = IF cachedCM.there \/ cm.there THEN cm
             ELSE [uid |-> cm.uid + 1, there |-> TRUE, data |-> FALSE]
    /\ LET held == IF cachedCM.there THEN cachedCM ELSE cm'
       IN  worker' = [pc |-> "role", uid |-> held.uid, data |-> held.data]

\* A call of UnpackBundle starts with the CatalogSource and the ConfigMap.
UnpackBundle ==
    /\ worker = Idle
    /\ Awaited
    /\ \/ /\ ~catalog
          /\ lookup' = "pending"
          /\ UNCHANGED <<cm, worker>>
       \/ /\ catalog
          /\ EnsureConfigMap
          /\ UNCHANGED lookup
    /\ UNCHANGED <<jobs, cachedJobs, cachedCM, rights, catalog, spec, elapsed, failures,
                   panicked, faults>>

\* ensureRole and ensureRoleBinding leave the two alone when the caches have
\* them, whoever owns them and whether they still exist.  Otherwise they are
\* created, or get the ConfigMap at hand as their owner.
EnsureRole ==
    /\ worker.pc = "role"
    /\ \/ rights = Collected /\ UNCHANGED rights
       \/ rights # Collected /\ rights' = worker.uid
       \/ rights \notin {0, Collected} /\ UNCHANGED rights
    /\ worker' = [worker EXCEPT !.pc = "job"]
    /\ UNCHANGED <<jobs, cachedJobs, cm, cachedCM, catalog, spec, elapsed, failures, lookup,
                   panicked, faults>>

\* A request of the call fails: the sync returns the error and is retried.
RequestFails ==
    /\ worker.pc \in {"role", "job"}
    /\ Fault("request")
    /\ worker' = Idle
    /\ UNCHANGED <<cluster, lookup, panicked>>

Return(outcome) ==
    /\ worker' = Idle
    /\ lookup' = outcome
    /\ UNCHANGED <<cachedJobs, cm, cachedCM, rights, catalog, spec, elapsed, failures, panicked, faults>>

\* ensureJob finds no Job in the cache and creates the first one, which fails
\* if there is one after all.
CreateJob ==
    /\ worker.pc = "job"
    /\ Existing(cachedJobs) = {}
    /\ IF jobs[Base].phase = "none"
       THEN jobs' = [jobs EXCEPT ![Base] = NewJob(worker.uid)] /\ Return("pending")
       ELSE UNCHANGED jobs /\ Return("error")

\* sortUnpackJobs meets two Jobs that have not failed.
Panic ==
    /\ worker.pc = "job"
    /\ ComparesNil(cachedJobs)
    /\ panicked' = TRUE
    /\ worker' = Idle
    /\ UNCHANGED <<cluster, lookup, faults>>

Sorted ==
    /\ worker.pc = "job"
    /\ Existing(cachedJobs) # {}
    /\ ~ComparesNil(cachedJobs)

Latest == CHOOSE n \in Existing(cachedJobs) : Position(cachedJobs, n) = 0

\* The error of looking for a Job named like the ConfigMap is not cleared when
\* that Job is not found, and is returned together with the Job that was chosen.
Outcome(outcome) == IF Base \in Existing(cachedJobs) THEN outcome ELSE "error"

\* Generated names: not in use, nor still in the cache
Unused == Name \ ({Base} \union Existing(jobs) \union Existing(cachedJobs))

\* The latest Job failed and retries are asked for: a new Job is created once
\* the interval has passed, and in any case old Jobs are deleted.
RetryJob ==
    /\ Sorted
    /\ UnpackRetry
    /\ Failed(cachedJobs[Latest])
    /\ LET left == Delete(jobs, ToDelete(cachedJobs))
       IN  IF cachedJobs[Latest].at <= elapsed
           THEN /\ Unused # {}
                /\ jobs' = [left EXCEPT ![CHOOSE n \in Unused : TRUE] = NewJob(worker.uid)]
                /\ Return("pending")
           ELSE jobs' = left /\ Return(Outcome("failed"))

\* DeepDerivative of the owner references and of the specs
Matches(job) == job.owner = worker.uid /\ job.spec = spec

\* What UnpackBundle reports of the Job it got: a completed one only counts when
\* the ConfigMap that was read before has the content.
Reported(job) ==
    CASE Failed(job) -> "failed"
      [] job.phase = "complete" /\ worker.data -> "unpacked"
      [] OTHER -> "pending"

\* Mutant: the Job that does not match is left where it is.
MutUseJob ==
    /\ Sorted
    /\ ~(UnpackRetry /\ Failed(cachedJobs[Latest]))
    /\ UNCHANGED jobs
    /\ Return(IF Matches(cachedJobs[Latest])
              THEN Outcome(Reported(cachedJobs[Latest])) ELSE "pending")

\* Otherwise the latest Job is used if it is the one that would be created now,
\* and deleted if it is not: the call then reports nothing.
UseJob ==
    /\ Sorted
    /\ ~(UnpackRetry /\ Failed(cachedJobs[Latest]))
    /\ IF Matches(cachedJobs[Latest])
       THEN UNCHANGED jobs /\ Return(Outcome(Reported(cachedJobs[Latest])))
       ELSE /\ jobs' = Delete(jobs, {Latest})
            /\ Return(IF Latest \in Existing(jobs) THEN "pending" ELSE "error")

Worker == UnpackBundle \/ EnsureRole \/ CreateJob \/ Panic \/ RetryJob \/ UseJob

-----------------------------------------------------------------------------
(* The cluster, followed until the bundle is unpacked or the process is gone *)

rest == <<worker, lookup, panicked>>

\* The informers catch up.
SyncJobs ==
    /\ Awaited
    /\ cachedJobs # jobs
    /\ cachedJobs' = jobs
    /\ UNCHANGED <<jobs, cm, cachedCM, rights, catalog, spec, elapsed, failures, rest, faults>>

SyncCM ==
    /\ Awaited
    /\ cachedCM # cm
    /\ cachedCM' = cm
    /\ UNCHANGED <<jobs, cachedJobs, cm, rights, catalog, spec, elapsed, failures, rest, faults>>

SyncRights ==
    /\ Awaited
    /\ rights = Collected
    /\ rights' = 0
    /\ UNCHANGED <<jobs, cachedJobs, cm, cachedCM, catalog, spec, elapsed, failures, rest, faults>>

\* The pod of a Job writes the content and the Job completes.
JobSucceeds(n) ==
    /\ Awaited
    /\ jobs[n].phase = "running"
    /\ cm.there
    /\ rights \notin {0, Collected}
    /\ cm' = [cm EXCEPT !.data = TRUE]
    /\ jobs' = [jobs EXCEPT ![n].phase = "complete"]
    /\ UNCHANGED <<cachedJobs, cachedCM, rights, catalog, spec, elapsed, failures, rest, faults>>

JobFails(n) ==
    /\ Awaited
    /\ jobs[n].phase = "running"
    /\ failures + faults < MaxFailures
    /\ failures' = failures + 1
    /\ jobs' = [jobs EXCEPT ![n].phase = "failed", ![n].at = failures + 1]
    /\ UNCHANGED <<cachedJobs, cm, cachedCM, rights, catalog, spec, elapsed, rest, faults>>

\* The retry interval after the last failure passes.
Elapse ==
    /\ Awaited
    /\ elapsed < failures
    /\ elapsed' = failures
    /\ UNCHANGED <<jobs, cachedJobs, cm, cachedCM, rights, catalog, spec, failures, rest, faults>>

\* The garbage collector removes what a deleted ConfigMap owned.
Dead(uid) == uid \notin {0, Collected} /\ ~(cm.there /\ cm.uid = uid)

Collect ==
    LET dead == {n \in Existing(jobs) : Dead(jobs[n].owner)}
    IN  /\ Awaited
        /\ dead # {} \/ Dead(rights)
        /\ jobs' = Delete(jobs, dead)
        /\ rights' = IF Dead(rights) THEN Collected ELSE rights
        /\ UNCHANGED <<cachedJobs, cm, cachedCM, catalog, spec, elapsed, failures, rest, faults>>

DeleteConfigMap ==
    /\ Awaited
    /\ cm.there
    /\ Fault("deleteCM")
    /\ cm' = [cm EXCEPT !.there = FALSE, !.data = FALSE]
    /\ UNCHANGED <<jobs, cachedJobs, cachedCM, rights, catalog, spec, elapsed, failures, rest>>

DeleteCatalog ==
    /\ Awaited
    /\ catalog
    /\ Fault("deleteCatalog")
    /\ catalog' = FALSE
    /\ cm' = [cm EXCEPT !.there = FALSE, !.data = FALSE]
    /\ UNCHANGED <<jobs, cachedJobs, cachedCM, rights, spec, elapsed, failures, rest>>

\* The first Job is deleted by hand.
DeleteJob ==
    /\ Awaited
    /\ jobs[Base].phase # "none"
    /\ Fault("deleteJob")
    /\ jobs' = Delete(jobs, {Base})
    /\ UNCHANGED <<cachedJobs, cm, cachedCM, rights, catalog, spec, elapsed, failures, rest>>

\* The secrets of the CatalogSource or the timeout of the OperatorGroup change.
ChangeSpec ==
    /\ Awaited
    /\ spec = 1
    /\ Fault("spec")
    /\ spec' = 2
    /\ UNCHANGED <<jobs, cachedJobs, cm, cachedCM, rights, catalog, elapsed, failures, rest>>

Environment ==
    \/ SyncJobs \/ SyncCM \/ SyncRights \/ Elapse \/ Collect
    \/ \E n \in Name : JobSucceeds(n) \/ JobFails(n)

Next ==
    \/ Worker \/ Environment \/ RequestFails
    \/ DeleteConfigMap \/ DeleteCatalog \/ DeleteJob \/ ChangeSpec

Spec == Init /\ [][Next]_vars

\* Namespaces are resynced, informers deliver (a Role that is gone also leaves the
\* cache), Jobs end and the garbage collector runs.
Fairness ==
    /\ WF_vars(Worker)
    /\ WF_vars(SyncJobs)
    /\ WF_vars(SyncCM)
    /\ WF_vars(SyncRights)
    /\ WF_vars(Elapse)
    /\ WF_vars(Collect)
    /\ WF_vars(\E n \in Name : JobSucceeds(n) \/ JobFails(n))

FairSpec == Spec /\ Fairness

-----------------------------------------------------------------------------

JobType == [phase : {"none", "running", "failed", "complete"}, at : 0 .. MaxFailures,
            owner : UID, spec : JobSpec]
CMType == [uid : UID, there : BOOLEAN, data : BOOLEAN]

\* The variables have their types.
TypeOK ==
    /\ jobs \in [Name -> JobType]
    /\ cachedJobs \in [Name -> JobType]
    /\ cm \in CMType
    /\ cachedCM \in CMType
    /\ rights \in UID \union {Collected}
    /\ catalog \in BOOLEAN
    /\ spec \in JobSpec
    /\ elapsed \in 0 .. MaxFailures
    /\ failures \in 0 .. MaxFailures
    /\ worker \in [pc : {"idle", "role", "job"}, uid : UID, data : BOOLEAN]
    /\ lookup \in {"pending", "failed", "error", "unpacked"}
    /\ panicked \in BOOLEAN
    /\ faults \in 0 .. MaxFaults

\* Retries keep what later calls need (ensureJob: "cleanup old failed jobs, but
\* don't clean up successful jobs to avoid repeat unpacking"; sortUnpackJobs keeps
\* "the oldest job"): however stale the cache was that the names to delete came
\* from, a retry deletes only Jobs that failed, never the one that failed last,
\* and never the first one, whose name ensureJob looks for.
RetriesKeepJobs ==
    [][RetryJob =>
          \A n \in Existing(jobs) \ Existing(jobs') :
             /\ Failed(jobs[n])
             /\ jobs[n].at < failures
             /\ n # Base]_vars

\* Where generated names are left without the first Job, every call returns the
\* error of not finding that Job.
FirstJobLost == Base \notin Existing(jobs) /\ Existing(jobs) # {}

\* Whatever fails, is deleted or reaches a cache late, a bundle whose CatalogSource stays
\* is unpacked in the end when retries are asked for, unless the process panicked
\* on two unfinished Jobs or the first Job was deleted under the others.
EventuallyUnpacked ==
    UnpackRetry => <>(lookup = "unpacked" \/ ~catalog \/ panicked \/ FirstJobLost)

\* The Jobs are sorted "so that latest job is first with preference for non-failed
\* jobs": the comparison is defined for every list of Jobs the cluster can hold.
NoPanic == ~panicked
=============================================================================
