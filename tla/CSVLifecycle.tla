---------------------------- MODULE CSVLifecycle ----------------------------
(***************************************************************************)
(* The OLM operator's control loop over the ClusterServiceVersions (CSVs)  *)
(* of one namespace: syncClusterServiceVersion and transitionCSVState of   *)
(* pkg/controller/operators/olm/operator.go, with the replacement finder   *)
(* of pkg/lib/csv and the deployment installer of pkg/controller/install.  *)
(*                                                                         *)
(* Workers sync different CSVs concurrently.  A sync reads its CSV and all *)
(* lists from the informers' caches, which lag behind the API server; only *)
(* the CSV being replaced is read from the API server itself (isReplacing).*)
(* It then writes the CSV's status, and the API server refuses the write   *)
(* when the copy that was read is not the newest version.  Versions are    *)
(* not counted: stale holds the CSVs whose cached copy is not the newest,  *)
(* and a sync remembers whether its own copy still is.                     *)
(*                                                                         *)
(* Everything that may go wrong around the operator is a kind of fault;    *)
(* Faults says which kinds happen and MaxFaults how many of them.          *)
(***************************************************************************)
EXTENDS Naturals

CONSTANTS
    CSVs,         \* the names of the ClusterServiceVersions
    Replaces,     \* [CSVs -> CSVs \cup {None}]: spec.replaces
    Owned,        \* [CSVs -> the sets of CRDs in spec.customresourcedefinitions.owned]
    Deployments,  \* the names of the deployments
    Deploys,      \* [CSVs -> Deployments]: the deployment of the install strategy
    FailForward,  \* the OperatorGroup's upgradeStrategy is UnsafeFailForward
    Faults,       \* the kinds of faults that may happen
    MaxFaults,    \* how many of them
    None

Phases == {"None", "Pending", "InstallReady", "Installing", "Succeeded", "Failed",
           "Replacing", "Deleting"}

(* The status reasons transitionCSVState acts on: "group" stands for the   *)
(* five that an OperatorGroup problem leaves, "noretry" for                *)
(* ComponentFailedNoRetry, "" for all the others.                          *)
Reasons == {"", "group", "noretry"}

Csv == [phase : Phases, reason : Reasons, deleting : BOOLEAN]

ASSUME CSVAssumption ==
    /\ None \notin CSVs \cup Csv
    /\ Replaces \in [CSVs -> CSVs \cup {None}]
    /\ \A c \in CSVs : Replaces[c] # c
    /\ Deploys \in [CSVs -> Deployments]
    /\ FailForward \in BOOLEAN
    /\ MaxFaults \in Nat

VARIABLES
    csv,         \* [CSVs -> Csv \cup {None}]: the objects of the API server
    cache,       \* the same in the informer's cache
    stale,       \* the CSVs whose cached copy is not the newest version
    deployment,  \* [Deployments -> CSVs \cup {None}]: the CSV in its owner labels
    depcache,    \* the same in the deployment informer's cache
    sync,        \* [CSVs -> Sync]: the sync of each CSV
    created,     \* the CSVs that were ever created
    succeeded,   \* the CSVs that were ever Succeeded
    faults       \* how many faults happened

vars == <<csv, cache, stale, deployment, depcache, sync, created, succeeded, faults>>

(* pc: "gate" when transitionCSVState is before its last look at the       *)
(* previous CSV, "write" when it returned a changed status: phase, reason. *)
(* fresh: the copy it read is still the newest version of the CSV.         *)
Sync == [pc : {"idle", "gate", "write", "panic"}, phase : Phases, reason : Reasons,
         fresh : BOOLEAN]

IdleSync == [pc |-> "idle", phase |-> "None", reason |-> "", fresh |-> FALSE]

TypeOK ==
    /\ csv \in [CSVs -> Csv \cup {None}]
    /\ cache \in [CSVs -> Csv \cup {None}]
    /\ stale \subseteq CSVs
    /\ deployment \in [Deployments -> CSVs \cup {None}]
    /\ depcache \in [Deployments -> CSVs \cup {None}]
    /\ sync \in [CSVs -> Sync]
    /\ created \subseteq CSVs
    /\ succeeded \subseteq CSVs
    /\ faults \in 0..MaxFaults

Init ==
    /\ csv = [c \in CSVs |-> None]
    /\ cache = [c \in CSVs |-> None]
    /\ stale = {}
    /\ deployment = [d \in Deployments |-> None]
    /\ depcache = [d \in Deployments |-> None]
    /\ sync = [c \in CSVs |-> IdleSync]
    /\ created = {}
    /\ succeeded = {}
    /\ faults = 0

Fault(kind) ==
    /\ kind \in Faults
    /\ faults < MaxFaults
    /\ faults' = faults + 1

-----------------------------------------------------------------------------
(* Replacement chains                                                      *)

(* IsReplacing: the previous CSV, read from the API server *)
HasPrevious(c) == Replaces[c] # None /\ csv[Replaces[c]] # None

(* IsBeingReplaced returns one of these, the first in a map's random order *)
Replacers(c) == {r \in CSVs : cache[r] # None /\ Replaces[r] = c}

(* The members of the sets closed under next that contain c: what a walk   *)
(* along next meets                                                        *)
Reach(next, c) ==
    {x \in CSVs : \A S \in SUBSET CSVs :
                    (c \in S /\ \A y \in S : next[y] \subseteq S) => x \in S}

(* ReplacementMapping: of several CSVs replacing the same one, the last in *)
(* the list's order stays in the map                                       *)
ReplacementMappings ==
    LET replaced == {c \in CSVs : Replacers(c) # {}}
        choices == {f \in [replaced -> CSVs] : \A c \in replaced : f[c] \in Replacers(c)}
    IN  {[c \in CSVs |-> IF c \in replaced THEN {f[c]} ELSE {}] : f \in choices}

(* WalkReplacementChain with WithUniqueCSVs: an error, and no result, when *)
(* the walk meets a CSV twice                                              *)
WalkReplacementChain(c) ==
    {l \in CSVs : \E f \in ReplacementMappings : l \in Reach(f, c) /\ f[l] = {}}

(* getReplacementChain follows one replacement upwards and spec.replaces   *)
(* downwards among the cached CSVs                                         *)
GetReplacementChains(c) ==
    LET older == [x \in CSVs |-> IF x = c \/ cache[x] # None THEN {Replaces[x]} \ {None} ELSE {}]
    IN  {Reach(f, c) \cup Reach(older, c) : f \in ReplacementMappings}

MutCRDOwnerConflict(c, chain) ==
    \E n \in CSVs \ (chain \cup {c}) :
        cache[n] # None /\ cache[n].phase = "Succeeded" /\ Owned[n] \cap Owned[c] # {}

(* crdOwnerConflicts for a chain: a cached CSV outside of it owns a CRD of c *)
CRDOwnerConflict(c, chain) ==
    \E n \in CSVs \ (chain \cup {c}) : cache[n] # None /\ Owned[n] \cap Owned[c] # {}

-----------------------------------------------------------------------------
(* One sync of a CSV                                                       *)

Running == \A c \in CSVs : sync[c].pc # "panic"

At(c, pc) == sync[c].pc = pc /\ Running

(* syncClusterServiceVersion finds the CSV in the cache, not deleted and   *)
(* not in the failed-no-retry state, its OperatorGroup being in order      *)
Syncing(c, phase) ==
    /\ At(c, "idle")
    /\ cache[c] # None
    /\ ~cache[c].deleting
    /\ cache[c].reason # "noretry"
    /\ cache[c].phase = phase

(* transitionCSVState returns; only a changed status is written *)
Status(c, phase, reason) ==
    sync' = [sync EXCEPT ![c] =
               IF cache[c].phase = phase /\ cache[c].reason = reason THEN IdleSync
               ELSE [pc |-> "write", phase |-> phase, reason |-> reason,
                     fresh |-> c \notin stale]]

Unchanged == UNCHANGED <<csv, cache, stale, depcache, created, succeeded>>

(* A problem with the OperatorGroup (none, several, its targets, its       *)
(* provided APIs) fails the CSV in any phase; when it is about the APIs,   *)
(* cleanupCSVDeployments deletes the deployment by its name.               *)
GroupProblem(c) ==
    /\ Fault("group")
    /\ \E phase \in Phases : Syncing(c, phase)
    /\ cache[c].reason # "group"
    /\ Status(c, "Failed", "group")
    /\ deployment' \in {deployment, [deployment EXCEPT ![Deploys[c]] = None]}
    /\ Unchanged

MutSyncNone(c) ==
    /\ Syncing(c, "None")
    /\ Status(c, "Unknown", "")
    /\ UNCHANGED <<deployment, faults>> /\ Unchanged

SyncNone(c) ==
    /\ Syncing(c, "None")
    /\ Status(c, "Pending", "")
    /\ UNCHANGED <<deployment, faults>> /\ Unchanged

(* Unmet requirements and a previous CSV that is not upgradeable leave the *)
(* CSV Pending, an invalid strategy or webhook fails it, and so do owner   *)
(* conflicts.                                                              *)
SyncPending(c) ==
    /\ Syncing(c, "Pending")
    /\ \/ Fault("requirements") /\ Status(c, "Pending", "")
       \/ Fault("strategy") /\ Status(c, "Failed", "")
       \/ /\ UNCHANGED faults
          /\ \E chain \in GetReplacementChains(c) :
               \/ CRDOwnerConflict(c, chain) /\ Status(c, "Failed", "")
               \/ /\ ~CRDOwnerConflict(c, chain)
                  /\ sync' = [sync EXCEPT ![c] = [IdleSync EXCEPT !.pc = "gate",
                                                                 !.fresh = c \notin stale]]
    /\ UNCHANGED deployment /\ Unchanged

MutPreviousReady(c) == HasPrevious(c) => csv[Replaces[c]].phase # "Succeeded"

(* The last check of the Pending case *)
PreviousReady(c) == HasPrevious(c) => csv[Replaces[c]].phase = "Replacing"

(* IsReplacing returns nil for an error of the API server too, and a CSV   *)
(* without a previous one needs not wait for it.                           *)
Gate(c) ==
    /\ At(c, "gate")
    /\ \/ /\ ~PreviousReady(c) /\ UNCHANGED faults
          /\ sync' = [sync EXCEPT ![c] = IdleSync]
       \/ /\ \/ PreviousReady(c) /\ UNCHANGED faults
             \/ HasPrevious(c) /\ Fault("get")
          /\ sync' = [sync EXCEPT ![c].pc = "write", ![c].phase = "InstallReady"]
    /\ UNCHANGED deployment /\ Unchanged

Deployed(c) == [deployment EXCEPT ![Deploys[c]] = c]

SyncInstallReady(c) ==
    /\ Syncing(c, "InstallReady")
    /\ \/ /\ Fault("strategy")
          /\ Status(c, "Failed", "")
          /\ UNCHANGED deployment
       \/ /\ deployment' = Deployed(c)
          /\ Status(c, "Installing", "")
          /\ UNCHANGED faults
       \/ /\ Fault("install")
          /\ deployment' \in {deployment, Deployed(c)}
          /\ Status(c, "Failed", "")
       \/ /\ Fault("noretry")
          /\ deployment' \in {deployment, Deployed(c)}
          /\ Status(c, "Failed", "noretry")
    /\ Unchanged

MutUpdateInstallStatus(c, requeuePhase) ==
    \/ depcache[Deploys[c]] = c /\ Status(c, "Succeeded", "") /\ UNCHANGED faults
    \/ /\ Fault("unhealthy")
       /\ \E phase \in {requeuePhase, "Failed", cache[c].phase} : Status(c, phase, "")

(* updateInstallStatus: with its deployment, APIServices and webhooks      *)
(* there the CSV is Succeeded.  A missing or unhealthy component, an       *)
(* unrecoverable one and an unavailable API server have their own          *)
(* outcomes; a deployment of the CSV that was changed, and webhooks that   *)
(* cannot be checked, install it again.                                    *)
UpdateInstallStatus(c, requeuePhase) ==
    \/ depcache[Deploys[c]] = c /\ Status(c, "Succeeded", "") /\ UNCHANGED faults
    \/ depcache[Deploys[c]] # c /\ Status(c, requeuePhase, "") /\ UNCHANGED faults
    \/ /\ Fault("unhealthy")
       /\ \E phase \in {requeuePhase, "Failed", cache[c].phase} : Status(c, phase, "")
    \/ depcache[Deploys[c]] = c /\ Fault("unhealthy") /\ Status(c, "InstallReady", "")
    \/ Fault("webhook") /\ Status(c, "InstallReady", "")

(* The Failed outcomes include the install timeout of five minutes *)
SyncInstalling(c) ==
    /\ Syncing(c, "Installing")
    /\ \/ Fault("strategy") /\ \E phase \in {"Failed", "Pending"} : Status(c, phase, "")
       \/ UpdateInstallStatus(c, "Installing")
       \/ depcache[Deploys[c]] # c /\ Status(c, "Failed", "") /\ UNCHANGED faults
    /\ UNCHANGED deployment /\ Unchanged

SyncSucceeded(c) ==
    /\ Syncing(c, "Succeeded")
    /\ \/ Replacers(c) # {} /\ Status(c, "Replacing", "") /\ UNCHANGED faults
       \/ /\ Replacers(c) = {}
          /\ \/ Fault("strategy") /\ Status(c, "Failed", "")
             \/ Fault("unhealthy") /\ \E phase \in {"Failed", "Pending"} : Status(c, phase, "")
             \/ UpdateInstallStatus(c, "Failed")
    /\ UNCHANGED deployment /\ Unchanged

SyncFailed(c) ==
    /\ Syncing(c, "Failed")
    /\ \/ /\ FailForward /\ Replacers(c) # {}
          /\ Status(c, "Replacing", "")
          /\ UNCHANGED faults
       \/ /\ ~(FailForward /\ Replacers(c) # {})
          /\ \/ Fault("strategy") /\ Status(c, "Failed", "")
             \/ /\ cache[c].reason = "group"
                /\ Status(c, "Pending", "")
                /\ UNCHANGED faults
             \/ /\ cache[c].reason # "group"
                /\ \/ Fault("unhealthy") /\ Status(c, "Pending", "")
                   \/ UpdateInstallStatus(c, "Pending")
    /\ UNCHANGED deployment /\ Unchanged

MutIsLeaf(c) == TRUE

(* The Replacing case skips a CSV that still replaces another one *)
IsLeaf(c) == ~HasPrevious(c)

MutIsRunning(last) == cache[last].phase \in {"Installing", "Succeeded"}

(* A CSV for which the ones it replaced can be deleted *)
IsRunning(last) == cache[last].phase = "Succeeded"

(* Without a previous CSV, a Replacing CSV is marked for deletion once its *)
(* replacement, or with fail forward the last of its chain, is Succeeded.  *)
(* With fail forward, next.GetNamespace() on a missing replacement panics; *)
(* without, a missing replacement is an error.                             *)
SyncReplacing(c) ==
    /\ Syncing(c, "Replacing")
    /\ \/ ~IsLeaf(c) /\ UNCHANGED <<sync, faults>>
       \/ /\ \/ IsLeaf(c) /\ UNCHANGED faults
             \/ HasPrevious(c) /\ Fault("get")
          /\ \/ /\ Replacers(c) = {} /\ FailForward
                /\ sync' = [sync EXCEPT ![c] = [IdleSync EXCEPT !.pc = "panic"]]
             \/ /\ Replacers(c) = {} /\ ~FailForward
                /\ UNCHANGED sync
             \/ \E next \in Replacers(c) :
                \E last \in IF FailForward THEN WalkReplacementChain(next) ELSE {next} :
                   IF IsRunning(last) THEN Status(c, "Deleting", "") ELSE UNCHANGED sync
    /\ UNCHANGED deployment /\ Unchanged

(* A change of c by anyone makes the copies read before stale *)
Changed(c) ==
    /\ stale' = stale \cup {c}
    /\ sync' = [sync EXCEPT ![c].fresh = FALSE]

(* The delete call: the CSV has a finalizer, so it is only marked *)
SyncDeleting(c) ==
    /\ Syncing(c, "Deleting")
    /\ csv[c] # None /\ ~csv[c].deleting
    /\ csv' = [csv EXCEPT ![c].deleting = TRUE]
    /\ Changed(c)
    /\ UNCHANGED <<cache, deployment, depcache, created, succeeded, faults>>

(* processFinalizer of a CSV that is being deleted removes the finalizer   *)
(* when its cluster resources are gone, unless its copy is stale.          *)
ProcessFinalizer(c) ==
    /\ At(c, "idle")
    /\ cache[c] # None /\ cache[c].deleting
    /\ c \notin stale
    /\ csv' = [csv EXCEPT ![c] = None]
    /\ Changed(c)
    /\ UNCHANGED <<cache, deployment, depcache, created, succeeded, faults>>

(* syncClusterServiceVersion writes the status transitionCSVState returned *)
UpdateStatus(c) ==
    /\ At(c, "write")
    /\ sync' = [sync EXCEPT ![c] = IdleSync]
    /\ \/ /\ sync[c].fresh
          /\ csv' = [csv EXCEPT ![c].phase = sync[c].phase, ![c].reason = sync[c].reason]
          /\ stale' = stale \cup {c}
          /\ succeeded' = IF sync[c].phase = "Succeeded" THEN succeeded \cup {c} ELSE succeeded
          /\ UNCHANGED faults
       \/ ~sync[c].fresh /\ UNCHANGED <<csv, stale, succeeded, faults>>
       \/ Fault("update") /\ UNCHANGED <<csv, stale, succeeded>>
    /\ UNCHANGED <<cache, deployment, depcache, created>>

(* syncObject: a change of an RBAC object makes the CSVs that failed       *)
(* without retry Pending.                                                  *)
SyncObject(c) ==
    /\ Running
    /\ cache[c] # None /\ cache[c].phase = "Failed" /\ cache[c].reason = "noretry"
    /\ c \notin stale
    /\ csv' = [csv EXCEPT ![c].phase = "Pending", ![c].reason = ""]
    /\ Changed(c)
    /\ UNCHANGED <<cache, deployment, depcache, created, succeeded, faults>>

SyncCSV(c) ==
    \/ GroupProblem(c) \/ SyncNone(c) \/ SyncPending(c) \/ SyncInstallReady(c)
    \/ SyncInstalling(c) \/ SyncSucceeded(c) \/ SyncFailed(c) \/ SyncReplacing(c)
    \/ SyncDeleting(c) \/ ProcessFinalizer(c)

-----------------------------------------------------------------------------
(* The cluster                                                             *)

(* The watch of the CSV informer delivers the newest version *)
CacheCSV(c) ==
    /\ c \in stale
    /\ cache' = [cache EXCEPT ![c] = csv[c]]
    /\ stale' = stale \ {c}
    /\ UNCHANGED <<csv, deployment, depcache, sync, created, succeeded, faults>>

CacheDeployment(d) ==
    /\ depcache[d] # deployment[d]
    /\ depcache' = [depcache EXCEPT ![d] = deployment[d]]
    /\ UNCHANGED <<csv, cache, stale, deployment, sync, created, succeeded, faults>>

(* The catalog operator or a user creates the CSVs of a chain in order, at *)
(* any time and each of them once                                          *)
CreateCSV(c) ==
    /\ c \notin created
    /\ Replaces[c] # None => Replaces[c] \in created
    /\ csv' = [csv EXCEPT ![c] = [phase |-> "None", reason |-> "", deleting |-> FALSE]]
    /\ created' = created \cup {c}
    /\ stale' = stale \cup {c}
    /\ UNCHANGED <<cache, deployment, depcache, sync, succeeded, faults>>

DeleteCSV(c) ==
    /\ csv[c] # None /\ ~csv[c].deleting
    /\ Fault("delete")
    /\ csv' = [csv EXCEPT ![c].deleting = TRUE]
    /\ Changed(c)
    /\ UNCHANGED <<cache, deployment, depcache, created, succeeded>>

(* An update of the CSV's metadata, by another client or by the finalizer, *)
(* label and OperatorGroup annotation updates of the operator itself       *)
UpdateMetadata(c) ==
    /\ csv[c] # None
    /\ Fault("metadata")
    /\ Changed(c)
    /\ UNCHANGED <<csv, cache, deployment, depcache, created, succeeded>>

(* The garbage collector deletes the deployments of a CSV that is gone; a  *)
(* deployment may also be deleted by someone else.                         *)
DeleteDeployment(d) ==
    /\ deployment[d] # None
    /\ \/ csv[deployment[d]] = None /\ UNCHANGED faults
       \/ csv[deployment[d]] # None /\ Fault("undeploy")
    /\ deployment' = [deployment EXCEPT ![d] = None]
    /\ UNCHANGED <<csv, cache, stale, depcache, sync, created, succeeded>>

(* The operator restarts: syncs are lost, and the caches are listed anew *)
Restart ==
    /\ \/ Running /\ Fault("crash")
       \/ ~Running /\ UNCHANGED faults
    /\ sync' = [c \in CSVs |-> IdleSync]
    /\ cache' = csv
    /\ stale' = {}
    /\ depcache' = deployment
    /\ UNCHANGED <<csv, deployment, created, succeeded>>

CSVNext(c) ==
    \/ SyncCSV(c) \/ Gate(c) \/ UpdateStatus(c) \/ SyncObject(c)
    \/ CacheCSV(c) \/ CreateCSV(c) \/ DeleteCSV(c) \/ UpdateMetadata(c)

Next ==
    \/ \E c \in CSVs : CSVNext(c)
    \/ \E d \in Deployments : CacheDeployment(d) \/ DeleteDeployment(d)
    \/ Restart

Spec == Init /\ [][Next]_vars

(* Informer events, requeues and the periodic resync bring every CSV to a  *)
(* worker again and again, workers finish what they started, watches       *)
(* deliver, and the catalog operator goes on creating the chain.           *)
Fairness ==
    /\ \A c \in CSVs : /\ WF_vars(SyncCSV(c)) /\ WF_vars(Gate(c))
                       /\ WF_vars(UpdateStatus(c)) /\ WF_vars(CacheCSV(c))
                       /\ WF_vars(CreateCSV(c))
    /\ \A d \in Deployments : WF_vars(CacheDeployment(d))

FairSpec == Spec /\ Fairness

-----------------------------------------------------------------------------
(* Properties                                                              *)

Exists(c, phases) == csv[c] # None /\ csv[c].phase \in phases

(* The CSVs that replace c, directly or through other CSVs *)
NewerThan ==
    LET newer == [x \in CSVs |-> {y \in CSVs : Replaces[y] = x}]
    IN  [c \in CSVs |-> Reach(newer, c) \ {c}]

IsNewer(r, c) == r \in NewerThan[c]

(* A CSV is installed only when the CSV it replaces is gone, or is         *)
(* Replacing or Deleting and so no longer installs anything: the last      *)
(* check of the Pending case, although the status it leads to is written   *)
(* after other syncs ran and a Failed CSV reaches Succeeded without it.    *)
UpgradeGate ==
    \A c \in CSVs :
        Exists(c, {"InstallReady", "Installing", "Succeeded"}) /\ HasPrevious(c)
            => Exists(Replaces[c], {"Replacing", "Deleting"})

(* A deployment never goes back from a CSV to one that it replaces: OLM    *)
(* does not support rollbacks (pkg/controller/install/deployment.go).      *)
NoRollback ==
    [][\A d \in Deployments :
         deployment[d] # None /\ deployment'[d] # None
            => ~IsNewer(deployment[d], deployment'[d])]_vars

(* A CSV is marked for deletion only when the CSV it replaces is gone: the *)
(* Replacing case never deletes an intermediate CSV of a chain.            *)
OldestFirst ==
    \A c \in CSVs : Exists(c, {"Deleting"}) => ~HasPrevious(c)

(* A CSV that was once Succeeded is deleted by the operator only for one   *)
(* that replaced it and was Succeeded too: there is always one of them in  *)
(* the cluster that nobody is deleting.                                    *)
OperatorKept ==
    \A c \in succeeded : \E r \in succeeded :
        /\ r = c \/ IsNewer(r, c)
        /\ csv[r] # None
        /\ ~csv[r].deleting

(* Whatever else goes wrong, a CSV is marked for deletion only after a CSV *)
(* that replaces it was Succeeded, if only once.                           *)
ReplacedBySucceeded ==
    \A c \in CSVs : Exists(c, {"Deleting"}) => \E r \in succeeded : IsNewer(r, c)

(* Two CSVs that own the same CRD and do not replace each other are never  *)
(* both installed: crdOwnerConflicts compares with a cached list, and the  *)
(* CSV that comes second always finds the first one in it.                 *)
OneOwner ==
    \A x, y \in CSVs :
        x # y /\ Owned[x] \cap Owned[y] # {} /\ ~IsNewer(x, y) /\ ~IsNewer(y, x)
            => ~ /\ Exists(x, {"InstallReady", "Installing", "Succeeded"})
                 /\ Exists(y, {"InstallReady", "Installing", "Succeeded"})

(* The sync of a Replacing CSV always finds the replacement whose fields   *)
(* it reads when fail forward is enabled.                                  *)
NoPanic == Running

(* When the faults are over and the chain has been created, its newest CSV *)
(* is installed and stays so, unless someone deleted it or a CSV failed in *)
(* a way that is not retried.                                              *)
NewestSucceeds ==
    \A c \in CSVs :
        (\A r \in CSVs : Replaces[r] # c) =>
            <>[]\/ csv[c] = None \/ csv[c].deleting
                \/ \E x \in CSVs : csv[x] # None /\ csv[x].reason = "noretry"
                \/ csv[c].phase = "Succeeded"

====
