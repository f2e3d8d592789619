--------------------------- MODULE RegistryServer ---------------------------
(***************************************************************************)
(* The registry server of a CatalogSource: syncConfigMap and               *)
(* syncRegistryServer of the catalog operator with the reconcilers behind  *)
(* them (pkg/controller/registry/reconciler).  A sync compares the pods,   *)
(* the Service and the account it sees in the informer caches with what    *)
(* the CatalogSource asks for, creates, deletes and relabels them one      *)
(* request at a time, and writes the CatalogSource's status at its end.    *)
(*                                                                         *)
(* Kinds of sources: "grpc" serves an image; "poll" also polls the image   *)
(* for updates, by starting an update pod next to the serving one and      *)
(* promoting it when its image differs; "configmap" serves the ConfigMap   *)
(* the source names.                                                       *)
(*                                                                         *)
(* want is the version of what is to be served: of the spec for an image,  *)
(* the resource version for a ConfigMap.  digest is what the image's tag   *)
(* stands for when a pod pulls it.                                         *)
(***************************************************************************)
EXTENDS Integers, FiniteSets

CONSTANTS
    Kinds,       \* the kinds of sources to consider
    Pods,        \* names of pods that can exist at once, numbers
    MaxVersion,  \* bound of want
    MaxDigest,   \* bound of digest
    MaxLag,      \* how many pods a sync may find out of date in the cache
    Faults,      \* the faults that may happen
    MaxFaults    \* how many of them

VARIABLES
    kind,     \* the kind of the source
    want,     \* the version the source asks for
    digest,   \* the image its tag stands for
    pods,     \* the pods in the cluster
    seen,     \* the pods in the informer cache
    objects,  \* which of the account and the Service exist in the cluster
    cached,   \* which of them are in the informer caches
    status,   \* the source's status: is RegistryServiceStatus valid, which
              \* ConfigMap version was recorded
    due,      \* the polling interval has passed since the last recorded poll
    sync,     \* the sync in progress
    faults    \* how many faults there were

vars == <<kind, want, digest, pods, seen, objects, cached, status, due, sync, faults>>

Version == 0 .. MaxVersion
Digest == 0 .. MaxDigest
Object == {"account", "service"}

NoPod == [state |-> "none", label |-> "live", version |-> 0, image |-> 0]
NewPod(l, v) == [state |-> "starting", label |-> l, version |-> v, image |-> 0]

Idle == [pc |-> "idle", version |-> 0, status |-> [valid |-> FALSE, resource |-> 0],
         polled |-> FALSE, overwrite |-> FALSE, updates |-> {}, old |-> {}]

Fault(f) ==
    /\ f \in Faults
    /\ faults < MaxFaults
    /\ faults' = faults + 1

-----------------------------------------------------------------------------

\* The pods a label selector finds, of any version
Labelled(P, l) == {p \in Pods : P[p].state # "none" /\ P[p].label = l}

\* currentPodsWithCorrectImageAndSpec, currentPodsWithCorrectResourceVersion
Current(v) == {p \in Labelled(seen, "live") : seen[p].version = v}

\* isPodDead
Dead(p) == seen[p].state = "dead"

Delete(P, names) == [p \in Pods |-> IF p \in names THEN NoPod ELSE P[p]]

\* The spec names the image, and its tag stands for another one after a push.
Image(p) == <<seen[p].version, seen[p].image>>
ImageKnown(p) == seen[p].image # 0

\* imageChanged goes through the serving pods in the order of the list: it stops
\* at the first one whose image is unknown or differs.
Changed(u, live) == ImageKnown(u) /\ \E p \in live : ImageKnown(p) /\ Image(p) # Image(u)
Unchanged(u, live) ==
    ~ImageKnown(u) \/ (\E p \in live : ~ImageKnown(p)) \/ \A p \in live : Image(p) = Image(u)

-----------------------------------------------------------------------------

Init ==
    /\ kind \in Kinds
    /\ want = 1
    /\ digest = 1
    /\ pods = [p \in Pods |-> NoPod]
    /\ seen = pods
    /\ objects = {}
    /\ cached = {}
    /\ status = [valid |-> FALSE, resource |-> 0]
    /\ due = FALSE
    /\ sync = Idle
    /\ faults = 0

world == <<kind, want, digest, seen, cached>>

\* CheckRegistryServer: there is a live pod of the right version, the objects are
\* in the caches, and the account of an image also in the cluster.  Dead pods are
\* deleted, and another one has to be left.
Complete(v) ==
    Current(v) # {} /\ cached = Object /\ (kind # "configmap" => "account" \in objects)
Checked(v) == IF kind = "configmap" THEN Labelled(seen, "live") ELSE Current(v)
Healthy(v) == Complete(v) /\ \E p \in Checked(v) : ~Dead(p)

\* A sync starts with the source as it is; syncConfigMap records a version of the
\* ConfigMap that is not recorded yet and ends the sync, otherwise
\* syncRegistryServer checks the server and ends the sync when it is healthy and
\* not polled.
SyncCatalogSource ==
    /\ sync = Idle
    /\ Cardinality({p \in Pods : seen[p] # pods[p]}) <= MaxLag
    /\ LET start == [Idle EXCEPT !.version = want, !.status = status]
       IN  \/ /\ kind = "configmap"
              /\ status.resource # want
              /\ sync' = [start EXCEPT !.status.resource = want, !.pc = "write"]
              /\ UNCHANGED pods
           \/ /\ kind = "configmap" => status.resource = want
              /\ pods' = IF Complete(want)
                         THEN Delete(pods, {p \in Checked(want) : Dead(p)}) ELSE pods
              /\ sync' = IF Healthy(want) /\ status.valid /\ kind # "poll" THEN Idle
                         ELSE [start EXCEPT !.pc = IF kind = "configmap" THEN "configmap"
                                                   ELSE "account"]
    /\ UNCHANGED <<world, objects, status, due, faults>>

Step(pc) ==
    /\ sync.pc = pc
    /\ UNCHANGED <<world, status, due, faults>>

\* An error ends the sync; the status is still written.
Failing == [sync EXCEPT !.updates = {}, !.old = {}, !.pc = "write"]

\* The reconciler of a ConfigMap reads it again, and decides on the pod.
ReadConfigMap ==
    /\ Step("configmap")
    /\ sync' = [sync EXCEPT !.version = want, !.status.resource = want, !.pc = "account",
                            !.overwrite = \/ ~sync.status.valid
                                          \/ sync.status.resource # want
                                          \/ Current(want) = {}]
    /\ UNCHANGED <<pods, objects>>

\* An object that is not in the cache is created, which fails when it exists; one
\* that is, is kept or, if everything is to be overwritten, deleted and created.
EnsureObject(o, next) ==
    \/ /\ o \in cached => ~sync.status.valid
       /\ o \in cached \/ o \notin objects
       /\ objects' = objects \union {o}
       /\ sync' = [sync EXCEPT !.pc = next]
    \/ /\ o \in cached
       /\ sync.status.valid
       /\ UNCHANGED objects
       /\ sync' = [sync EXCEPT !.pc = next]
    \/ /\ o \notin cached
       /\ o \in objects
       /\ UNCHANGED objects
       /\ sync' = Failing

\* ensureSA creates the account and takes one that exists for granted;
\* ensureServiceAccount, ensureRole and ensureRoleBinding go by the caches.
EnsureAccount ==
    /\ Step("account")
    /\ \/ /\ kind # "configmap"
          /\ objects' = objects \union {"account"}
          /\ sync' = [sync EXCEPT !.pc = "pod"]
       \/ kind = "configmap" /\ EnsureObject("account", "pod")
    /\ UNCHANGED pods

\* ensurePod keeps the live pods, or deletes all of them first.
EnsurePod ==
    /\ Step("pod")
    /\ LET overwritePod == IF kind = "configmap" THEN sync.overwrite
                           ELSE ~sync.status.valid \/ Current(sync.version) = {}
           live == Labelled(seen, "live")
           keep == live # {} /\ ~overwritePod
       IN  /\ pods' = IF keep THEN pods ELSE Delete(pods, live)
           /\ sync' = [sync EXCEPT !.overwrite = overwritePod,
                                   !.pc = IF keep THEN "update" ELSE "create"]
    /\ UNCHANGED objects

\* The name of a new pod is generated: not one in use, nor one still in the cache.
Unused == {p \in Pods : pods[p].state = "none" /\ seen[p].state = "none"}
Free(p) == p \in Unused /\ \A q \in Unused : p <= q

CreatePod(p) ==
    /\ Step("create")
    /\ Free(p)
    /\ pods' = [pods EXCEPT ![p] = NewPod("live", sync.version)]
    /\ sync' = [sync EXCEPT !.pc = "update"]
    /\ UNCHANGED objects

\* It is time to poll and there is no update pod.
Polls == kind = "poll" /\ due /\ Labelled(seen, "update") = {}

\* There is no room for another pod: creating it is refused.
CreateRefused ==
    /\ Step(sync.pc)
    /\ \/ sync.pc = "create"
       \/ sync.pc = "update" /\ Polls
    /\ Unused = {}
    /\ sync' = Failing
    /\ UNCHANGED <<pods, objects>>

\* ensureUpdatePod does nothing for a source that is not polled.
NoPolling ==
    /\ Step("update")
    /\ kind # "poll"
    /\ sync' = [sync EXCEPT !.pc = "service"]
    /\ UNCHANGED <<pods, objects>>

\* The update pod is created, and the time of the poll is written to the status
\* (UpdateNotReadyErr).
CreateUpdatePod(p) ==
    /\ Step("update")
    /\ Polls
    /\ Free(p)
    /\ pods' = [pods EXCEPT ![p] = NewPod("update", sync.version)]
    /\ sync' = [sync EXCEPT !.polled = TRUE, !.pc = "write"]
    /\ UNCHANGED objects

\* podReady and podFailed
Ready(p) == seen[p].state = "ready"
PodFailed(p) == seen[p].state = "failed"

\* The update pods are checked in turn: one that failed is deleted and ends the
\* sync with an error, one that is not ready ends it (UpdateNotReadyErr).  If all
\* are ready their images are compared.
CheckUpdatePods ==
    /\ Step("update")
    /\ kind = "poll"
    /\ LET updates == Labelled(seen, "update")
       IN  /\ ~Polls
           /\ \/ \E p \in updates :
                    /\ PodFailed(p)
                    /\ pods' = Delete(pods, {p})
                    /\ sync' = Failing
              \/ /\ \E p \in updates : ~PodFailed(p) /\ ~Ready(p)
                 /\ sync' = [sync EXCEPT !.pc = "write"]
                 /\ UNCHANGED pods
              \/ /\ \A p \in updates : Ready(p)
                 /\ sync' = [sync EXCEPT !.updates = updates, !.old = Labelled(seen, "live"),
                                         !.pc = IF updates = {} THEN "service" ELSE "compare"]
                 /\ UNCHANGED pods
    /\ UNCHANGED objects

\* An update pod whose image differs from a serving pod's is promoted ...
PromoteCatalog(u) ==
    /\ Step("compare")
    /\ u \in sync.updates
    /\ Changed(u, sync.old)
    /\ IF pods[u].state = "none"
       THEN UNCHANGED pods /\ sync' = Failing
       ELSE /\ pods' = [pods EXCEPT ![u].label = "live"]
            /\ sync' = [sync EXCEPT !.pc = "old"]
    /\ UNCHANGED objects

\* ... and the serving pods are deleted.
MutDeleteOld ==
    /\ Step("old")
    /\ pods' = Delete(pods, Labelled(pods, "live"))
    /\ sync' = [sync EXCEPT !.updates = {}, !.old = {}, !.pc = "service"]
    /\ UNCHANGED objects

DeleteOld ==
    /\ Step("old")
    /\ pods' = Delete(pods, sync.old)
    /\ sync' = [sync EXCEPT !.updates = {}, !.old = {}, !.pc = "service"]
    /\ UNCHANGED objects

\* An update pod with the same image is deleted.
DeleteUpdate(u) ==
    /\ Step("compare")
    /\ u \in sync.updates
    /\ Unchanged(u, sync.old)
    /\ pods' = Delete(pods, {u})
    /\ sync' = IF sync.updates = {u}
               THEN [sync EXCEPT !.updates = {}, !.old = {}, !.pc = "service"]
               ELSE [sync EXCEPT !.updates = @ \ {u}]
    /\ UNCHANGED objects

\* ensureService; after it the status gets the Service's address if a pod was
\* created.
EnsureService ==
    /\ Step("service")
    /\ EnsureObject("service", "set")
    /\ UNCHANGED pods

MutSetServiceStatus ==
    /\ Step("set")
    /\ sync' = [sync EXCEPT !.pc = "write"]
    /\ UNCHANGED <<pods, objects>>

SetServiceStatus ==
    /\ Step("set")
    /\ sync' = [sync EXCEPT !.status.valid = @ \/ sync.overwrite, !.pc = "write"]
    /\ UNCHANGED <<pods, objects>>

\* UpdateStatus: refused if the spec changed since the sync began.
WriteStatus ==
    /\ sync.pc = "write"
    /\ IF kind # "configmap" /\ sync.version # want
       THEN UNCHANGED <<status, due>>
       ELSE /\ status' = sync.status
            /\ due' = (due /\ ~sync.polled)
    /\ sync' = Idle
    /\ UNCHANGED <<world, pods, objects, faults>>

\* A request fails, or the process restarts and nothing of the sync is kept.
RequestFails ==
    /\ sync # Idle
    /\ Fault("request")
    /\ sync' \in {Idle} \union (IF sync.pc = "write" THEN {} ELSE {Failing})
    /\ UNCHANGED <<world, pods, objects, status, due>>

Sync ==
    \/ SyncCatalogSource \/ ReadConfigMap \/ EnsureAccount \/ EnsurePod \/ CreateRefused
    \/ NoPolling \/ CheckUpdatePods \/ DeleteOld \/ EnsureService \/ SetServiceStatus \/ WriteStatus
    \/ \E p \in Pods : CreatePod(p) \/ CreateUpdatePod(p) \/ PromoteCatalog(p) \/ DeleteUpdate(p)

-----------------------------------------------------------------------------
(* The cluster *)

SyncPods ==
    /\ seen # pods
    /\ seen' = pods
    /\ UNCHANGED <<kind, want, digest, pods, objects, cached, status, due, sync, faults>>

SyncObjects ==
    /\ cached # objects
    /\ cached' = objects
    /\ UNCHANGED <<kind, want, digest, pods, seen, objects, status, due, sync, faults>>

\* A pod pulls the image and becomes ready, or fails.
PodReady(p) ==
    /\ pods[p].state = "starting"
    /\ pods' = [pods EXCEPT ![p].state = "ready", ![p].image = digest]
    /\ UNCHANGED <<world, objects, status, due, sync, faults>>

PodFails(p) ==
    /\ pods[p].state = "starting"
    /\ pods[p].label = "update"
    /\ Fault("podFails")
    /\ pods' = [pods EXCEPT ![p].state = "failed"]
    /\ UNCHANGED <<world, objects, status, due, sync>>

\* The node of a pod is lost: the taint manager deletes the pod, but nothing
\* removes it.
NodeLost(p) ==
    /\ pods[p].state \in {"starting", "ready"}
    /\ Fault("nodeLost")
    /\ pods' = [pods EXCEPT ![p].state = "dead"]
    /\ UNCHANGED <<world, objects, status, due, sync>>

\* A dead update pod is not looked for: it holds up polling until its node is
\* back or removed.
NodeRemoved(p) ==
    /\ pods[p].state = "dead"
    /\ pods[p].label = "update"
    /\ pods' = Delete(pods, {p})
    /\ UNCHANGED <<world, objects, status, due, sync, faults>>

DeleteService ==
    /\ "service" \in objects
    /\ Fault("deleteService")
    /\ objects' = objects \ {"service"}
    /\ UNCHANGED <<world, pods, status, due, sync>>

\* The spec or the ConfigMap is edited, a new image is pushed, time passes.
Edit ==
    /\ want < MaxVersion
    /\ Fault("edit")
    /\ want' = want + 1
    /\ UNCHANGED <<kind, digest, pods, seen, objects, cached, status, due, sync>>

Push ==
    /\ digest < MaxDigest
    /\ kind = "poll"
    /\ Fault("push")
    /\ digest' = digest + 1
    /\ UNCHANGED <<kind, want, pods, seen, objects, cached, status, due, sync>>

PollDue ==
    /\ kind = "poll"
    /\ ~due
    /\ due' = TRUE
    /\ UNCHANGED <<kind, want, digest, pods, seen, objects, cached, status, sync, faults>>

Next ==
    \/ Sync \/ RequestFails
    \/ SyncPods \/ SyncObjects \/ DeleteService \/ Edit \/ Push \/ PollDue
    \/ \E p \in Pods : PodReady(p) \/ PodFails(p) \/ NodeLost(p) \/ NodeRemoved(p)

Spec == Init /\ [][Next]_vars

\* The pod cache does not always catch up in the middle of a sync: the syncs of a
\* source that nothing happens to are minutes apart.
Fairness ==
    /\ WF_vars(Sync)
    /\ SF_vars(sync = Idle /\ SyncPods)
    /\ WF_vars(SyncObjects)
    /\ WF_vars(PollDue)
    /\ \A p \in Pods : WF_vars(PodReady(p) \/ NodeRemoved(p))

FairSpec == Spec /\ Fairness

-----------------------------------------------------------------------------

PodType == [state : {"none", "starting", "ready", "failed", "dead"}, label : {"live", "update"},
            version : Version, image : Digest]
StatusType == [valid : BOOLEAN, resource : Version]

\* The variables have their types.
TypeOK ==
    /\ kind \in Kinds
    /\ want \in Version
    /\ digest \in Digest
    /\ pods \in [Pods -> PodType]
    /\ seen \in [Pods -> PodType]
    /\ objects \subseteq Object
    /\ cached \subseteq Object
    /\ status \in StatusType
    /\ due \in BOOLEAN
    /\ sync \in [pc : {"idle", "configmap", "account", "pod", "create", "update", "compare",
                       "old", "service", "set", "write"},
                 version : Version, status : StatusType, polled : BOOLEAN, overwrite : BOOLEAN,
                 updates : SUBSET Pods, old : SUBSET Pods]
    /\ faults \in 0 .. MaxFaults

\* The pods the Service sends requests to that can answer them for version v
Serving(v) == {p \in Labelled(pods, "live") : pods[p].state = "ready" /\ pods[p].version = v}

\* Polling does not interrupt the service: once the status is valid and all pods
\* are made for what the source asks for, no request of a sync takes away the last
\* ready pod that serves it.  (The reconciler of a ConfigMap decides to replace
\* the pod before it ensures the account: a pod that only then shows up in the
\* cache is replaced too.)
ServiceKept ==
    [][/\ Serving(want) # {} /\ want' = want
       /\ status.valid /\ sync.status.valid
       /\ kind = "configmap" => ~sync.overwrite
       /\ \A p \in Pods : pods[p].state # "none" => pods[p].version = want
       /\ faults' = faults
       => Serving(want)' # {}]_vars

\* What the source asks for is served in the end, by a pod that pulled the newest
\* image if the source is polled, behind a Service whose address is in the status.
LatestServed ==
    []<>(/\ status.valid
         /\ "service" \in objects
         /\ \E p \in Serving(want) : kind = "poll" => pods[p].image = digest)

\* "ensureUpdatePod checks that for the same catalog source version the same
\* container imageID is running": a pod that is promoted was made for the version
\* of the source that the sync works on.
PromotedForVersion ==
    [][\A p \in Pods :
          pods[p].label = "update" /\ pods'[p].label = "live" /\ pods'[p].state # "none"
          => pods'[p].version = sync.version]_vars
=============================================================================
