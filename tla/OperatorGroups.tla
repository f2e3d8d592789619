--------------------------- MODULE OperatorGroups ---------------------------
(***************************************************************************)
(* OperatorGroups and the CSVs in their namespaces (olm/operatorgroup.go,  *)
(* olm/groups.go and the group part of olm/operator.go).                   *)
(*                                                                         *)
(* A group lives in the namespace of an operator and selects the           *)
(* namespaces the operator serves.  Its status lists them, an annotation   *)
(* claims the APIs its CSVs provide.  A CSV installs when its group is the *)
(* only one in its namespace and no group with common namespaces claims    *)
(* its APIs; it is copied to the namespaces of the status.                 *)
(*                                                                         *)
(* Handlers read informer caches.  Writes of an object that changed since  *)
(* it was cached are refused.  The CSVs of all operators have the same     *)
(* name (one operator, installed more than once), so that a copy and a CSV *)
(* or another's copy are the same object.  Service accounts, the RBAC of   *)
(* groups and copies, the labels of namespaces, install modes and groups   *)
(* that select no namespace at all are not modelled.                       *)
(***************************************************************************)
EXTENDS Naturals, FiniteSets

CONSTANTS
    Home,       \* the namespaces operators are installed in
    Tenant,     \* other namespaces
    Groups,     \* the OperatorGroups
    HomeOf,     \* the namespace of each group
    Provides,   \* the API provided by the CSV in each home
    Targets,    \* the selections users may write in the spec of each group
    Static,     \* the groups with static provided APIs
    Protected,  \* the namespaces that get copies even when they are disabled
    MaxLags,    \* how many steps find a cache behind
    Faults,     \* the faults and edits that may happen
    MaxFaults   \* how many of them happen

ASSUME OperatorGroupsAssumption ==
    /\ IsFiniteSet(Groups) /\ HomeOf \in [Groups -> Home] /\ Static \subseteq Groups
    /\ Targets \in [Groups -> SUBSET SUBSET (Home \union Tenant \union {""})]
    /\ MaxLags \in Nat /\ MaxFaults \in Nat

VARIABLES
    group, groupCache,  \* the OperatorGroups and their cache
    csv, csvCache,      \* the CSV of each home and its cache
    copies, copyCache,  \* the copied CSV in each namespace and its cache
    copyQueue,          \* the CSVs queued for copying
    enabled,            \* OLMConfig: CSVs of global operators are copied
    lags, faults

vars == <<group, groupCache, csv, csvCache, copies, copyCache, copyQueue, enabled, lags, faults>>

NS == Home \union Tenant
API == {Provides[o] : o \in Home}

\* NamespaceAll, as a selection
All == {""}

NoGroup == "none"
NoNS == "none"

NewGroup(spec, apis) ==
    [there |-> TRUE, spec |-> spec, status |-> {}, apis |-> apis, multiple |-> FALSE]
Gone == [there |-> FALSE, spec |-> {}, status |-> {}, apis |-> {}, multiple |-> FALSE]
NoCSV == [there |-> FALSE, group |-> NoGroup, targets |-> {}, phase |-> "Pending"]
NewCSV == [NoCSV EXCEPT !.there = TRUE]
NoCopy == [from |-> NoNS, phase |-> "Pending"]

Fault(f) ==
    /\ f \in Faults
    /\ faults < MaxFaults
    /\ faults' = faults + 1

\* A step leaves the objects as given.  The cache of a kind follows, or stays behind
\* for a step more.
Leaves(groups, csvs, copied) ==
    /\ group' = groups /\ csv' = csvs /\ copies' = copied
    /\ \/ /\ groupCache' = groups /\ csvCache' = csvs /\ copyCache' = copied
          /\ UNCHANGED lags
       \/ /\ lags < MaxLags
          /\ lags' = lags + 1
          /\ groupCache' \in {groups, groupCache}
          /\ csvCache' \in {csvs, csvCache}
          /\ copyCache' \in {copied, copyCache}
          /\ <<groupCache, csvCache, copyCache>>' # <<groups, csvs, copied>>

-----------------------------------------------------------------------------
(* groups.go *)

\* NamespaceSet.Contains and Intersection (mutant: NamespaceAll is a name)
MutContains(S, n) == n \in S
Contains(S, n) == S = All \/ n \in S
Intersects(S, T) == IF All \in {S, T} THEN S # {} /\ T # {} ELSE S \intersect T # {}

\* NewOperatorGroup adds the group's own namespace.
Surface(g) ==
    LET s == groupCache[g].status
    IN  IF s \in {{}, All} THEN s ELSE s \union {HomeOf[g]}

Known(g) == groupCache[g].there

\* ReconcileAPIIntersection (mutant: the claims of other groups are not looked at)
MutConflicts(o, g) == FALSE

Conflicts(o, g) ==
    \E h \in Groups \ {g} :
        Known(h) /\ Intersects(Surface(g), Surface(h)) /\ Provides[o] \in groupCache[h].apis

\* Mutant: the CSV does not wait for the claim of its group.
MutClaimed(o, g) == TRUE

Claimed(o, g) == Provides[o] \in groupCache[g].apis

Mine(o) == {g \in Groups : Known(g) /\ HomeOf[g] = o}

-----------------------------------------------------------------------------

\* Users write the claims of a static group themselves.
Created(g) == {NewGroup(s, IF g \in Static THEN API ELSE {}) : s \in Targets[g]}

Init ==
    /\ group \in {G \in [Groups -> UNION {Created(g) : g \in Groups} \union {Gone}] :
                    /\ \A g \in Groups : G[g] \in Created(g) \union {Gone}
                    /\ \A o \in Home : Cardinality({g \in Groups : HomeOf[g] = o /\ G[g].there}) = 1}
    /\ groupCache = group
    /\ csv = [o \in Home |-> NewCSV]
    /\ csvCache = csv
    /\ copies = [n \in NS |-> NoCopy]
    /\ copyCache = copies
    /\ copyQueue = {}
    /\ enabled = TRUE
    /\ lags = 0
    /\ faults = 0

-----------------------------------------------------------------------------
(* syncClusterServiceVersion, up to the state machine of the phases *)

\* BuildTargetNamespaces: no namespaces and NamespaceAll are the same string.
Joined(s) == IF s = {} THEN All ELSE s

\* operatorGroupAnnotationsDiffer, for a CSV and the group of its namespace
Differs(o, g) ==
    \/ csvCache[o].group # g
    \/ csvCache[o].targets = {}
    \/ csvCache[o].targets # Joined(groupCache[g].status)

\* setOperatorGroupAnnotations: the targets are left as they are until there are some.
SetAnnotations(o, g) ==
    [csv EXCEPT ![o].group = g,
                ![o].targets = IF groupCache[g].status = {} THEN @ ELSE groupCache[g].status]

\* operatorGroupFromAnnotations: the group of a CSV that is annotated correctly
FromAnnotations(o) == {g \in Groups : Known(g) /\ HomeOf[g] = o /\ ~Differs(o, g)}

Uncopiable == {"NoOperatorGroup", "TooManyOperatorGroups", "InterOperatorGroupOwnerConflict",
               "CannotModifyStaticOperatorGroupProvidedAPIs"}

\* The sync ends with the CSV in the given phase.  It is queued for copying, unless
\* the group selects its own namespace only.
Synced(o, phase, groups, csvs) ==
    /\ copyQueue' = IF /\ phase \notin Uncopiable
                       /\ \E g \in FromAnnotations(o) : groupCache[g].status # {o}
                    THEN copyQueue \union {o} ELSE copyQueue
    /\ Leaves(groups, csvs, copies)
    /\ UNCHANGED <<enabled, faults>>

SetPhase(o, phase) ==
    Synced(o, phase, group,
           IF csvCache[o] = csv[o] THEN [csv EXCEPT ![o].phase = phase] ELSE csv)

\* operatorGroupForCSV: no group, too many, or one the CSV is not annotated with
GroupMissing(o) == Mine(o) = {} /\ SetPhase(o, "NoOperatorGroup")
GroupsMany(o) == Cardinality(Mine(o)) > 1 /\ SetPhase(o, "TooManyOperatorGroups")

Annotate(o, g) ==
    /\ Mine(o) = {g}
    /\ Differs(o, g)
    /\ Synced(o, csvCache[o].phase, group,
              IF csvCache[o] = csv[o] THEN SetAnnotations(o, g) ELSE csv)

Member(o, g) == Mine(o) = {g} /\ ~Differs(o, g)

\* A static group is not written, its CSV fails (unless it has failed of a conflict).
WriteClaims(o, g, apis) ==
    IF g \in Static
    THEN SetPhase(o, IF csvCache[o].phase = "InterOperatorGroupOwnerConflict"
                     THEN csvCache[o].phase ELSE "CannotModifyStaticOperatorGroupProvidedAPIs")
    ELSE Synced(o, csvCache[o].phase,
                IF groupCache[g] = group[g] THEN [group EXCEPT ![g].apis = apis] ELSE group, csv)

\* The CSV's API is added to the claims of its group, or taken from them when
\* another group has claimed it too.
AddAPIs(o, g) ==
    /\ Member(o, g)
    /\ ~Claimed(o, g) /\ ~Conflicts(o, g)
    /\ WriteClaims(o, g, groupCache[g].apis \union {Provides[o]})

RemoveAPIs(o, g) ==
    /\ Member(o, g)
    /\ Claimed(o, g) /\ Conflicts(o, g)
    /\ WriteClaims(o, g, groupCache[g].apis \ {Provides[o]})

APIConflict(o, g) ==
    /\ Member(o, g)
    /\ ~Claimed(o, g) /\ Conflicts(o, g)
    /\ SetPhase(o, "InterOperatorGroupOwnerConflict")

\* Without a conflict the CSV goes on: out of a failure to Pending, and from there
\* to Succeeded.
NoAPIConflict(o, g) ==
    /\ Member(o, g)
    /\ Claimed(o, g) /\ ~Conflicts(o, g)
    /\ SetPhase(o, IF csvCache[o].phase \in Uncopiable THEN "Pending" ELSE "Succeeded")

SyncCSV(o) ==
    /\ csvCache[o].there
    /\ \/ GroupMissing(o) \/ GroupsMany(o)
       \/ \E g \in Groups :
             \/ Annotate(o, g) \/ AddAPIs(o, g) \/ RemoveAPIs(o, g)
             \/ APIConflict(o, g) \/ NoAPIConflict(o, g)

-----------------------------------------------------------------------------
(* syncOperatorGroups *)

\* The groups of a namespace whose MultipleOperatorGroups condition is wrong
Mismarked(o) == {g \in Mine(o) : groupCache[g].multiple # (Cardinality(Mine(o)) > 1)}

Remarked(g) ==
    IF g \in Mismarked(HomeOf[g]) /\ groupCache[g] = group[g]
    THEN [group[g] EXCEPT !.multiple = ~@] ELSE group[g]

\* The group is written with the version it was read with: not after its condition.
Writable(g) == groupCache[g] = group[g] /\ g \notin Mismarked(HomeOf[g])

WithGroup(g, new) ==
    [h \in Groups |-> IF h = g /\ Writable(g) THEN new
                      ELSE IF HomeOf[h] = HomeOf[g] THEN Remarked(h) ELSE group[h]]

\* pruneProvidedAPIs: claims of APIs no CSV provides, unless a CSV is on its way
Pruned(g) ==
    LET o == HomeOf[g]
        provided == IF csvCache[o].there THEN {Provides[o]} ELSE {}
        coming == csvCache[o].phase = "Pending" /\ ~provided \subseteq groupCache[g].apis
    IN  IF g \in Static \/ coming THEN groupCache[g].apis ELSE groupCache[g].apis \intersect provided

SyncOperatorGroup(g) ==
    LET o == HomeOf[g]
        differs == csvCache[o].there /\ Differs(o, g)
        refused == differs /\ csvCache[o] # csv[o] /\ csv[o].there
    IN  /\ Known(g)
        /\ \/ /\ groupCache[g].status # groupCache[g].spec
              /\ Leaves(WithGroup(g, [group[g] EXCEPT !.status = groupCache[g].spec]),
                        csv, copies)
           \/ /\ groupCache[g].status = groupCache[g].spec
              /\ refused
              /\ Leaves(WithGroup(g, group[g]), csv, copies)
           \/ /\ groupCache[g].status = groupCache[g].spec
              /\ ~refused
              /\ Leaves(WithGroup(g, [group[g] EXCEPT !.apis = Pruned(g)]),
                        IF differs /\ csv[o].there THEN SetAnnotations(o, g) ELSE csv, copies)
        /\ UNCHANGED <<copyQueue, enabled, faults>>

-----------------------------------------------------------------------------
(* Copied CSVs *)

\* All CSVs have the same name: a copy cannot be created beside a CSV.
Occupied(n) == n \in Home /\ csv[n].there

\* copyToNamespace, for the namespaces of targets; failed: the writes that fail
Copied(o, targets, failed, n) ==
    LET new == [from |-> o, phase |-> csvCache[o].phase]
        create == copyCache[n] = NoCopy /\ copies[n] = NoCopy /\ ~Occupied(n)
        update == copyCache[n] # NoCopy /\ copyCache[n] = copies[n]
    IN  IF n # o /\ Contains(targets, n) /\ n \notin failed /\ (create \/ update)
        THEN new ELSE copies[n]

\* The CSV of that name in the namespace is deleted, whichever it is.
DeletedIn(N) == [o \in Home |-> IF o \in N /\ copies[o] = NoCopy THEN NoCSV ELSE csv[o]]

\* syncCopyCSV and ensureCSVsInNamespaces.  A copy of a namespace that is no target
\* is left to syncGcCsv.
CopyCSV(o, failed) ==
    LET targets == groupCache[CHOOSE g \in FromAnnotations(o) : TRUE].status
        dropped == {n \in NS : copyCache[n].from = o} \ Protected
        found == csvCache[o].there /\ FromAnnotations(o) # {}
    IN  /\ o \in copyQueue
        /\ \/ /\ ~csvCache[o].there
              /\ copyQueue' = copyQueue \ {o}
              /\ Leaves(group, csv, copies)
           \* An error: the CSV is queued again, until it has been too often.
           \/ /\ csvCache[o].there /\ ~found
              /\ copyQueue' \in {copyQueue, copyQueue \ {o}}
              /\ Leaves(group, csv, copies)
           \/ /\ found
              /\ enabled \/ targets # All
              /\ copyQueue' = copyQueue \ {o}
              /\ Leaves(group, csv, [n \in NS |-> Copied(o, targets, failed, n)])
           \/ /\ found
              /\ ~enabled /\ targets = All
              /\ copyQueue' = copyQueue \ {o}
              /\ Leaves(group, DeletedIn(dropped),
                        [n \in NS |-> IF n \in dropped THEN NoCopy
                                      ELSE Copied(o, Protected, failed, n)])
        /\ UNCHANGED enabled

SyncCopyCSV(o) ==
    \/ CopyCSV(o, {}) /\ UNCHANGED faults
    \/ \E n \in NS : Fault("copyFails") /\ CopyCSV(o, {n})

\* removeDanglingChildCSVs.  Targets that are not there read as NamespaceAll.
Dangling(n) ==
    LET parent == csvCache[copyCache[n].from]
    IN  \/ ~parent.there
        \/ parent.phase = "InterOperatorGroupOwnerConflict"
        \/ ~Contains(Joined(parent.targets), n)
        \/ copyCache[n].from = n

SyncGcCSV(n) ==
    /\ copyCache[n] # NoCopy
    /\ Dangling(n)
    /\ Leaves(group, DeletedIn({n}), [copies EXCEPT ![n] = NoCopy])
    /\ UNCHANGED <<copyQueue, enabled, faults>>

-----------------------------------------------------------------------------
(* Users *)

Retarget(g) ==
    /\ Fault("retarget")
    /\ group[g].there
    /\ \E s \in Targets[g] \ {group[g].spec} :
          Leaves([group EXCEPT ![g].spec = s], csv, copies)

CreateGroup(g) ==
    /\ Fault("createGroup")
    /\ ~group[g].there
    /\ \E new \in Created(g) : Leaves([group EXCEPT ![g] = new], csv, copies)

DeleteGroup(g) ==
    /\ Fault("deleteGroup")
    /\ group[g].there
    /\ Leaves([group EXCEPT ![g] = Gone], csv, copies)

DeleteCSV(o) ==
    /\ Fault("deleteCSV")
    /\ csv[o].there
    /\ Leaves(group, [csv EXCEPT ![o] = NoCSV], copies)

Toggle ==
    /\ Fault("toggle")
    /\ enabled' = ~enabled
    /\ Leaves(group, csv, copies)
    /\ UNCHANGED copyQueue

Users ==
    /\ \/ \E g \in Groups : Retarget(g) \/ CreateGroup(g) \/ DeleteGroup(g)
       \/ \E o \in Home : DeleteCSV(o)
    /\ UNCHANGED <<copyQueue, enabled>>

Controller ==
    \/ \E o \in Home : SyncCSV(o) \/ SyncCopyCSV(o)
    \/ \E g \in Groups : SyncOperatorGroup(g)
    \/ \E n \in NS : SyncGcCSV(n)

Next == Controller \/ Users \/ Toggle

\* Every object is synced again and again: by its events, and by the resync of the
\* informers.  A sync that deletes copies does so until none dangles.
Fairness ==
    /\ \A o \in Home : WF_vars(SyncCSV(o)) /\ WF_vars(SyncCopyCSV(o))
    /\ \A g \in Groups : WF_vars(SyncOperatorGroup(g))
    /\ WF_vars(\E n \in NS : SyncGcCSV(n))

Spec == Init /\ [][Next]_vars /\ Fairness

-----------------------------------------------------------------------------
(* Properties *)

Phases == {"Pending", "Succeeded"} \union Uncopiable

TypeOK ==
    /\ \A G \in {group, groupCache} : G \in [Groups ->
          [there : BOOLEAN, spec : SUBSET (NS \union All), status : SUBSET (NS \union All),
           apis : SUBSET API, multiple : BOOLEAN]]
    /\ \A C \in {csv, csvCache} : C \in [Home ->
          [there : BOOLEAN, group : Groups \union {NoGroup}, targets : SUBSET (NS \union All),
           phase : Phases]]
    /\ \A C \in {copies, copyCache} :
          C \in [NS -> [from : Home \union {NoNS}, phase : Phases]]
    /\ copyQueue \subseteq Home
    /\ enabled \in BOOLEAN
    /\ lags \in 0..MaxLags
    /\ faults \in 0..MaxFaults

\* The groups of a home, and the namespaces its operator serves, as they are
Of(o) == {g \in Groups : group[g].there /\ HomeOf[g] = o}
Serves(g) ==
    IF group[g].status \in {{}, All} THEN group[g].status ELSE group[g].status \union {HomeOf[g]}
Overlap(o, p) == \E g \in Of(o), h \in Of(p) : Intersects(Serves(g), Serves(h))

Succeeded(o) == csv[o].there /\ csv[o].phase = "Succeeded"

SoleProviders ==
    \A o, p \in Home :
        o # p /\ Provides[o] = Provides[p] /\ Succeeded(o) /\ Succeeded(p) => ~Overlap(o, p)

\* As long as the caches keep up and users write neither groups nor claims, no two
\* operators that serve a common namespace provide the same API, not even for a moment,
\* in whatever order their CSVs and groups are synced: transitionCSVState installs a CSV
\* only once its group has claimed the API.
Exclusive ==
    lags = 0 /\ faults = 0 /\ (\A g \in Static : ~group[g].there) => SoleProviders

\* A CSV has failed for a conflict only while a group it overlaps with claims its API,
\* for a CSV that is still there or because its claims are static.  (A CSV of a static
\* group keeps that reason when the conflict is gone and its API is not in the list.)
JustifiedConflicts ==
    \A o \in Home, g \in Groups \ Static :
        csv[o].there /\ csv[o].phase = "InterOperatorGroupOwnerConflict" /\ Of(o) = {g} =>
            \E p \in Home \ {o} : \E h \in Of(p) :
                Overlap(o, p) /\ Provides[o] \in group[h].apis /\ (h \in Static \/ csv[p].there)

\* Whatever the stale reads and the edits of groups have done, the reconciliation of the
\* claims ends: an API has one provider among overlapping groups, and a CSV that lost
\* against another gets its chance when the other is gone.
ProvidersSettle == <>[](SoleProviders /\ JustifiedConflicts)

\* The namespaces with a copy of the CSV of o, according to its group
CopyTargets(o, g) ==
    {n \in NS \ {o} : IF group[g].status = All /\ ~enabled THEN n \in Protected
                      ELSE group[g].status = All \/ n \in group[g].status}

CopiesRight ==
    \A o \in Home : \A g \in Groups :
        Of(o) = {g} /\ Succeeded(o) =>
            \A n \in NS : /\ copies[n].from = o => n \in CopyTargets(o, g)
                          /\ n \in CopyTargets(o, g) => copies[n] # NoCopy \/ Occupied(n)
                          /\ copies[n].from = o => copies[n].phase = "Succeeded"

NoOrphans == \A n \in NS : copies[n] # NoCopy => csv[copies[n].from].there

\* Copies settle: a CSV that has succeeded is copied, with its phase, to the namespaces
\* its group selects and to no other (only to the protected ones when copies of global
\* operators are disabled), and the copies of a CSV that is gone are removed.
CopiesSettle == <>[](CopiesRight /\ NoOrphans)
=============================================================================
