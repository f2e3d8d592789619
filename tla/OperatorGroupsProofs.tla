------------------------ MODULE OperatorGroupsProofs ------------------------
(***************************************************************************)
(* Proofs about OperatorGroups for any namespaces, groups and selections:  *)
(* the types, and that the claims of the groups keep overlapping operators *)
(* from providing an API twice as long as the caches keep up.              *)
(***************************************************************************)
EXTENDS OperatorGroups, FiniteSetTheorems, TLAPS

GroupRecords ==
    [there : BOOLEAN, spec : SUBSET (NS \union All), status : SUBSET (NS \union All),
     apis : SUBSET API, multiple : BOOLEAN]

CSVRecords ==
    [there : BOOLEAN, group : Groups \union {NoGroup}, targets : SUBSET (NS \union All),
     phase : Phases]

CopyRecords == [from : Home \union {NoNS}, phase : Phases]

LEMMA TypeFacts ==
    ASSUME TypeOK
    PROVE  /\ group \in [Groups -> GroupRecords] /\ groupCache \in [Groups -> GroupRecords]
           /\ csv \in [Home -> CSVRecords] /\ csvCache \in [Home -> CSVRecords]
           /\ copies \in [NS -> CopyRecords] /\ copyCache \in [NS -> CopyRecords]
           /\ copyQueue \subseteq Home /\ enabled \in BOOLEAN
           /\ lags \in 0 .. MaxLags /\ faults \in 0 .. MaxFaults
    BY ZenonT(30) DEF TypeOK, GroupRecords, CSVRecords, CopyRecords

LEMMA NewTypes ==
    /\ Gone \in GroupRecords /\ NewCSV \in CSVRecords /\ NoCSV \in CSVRecords
    /\ NoCopy \in CopyRecords
    /\ \A g \in Groups : Created(g) \subseteq GroupRecords
<1>1. Gone \in GroupRecords
    BY ZenonT(30) DEF Gone, GroupRecords
<1>2. NoCSV \in CSVRecords
    BY ZenonT(30) DEF NoCSV, CSVRecords, Phases
<1>3. NewCSV \in CSVRecords
    BY ZenonT(30) DEF NewCSV, NoCSV, CSVRecords, Phases
<1>4. NoCopy \in CopyRecords
    BY ZenonT(30) DEF NoCopy, CopyRecords, Phases
<1>5. ASSUME NEW g \in Groups PROVE Created(g) \subseteq GroupRecords
  <2>1. Targets[g] \subseteq SUBSET (NS \union All)
      BY OperatorGroupsAssumption, ZenonT(30) DEF NS, All
  <2>2. (IF g \in Static THEN API ELSE {}) \subseteq API
      BY ZenonT(30)
  <2>3. ASSUME NEW t \in SUBSET (NS \union All), NEW apis \in SUBSET API
        PROVE  NewGroup(t, apis) \in GroupRecords
      BY ZenonT(30) DEF NewGroup, GroupRecords
  <2> QED
      BY <2>1, <2>2, <2>3, ZenonT(30) DEF Created
<1> QED
    BY <1>1, <1>2, <1>3, <1>4, <1>5, ZenonT(30)

(* A step that leaves objects of the right types. *)
LEMMA LeavesType ==
    ASSUME TypeOK, NEW G \in [Groups -> GroupRecords], NEW C \in [Home -> CSVRecords],
           NEW D \in [NS -> CopyRecords], Leaves(G, C, D),
           copyQueue' \subseteq Home, enabled' \in BOOLEAN, faults' \in 0 .. MaxFaults
    PROVE  TypeOK'
<1>1. group' = G /\ csv' = C /\ copies' = D
    BY ZenonT(30) DEF Leaves
<1>2. groupCache' \in [Groups -> GroupRecords]
    BY TypeFacts, ZenonT(30) DEF Leaves
<1>3. csvCache' \in [Home -> CSVRecords]
    BY TypeFacts, ZenonT(30) DEF Leaves
<1>4. copyCache' \in [NS -> CopyRecords]
    BY TypeFacts, ZenonT(30) DEF Leaves
<1>5. lags' \in 0 .. MaxLags
  <2>1. lags' = lags \/ (lags < MaxLags /\ lags' = lags + 1)
      BY ZenonT(30) DEF Leaves
  <2>2. lags \in 0 .. MaxLags /\ MaxLags \in Nat
      BY TypeFacts, OperatorGroupsAssumption, ZenonT(30)
  <2> QED
      BY <2>1, <2>2
<1> QED
    BY <1>1, <1>2, <1>3, <1>4, <1>5, ZenonT(30) DEF TypeOK, GroupRecords, CSVRecords, CopyRecords

LEMMA FaultType ==
    ASSUME TypeOK, NEW f, Fault(f)
    PROVE  faults' \in 0 .. MaxFaults
<1>1. faults \in 0 .. MaxFaults /\ MaxFaults \in Nat
    BY TypeFacts, OperatorGroupsAssumption, ZenonT(30)
<1> QED
    BY <1>1 DEF Fault

(* A CSV whose phase is set, and one that gets the annotations of its group. *)
LEMMA PhaseType ==
    ASSUME TypeOK, NEW o \in Home, NEW phase \in Phases
    PROVE  [csv EXCEPT ![o].phase = phase] \in [Home -> CSVRecords]
<1>1. csv \in [Home -> CSVRecords] /\ csv[o] \in CSVRecords
    BY TypeFacts, ZenonT(30)
<1>2. [csv[o] EXCEPT !.phase = phase] \in CSVRecords
    BY <1>1, ZenonT(30) DEF CSVRecords
<1> QED
    BY <1>1, <1>2, ZenonT(30)

LEMMA AnnotationType ==
    ASSUME TypeOK, NEW o \in Home, NEW g \in Groups
    PROVE  SetAnnotations(o, g) \in [Home -> CSVRecords]
<1> DEFINE targets == IF groupCache[g].status = {} THEN csv[o].targets ELSE groupCache[g].status
           r == [csv[o] EXCEPT !.group = g, !.targets = targets]
<1>1. csv \in [Home -> CSVRecords] /\ csv[o] \in CSVRecords /\ groupCache[g] \in GroupRecords
    BY TypeFacts, ZenonT(30)
<1>2. targets \in SUBSET (NS \union All)
    BY <1>1, ZenonT(30) DEF CSVRecords, GroupRecords
<1>3. r \in CSVRecords
  <2> HIDE DEF targets
  <2> QED
      BY <1>1, <1>2, ZenonT(30) DEF CSVRecords
<1>4. SetAnnotations(o, g) = [csv EXCEPT ![o] = r]
    BY <1>1, ZenonT(30) DEF SetAnnotations, CSVRecords
<1> QED
    BY <1>1, <1>3, <1>4, ZenonT(30)

LEMMA ClaimsType ==
    ASSUME TypeOK, NEW g \in Groups, NEW apis \in SUBSET API
    PROVE  [group EXCEPT ![g].apis = apis] \in [Groups -> GroupRecords]
<1>1. group \in [Groups -> GroupRecords] /\ group[g] \in GroupRecords
    BY TypeFacts, ZenonT(30)
<1>2. [group[g] EXCEPT !.apis = apis] \in GroupRecords
    BY <1>1, ZenonT(30) DEF GroupRecords
<1> QED
    BY <1>1, <1>2, ZenonT(30)

LEMMA SyncedType ==
    ASSUME TypeOK, NEW o \in Home, NEW phase, NEW G \in [Groups -> GroupRecords],
           NEW C \in [Home -> CSVRecords], Synced(o, phase, G, C)
    PROVE  TypeOK'
<1>1. copies \in [NS -> CopyRecords] /\ enabled \in BOOLEAN /\ faults \in 0 .. MaxFaults
    BY TypeFacts, ZenonT(30)
<1>2. copyQueue' \subseteq Home /\ Leaves(G, C, copies) /\ UNCHANGED <<enabled, faults>>
    BY TypeFacts, ZenonT(30) DEF Synced
<1> QED
    BY <1>1, <1>2, LeavesType, ZenonT(30)

LEMMA SetPhaseType ==
    ASSUME TypeOK, NEW o \in Home, NEW phase \in Phases, SetPhase(o, phase)
    PROVE  TypeOK'
<1> DEFINE C == IF csvCache[o] = csv[o] THEN [csv EXCEPT ![o].phase = phase] ELSE csv
<1>1. C \in [Home -> CSVRecords] /\ group \in [Groups -> GroupRecords]
    BY PhaseType, TypeFacts, ZenonT(30)
<1>2. Synced(o, phase, group, C)
    BY ZenonT(30) DEF SetPhase
<1> HIDE DEF C
<1> QED
    BY <1>1, <1>2, SyncedType, ZenonT(30)

LEMMA WriteClaimsType ==
    ASSUME TypeOK, NEW o \in Home, NEW g \in Groups, NEW apis \in SUBSET API,
           WriteClaims(o, g, apis)
    PROVE  TypeOK'
<1> DEFINE G == IF groupCache[g] = group[g] THEN [group EXCEPT ![g].apis = apis] ELSE group
<1>1. /\ G \in [Groups -> GroupRecords] /\ csv \in [Home -> CSVRecords]
      /\ csvCache[o].phase \in Phases
    BY ClaimsType, TypeFacts, ZenonT(30) DEF CSVRecords
<1>2. \/ Synced(o, csvCache[o].phase, G, csv)
      \/ \E phase \in Phases : SetPhase(o, phase)
    BY <1>1, ZenonT(30) DEF WriteClaims, Phases, Uncopiable
<1> HIDE DEF G
<1> QED
    BY <1>1, <1>2, SyncedType, SetPhaseType, ZenonT(30)

LEMMA SyncCSVType ==
    ASSUME TypeOK, NEW o \in Home, SyncCSV(o)
    PROVE  TypeOK'
<1>1. CASE GroupMissing(o) \/ GroupsMany(o)
    BY <1>1, SetPhaseType, ZenonT(30) DEF GroupMissing, GroupsMany, Phases, Uncopiable
<1>2. ASSUME NEW g \in Groups, Annotate(o, g) PROVE TypeOK'
  <2> DEFINE C == IF csvCache[o] = csv[o] THEN SetAnnotations(o, g) ELSE csv
  <2>1. C \in [Home -> CSVRecords] /\ group \in [Groups -> GroupRecords]
      BY AnnotationType, TypeFacts, ZenonT(30)
  <2>2. Synced(o, csvCache[o].phase, group, C)
      BY <1>2, ZenonT(30) DEF Annotate
  <2> HIDE DEF C
  <2> QED
      BY <2>1, <2>2, SyncedType, ZenonT(30)
<1>3. ASSUME NEW g \in Groups, AddAPIs(o, g) \/ RemoveAPIs(o, g) PROVE TypeOK'
  <2>1. groupCache[g].apis \subseteq API /\ Provides[o] \in API
      BY TypeFacts, ZenonT(30) DEF GroupRecords, API
  <2>2. \E apis \in SUBSET API : WriteClaims(o, g, apis)
      BY <1>3, <2>1, ZenonT(30) DEF AddAPIs, RemoveAPIs
  <2> QED
      BY <2>2, WriteClaimsType, ZenonT(30)
<1>4. ASSUME NEW g \in Groups, APIConflict(o, g) PROVE TypeOK'
    BY <1>4, SetPhaseType, ZenonT(30) DEF APIConflict, Phases, Uncopiable
<1>5. ASSUME NEW g \in Groups, NoAPIConflict(o, g) PROVE TypeOK'
  <2>1. \E phase \in Phases : SetPhase(o, phase)
      BY <1>5, ZenonT(30) DEF NoAPIConflict, Phases
  <2> QED
      BY <2>1, SetPhaseType, ZenonT(30)
<1> QED
    BY <1>1, <1>2, <1>3, <1>4, <1>5, ZenonT(30) DEF SyncCSV

LEMMA SyncOperatorGroupType ==
    ASSUME TypeOK, NEW g \in Groups, SyncOperatorGroup(g)
    PROVE  TypeOK'
<1> DEFINE o == HomeOf[g]
           C == {csv, SetAnnotations(o, g)}
           New == {[group[g] EXCEPT !.status = groupCache[g].spec], group[g],
                   [group[g] EXCEPT !.apis = Pruned(g)]}
<1>1. /\ o \in Home /\ group \in [Groups -> GroupRecords] /\ csv \in [Home -> CSVRecords]
      /\ copies \in [NS -> CopyRecords] /\ group[g] \in GroupRecords
      /\ groupCache[g] \in GroupRecords
      /\ copyQueue \subseteq Home /\ enabled \in BOOLEAN /\ faults \in 0 .. MaxFaults
    BY TypeFacts, OperatorGroupsAssumption, ZenonT(30)
<1>2. C \subseteq [Home -> CSVRecords]
    BY <1>1, AnnotationType, ZenonT(30)
<1>3. New \subseteq GroupRecords
  <2>1. Pruned(g) \subseteq API /\ groupCache[g].spec \in SUBSET (NS \union All)
      BY <1>1, ZenonT(30) DEF Pruned, GroupRecords
  <2> QED
      BY <1>1, <2>1, ZenonT(30) DEF GroupRecords
<1>4. ASSUME NEW new \in GroupRecords PROVE WithGroup(g, new) \in [Groups -> GroupRecords]
  <2>1. ASSUME NEW h \in Groups PROVE Remarked(h) \in GroupRecords /\ group[h] \in GroupRecords
    <3>1. group[h] \in GroupRecords
        BY <1>1, ZenonT(30)
    <3>2. [group[h] EXCEPT !.multiple = ~@] \in GroupRecords
        BY <3>1, ZenonT(30) DEF GroupRecords
    <3> QED
        BY <3>1, <3>2, ZenonT(30) DEF Remarked
  <2> QED
      BY <2>1, ZenonT(30) DEF WithGroup
<1>5. \E new \in New, c \in C : Leaves(WithGroup(g, new), c, copies)
    BY ZenonT(30) DEF SyncOperatorGroup
<1>6. UNCHANGED <<copyQueue, enabled, faults>>
    BY ZenonT(30) DEF SyncOperatorGroup
<1> HIDE DEF o, C, New
<1> QED
    BY <1>1, <1>2, <1>3, <1>4, <1>5, <1>6, LeavesType, ZenonT(30)

LEMMA DeletedInType ==
    ASSUME TypeOK, NEW N
    PROVE  DeletedIn(N) \in [Home -> CSVRecords]
    BY TypeFacts, NewTypes, ZenonT(30) DEF DeletedIn

LEMMA CopiedType ==
    ASSUME TypeOK, NEW o \in Home, NEW targets, NEW failed, NEW n \in NS
    PROVE  Copied(o, targets, failed, n) \in CopyRecords
<1>1. copies[n] \in CopyRecords /\ csvCache[o].phase \in Phases
    BY TypeFacts, ZenonT(30) DEF CSVRecords
<1>2. [from |-> o, phase |-> csvCache[o].phase] \in CopyRecords
    BY <1>1, ZenonT(30) DEF CopyRecords
<1> QED
    BY <1>1, <1>2, ZenonT(30) DEF Copied

LEMMA SyncCopyCSVType ==
    ASSUME TypeOK, NEW o \in Home, SyncCopyCSV(o)
    PROVE  TypeOK'
<1>1. PICK failed : CopyCSV(o, failed)
    BY ZenonT(30) DEF SyncCopyCSV
<1>2. faults' \in 0 .. MaxFaults
    BY TypeFacts, FaultType, ZenonT(30) DEF SyncCopyCSV
<1>3. /\ group \in [Groups -> GroupRecords] /\ csv \in [Home -> CSVRecords]
      /\ copies \in [NS -> CopyRecords]
    BY TypeFacts, ZenonT(30)
<1>4. copyQueue' \subseteq Home /\ enabled' \in BOOLEAN
    BY <1>1, TypeFacts, ZenonT(30) DEF CopyCSV
<1>5. \A targets : [n \in NS |-> Copied(o, targets, failed, n)] \in [NS -> CopyRecords]
    BY CopiedType, ZenonT(30)
<1>6. \A dropped : [n \in NS |-> IF n \in dropped THEN NoCopy
                                 ELSE Copied(o, Protected, failed, n)] \in [NS -> CopyRecords]
    BY CopiedType, NewTypes, ZenonT(30)
<1>7. \/ Leaves(group, csv, copies)
      \/ \E targets : Leaves(group, csv, [n \in NS |-> Copied(o, targets, failed, n)])
      \/ \E dropped : Leaves(group, DeletedIn(dropped),
                             [n \in NS |-> IF n \in dropped THEN NoCopy
                                           ELSE Copied(o, Protected, failed, n)])
    BY <1>1, ZenonT(30) DEF CopyCSV
<1> QED
    BY <1>2, <1>3, <1>4, <1>5, <1>6, <1>7, LeavesType, DeletedInType, ZenonT(30)

LEMMA SyncGcCSVType ==
    ASSUME TypeOK, NEW n \in NS, SyncGcCSV(n)
    PROVE  TypeOK'
<1>1. /\ group \in [Groups -> GroupRecords]
      /\ [copies EXCEPT ![n] = NoCopy] \in [NS -> CopyRecords]
      /\ copyQueue \subseteq Home /\ enabled \in BOOLEAN /\ faults \in 0 .. MaxFaults
    BY TypeFacts, NewTypes, ZenonT(30)
<1>2. Leaves(group, DeletedIn({n}), [copies EXCEPT ![n] = NoCopy])
      /\ UNCHANGED <<copyQueue, enabled, faults>>
    BY ZenonT(30) DEF SyncGcCSV
<1> QED
    BY <1>1, <1>2, LeavesType, DeletedInType, ZenonT(30)

LEMMA UsersType ==
    ASSUME TypeOK, Users \/ Toggle
    PROVE  TypeOK'
<1>1. /\ group \in [Groups -> GroupRecords] /\ csv \in [Home -> CSVRecords]
      /\ copies \in [NS -> CopyRecords] /\ copyQueue \subseteq Home /\ enabled \in BOOLEAN
    BY TypeFacts, ZenonT(30)
<1>2. faults' \in 0 .. MaxFaults
    BY FaultType, ZenonT(30) DEF Users, Toggle, Retarget, CreateGroup, DeleteGroup, DeleteCSV
<1>3. CASE Toggle
    BY <1>1, <1>2, <1>3, LeavesType, ZenonT(30) DEF Toggle
<1>4. CASE Users
  <2>1. UNCHANGED <<copyQueue, enabled>>
      BY <1>4, ZenonT(30) DEF Users
  <2>2. ASSUME NEW g \in Groups, NEW r \in GroupRecords, Leaves([group EXCEPT ![g] = r], csv, copies)
        PROVE  TypeOK'
    <3>1. [group EXCEPT ![g] = r] \in [Groups -> GroupRecords]
        BY <1>1, ZenonT(30)
    <3> QED
        BY <1>1, <1>2, <2>1, <2>2, <3>1, LeavesType, ZenonT(30)
  <2>3. ASSUME NEW g \in Groups, Retarget(g) PROVE TypeOK'
    <3>1. PICK t \in Targets[g] : Leaves([group EXCEPT ![g].spec = t], csv, copies)
        BY <2>3, ZenonT(30) DEF Retarget
    <3>2. t \in SUBSET (NS \union All)
        BY OperatorGroupsAssumption, ZenonT(30) DEF NS, All
    <3>3. group[g] \in GroupRecords
        BY <1>1, ZenonT(30)
    <3>4. [group[g] EXCEPT !.spec = t] \in GroupRecords
        BY <3>2, <3>3, ZenonT(30) DEF GroupRecords
    <3>5. [group EXCEPT ![g].spec = t] = [group EXCEPT ![g] = [group[g] EXCEPT !.spec = t]]
        BY <1>1, ZenonT(30)
    <3> QED
        BY <2>2, <3>1, <3>4, <3>5, ZenonT(30)
  <2>4. ASSUME NEW g \in Groups, CreateGroup(g) \/ DeleteGroup(g) PROVE TypeOK'
      BY <2>2, <2>4, NewTypes, ZenonT(30) DEF CreateGroup, DeleteGroup
  <2>5. ASSUME NEW o \in Home, DeleteCSV(o) PROVE TypeOK'
    <3>1. [csv EXCEPT ![o] = NoCSV] \in [Home -> CSVRecords]
        BY <1>1, NewTypes, ZenonT(30)
    <3> QED
        BY <1>1, <1>2, <2>1, <2>5, <3>1, LeavesType, ZenonT(30) DEF DeleteCSV
  <2> QED
      BY <1>4, <2>3, <2>4, <2>5, ZenonT(30) DEF Users
<1> QED
    BY <1>3, <1>4, ZenonT(30)

LEMMA TypeInit == Init => TypeOK
<1> SUFFICES ASSUME Init PROVE TypeOK
    BY ZenonT(30)
<1>1. group \in [Groups -> GroupRecords] /\ groupCache = group
  <2>1. /\ group \in [Groups -> UNION {Created(g) : g \in Groups} \union {Gone}]
        /\ \A g \in Groups : group[g] \in Created(g) \union {Gone}
        /\ groupCache = group
      BY ZenonT(30) DEF Init
  <2>2. \A g \in Groups : group[g] \in GroupRecords
      BY <2>1, NewTypes, ZenonT(30)
  <2> QED
      BY <2>1, <2>2, ZenonT(30)
<1>2. csv \in [Home -> CSVRecords] /\ csvCache = csv
    BY NewTypes, ZenonT(30) DEF Init
<1>3. copies \in [NS -> CopyRecords] /\ copyCache = copies
    BY NewTypes, ZenonT(30) DEF Init
<1>4. lags \in 0 .. MaxLags /\ faults \in 0 .. MaxFaults
  <2>1. MaxLags \in Nat /\ MaxFaults \in Nat
      BY OperatorGroupsAssumption, ZenonT(30)
  <2>2. lags = 0 /\ faults = 0
      BY ZenonT(30) DEF Init
  <2> QED
      BY <2>1, <2>2
<1>5. copyQueue = {} /\ enabled = TRUE
    BY ZenonT(30) DEF Init
<1> QED
    BY <1>1, <1>2, <1>3, <1>4, <1>5, ZenonT(30) DEF TypeOK, GroupRecords, CSVRecords, CopyRecords

LEMMA TypeStep == TypeOK /\ [Next]_vars => TypeOK'
<1> SUFFICES ASSUME TypeOK, [Next]_vars PROVE TypeOK'
    BY ZenonT(30)
<1>1. CASE Next
    BY <1>1, SyncCSVType, SyncCopyCSVType, SyncOperatorGroupType, SyncGcCSVType, UsersType, ZenonT(30)
       DEF Next, Controller
<1>2. CASE UNCHANGED vars
    BY <1>2, ZenonT(30) DEF vars, TypeOK
<1> QED
    BY <1>1, <1>2, ZenonT(30)

(* Groups, CSVs, copies and their caches keep their types, whatever the      *)
(* controllers write and the users edit.                                     *)
THEOREM TypeCorrect == Spec => []TypeOK
    BY TypeInit, TypeStep, PTL DEF Spec
-----------------------------------------------------------------------------
(* Caches that keep up, and users that write neither groups nor claims. *)
Calm == lags = 0 /\ faults = 0 /\ \A g \in Static : ~group[g].there

Fresh == lags = 0 => groupCache = group /\ csvCache = csv

There(g) == group[g].there

(* What makes SoleProviders inductive.  A home has one group.  Its status is *)
(* set once, before its CSV is annotated with the namespaces, and so before  *)
(* it claims anything; a CSV that succeeded has its claim; and overlapping   *)
(* groups claim different APIs.                                              *)
OneGroup == \A g, h \in Groups : There(g) /\ There(h) /\ HomeOf[g] = HomeOf[h] => g = h

StatusOnce ==
    \A g \in Groups : There(g) =>
        /\ group[g].status \in {{}, group[g].spec}
        /\ group[g].apis # {} => group[g].status = group[g].spec
        /\ csv[HomeOf[g]].targets # {} => group[g].status = group[g].spec

ClaimedFirst ==
    \A g \in Groups : There(g) /\ Succeeded(HomeOf[g]) => Provides[HomeOf[g]] \in group[g].apis

ClaimsApart ==
    \A g, h \in Groups :
        g # h /\ There(g) /\ There(h) /\ group[g].apis \intersect group[h].apis # {}
            => ~Intersects(Serves(g), Serves(h))

ClaimsInv == Calm => OneGroup /\ StatusOnce /\ ClaimedFirst /\ ClaimsApart

(* The steps of the controllers, while the caches keep up: at most one group *)
(* gets a status, a claim or a shorter list of claims.                       *)
Same(g) ==
    /\ group'[g].there = group[g].there /\ group'[g].spec = group[g].spec
    /\ group'[g].status = group[g].status /\ group'[g].apis = group[g].apis

Selects(g) ==
    /\ There(g) /\ group[g].status # group[g].spec
    /\ group'[g].there = group[g].there /\ group'[g].spec = group[g].spec
    /\ group'[g].status = group[g].spec /\ group'[g].apis = group[g].apis

Claims(g) ==
    /\ There(g) /\ csv[HomeOf[g]].targets # {} /\ ~Conflicts(HomeOf[g], g)
    /\ group'[g].there = group[g].there /\ group'[g].spec = group[g].spec
    /\ group'[g].status = group[g].status
    /\ group'[g].apis = group[g].apis \union {Provides[HomeOf[g]]}

Withdraws(g) ==
    /\ There(g) /\ Claimed(HomeOf[g], g) /\ Conflicts(HomeOf[g], g)
    /\ group'[g].there = group[g].there

Prunes(g) ==
    /\ group'[g].there = group[g].there /\ group'[g].spec = group[g].spec
    /\ group'[g].status = group[g].status /\ group'[g].apis \subseteq group[g].apis
    /\ csv[HomeOf[g]].there /\ Provides[HomeOf[g]] \in group[g].apis
          => Provides[HomeOf[g]] \in group'[g].apis

GroupShape ==
    \/ \A h \in Groups : Same(h)
    \/ \E g \in Groups : /\ \A h \in Groups \ {g} : Same(h)
                         /\ Selects(g) \/ Claims(g) \/ Withdraws(g) \/ Prunes(g)

CSVShape(o) ==
    /\ Succeeded(o)' => /\ csv[o].there
                        /\ csv[o].phase = "Succeeded"
                           \/ \A g \in Groups : There(g) /\ HomeOf[g] = o => Claimed(o, g)
    /\ csv'[o].targets \in {{}, csv[o].targets}
       \/ \E g \in Groups : There(g) /\ HomeOf[g] = o /\ csv'[o].targets = group[g].status

CalmShape == GroupShape /\ \A o \in Home : CSVShape(o)

LEMMA LeavesFresh ==
    ASSUME TypeOK, NEW G, NEW C, NEW D, Leaves(G, C, D)
    PROVE  Fresh' /\ (lags' = 0 => lags = 0) /\ group' = G /\ csv' = C
<1>1. lags \in 0 .. MaxLags
    BY TypeFacts, ZenonT(30)
<1>2. lags' = 0 => lags = 0
    BY <1>1 DEF Leaves
<1>3. lags' = 0 => groupCache' = G /\ csvCache' = C
    BY <1>1 DEF Leaves
<1> QED
    BY <1>2, <1>3, ZenonT(30) DEF Leaves, Fresh

(* Every step leaves its objects in this way. *)
LEMMA StepLeaves ==
    ASSUME Next
    PROVE  \E G, C, D : Leaves(G, C, D)
<1>1. ASSUME NEW o, NEW phase, NEW G, NEW C, Synced(o, phase, G, C)
      PROVE  Leaves(G, C, copies)
    BY <1>1, ZenonT(30) DEF Synced
<1>2. ASSUME NEW o \in Home, SyncCSV(o) PROVE \E G, C, D : Leaves(G, C, D)
  <2>1. \E phase, G, C : Synced(o, phase, G, C)
      BY <1>2, ZenonT(30) DEF SyncCSV, GroupMissing, GroupsMany, Annotate, AddAPIs, RemoveAPIs, APIConflict,
                  NoAPIConflict, WriteClaims, SetPhase
  <2> QED
      BY <1>1, <2>1, ZenonT(30)
<1>3. ASSUME NEW o \in Home, SyncCopyCSV(o) PROVE \E G, C, D : Leaves(G, C, D)
  <2>1. PICK failed : CopyCSV(o, failed)
      BY <1>3, ZenonT(30) DEF SyncCopyCSV
  <2> QED
      BY <2>1, ZenonT(30) DEF CopyCSV
<1>4. ASSUME NEW g \in Groups, SyncOperatorGroup(g) PROVE \E G, C, D : Leaves(G, C, D)
    BY <1>4, ZenonT(30) DEF SyncOperatorGroup
<1>5. ASSUME NEW n \in NS, SyncGcCSV(n) PROVE \E G, C, D : Leaves(G, C, D)
    BY <1>5, ZenonT(30) DEF SyncGcCSV
<1>6. ASSUME Users \/ Toggle PROVE \E G, C, D : Leaves(G, C, D)
    BY <1>6, ZenonT(30) DEF Users, Toggle, Retarget, CreateGroup, DeleteGroup, DeleteCSV
<1> QED
    BY <1>2, <1>3, <1>4, <1>5, <1>6, ZenonT(30) DEF Next, Controller

LEMMA FreshStep == TypeOK /\ Fresh /\ [Next]_vars => Fresh' /\ (lags' = 0 => lags = 0)
<1> SUFFICES ASSUME TypeOK, Fresh, [Next]_vars PROVE Fresh' /\ (lags' = 0 => lags = 0)
    BY ZenonT(30)
<1>1. CASE UNCHANGED vars
    BY <1>1, ZenonT(30) DEF vars, Fresh
<1>2. CASE Next
    BY <1>2, StepLeaves, LeavesFresh, ZenonT(30)
<1> QED
    BY <1>1, <1>2, ZenonT(30)

(* From here on a step in which the caches keep up. *)
LEMMA PhaseShape ==
    ASSUME TypeOK, Fresh, lags = 0, NEW o \in Home, NEW phase, SetPhase(o, phase), csv[o].there,
           phase = "Succeeded" => \A g \in Groups : There(g) /\ HomeOf[g] = o => Claimed(o, g)
    PROVE  CalmShape
<1>1. group' = group /\ csv' = [csv EXCEPT ![o].phase = phase]
    BY ZenonT(30) DEF SetPhase, Synced, Leaves, Fresh
<1>2. GroupShape
    BY <1>1, ZenonT(30) DEF GroupShape, Same
<1>3. ASSUME NEW p \in Home PROVE CSVShape(p)
  <2>1. csv \in [Home -> CSVRecords] /\ csv[p] \in CSVRecords
      BY TypeFacts, ZenonT(30)
  <2>2. CASE p = o
    <3>1. csv'[p] = [csv[p] EXCEPT !.phase = phase]
        BY <1>1, <2>1, <2>2, ZenonT(30)
    <3>2. csv'[p].phase = phase /\ csv'[p].targets = csv[p].targets
        BY <2>1, <3>1, ZenonT(30) DEF CSVRecords
    <3> QED
        BY <2>2, <3>2, ZenonT(30) DEF CSVShape, Succeeded
  <2>3. CASE p # o
    <3>1. csv'[p] = csv[p]
        BY <1>1, <2>1, <2>3, ZenonT(30)
    <3> QED
        BY <3>1, ZenonT(30) DEF CSVShape, Succeeded
  <2> QED
      BY <2>2, <2>3, ZenonT(30)
<1> QED
    BY <1>2, <1>3, ZenonT(30) DEF CalmShape

LEMMA CSVsKept ==
    ASSUME UNCHANGED csv
    PROVE  \A o \in Home : CSVShape(o)
    BY ZenonT(30) DEF CSVShape, Succeeded

LEMMA AnnotationShape ==
    ASSUME TypeOK, Fresh, lags = 0, NEW o \in Home, NEW g \in Groups, There(g), HomeOf[g] = o,
           csv' = SetAnnotations(o, g)
    PROVE  \A p \in Home : CSVShape(p)
<1> DEFINE targets == IF group[g].status = {} THEN csv[o].targets ELSE group[g].status
<1> SUFFICES ASSUME NEW p \in Home PROVE CSVShape(p)
    BY ZenonT(30)
<1>1. csv \in [Home -> CSVRecords] /\ csv[p] \in CSVRecords /\ csv[o] \in CSVRecords
    BY TypeFacts, ZenonT(30)
<1>2. csv' = [csv EXCEPT ![o] = [csv[o] EXCEPT !.group = g, !.targets = targets]]
    BY <1>1, ZenonT(30) DEF SetAnnotations, Fresh, CSVRecords
<1>3. CASE p = o
  <2>1. csv'[p] = [csv[p] EXCEPT !.group = g, !.targets = targets]
      BY <1>1, <1>2, <1>3, ZenonT(30)
  <2> HIDE DEF targets
  <2>2. /\ csv'[p].there = csv[p].there /\ csv'[p].phase = csv[p].phase
        /\ csv'[p].targets = targets
      BY <1>1, <2>1, ZenonT(30) DEF CSVRecords
  <2>3. targets = csv[p].targets \/ targets = group[g].status
      BY <1>3, ZenonT(30) DEF targets
  <2> QED
      BY <1>3, <2>2, <2>3, ZenonT(30) DEF CSVShape, Succeeded
<1>4. CASE p # o
  <2>1. csv'[p] = csv[p]
      BY <1>1, <1>2, <1>4, ZenonT(30)
  <2> QED
      BY <2>1, ZenonT(30) DEF CSVShape, Succeeded
<1> QED
    BY <1>3, <1>4, ZenonT(30)

LEMMA WriteClaimsShape ==
    ASSUME TypeOK, Fresh, lags = 0, NEW o \in Home, NEW g \in Groups \ Static, NEW apis,
           WriteClaims(o, g, apis)
    PROVE  /\ \A h \in Groups \ {g} : Same(h)
           /\ group'[g].there = group[g].there /\ group'[g].spec = group[g].spec
           /\ group'[g].status = group[g].status /\ group'[g].apis = apis
           /\ \A p \in Home : CSVShape(p)
<1>1. group' = [group EXCEPT ![g].apis = apis] /\ UNCHANGED csv
    BY ZenonT(30) DEF WriteClaims, Synced, Leaves, Fresh
<1>2. group \in [Groups -> GroupRecords] /\ group[g] \in GroupRecords
    BY TypeFacts, ZenonT(30)
<1>3. \A h \in Groups \ {g} : group'[h] = group[h]
    BY <1>1, <1>2, ZenonT(30)
<1>4. group'[g] = [group[g] EXCEPT !.apis = apis]
    BY <1>1, <1>2, ZenonT(30)
<1>5. /\ group'[g].there = group[g].there /\ group'[g].spec = group[g].spec
      /\ group'[g].status = group[g].status /\ group'[g].apis = apis
    BY <1>2, <1>4, ZenonT(30) DEF GroupRecords
<1>6. \A h \in Groups \ {g} : Same(h)
    BY <1>3, ZenonT(30) DEF Same
<1> QED
    BY <1>1, <1>5, <1>6, CSVsKept, ZenonT(30)

LEMMA SyncCSVShape ==
    ASSUME TypeOK, Fresh, Calm, NEW o \in Home, SyncCSV(o)
    PROVE  CalmShape
<1>1. lags = 0 /\ groupCache = group /\ csvCache = csv /\ csv[o].there
    BY ZenonT(30) DEF Calm, Fresh, SyncCSV
<1>2. CASE GroupMissing(o) \/ GroupsMany(o)
    BY <1>1, <1>2, PhaseShape, ZenonT(30) DEF GroupMissing, GroupsMany
<1>3. ASSUME NEW g \in Groups, Mine(o) = {g}
      PROVE  /\ There(g) /\ HomeOf[g] = o /\ g \notin Static
             /\ \A h \in Groups : There(h) /\ HomeOf[h] = o => h = g
    BY <1>1, <1>3, ZenonT(30) DEF Mine, Known, There, Calm
<1>4. ASSUME NEW g \in Groups, Annotate(o, g) PROVE CalmShape
  <2>1. There(g) /\ HomeOf[g] = o
      BY <1>3, <1>4, ZenonT(30) DEF Annotate
  <2>2. UNCHANGED group /\ csv' = SetAnnotations(o, g)
      BY <1>1, <1>4, ZenonT(30) DEF Annotate, Synced, Leaves
  <2>3. GroupShape
      BY <2>2, ZenonT(30) DEF GroupShape, Same
  <2> QED
      BY <1>1, <2>1, <2>2, <2>3, AnnotationShape, ZenonT(30) DEF CalmShape
<1>5. ASSUME NEW g \in Groups, AddAPIs(o, g) PROVE CalmShape
  <2>1. There(g) /\ HomeOf[g] = o /\ g \notin Static
      BY <1>3, <1>5, ZenonT(30) DEF AddAPIs, Member
  <2>2. csv[o].targets # {} /\ ~Conflicts(o, g)
      BY <1>1, <1>5, ZenonT(30) DEF AddAPIs, Member, Differs
  <2>3. WriteClaims(o, g, group[g].apis \union {Provides[o]})
      BY <1>1, <1>5, ZenonT(30) DEF AddAPIs
  <2>4. /\ \A h \in Groups \ {g} : Same(h)
        /\ group'[g].there = group[g].there /\ group'[g].spec = group[g].spec
        /\ group'[g].status = group[g].status
        /\ group'[g].apis = group[g].apis \union {Provides[o]}
        /\ \A p \in Home : CSVShape(p)
      BY <1>1, <2>1, <2>3, WriteClaimsShape
  <2>5. Claims(g)
      BY <2>1, <2>2, <2>4, ZenonT(30) DEF Claims
  <2> QED
      BY <2>4, <2>5, ZenonT(30) DEF CalmShape, GroupShape
<1>6. ASSUME NEW g \in Groups, RemoveAPIs(o, g) PROVE CalmShape
  <2>1. There(g) /\ HomeOf[g] = o /\ g \notin Static
      BY <1>3, <1>6, ZenonT(30) DEF RemoveAPIs, Member
  <2>2. /\ \A h \in Groups \ {g} : Same(h)
        /\ group'[g].there = group[g].there
        /\ \A p \in Home : CSVShape(p)
      BY <1>1, <1>6, <2>1, WriteClaimsShape, ZenonT(30) DEF RemoveAPIs
  <2>3. Withdraws(g)
      BY <1>6, <2>1, <2>2, ZenonT(30) DEF RemoveAPIs, Withdraws
  <2> QED
      BY <2>2, <2>3, ZenonT(30) DEF CalmShape, GroupShape
<1>7. ASSUME NEW g \in Groups, APIConflict(o, g) PROVE CalmShape
    BY <1>1, <1>7, PhaseShape, ZenonT(30) DEF APIConflict
<1>8. ASSUME NEW g \in Groups, NoAPIConflict(o, g) PROVE CalmShape
  <2>1. \A h \in Groups : There(h) /\ HomeOf[h] = o => Claimed(o, h)
      BY <1>3, <1>8, ZenonT(30) DEF NoAPIConflict, Member
  <2>2. \E phase : SetPhase(o, phase)
      BY <1>8, ZenonT(30) DEF NoAPIConflict
  <2> QED
      BY <1>1, <2>1, <2>2, PhaseShape, ZenonT(30)
<1> QED
    BY <1>2, <1>4, <1>5, <1>6, <1>7, <1>8, ZenonT(30) DEF SyncCSV

LEMMA WithGroupShape ==
    ASSUME TypeOK, NEW g \in Groups, NEW new, group' = WithGroup(g, new)
    PROVE  /\ \A h \in Groups \ {g} : Same(h)
           /\ group'[g] = new \/ Same(g)
<1>1. ASSUME NEW h \in Groups
      PROVE  group'[h] = group[h] \/ group'[h] = [group[h] EXCEPT !.multiple = ~@]
             \/ (h = g /\ group'[h] = new)
    BY ZenonT(30) DEF WithGroup, Remarked
<1>2. ASSUME NEW h \in Groups,
             group'[h] = group[h] \/ group'[h] = [group[h] EXCEPT !.multiple = ~@]
      PROVE  Same(h)
  <2>1. group[h] \in GroupRecords
      BY TypeFacts, ZenonT(30)
  <2> QED
      BY <1>2, <2>1, ZenonT(30) DEF Same, GroupRecords
<1> QED
    BY <1>1, <1>2, ZenonT(30)

LEMMA SyncOperatorGroupShape ==
    ASSUME TypeOK, Fresh, lags = 0, NEW g \in Groups, SyncOperatorGroup(g)
    PROVE  CalmShape
<1> DEFINE o == HomeOf[g]
<1>1. groupCache = group /\ csvCache = csv /\ There(g) /\ o \in Home /\ group[g] \in GroupRecords
    BY TypeFacts, OperatorGroupsAssumption, ZenonT(30) DEF Fresh, SyncOperatorGroup, Known, There
<1>2. \/ /\ group[g].status # group[g].spec
         /\ group' = WithGroup(g, [group[g] EXCEPT !.status = group[g].spec])
         /\ UNCHANGED csv
      \/ /\ group' = WithGroup(g, [group[g] EXCEPT !.apis = Pruned(g)])
         /\ csv' = SetAnnotations(o, g) \/ UNCHANGED csv
    BY <1>1, ZenonT(30) DEF SyncOperatorGroup, Leaves
<1>3. \A p \in Home : CSVShape(p)
    BY <1>1, <1>2, AnnotationShape, CSVsKept, ZenonT(30)
<1>4. CASE /\ group[g].status # group[g].spec
           /\ group' = WithGroup(g, [group[g] EXCEPT !.status = group[g].spec])
  <2> DEFINE new == [group[g] EXCEPT !.status = group[g].spec]
  <2>1. /\ new.there = group[g].there /\ new.spec = group[g].spec
        /\ new.status = group[g].spec /\ new.apis = group[g].apis
      BY <1>1, ZenonT(30) DEF GroupRecords
  <2> HIDE DEF new
  <2>2. (\A h \in Groups \ {g} : Same(h)) /\ (group'[g] = new \/ Same(g))
      BY <1>4, WithGroupShape, ZenonT(30) DEF new
  <2>3. Selects(g) \/ Same(g)
      BY <1>1, <1>4, <2>1, <2>2, ZenonT(30) DEF Selects
  <2> QED
      BY <1>3, <2>2, <2>3, ZenonT(30) DEF CalmShape, GroupShape
<1>5. CASE group' = WithGroup(g, [group[g] EXCEPT !.apis = Pruned(g)])
  <2> DEFINE new == [group[g] EXCEPT !.apis = Pruned(g)]
  <2>1. /\ new.there = group[g].there /\ new.spec = group[g].spec
        /\ new.status = group[g].status /\ new.apis = Pruned(g)
      BY <1>1, ZenonT(30) DEF GroupRecords
  <2>2. /\ Pruned(g) \subseteq group[g].apis
        /\ csv[o].there /\ Provides[o] \in group[g].apis => Provides[o] \in Pruned(g)
      BY <1>1, ZenonT(30) DEF Pruned
  <2> HIDE DEF new
  <2>3. (\A h \in Groups \ {g} : Same(h)) /\ (group'[g] = new \/ Same(g))
      BY <1>5, WithGroupShape, ZenonT(30) DEF new
  <2>4. Prunes(g) \/ Same(g)
      BY <2>1, <2>2, <2>3, ZenonT(30) DEF Prunes
  <2> QED
      BY <1>3, <2>3, <2>4, ZenonT(30) DEF CalmShape, GroupShape
<1> QED
    BY <1>2, <1>4, <1>5, ZenonT(30)

LEMMA CopiesShape ==
    ASSUME TypeOK, (\E o \in Home : SyncCopyCSV(o)) \/ (\E n \in NS : SyncGcCSV(n))
    PROVE  CalmShape
<1>1. UNCHANGED group /\ (UNCHANGED csv \/ \E N : csv' = DeletedIn(N))
  <2>1. ASSUME NEW o \in Home, NEW failed, CopyCSV(o, failed)
        PROVE  UNCHANGED group /\ (UNCHANGED csv \/ \E N : csv' = DeletedIn(N))
      BY <2>1, ZenonT(30) DEF CopyCSV, Leaves
  <2>2. ASSUME NEW n \in NS, SyncGcCSV(n) PROVE UNCHANGED group /\ \E N : csv' = DeletedIn(N)
      BY <2>2, ZenonT(30) DEF SyncGcCSV, Leaves
  <2> QED
      BY <2>1, <2>2, ZenonT(30) DEF SyncCopyCSV
<1>2. GroupShape
    BY <1>1, ZenonT(30) DEF GroupShape, Same
<1>3. ASSUME NEW p \in Home PROVE CSVShape(p)
  <2>1. csv'[p] = csv[p] \/ csv'[p] = NoCSV
      BY <1>1, ZenonT(30) DEF DeletedIn
  <2> QED
      BY <2>1, SMTT(30) DEF CSVShape, Succeeded, NoCSV
<1> QED
    BY <1>2, <1>3, ZenonT(30) DEF CalmShape

LEMMA SyncCSVThere ==
    ASSUME TypeOK, NEW o \in Home, SyncCSV(o), NEW g \in Groups
    PROVE  group'[g].there = group[g].there
<1>1. \/ UNCHANGED group
      \/ \E h \in Groups : \E apis : group' = [group EXCEPT ![h].apis = apis]
  <2>1. ASSUME NEW phase, SetPhase(o, phase) PROVE UNCHANGED group
      BY <2>1, ZenonT(30) DEF SetPhase, Synced, Leaves
  <2>2. ASSUME NEW h \in Groups, NEW apis, WriteClaims(o, h, apis)
        PROVE  UNCHANGED group \/ group' = [group EXCEPT ![h].apis = apis]
      BY <2>1, <2>2, ZenonT(30) DEF WriteClaims, Synced, Leaves
  <2>3. ASSUME NEW h \in Groups, Annotate(o, h) PROVE UNCHANGED group
      BY <2>3, ZenonT(30) DEF Annotate, Synced, Leaves
  <2> QED
      BY <2>1, <2>2, <2>3, ZenonT(30) DEF SyncCSV, GroupMissing, GroupsMany, AddAPIs, RemoveAPIs, APIConflict,
                              NoAPIConflict
<1>2. group \in [Groups -> GroupRecords] /\ group[g] \in GroupRecords
    BY TypeFacts, ZenonT(30)
<1>3. group'[g] = group[g] \/ \E apis : group'[g] = [group[g] EXCEPT !.apis = apis]
    BY <1>1, <1>2, ZenonT(30)
<1> QED
    BY <1>2, <1>3, ZenonT(30) DEF GroupRecords

(* A step after which all is still calm is one of these, and was calm before.*)
LEMMA StepShape ==
    ASSUME TypeOK, Fresh, Next, Calm'
    PROVE  Calm /\ CalmShape
<1>1. lags = 0
    BY FreshStep, ZenonT(30) DEF Calm
<1>2. ~\E f : Fault(f)
  <2>1. faults \in 0 .. MaxFaults
      BY TypeFacts, ZenonT(30)
  <2> QED
      BY <2>1 DEF Fault, Calm
<1>3. Controller
    BY <1>2, ZenonT(30) DEF Next, Users, Toggle, Retarget, CreateGroup, DeleteGroup, DeleteCSV
<1>4. UNCHANGED faults
  <2>1. ASSUME NEW o \in Home, SyncCSV(o) PROVE UNCHANGED faults
      BY <2>1, ZenonT(30) DEF SyncCSV, GroupMissing, GroupsMany, Annotate, AddAPIs, RemoveAPIs, APIConflict,
                  NoAPIConflict, WriteClaims, SetPhase, Synced
  <2>2. ASSUME NEW o \in Home, SyncCopyCSV(o) PROVE UNCHANGED faults
      BY <1>2, <2>2, ZenonT(30) DEF SyncCopyCSV
  <2> QED
      BY <1>3, <2>1, <2>2, ZenonT(30) DEF Controller, SyncOperatorGroup, SyncGcCSV
<1>5. ASSUME NEW o \in Home, SyncCSV(o), NEW g \in Groups PROVE group'[g].there = group[g].there
    BY <1>5, SyncCSVThere, ZenonT(30)
<1>6. ASSUME ~\E o \in Home : SyncCSV(o) PROVE CalmShape
    BY <1>1, <1>3, <1>6, SyncOperatorGroupShape, CopiesShape, ZenonT(30) DEF Controller
<1>7. CalmShape => \A g \in Groups : group'[g].there = group[g].there
  <2>1. \A g \in Groups : Same(g) \/ Selects(g) \/ Claims(g) \/ Withdraws(g) \/ Prunes(g)
                             => group'[g].there = group[g].there
      BY ZenonT(30) DEF Same, Selects, Claims, Withdraws, Prunes
  <2> QED
      BY <2>1, ZenonT(30) DEF CalmShape, GroupShape
<1>8. \A g \in Groups : group'[g].there = group[g].there
    BY <1>5, <1>6, <1>7, ZenonT(30)
<1>9. Calm
    BY <1>1, <1>4, <1>8, OperatorGroupsAssumption, ZenonT(30) DEF Calm
<1> QED
    BY <1>6, <1>9, SyncCSVShape, ZenonT(30)

LEMMA Symmetric ==
    ASSUME NEW S, NEW T
    PROVE  Intersects(S, T) <=> Intersects(T, S)
    BY ZenonT(30) DEF Intersects

(* While all is calm the groups in the cache are the groups. *)
LEMMA ConflictFacts ==
    ASSUME Fresh, Calm, NEW g \in Groups, NEW o
    PROVE  /\ Claimed(o, g) <=> Provides[o] \in group[g].apis
           /\ Conflicts(o, g) <=> \E h \in Groups \ {g} :
                 There(h) /\ Intersects(Serves(g), Serves(h)) /\ Provides[o] \in group[h].apis
    BY ZenonT(30) DEF Fresh, Calm, Claimed, Conflicts, Known, There, Surface, Serves

(* A group that does not change but for its claims serves the same. *)
LEMMA ServesKept ==
    ASSUME NEW g, group'[g].status = group[g].status
    PROVE  Serves(g)' = Serves(g)
    BY ZenonT(30) DEF Serves

LEMMA OneGroupStep ==
    ASSUME OneGroup, \A g \in Groups : group'[g].there = group[g].there
    PROVE  OneGroup'
    BY ZenonT(30) DEF OneGroup, There

(* A group that changed only in that it was pruned, or not at all. *)
LEMMA KeptShape ==
    ASSUME NEW g \in Groups, Same(g) \/ Prunes(g)
    PROVE  /\ group'[g].there = group[g].there /\ group'[g].spec = group[g].spec
           /\ group'[g].status = group[g].status /\ group'[g].apis \subseteq group[g].apis
           /\ csv[HomeOf[g]].there /\ Provides[HomeOf[g]] \in group[g].apis
                 => Provides[HomeOf[g]] \in group'[g].apis
    BY ZenonT(30) DEF Same, Prunes

LEMMA StatusOnceStep ==
    ASSUME Calm, OneGroup, StatusOnce, CalmShape, NEW g \in Groups, There(g),
           Same(g) \/ Selects(g) \/ Claims(g) \/ Prunes(g)
    PROVE  /\ group'[g].status \in {{}, group'[g].spec}
           /\ group'[g].apis # {} => group'[g].status = group'[g].spec
           /\ csv'[HomeOf[g]].targets # {} => group'[g].status = group'[g].spec
<1> DEFINE o == HomeOf[g]
<1>1. /\ group[g].status \in {{}, group[g].spec}
      /\ group[g].apis # {} => group[g].status = group[g].spec
      /\ csv[o].targets # {} => group[g].status = group[g].spec
    BY ZenonT(30) DEF StatusOnce
<1>2. csv'[o].targets # {} => group[g].status = group[g].spec
  <2>1. \/ csv'[o].targets \in {{}, csv[o].targets}
        \/ \E h \in Groups : There(h) /\ HomeOf[h] = o /\ csv'[o].targets = group[h].status
      BY OperatorGroupsAssumption, ZenonT(30) DEF CalmShape, CSVShape
  <2>2. \A h \in Groups : There(h) /\ HomeOf[h] = o => h = g
      BY ZenonT(30) DEF OneGroup
  <2> QED
      BY <1>1, <2>1, <2>2, ZenonT(30)
<1>3. CASE Same(g) \/ Prunes(g)
    BY <1>1, <1>2, <1>3, KeptShape, ZenonT(30)
<1>4. CASE Selects(g)
    BY <1>4, ZenonT(30) DEF Selects
<1>5. CASE Claims(g)
    BY <1>1, <1>2, <1>5, ZenonT(30) DEF Claims
<1> QED
    BY <1>3, <1>4, <1>5, ZenonT(30)

LEMMA ClaimedFirstStep ==
    ASSUME Fresh, Calm, ClaimedFirst, CalmShape, NEW g \in Groups, There(g),
           Same(g) \/ Selects(g) \/ Claims(g) \/ Prunes(g), Succeeded(HomeOf[g])'
    PROVE  Provides[HomeOf[g]] \in group'[g].apis
<1> DEFINE o == HomeOf[g]
<1>1. csv[o].there /\ Provides[o] \in group[g].apis
  <2>1. /\ csv[o].there
        /\ csv[o].phase = "Succeeded"
           \/ \A h \in Groups : There(h) /\ HomeOf[h] = o => Claimed(o, h)
      BY OperatorGroupsAssumption, ZenonT(30) DEF CalmShape, CSVShape
  <2>2. CASE csv[o].phase = "Succeeded"
      BY <2>1, <2>2, ZenonT(30) DEF ClaimedFirst, Succeeded
  <2>3. CASE Claimed(o, g)
      BY <2>1, <2>3, ConflictFacts, ZenonT(30)
  <2> QED
      BY <2>1, <2>2, <2>3, ZenonT(30)
<1>2. CASE Same(g) \/ Prunes(g)
    BY <1>1, <1>2, KeptShape, ZenonT(30)
<1>3. CASE Selects(g) \/ Claims(g)
    BY <1>1, <1>3, ZenonT(30) DEF Selects, Claims
<1> QED
    BY <1>2, <1>3, ZenonT(30)

(* The claims of two groups, one of which may have changed. *)
LEMMA ApartStep ==
    ASSUME Fresh, Calm, StatusOnce, ClaimsApart, NEW g \in Groups, NEW h \in Groups, g # h,
           There(g), There(h), Same(g) \/ Selects(g) \/ Claims(g) \/ Prunes(g), Same(h),
           group'[g].apis \intersect group'[h].apis # {}
    PROVE  ~Intersects(Serves(g)', Serves(h)') /\ ~Intersects(Serves(h)', Serves(g)')
<1>1. Serves(h)' = Serves(h) /\ group'[h].apis = group[h].apis
    BY ServesKept, ZenonT(30) DEF Same
<1>2. ASSUME group[g].apis \intersect group[h].apis # {}
      PROVE  ~Intersects(Serves(g), Serves(h))
    BY <1>2, ZenonT(30) DEF ClaimsApart
<1>3. CASE Same(g) \/ Prunes(g)
  <2>1. Serves(g)' = Serves(g) /\ group'[g].apis \subseteq group[g].apis
      BY <1>3, KeptShape, ServesKept, ZenonT(30)
  <2>2. ~Intersects(Serves(g), Serves(h))
      BY <1>1, <1>2, <2>1, ZenonT(30)
  <2> QED
      BY <1>1, <2>1, <2>2, Symmetric, ZenonT(30)
<1>4. CASE Selects(g)
  <2>1. group[g].apis = {} /\ group'[g].apis = group[g].apis
      BY <1>4, ZenonT(30) DEF Selects, StatusOnce
  <2> QED
      BY <2>1, ZenonT(30)
<1>5. CASE Claims(g)
  <2>1. /\ Serves(g)' = Serves(g)
        /\ group'[g].apis = group[g].apis \union {Provides[HomeOf[g]]}
        /\ ~Conflicts(HomeOf[g], g)
      BY <1>5, ServesKept, ZenonT(30) DEF Claims
  <2>2. Provides[HomeOf[g]] \in group[h].apis => ~Intersects(Serves(g), Serves(h))
      BY <2>1, ConflictFacts, ZenonT(30)
  <2>3. ~Intersects(Serves(g), Serves(h))
      BY <1>1, <1>2, <2>1, <2>2, ZenonT(30)
  <2> QED
      BY <1>1, <2>1, <2>3, Symmetric, ZenonT(30)
<1> QED
    BY <1>3, <1>4, <1>5, ZenonT(30)

LEMMA ClaimsStep ==
    ASSUME TypeOK, Fresh, ClaimsInv, Next
    PROVE  ClaimsInv'
<1> SUFFICES ASSUME Calm' PROVE (OneGroup /\ StatusOnce /\ ClaimedFirst /\ ClaimsApart)'
    BY ZenonT(30) DEF ClaimsInv
<1>1. Calm /\ CalmShape
    BY StepShape, ZenonT(30)
<1>2. OneGroup /\ StatusOnce /\ ClaimedFirst /\ ClaimsApart
    BY <1>1, ZenonT(30) DEF ClaimsInv
<1>3. ASSUME NEW g \in Groups PROVE ~Withdraws(g)
  <2> SUFFICES ASSUME Withdraws(g) PROVE FALSE
      BY ZenonT(30)
  <2> DEFINE a == Provides[HomeOf[g]]
  <2>1. There(g) /\ a \in group[g].apis
      BY <1>1, ConflictFacts, ZenonT(30) DEF Withdraws
  <2>2. PICK h \in Groups \ {g} :
           There(h) /\ Intersects(Serves(g), Serves(h)) /\ a \in group[h].apis
      BY <1>1, ConflictFacts, ZenonT(30) DEF Withdraws
  <2> QED
      BY <1>2, <2>1, <2>2, ZenonT(30) DEF ClaimsApart
<1>4. PICK c : /\ \A h \in Groups \ {c} : Same(h)
               /\ c \in Groups => Same(c) \/ Selects(c) \/ Claims(c) \/ Prunes(c)
    BY <1>1, <1>3, ZenonT(30) DEF CalmShape, GroupShape
<1>5. \A g \in Groups : Same(g) \/ Selects(g) \/ Claims(g) \/ Prunes(g)
    BY <1>4, ZenonT(30)
<1>6. \A g \in Groups : group'[g].there = group[g].there
    BY <1>5, ZenonT(30) DEF Same, Selects, Claims, Prunes
<1>7. OneGroup'
    BY <1>2, <1>6, OneGroupStep, ZenonT(30)
<1>8. StatusOnce'
    BY <1>1, <1>2, <1>5, <1>6, StatusOnceStep, ZenonT(30) DEF StatusOnce, There
<1>9. ClaimedFirst'
    BY <1>1, <1>2, <1>5, <1>6, ClaimedFirstStep, ZenonT(30) DEF ClaimedFirst, There
<1>10. ASSUME NEW g \in Groups, NEW h \in Groups, g # h, There(g)', There(h)',
              group'[g].apis \intersect group'[h].apis # {}
       PROVE  ~Intersects(Serves(g)', Serves(h)')
  <2>1. There(g) /\ There(h)
      BY <1>6, <1>10, ZenonT(30) DEF There
  <2>2. CASE h # c
      BY <1>1, <1>2, <1>4, <1>5, <1>10, <2>1, <2>2, ApartStep, ZenonT(30)
  <2>3. CASE g # c
      BY <1>1, <1>2, <1>4, <1>5, <1>10, <2>1, <2>3, ApartStep, ZenonT(30)
  <2> QED
      BY <1>10, <2>2, <2>3, ZenonT(30)
<1>11. ClaimsApart'
    BY <1>10, ZenonT(30) DEF ClaimsApart, Intersects
<1> QED
    BY <1>7, <1>8, <1>9, <1>11, ZenonT(30)

LEMMA ClaimsInit == Init => Fresh /\ ClaimsInv
<1> SUFFICES ASSUME Init PROVE Fresh /\ ClaimsInv
    BY ZenonT(30)
<1>1. Fresh
    BY ZenonT(30) DEF Init, Fresh
<1>2. /\ \A g \in Groups : group[g] \in Created(g) \union {Gone}
      /\ \A o \in Home : Cardinality({g \in Groups : HomeOf[g] = o /\ group[g].there}) = 1
    BY ZenonT(30) DEF Init
<1>3. ASSUME NEW g \in Groups, There(g), g \notin Static
      PROVE  group[g].status = {} /\ group[g].apis = {}
    BY <1>2, <1>3, SMTT(30) DEF Created, NewGroup, Gone, There
<1>4. \A o \in Home : csv[o].targets = {} /\ csv[o].phase = "Pending"
    BY ZenonT(30) DEF Init, NewCSV, NoCSV
<1>5. ASSUME NEW g \in Groups, NEW h \in Groups, There(g), There(h), HomeOf[g] = HomeOf[h]
      PROVE  g = h
  <2> DEFINE S == {k \in Groups : HomeOf[k] = HomeOf[g] /\ group[k].there}
  <2>1. IsFiniteSet(S) /\ Cardinality(S) = 1
    <3>1. Cardinality(S) = 1
        BY <1>2, OperatorGroupsAssumption, ZenonT(30)
    <3>2. IsFiniteSet(S)
        BY FS_Subset, OperatorGroupsAssumption, ZenonT(30)
    <3> QED
        BY <3>1, <3>2, ZenonT(30)
  <2>2. g \in S /\ h \in S
      BY <1>5, ZenonT(30) DEF There
  <2> HIDE DEF S
  <2>3. \E x : S = {x}
      BY <2>1, FS_Singleton, ZenonT(30)
  <2> QED
      BY <2>2, <2>3
<1>6. ClaimsInv
  <2> SUFFICES ASSUME Calm PROVE OneGroup /\ StatusOnce /\ ClaimedFirst /\ ClaimsApart
      BY ZenonT(30) DEF ClaimsInv
  <2>1. \A g \in Groups : There(g) => group[g].status = {} /\ group[g].apis = {}
      BY <1>3, ZenonT(30) DEF Calm, There
  <2>2. OneGroup
      BY <1>5, ZenonT(30) DEF OneGroup
  <2>3. StatusOnce
      BY <1>4, <2>1, OperatorGroupsAssumption, ZenonT(30) DEF StatusOnce
  <2>4. ClaimedFirst
      BY <1>4, OperatorGroupsAssumption, ZenonT(30) DEF ClaimedFirst, Succeeded
  <2>5. ClaimsApart
      BY <2>1, ZenonT(30) DEF ClaimsApart
  <2> QED
      BY <2>2, <2>3, <2>4, <2>5, ZenonT(30)
<1> QED
    BY <1>1, <1>6, ZenonT(30)

(* For any namespaces, groups and selections: while the caches keep up and   *)
(* users write neither groups nor claims, no two operators with a common     *)
(* namespace provide an API at the same time.  A CSV succeeds only after the *)
(* claim of its group (transitionCSVState); a claim is made only if no group *)
(* with a common namespace has made it; and by then the namespaces of the    *)
(* group are what they will be, as its CSV carries them.                     *)
THEOREM ExclusiveSafe == Spec => []Exclusive
<1> DEFINE Inv == TypeOK /\ Fresh /\ ClaimsInv
<1>1. Init => Inv
    BY TypeInit, ClaimsInit, ZenonT(30)
<1>2. Inv /\ [Next]_vars => Inv'
  <2> SUFFICES ASSUME Inv, [Next]_vars PROVE Inv'
      BY ZenonT(30)
  <2>1. TypeOK' /\ Fresh'
      BY TypeStep, FreshStep, ZenonT(30)
  <2>2. CASE Next
      BY <2>1, <2>2, ClaimsStep, ZenonT(30)
  <2>3. CASE UNCHANGED vars
    <3>1. ClaimsInv'
        BY <2>3, SMTT(30) DEF vars, ClaimsInv, Calm, OneGroup, StatusOnce, ClaimedFirst, ClaimsApart, There,
                    Succeeded, Serves, Intersects
    <3> QED
        BY <2>1, <3>1, ZenonT(30)
  <2> QED
      BY <2>2, <2>3, ZenonT(30)
<1>3. Inv => Exclusive
  <2> SUFFICES ASSUME Inv, Calm, NEW o \in Home, NEW p \in Home, o # p,
                      Provides[o] = Provides[p], Succeeded(o), Succeeded(p),
                      NEW g \in Of(o), NEW h \in Of(p), Intersects(Serves(g), Serves(h))
               PROVE  FALSE
      BY ZenonT(30) DEF Exclusive, Calm, SoleProviders, Overlap
  <2>1. /\ g \in Groups /\ There(g) /\ HomeOf[g] = o
        /\ h \in Groups /\ There(h) /\ HomeOf[h] = p /\ g # h
      BY ZenonT(30) DEF Of, There
  <2>2. Provides[o] \in group[g].apis /\ Provides[o] \in group[h].apis
      BY <2>1, ZenonT(30) DEF ClaimsInv, ClaimedFirst
  <2> QED
      BY <2>1, <2>2, ZenonT(30) DEF ClaimsInv, ClaimsApart
<1> QED
    BY <1>1, <1>2, <1>3, PTL DEF Spec

=============================================================================
