------------------------- MODULE CSVLifecycleProofs -------------------------
(***************************************************************************)
(* Proofs about CSVLifecycle, for every set of CSVs, every replacement     *)
(* relation and any number of faults; and, in the second half, about       *)
(* chains of replacements: what is deleted and in which order, which CSVs  *)
(* own a CRD, and which CSV has a deployment.  There each theorem names    *)
(* the faults it does without.                                             *)
(***************************************************************************)
EXTENDS CSVLifecycle, TLAPS

(* A cached copy that is not stale is the CSV itself, and a sync whose     *)
(* copy is still the newest version works on a CSV that exists.            *)
Consistent ==
    \A c \in CSVs :
        /\ c \notin stale => cache[c] = csv[c]
        /\ sync[c].pc \in {"gate", "write"} /\ sync[c].fresh => csv[c] # None

Base == TypeOK /\ Consistent

(* The actions that only compute a status, and may change a deployment *)
LocalStep(c) ==
    \/ GroupProblem(c) \/ SyncNone(c) \/ SyncPending(c) \/ SyncInstallReady(c)
    \/ SyncInstalling(c) \/ SyncSucceeded(c) \/ SyncFailed(c) \/ SyncReplacing(c)
    \/ Gate(c)

(* What a local step does to the syncs *)
LocalSync(c) ==
    /\ sync' \in [CSVs -> Sync]
    /\ \A x \in CSVs \ {c} : sync'[x] = sync[x]
    /\ sync'[c].pc \in {"gate", "write"} /\ sync'[c].fresh => csv[c] # None

LEMMA IdleType == IdleSync \in Sync
    BY ZenonT(30) DEF IdleSync, Sync, Phases, Reasons

(* What Status leaves in sync *)
LEMMA StatusSync ==
    ASSUME TypeOK, NEW c \in CSVs, NEW phase \in Phases, NEW reason \in Reasons,
           Status(c, phase, reason)
    PROVE  /\ sync' \in [CSVs -> Sync]
           /\ \A x \in CSVs \ {c} : sync'[x] = sync[x]
           /\ sync'[c].pc \in {"idle", "write"}
           /\ sync'[c].pc = "write" =>
                /\ sync'[c].phase = phase
                /\ sync'[c].reason = reason
                /\ sync'[c].fresh = (c \notin stale)
<1> DEFINE s == [pc |-> "write", phase |-> phase, reason |-> reason, fresh |-> c \notin stale]
           t == IF cache[c].phase = phase /\ cache[c].reason = reason THEN IdleSync ELSE s
<1>1. s \in Sync
    BY ZenonT(30) DEF Sync
<1>2. t \in Sync /\ sync' = [sync EXCEPT ![c] = t]
    BY <1>1, IdleType, ZenonT(30) DEF Status
<1>3. sync'[c] = t /\ \A x \in CSVs \ {c} : sync'[x] = sync[x]
    BY <1>2, ZenonT(30) DEF TypeOK
<1>4. sync' \in [CSVs -> Sync]
    BY <1>2, ZenonT(30) DEF TypeOK
<1>5. t.pc \in {"idle", "write"} /\ (t.pc = "write" => t = s)
    BY ZenonT(30) DEF IdleSync
<1> QED
    BY <1>3, <1>4, <1>5

LEMMA StatusLocal ==
    ASSUME Base, NEW c \in CSVs, cache[c] # None,
           NEW phase \in Phases, NEW reason \in Reasons, Status(c, phase, reason)
    PROVE  LocalSync(c)
<1>1. TypeOK
    BY ZenonT(30) DEF Base
<1> QED
    BY <1>1, StatusSync, ZenonT(30) DEF Base, Consistent, LocalSync

LEMMA LocalStepSync ==
    ASSUME Base, NEW c \in CSVs, LocalStep(c)
    PROVE  /\ LocalSync(c)
           /\ deployment' \in [Deployments -> CSVs \cup {None}]
           /\ faults' \in 0..MaxFaults
           /\ UNCHANGED <<csv, cache, stale, depcache, created, succeeded>>
<1> USE CSVAssumption
<1>a. TypeOK
    BY ZenonT(30) DEF Base
<1>b. \A k : Fault(k) => faults' \in 0..MaxFaults
    BY <1>a DEF Fault, TypeOK
<1>c. UNCHANGED sync => LocalSync(c)
    BY <1>a, ZenonT(30) DEF LocalSync, Base, Consistent, TypeOK
<1>d. \A phase \in Phases, reason \in Reasons :
          cache[c] # None /\ Status(c, phase, reason) => LocalSync(c)
    BY StatusLocal, ZenonT(30)
<1>e. \A s \in Sync : /\ sync' = [sync EXCEPT ![c] = s]
                      /\ s.pc \in {"gate", "write"} /\ s.fresh => csv[c] # None
                      => LocalSync(c)
    BY <1>a DEF LocalSync, TypeOK
<1>f. Deployed(c) \in [Deployments -> CSVs \cup {None}]
    BY <1>a, ZenonT(30) DEF Deployed, TypeOK
<1>g. \A requeuePhase \in Phases :
          cache[c] # None /\ UpdateInstallStatus(c, requeuePhase)
          => LocalSync(c) /\ faults' \in 0..MaxFaults
  <2>1. cache[c] # None => cache[c].phase \in Phases
      BY <1>a, ZenonT(30) DEF TypeOK, Csv
  <2>2. {"Succeeded", "Failed", "InstallReady"} \subseteq Phases /\ "" \in Reasons
      BY ZenonT(30) DEF Phases, Reasons
  <2>3. UNCHANGED faults => faults' \in 0..MaxFaults
      BY <1>a, ZenonT(30) DEF TypeOK
  <2> SUFFICES ASSUME NEW requeuePhase \in Phases, cache[c] # None,
                      UpdateInstallStatus(c, requeuePhase)
               PROVE  LocalSync(c) /\ faults' \in 0..MaxFaults
      BY ZenonT(30)
  <2>4. PICK phase \in Phases : Status(c, phase, "")
      BY <2>1, <2>2, ZenonT(30) DEF UpdateInstallStatus
  <2>5. LocalSync(c)
      BY <1>d, <2>2, <2>4, ZenonT(30)
  <2>6. faults' \in 0..MaxFaults
      BY <1>b, <2>3, ZenonT(30) DEF UpdateInstallStatus
  <2> QED
      BY <2>5, <2>6, ZenonT(30)
<1>1. CASE GroupProblem(c)
    BY <1>1, <1>a, <1>b, <1>d, ZenonT(30) DEF GroupProblem, Syncing, Unchanged, Phases, Reasons, TypeOK
<1>2. CASE SyncNone(c)
    BY <1>2, <1>a, <1>d, ZenonT(30) DEF SyncNone, Syncing, Unchanged, Phases, Reasons, TypeOK
<1>3. CASE SyncPending(c)
  <2> DEFINE s == [IdleSync EXCEPT !.pc = "gate", !.fresh = c \notin stale]
  <2>1. s \in Sync
      BY ZenonT(30) DEF IdleSync, Sync, Phases, Reasons
  <2>2. s.pc \in {"gate", "write"} /\ s.fresh => csv[c] # None
      BY <1>3, ZenonT(30) DEF SyncPending, Syncing, Base, Consistent, IdleSync
  <2> HIDE DEF s
  <2>3. sync' = [sync EXCEPT ![c] = s] => LocalSync(c)
      BY <1>e, <2>1, <2>2, ZenonT(30)
  <2> QED
      BY <1>3, <1>a, <1>b, <1>d, <2>3, ZenonT(30)
         DEF SyncPending, Syncing, Unchanged, Phases, Reasons, TypeOK, s
<1>4. CASE SyncInstallReady(c)
    BY <1>4, <1>a, <1>b, <1>d, <1>f, ZenonT(30)
       DEF SyncInstallReady, Syncing, Unchanged, Phases, Reasons, TypeOK
<1>5. CASE SyncInstalling(c)
    BY <1>5, <1>a, <1>b, <1>d, <1>g, ZenonT(30)
       DEF SyncInstalling, Syncing, Unchanged, Phases, Reasons, TypeOK
<1>6. CASE SyncSucceeded(c)
    BY <1>6, <1>a, <1>b, <1>d, <1>g, ZenonT(30)
       DEF SyncSucceeded, Syncing, Unchanged, Phases, Reasons, TypeOK
<1>7. CASE SyncFailed(c)
    BY <1>7, <1>a, <1>b, <1>d, <1>g, ZenonT(30)
       DEF SyncFailed, Syncing, Unchanged, Phases, Reasons, TypeOK
<1>8. CASE SyncReplacing(c)
  <2> DEFINE s == [IdleSync EXCEPT !.pc = "panic"]
  <2>1. s \in Sync /\ s.pc = "panic"
      BY ZenonT(30) DEF IdleSync, Sync, Phases, Reasons
  <2> HIDE DEF s
  <2>2. sync' = [sync EXCEPT ![c] = s] => LocalSync(c)
      BY <1>e, <2>1, ZenonT(30)
  <2> QED
      BY <1>8, <1>a, <1>b, <1>c, <1>d, <2>2, ZenonT(30)
         DEF SyncReplacing, Syncing, Unchanged, Phases, Reasons, TypeOK, s
<1>9. CASE Gate(c)
  <2> DEFINE s == [sync[c] EXCEPT !.pc = "write", !.phase = "InstallReady"]
  <2>0. sync[c] \in Sync
      BY <1>a, ZenonT(30) DEF TypeOK
  <2>1. s \in Sync /\ s.pc = "write" /\ s.fresh = sync[c].fresh
      BY <2>0, ZenonT(30) DEF Sync, Phases
  <2>2. sync[c].fresh => csv[c] # None
      BY <1>9, ZenonT(30) DEF Gate, At, Base, Consistent
  <2>3. sync' = [sync EXCEPT ![c].pc = "write", ![c].phase = "InstallReady"] => LocalSync(c)
    <3>1. sync' = [sync EXCEPT ![c].pc = "write", ![c].phase = "InstallReady"]
            => sync' = [sync EXCEPT ![c] = s]
        BY <1>a, ZenonT(90) DEF TypeOK
    <3> QED
        BY <1>e, <2>1, <2>2, <3>1, ZenonT(30)
  <2>4. sync' = [sync EXCEPT ![c] = IdleSync] => LocalSync(c)
      BY <1>e, IdleType, ZenonT(30) DEF IdleSync
  <2> QED
      BY <1>9, <1>a, <1>b, <2>3, <2>4, ZenonT(30) DEF Gate, Unchanged, TypeOK
<1> QED
    BY <1>1, <1>2, <1>3, <1>4, <1>5, <1>6, <1>7, <1>8, <1>9, ZenonT(30) DEF LocalStep

-----------------------------------------------------------------------------
(* The other actions, one by one                                           *)

LEMMA ChangedSync ==
    ASSUME TypeOK, NEW c \in CSVs, Changed(c)
    PROVE  /\ sync' \in [CSVs -> Sync]
           /\ \A x \in CSVs \ {c} : sync'[x] = sync[x]
           /\ sync'[c].fresh = FALSE
           /\ sync'[c].pc = sync[c].pc
           /\ sync'[c].phase = sync[c].phase
           /\ stale' = stale \cup {c}
<1>1. sync[c] \in Sync
    BY ZenonT(30) DEF TypeOK
<1>2. [sync[c] EXCEPT !.fresh = FALSE] \in Sync
    BY <1>1, ZenonT(30) DEF Sync
<1>3. sync' = [sync EXCEPT ![c] = [sync[c] EXCEPT !.fresh = FALSE]]
    BY ZenonT(30) DEF Changed, TypeOK
<1> QED
    BY <1>1, <1>2, <1>3, ZenonT(30) DEF Changed, TypeOK, Sync

(* What the writes of a CSV leave in csv *)
LEMMA MarkDeleted ==
    ASSUME TypeOK, NEW c \in CSVs, csv[c] # None,
           csv' = [csv EXCEPT ![c].deleting = TRUE]
    PROVE  /\ csv' \in [CSVs -> Csv \cup {None}]
           /\ \A x \in CSVs \ {c} : csv'[x] = csv[x]
           /\ csv'[c] # None /\ csv'[c].phase = csv[c].phase
<1>1. csv[c] \in Csv
    BY ZenonT(30) DEF TypeOK
<1>2. [csv[c] EXCEPT !.deleting = TRUE] \in Csv
    BY <1>1, ZenonT(30) DEF Csv
<1>3. csv' = [csv EXCEPT ![c] = [csv[c] EXCEPT !.deleting = TRUE]]
    BY ZenonT(30) DEF TypeOK
<1>4. [csv[c] EXCEPT !.deleting = TRUE].phase = csv[c].phase
    BY <1>1, ZenonT(30) DEF Csv
<1>5. csv'[c] = [csv[c] EXCEPT !.deleting = TRUE] /\ \A x \in CSVs \ {c} : csv'[x] = csv[x]
    BY <1>3, ZenonT(30) DEF TypeOK
<1>6. csv' \in [CSVs -> Csv \cup {None}]
    BY <1>2, <1>3, ZenonT(30) DEF TypeOK
<1> QED
    BY <1>2, <1>4, <1>5, <1>6, CSVAssumption, ZenonT(30)

LEMMA WriteStatus ==
    ASSUME TypeOK, NEW c \in CSVs, csv[c] # None, NEW p \in Phases, NEW q \in Reasons,
           csv' = [csv EXCEPT ![c].phase = p, ![c].reason = q]
    PROVE  /\ csv' \in [CSVs -> Csv \cup {None}]
           /\ \A x \in CSVs \ {c} : csv'[x] = csv[x]
           /\ csv'[c] # None /\ csv'[c].phase = p /\ csv'[c].deleting = csv[c].deleting
<1>1. csv[c] \in Csv
    BY ZenonT(30) DEF TypeOK
<1>2. [csv[c] EXCEPT !.phase = p, !.reason = q] \in Csv
    BY <1>1, ZenonT(30) DEF Csv
<1>3. csv' = [csv EXCEPT ![c] = [csv[c] EXCEPT !.phase = p, !.reason = q]]
    BY ZenonT(30) DEF TypeOK
<1>4. /\ [csv[c] EXCEPT !.phase = p, !.reason = q].phase = p
      /\ [csv[c] EXCEPT !.phase = p, !.reason = q].deleting = csv[c].deleting
    BY <1>1, ZenonT(30) DEF Csv
<1> QED
    BY <1>2, <1>3, <1>4, CSVAssumption DEF TypeOK

LEMMA BaseInit == Init => Base
<1> SUFFICES ASSUME Init PROVE Base
    BY ZenonT(30)
<1>1. TypeOK
    BY IdleType, CSVAssumption DEF Init, TypeOK
<1>2. Consistent
    BY ZenonT(30) DEF Init, Consistent, IdleSync
<1> QED
    BY <1>1, <1>2, ZenonT(30) DEF Base

LEMMA BaseStep ==
    ASSUME Base, [Next]_vars
    PROVE  Base'
<1> USE CSVAssumption
<1>a. TypeOK /\ Consistent
    BY ZenonT(30) DEF Base
<1>1. ASSUME NEW c \in CSVs, LocalStep(c)
      PROVE  Base'
  <2>1. /\ LocalSync(c)
        /\ deployment' \in [Deployments -> CSVs \cup {None}]
        /\ faults' \in 0..MaxFaults
        /\ UNCHANGED <<csv, cache, stale, depcache, created, succeeded>>
      BY <1>1, LocalStepSync, ZenonT(30)
  <2>2. TypeOK'
      BY <1>a, <2>1, ZenonT(30) DEF TypeOK, LocalSync
  <2>3. Consistent'
      BY <1>a, <2>1, ZenonT(30) DEF Consistent, LocalSync
  <2> QED
      BY <2>2, <2>3, ZenonT(30) DEF Base
<1>2. ASSUME NEW c \in CSVs, SyncDeleting(c)
      PROVE  Base'
  <2>1. csv[c] # None /\ csv' = [csv EXCEPT ![c].deleting = TRUE] /\ Changed(c)
      BY <1>2, ZenonT(30) DEF SyncDeleting
  <2>s. /\ sync' \in [CSVs -> Sync]
        /\ \A x \in CSVs \ {c} : sync'[x] = sync[x]
        /\ sync'[c].fresh = FALSE
        /\ stale' = stale \cup {c}
      BY <1>a, <2>1, ChangedSync, ZenonT(30)
  <2>c. /\ csv' \in [CSVs -> Csv \cup {None}]
        /\ \A x \in CSVs \ {c} : csv'[x] = csv[x]
        /\ csv'[c] # None
      BY <1>a, <2>1, MarkDeleted, ZenonT(30)
  <2>2. TypeOK'
      BY <1>a, <1>2, <2>1, <2>s, <2>c, ZenonT(30) DEF SyncDeleting, TypeOK
  <2>3. Consistent'
      BY <1>a, <1>2, <2>1, <2>s, <2>c, ZenonT(30) DEF SyncDeleting, Consistent
  <2> QED
      BY <2>2, <2>3, ZenonT(30) DEF Base
<1>3. ASSUME NEW c \in CSVs, ProcessFinalizer(c)
      PROVE  Base'
  <2>1. csv' = [csv EXCEPT ![c] = None] /\ Changed(c)
      BY <1>3, ZenonT(30) DEF ProcessFinalizer
  <2>s. /\ sync' \in [CSVs -> Sync]
        /\ \A x \in CSVs \ {c} : sync'[x] = sync[x]
        /\ sync'[c].fresh = FALSE
        /\ stale' = stale \cup {c}
      BY <1>a, <2>1, ChangedSync, ZenonT(30)
  <2>2. TypeOK'
      BY <1>a, <1>3, <2>1, <2>s, ZenonT(30) DEF ProcessFinalizer, TypeOK
  <2>3. Consistent'
      BY <1>a, <1>3, <2>1, <2>s DEF ProcessFinalizer, Consistent, TypeOK
  <2> QED
      BY <2>2, <2>3, ZenonT(30) DEF Base
<1>4. ASSUME NEW c \in CSVs, UpdateStatus(c)
      PROVE  Base'
  <2>1. sync' \in [CSVs -> Sync] /\ sync'[c] = IdleSync /\ \A x \in CSVs \ {c} : sync'[x] = sync[x]
      BY <1>a, <1>4, IdleType, ZenonT(30) DEF UpdateStatus, TypeOK
  <2>2. sync[c] \in Sync /\ sync[c].phase \in Phases /\ sync[c].reason \in Reasons
      BY <1>a, ZenonT(30) DEF TypeOK, Sync
  <2>3. CASE sync[c].fresh /\ csv' = [csv EXCEPT ![c].phase = sync[c].phase,
                                                  ![c].reason = sync[c].reason]
                         /\ stale' = stale \cup {c} /\ UNCHANGED faults
                         /\ succeeded' \in {succeeded, succeeded \cup {c}}
    <3>1. csv[c] # None
        BY <1>a, <1>4, <2>3, ZenonT(30) DEF UpdateStatus, At, Consistent
    <3>2. /\ csv' \in [CSVs -> Csv \cup {None}]
          /\ \A x \in CSVs \ {c} : csv'[x] = csv[x]
        BY <1>a, <2>2, <2>3, <3>1, WriteStatus, ZenonT(30)
    <3>3. TypeOK'
        BY <1>a, <1>4, <2>1, <2>3, <3>2, ZenonT(90) DEF UpdateStatus, TypeOK
    <3>4. Consistent'
        BY <1>a, <1>4, <2>1, <2>3, <3>2, ZenonT(90) DEF UpdateStatus, Consistent, IdleSync
    <3> QED
        BY <3>3, <3>4, ZenonT(30) DEF Base
  <2>4. CASE UNCHANGED <<csv, stale, succeeded>> /\ (Fault("update") \/ UNCHANGED faults)
    <3>1. TypeOK'
        BY <1>a, <1>4, <2>1, <2>4 DEF UpdateStatus, TypeOK, Fault
    <3>2. Consistent'
        BY <1>a, <1>4, <2>1, <2>4, ZenonT(30) DEF UpdateStatus, Consistent, IdleSync
    <3> QED
        BY <3>1, <3>2, ZenonT(30) DEF Base
  <2> QED
      BY <1>4, <2>3, <2>4, ZenonT(30) DEF UpdateStatus
<1>5. ASSUME NEW c \in CSVs, SyncObject(c)
      PROVE  Base'
  <2>1. csv[c] # None /\ csv' = [csv EXCEPT ![c].phase = "Pending", ![c].reason = ""]
        /\ Changed(c) /\ "Pending" \in Phases /\ "" \in Reasons
      BY <1>a, <1>5, ZenonT(30) DEF SyncObject, Consistent, Phases, Reasons
  <2>s. /\ sync' \in [CSVs -> Sync]
        /\ \A x \in CSVs \ {c} : sync'[x] = sync[x]
        /\ sync'[c].fresh = FALSE
        /\ stale' = stale \cup {c}
      BY <1>a, <2>1, ChangedSync, ZenonT(30)
  <2>c. /\ csv' \in [CSVs -> Csv \cup {None}]
        /\ \A x \in CSVs \ {c} : csv'[x] = csv[x]
        /\ csv'[c] # None
      BY <1>a, <2>1, WriteStatus, ZenonT(30)
  <2>2. TypeOK'
      BY <1>a, <1>5, <2>1, <2>s, <2>c, ZenonT(30) DEF SyncObject, TypeOK
  <2>3. Consistent'
      BY <1>a, <1>5, <2>1, <2>s, <2>c, ZenonT(90) DEF SyncObject, Consistent
  <2> QED
      BY <2>2, <2>3, ZenonT(30) DEF Base
<1>6. ASSUME NEW c \in CSVs, CacheCSV(c)
      PROVE  Base'
    BY <1>a, <1>6, ZenonT(30) DEF CacheCSV, Base, TypeOK, Consistent
<1>7. ASSUME NEW c \in CSVs, CreateCSV(c)
      PROVE  Base'
  <2>1. [phase |-> "None", reason |-> "", deleting |-> FALSE] \in Csv
      BY ZenonT(30) DEF Csv, Phases, Reasons
  <2> QED
      BY <1>a, <1>7, <2>1, ZenonT(30) DEF CreateCSV, Base, TypeOK, Consistent
<1>8. ASSUME NEW c \in CSVs, DeleteCSV(c)
      PROVE  Base'
  <2>1. csv[c] # None /\ csv' = [csv EXCEPT ![c].deleting = TRUE] /\ Changed(c)
      BY <1>8, ZenonT(30) DEF DeleteCSV
  <2>s. /\ sync' \in [CSVs -> Sync]
        /\ \A x \in CSVs \ {c} : sync'[x] = sync[x]
        /\ sync'[c].fresh = FALSE
        /\ stale' = stale \cup {c}
      BY <1>a, <2>1, ChangedSync, ZenonT(30)
  <2>c. /\ csv' \in [CSVs -> Csv \cup {None}]
        /\ \A x \in CSVs \ {c} : csv'[x] = csv[x]
        /\ csv'[c] # None
      BY <1>a, <2>1, MarkDeleted, ZenonT(30)
  <2>2. TypeOK'
      BY <1>a, <1>8, <2>1, <2>s, <2>c DEF DeleteCSV, TypeOK, Fault
  <2>3. Consistent'
      BY <1>a, <1>8, <2>1, <2>s, <2>c, ZenonT(30) DEF DeleteCSV, Consistent
  <2> QED
      BY <2>2, <2>3, ZenonT(30) DEF Base
<1>9. ASSUME NEW c \in CSVs, UpdateMetadata(c)
      PROVE  Base'
  <2>1. Changed(c)
      BY <1>9, ZenonT(30) DEF UpdateMetadata
  <2>s. /\ sync' \in [CSVs -> Sync]
        /\ \A x \in CSVs \ {c} : sync'[x] = sync[x]
        /\ sync'[c].fresh = FALSE
        /\ stale' = stale \cup {c}
      BY <1>a, <2>1, ChangedSync, ZenonT(30)
  <2>2. TypeOK'
      BY <1>a, <1>9, <2>1, <2>s DEF UpdateMetadata, TypeOK, Fault
  <2>3. Consistent'
      BY <1>a, <1>9, <2>1, <2>s, ZenonT(30) DEF UpdateMetadata, Consistent
  <2> QED
      BY <2>2, <2>3, ZenonT(30) DEF Base
<1>10. ASSUME NEW d \in Deployments, CacheDeployment(d) \/ DeleteDeployment(d)
       PROVE  Base'
    BY <1>a, <1>10 DEF CacheDeployment, DeleteDeployment, Base, TypeOK, Consistent, Fault
<1>11. CASE Restart
  <2>1. TypeOK'
      BY <1>a, <1>11, IdleType DEF Restart, TypeOK, Fault
  <2>2. Consistent'
      BY <1>a, <1>11, ZenonT(30) DEF Restart, Consistent, IdleSync
  <2> QED
      BY <2>1, <2>2, ZenonT(30) DEF Base
<1>12. CASE UNCHANGED vars
    BY <1>a, <1>12, ZenonT(30) DEF vars, Base, TypeOK, Consistent
<1> QED
    BY <1>1, <1>2, <1>3, <1>4, <1>5, <1>6, <1>7, <1>8, <1>9, <1>10, <1>11, <1>12, ZenonT(30)
       DEF Next, CSVNext, SyncCSV, LocalStep

(* The types of the operator's and the cluster's state: in particular a    *)
(* status is only ever written to a CSV that exists.                       *)
THEOREM TypeCorrect == Spec => []TypeOK
<1>1. Base => TypeOK
    BY ZenonT(30) DEF Base
<1> QED
    BY <1>1, BaseInit, BaseStep, PTL DEF Spec

-----------------------------------------------------------------------------
(* The upgrade gate                                                        *)

Installs == {"InstallReady", "Installing", "Succeeded"}

Retired == {"Replacing", "Deleting"}

GateOpen(c) == HasPrevious(c) => csv[Replaces[c]].phase \in Retired

(* The faults without which the gate is kept: a problem of the             *)
(* OperatorGroup takes a CSV out of Replacing, an error of the API server  *)
(* hides the previous CSV, and an error of the webhook check leads from    *)
(* Failed to InstallReady past the gate.                                   *)
GateFaults == {"group", "get", "webhook"}

(* The gate was open for every CSV that is being or was installed, as seen *)
(* in the API server, in the caches, in the owner of a deployment and in   *)
(* the status a sync is about to write; and no sync that can still write   *)
(* takes a CSV out of Replacing or Deleting.                               *)
GateInv ==
    \A c \in CSVs :
        /\ c \in created /\ Replaces[c] # None => Replaces[c] \in created
        /\ csv[c] # None \/ cache[c] # None => c \in created
        /\ csv[c] # None /\ csv[c].phase \in Installs => GateOpen(c)
        /\ cache[c] # None /\ cache[c].phase \in Installs => GateOpen(c)
        /\ \A d \in Deployments :
             deployment[d] = c \/ depcache[d] = c => c \in created /\ GateOpen(c)
        /\ sync[c].pc = "gate" /\ sync[c].fresh => csv[c].phase = "Pending"
        /\ sync[c].pc = "write" /\ sync[c].fresh =>
             /\ sync[c].phase \in Installs => GateOpen(c)
             /\ csv[c].phase \in Retired => sync[c].phase \in Retired

(* What a local step may leave to be written *)
GateKept(c) ==
    /\ sync'[c].pc = "gate" /\ sync'[c].fresh => csv[c].phase = "Pending"
    /\ sync'[c].pc = "write" /\ sync'[c].fresh =>
         /\ sync'[c].phase \in Installs => GateOpen(c)
         /\ csv[c].phase \in Retired => sync'[c].phase \in Retired

LEMMA StatusGate ==
    ASSUME Base, NEW c \in CSVs, cache[c].phase \notin Retired,
           NEW phase \in Phases, NEW reason \in Reasons, Status(c, phase, reason),
           phase \in Installs => GateOpen(c)
    PROVE  GateKept(c)
<1>1. /\ sync'[c].pc \in {"idle", "write"}
      /\ sync'[c].pc = "write" => sync'[c].phase = phase /\ sync'[c].fresh = (c \notin stale)
    BY StatusSync, ZenonT(30) DEF Base
<1>2. c \notin stale => csv[c].phase \notin Retired
    BY ZenonT(30) DEF Base, Consistent
<1> QED
    BY <1>1, <1>2, ZenonT(30) DEF GateKept

LEMMA InstallStatusGate ==
    ASSUME Base, GateInv, Faults \cap GateFaults = {}, NEW c \in CSVs, cache[c] # None,
           cache[c].phase \notin Retired, NEW requeuePhase \in Phases,
           requeuePhase \in Installs => GateOpen(c), UpdateInstallStatus(c, requeuePhase)
    PROVE  GateKept(c)
<1>1. cache[c].phase \in Phases /\ {"Succeeded", "Failed", "InstallReady"} \subseteq Phases
      /\ "" \in Reasons /\ "Failed" \notin Installs
    BY ZenonT(30) DEF Base, TypeOK, Csv, Phases, Reasons, Installs
<1>2. ~Fault("webhook")
    BY ZenonT(30) DEF Fault, GateFaults
<1>3. depcache[Deploys[c]] = c => GateOpen(c)
    BY CSVAssumption, ZenonT(30) DEF GateInv
<1>4. cache[c].phase \in Installs => GateOpen(c)
    BY ZenonT(30) DEF GateInv
<1>5. PICK phase \in Phases : Status(c, phase, "") /\ (phase \in Installs => GateOpen(c))
    BY <1>1, <1>2, <1>3, <1>4, ZenonT(30) DEF UpdateInstallStatus
<1> QED
    BY <1>1, <1>5, StatusGate, ZenonT(30)

LEMMA LocalGate ==
    ASSUME Base, GateInv, Faults \cap GateFaults = {}, NEW c \in CSVs, LocalStep(c)
    PROVE  /\ GateKept(c)
           /\ \A d \in Deployments :
                \/ deployment'[d] = deployment[d]
                \/ deployment'[d] = c /\ c \in created /\ GateOpen(c)
<1> USE CSVAssumption DEF Installs, Retired
<1>a. {"Pending", "InstallReady", "Installing", "Succeeded", "Failed", "Replacing", "Deleting"}
        \subseteq Phases /\ {"", "noretry"} \subseteq Reasons
    BY ZenonT(30) DEF Phases, Reasons
<1>b. ~Fault("group") /\ ~Fault("get") /\ ~Fault("webhook")
    BY ZenonT(30) DEF Fault, GateFaults
<1>c. \A phase \in Phases, reason \in Reasons :
          /\ cache[c].phase \notin Retired
          /\ phase \in Installs => GateOpen(c)
          /\ Status(c, phase, reason)
          => GateKept(c)
    BY StatusGate, ZenonT(30)
<1>d. \A phase \in Phases :
          /\ cache[c] # None
          /\ cache[c].phase \notin Retired
          /\ phase \in Installs => GateOpen(c)
          /\ UpdateInstallStatus(c, phase)
          => GateKept(c)
    BY InstallStatusGate, ZenonT(30)
<1>e. cache[c] # None /\ cache[c].phase \in Installs => c \in created /\ GateOpen(c)
    BY ZenonT(30) DEF GateInv
<1>f. UNCHANGED deployment => \A d \in Deployments : deployment'[d] = deployment[d]
    BY ZenonT(30)
<1>2. CASE SyncNone(c)
    BY <1>2, <1>a, <1>c, <1>f, ZenonT(30) DEF SyncNone, Syncing
<1>3. CASE SyncPending(c)
  <2> DEFINE s == [IdleSync EXCEPT !.pc = "gate", !.fresh = c \notin stale]
  <2>1. ASSUME sync' = [sync EXCEPT ![c] = s] PROVE GateKept(c)
    <3>1. sync'[c] = s
        BY <2>1, ZenonT(30) DEF Base, TypeOK
    <3>2. s.pc = "gate" /\ s.fresh = (c \notin stale)
        BY ZenonT(30) DEF IdleSync
    <3> QED
        BY <1>3, <3>1, <3>2, ZenonT(30) DEF GateKept, SyncPending, Syncing, Base, Consistent
  <2>2. cache[c].phase \notin Retired
      BY <1>3, ZenonT(30) DEF SyncPending, Syncing
  <2> HIDE DEF s
  <2> QED
      BY <1>3, <1>a, <1>c, <1>f, <2>1, <2>2, ZenonT(30) DEF SyncPending, s
<1>4. CASE SyncInstallReady(c)
  <2>1. cache[c] # None /\ cache[c].phase = "InstallReady"
      BY <1>4, ZenonT(30) DEF SyncInstallReady, Syncing
  <2>2. GateKept(c)
      BY <1>4, <1>a, <1>c, <1>e, <2>1, ZenonT(30) DEF SyncInstallReady
  <2>3. deployment' \in {deployment, Deployed(c)}
      BY <1>4, ZenonT(30) DEF SyncInstallReady
  <2> QED
      BY <1>e, <2>1, <2>2, <2>3, ZenonT(30) DEF Deployed, Base, TypeOK
<1>5. CASE SyncInstalling(c)
  <2>1. cache[c] # None /\ cache[c].phase = "Installing"
      BY <1>5, ZenonT(30) DEF SyncInstalling, Syncing
  <2> QED
      BY <1>5, <1>a, <1>c, <1>d, <1>e, <1>f, <2>1, ZenonT(30) DEF SyncInstalling
<1>6. CASE SyncSucceeded(c)
  <2>1. cache[c] # None /\ cache[c].phase = "Succeeded"
      BY <1>6, ZenonT(30) DEF SyncSucceeded, Syncing
  <2> QED
      BY <1>6, <1>a, <1>c, <1>d, <1>e, <1>f, <2>1, ZenonT(30) DEF SyncSucceeded
<1>7. CASE SyncFailed(c)
  <2>1. cache[c] # None /\ cache[c].phase = "Failed"
      BY <1>7, ZenonT(30) DEF SyncFailed, Syncing
  <2> QED
      BY <1>7, <1>a, <1>c, <1>d, <1>f, <2>1, ZenonT(30) DEF SyncFailed
<1>8. CASE SyncReplacing(c)
  <2> DEFINE s == [IdleSync EXCEPT !.pc = "panic"]
  <2>1. sync' = [sync EXCEPT ![c] = s] => GateKept(c)
    <3>1. s.pc = "panic"
        BY ZenonT(30) DEF IdleSync
    <3> QED
        BY <3>1, ZenonT(30) DEF GateKept, Base, TypeOK
  <2>2. UNCHANGED sync => GateKept(c)
      BY ZenonT(30) DEF GateKept, GateInv
  <2>3. Status(c, "Deleting", "") => GateKept(c)
    <3> SUFFICES ASSUME Status(c, "Deleting", "") PROVE GateKept(c)
        BY ZenonT(30)
    <3>1. TypeOK /\ "Deleting" \in Phases /\ "" \in Reasons
        BY <1>a, ZenonT(30) DEF Base
    <3>2. sync'[c].pc \in {"idle", "write"} /\ (sync'[c].pc = "write" => sync'[c].phase = "Deleting")
        BY <3>1, StatusSync, ZenonT(30)
    <3> QED
        BY <3>2, ZenonT(30) DEF GateKept
  <2> HIDE DEF s
  <2> QED
      BY <1>8, <1>f, <2>1, <2>2, <2>3, ZenonT(30) DEF SyncReplacing, s
<1>9. CASE Gate(c)
  <2>0. sync[c] \in Sync /\ sync \in [CSVs -> Sync]
      BY ZenonT(30) DEF Base, TypeOK
  <2>1. sync' = [sync EXCEPT ![c] = IdleSync] => GateKept(c)
    <3>1. IdleSync.pc = "idle"
        BY ZenonT(30) DEF IdleSync
    <3>2. sync' = [sync EXCEPT ![c] = IdleSync] => sync'[c].pc = "idle"
        BY <2>0, <3>1, ZenonT(30)
    <3> QED
        BY <3>2, ZenonT(30) DEF GateKept
  <2>2. ASSUME sync' = [sync EXCEPT ![c].pc = "write", ![c].phase = "InstallReady"],
               PreviousReady(c)
        PROVE  GateKept(c)
    <3>1. sync'[c] = [sync[c] EXCEPT !.pc = "write", !.phase = "InstallReady"]
        BY <2>0, <2>2, ZenonT(30)
    <3>2. sync'[c].pc = "write" /\ sync'[c].phase = "InstallReady"
          /\ sync'[c].fresh = sync[c].fresh
        BY <2>0, <3>1, ZenonT(30) DEF Sync
    <3>3. sync[c].fresh => csv[c].phase = "Pending"
        BY <1>9, ZenonT(30) DEF Gate, At, GateInv
    <3>4. GateOpen(c)
        BY <2>2, ZenonT(30) DEF PreviousReady, GateOpen
    <3> QED
        BY <3>2, <3>3, <3>4, ZenonT(30) DEF GateKept
  <2> QED
      BY <1>9, <1>b, <1>f, <2>1, <2>2, ZenonT(30) DEF Gate
<1> QED
    BY <1>b, <1>2, <1>3, <1>4, <1>5, <1>6, <1>7, <1>8, <1>9, ZenonT(30) DEF LocalStep, GroupProblem

(* A CSV that is gone never returns, and one that is Replacing or Deleting *)
(* stays so: the gate of a created CSV does not close again.               *)
CsvForward ==
    \A p \in created :
        /\ csv[p] = None => csv'[p] = None
        /\ csv[p] # None /\ csv[p].phase \in Retired /\ csv'[p] # None
             => csv'[p].phase \in Retired

LEMMA CsvStep ==
    ASSUME Base, GateInv, Faults \cap GateFaults = {}, Next
    PROVE  CsvForward
<1> USE CSVAssumption
<1>a. TypeOK /\ created \subseteq CSVs
    BY ZenonT(30) DEF Base, TypeOK
<1>b. UNCHANGED csv => CsvForward
    BY ZenonT(30) DEF CsvForward
<1>c. \A c \in CSVs : csv[c] # None /\ csv' = [csv EXCEPT ![c].deleting = TRUE] => CsvForward
    BY <1>a, MarkDeleted, ZenonT(30) DEF CsvForward
<1>1. ASSUME NEW c \in CSVs, LocalStep(c)
      PROVE  UNCHANGED csv
    BY <1>1, LocalStepSync, ZenonT(30)
<1>2. ASSUME NEW c \in CSVs, ProcessFinalizer(c)
      PROVE  CsvForward
    BY <1>2, <1>a, ZenonT(30) DEF ProcessFinalizer, CsvForward, TypeOK
<1>3. ASSUME NEW c \in CSVs, UpdateStatus(c)
      PROVE  CsvForward
  <2>1. sync[c].phase \in Phases /\ sync[c].reason \in Reasons
    <3>1. sync[c] \in Sync
        BY <1>a, ZenonT(30) DEF TypeOK
    <3> QED
        BY <3>1, ZenonT(30) DEF Sync
  <2>2. CASE sync[c].fresh /\ csv' = [csv EXCEPT ![c].phase = sync[c].phase,
                                                  ![c].reason = sync[c].reason]
    <3>1. csv[c] # None /\ (csv[c].phase \in Retired => sync[c].phase \in Retired)
        BY <1>3, <2>2, ZenonT(30) DEF UpdateStatus, At, Base, Consistent, GateInv
    <3>2. /\ \A x \in CSVs \ {c} : csv'[x] = csv[x]
          /\ csv'[c] # None /\ csv'[c].phase = sync[c].phase
        BY <1>a, <2>1, <2>2, <3>1, WriteStatus, ZenonT(90)
    <3> QED
        BY <1>a, <3>1, <3>2, ZenonT(30) DEF CsvForward
  <2> QED
      BY <1>3, <1>b, <2>2, ZenonT(30) DEF UpdateStatus
<1>4. ASSUME NEW c \in CSVs, SyncObject(c)
      PROVE  CsvForward
  <2>1. csv[c] # None /\ csv[c].phase = "Failed" /\ "Pending" \in Phases /\ "" \in Reasons
      BY <1>4, ZenonT(30) DEF SyncObject, Base, Consistent, Phases, Reasons
  <2>2. \A x \in CSVs \ {c} : csv'[x] = csv[x]
      BY <1>4, <1>a, <2>1, WriteStatus, ZenonT(30) DEF SyncObject
  <2> QED
      BY <1>a, <2>1, <2>2, ZenonT(30) DEF CsvForward, Retired
<1>5. ASSUME NEW c \in CSVs, CreateCSV(c)
      PROVE  CsvForward
    BY <1>5, <1>a, ZenonT(30) DEF CreateCSV, CsvForward, TypeOK
<1>6. ASSUME NEW c \in CSVs, SyncDeleting(c) \/ DeleteCSV(c)
      PROVE  CsvForward
    BY <1>6, <1>c, ZenonT(30) DEF SyncDeleting, DeleteCSV
<1>7. ASSUME NEW c \in CSVs, CacheCSV(c) \/ UpdateMetadata(c)
      PROVE  UNCHANGED csv
    BY <1>7, ZenonT(30) DEF CacheCSV, UpdateMetadata
<1>8. ASSUME NEW d \in Deployments, CacheDeployment(d) \/ DeleteDeployment(d)
      PROVE  UNCHANGED csv
    BY <1>8, ZenonT(30) DEF CacheDeployment, DeleteDeployment
<1>9. Restart => UNCHANGED csv
    BY ZenonT(30) DEF Restart
<1> QED
    BY <1>b, <1>1, <1>2, <1>3, <1>4, <1>5, <1>6, <1>7, <1>8, <1>9, ZenonT(30)
       DEF Next, CSVNext, SyncCSV, LocalStep

LEMMA GateStays ==
    ASSUME Base, GateInv, CsvForward, NEW c \in created, GateOpen(c)
    PROVE  GateOpen(c)'
<1>1. c \in CSVs
    BY ZenonT(30) DEF Base, TypeOK
<1>2. Replaces[c] # None => Replaces[c] \in created
    BY <1>1, ZenonT(30) DEF GateInv
<1> QED
    BY <1>2, ZenonT(30) DEF CsvForward, GateOpen, HasPrevious

LEMMA GateInit == Init => GateInv
<1> USE CSVAssumption
<1> SUFFICES ASSUME Init PROVE GateInv
    BY ZenonT(30)
<1>1. \A c \in CSVs : sync[c].pc = "idle"
    BY ZenonT(30) DEF Init, IdleSync
<1> QED
    BY <1>1, ZenonT(30) DEF Init, GateInv

LEMMA GateStep ==
    ASSUME Base, GateInv, Faults \cap GateFaults = {}, Next
    PROVE  GateInv'
<1> USE CSVAssumption
<1>a. TypeOK /\ Consistent /\ created \subseteq CSVs
    BY ZenonT(30) DEF Base, TypeOK
<1>b. CsvForward
    BY CsvStep, ZenonT(30)
<1>c. \A x \in created : GateOpen(x) => GateOpen(x)'
    BY <1>b, GateStays, ZenonT(30)
<1>d. \A x \in CSVs : /\ csv[x] # None \/ cache[x] # None => x \in created
                      /\ sync[x].pc \in {"gate", "write"} /\ sync[x].fresh => x \in created
    BY <1>a, ZenonT(30) DEF GateInv, Consistent
<1>1. ASSUME NEW c \in CSVs, LocalStep(c)
      PROVE  GateInv'
  <2>1. /\ UNCHANGED <<csv, cache, depcache, created>>
        /\ \A x \in CSVs \ {c} : sync'[x] = sync[x]
        /\ sync'[c].pc \in {"gate", "write"} /\ sync'[c].fresh => csv[c] # None
      BY <1>1, LocalStepSync, ZenonT(30) DEF LocalSync
  <2>2. /\ GateKept(c)
        /\ \A d \in Deployments :
             \/ deployment'[d] = deployment[d]
             \/ deployment'[d] = c /\ c \in created /\ GateOpen(c)
      BY <1>1, LocalGate, ZenonT(30)
  <2>3. \A x \in CSVs, d \in Deployments :
          deployment'[d] = x \/ depcache'[d] = x => x \in created' /\ GateOpen(x)'
      BY <1>c, <2>1, <2>2 DEF GateInv
  <2>4. \A x \in CSVs : x # c =>
          /\ sync'[x].pc = "gate" /\ sync'[x].fresh => csv'[x].phase = "Pending"
          /\ sync'[x].pc = "write" /\ sync'[x].fresh =>
               /\ sync'[x].phase \in Installs => GateOpen(x)'
               /\ csv'[x].phase \in Retired => sync'[x].phase \in Retired
      BY <1>c, <1>d, <2>1, ZenonT(30) DEF GateInv
  <2>5. /\ sync'[c].pc = "gate" /\ sync'[c].fresh => csv'[c].phase = "Pending"
        /\ sync'[c].pc = "write" /\ sync'[c].fresh =>
               /\ sync'[c].phase \in Installs => GateOpen(c)'
               /\ csv'[c].phase \in Retired => sync'[c].phase \in Retired
      BY <1>c, <1>d, <2>1, <2>2, ZenonT(30) DEF GateKept
  <2> QED
      BY <1>c, <1>d, <2>1, <2>3, <2>4, <2>5, ZenonT(30) DEF GateInv
<1>2. ASSUME NEW c \in CSVs, Changed(c),
             UNCHANGED <<cache, deployment, depcache, created>>,
             \A x \in CSVs \ {c} : csv'[x] = csv[x],
             \/ csv'[c] = None
             \/ csv[c] # None /\ csv'[c].phase \in {csv[c].phase, "Pending"}
      PROVE  GateInv'
  <2>1. (\A x \in CSVs \ {c} : sync'[x] = sync[x]) /\ sync'[c].fresh = FALSE
      BY <1>a, <1>2, ChangedSync, ZenonT(30)
  <2> QED
      BY <1>2, <1>c, <1>d, <2>1 DEF GateInv, Installs
<1>3. ASSUME NEW c \in CSVs, SyncDeleting(c) \/ DeleteCSV(c)
      PROVE  GateInv'
  <2>1. csv[c] # None /\ csv' = [csv EXCEPT ![c].deleting = TRUE] /\ Changed(c)
        /\ UNCHANGED <<cache, deployment, depcache, created>>
      BY <1>3, ZenonT(30) DEF SyncDeleting, DeleteCSV
  <2>2. (\A x \in CSVs \ {c} : csv'[x] = csv[x]) /\ csv'[c].phase = csv[c].phase
      BY <1>a, <2>1, MarkDeleted, ZenonT(30)
  <2> QED
      BY <1>2, <2>1, <2>2, ZenonT(30)
<1>4. ASSUME NEW c \in CSVs, ProcessFinalizer(c)
      PROVE  GateInv'
  <2>1. csv' = [csv EXCEPT ![c] = None] /\ Changed(c)
        /\ UNCHANGED <<cache, deployment, depcache, created>>
      BY <1>4, ZenonT(30) DEF ProcessFinalizer
  <2>2. (\A x \in CSVs \ {c} : csv'[x] = csv[x]) /\ csv'[c] = None
      BY <1>a, <2>1, ZenonT(30) DEF TypeOK
  <2> QED
      BY <1>2, <2>1, <2>2, ZenonT(30)
<1>5. ASSUME NEW c \in CSVs, UpdateMetadata(c)
      PROVE  GateInv'
    BY <1>2, <1>5, ZenonT(30) DEF UpdateMetadata
<1>6. ASSUME NEW c \in CSVs, SyncObject(c)
      PROVE  GateInv'
  <2>1. csv[c] # None /\ "Pending" \in Phases /\ "" \in Reasons
        /\ csv' = [csv EXCEPT ![c].phase = "Pending", ![c].reason = ""] /\ Changed(c)
        /\ UNCHANGED <<cache, deployment, depcache, created>>
      BY <1>6, <1>a, ZenonT(30) DEF SyncObject, Consistent, Phases, Reasons
  <2>2. (\A x \in CSVs \ {c} : csv'[x] = csv[x]) /\ csv'[c].phase = "Pending"
      BY <1>a, <2>1, WriteStatus, ZenonT(30)
  <2> QED
      BY <1>2, <2>1, <2>2, ZenonT(30)
<1>7. ASSUME NEW c \in CSVs, UpdateStatus(c)
      PROVE  GateInv'
  <2>0. /\ sync[c] \in Sync /\ sync[c].phase \in Phases /\ sync[c].reason \in Reasons
        /\ IdleSync.pc = "idle"
      BY <1>a, ZenonT(30) DEF TypeOK, Sync, IdleSync
  <2>1. /\ \A x \in CSVs \ {c} : sync'[x] = sync[x]
        /\ sync'[c].pc = "idle"
        /\ UNCHANGED <<cache, deployment, depcache, created>>
      BY <1>a, <1>7, <2>0, ZenonT(30) DEF UpdateStatus, TypeOK
  <2>2. CASE UNCHANGED csv
      BY <1>c, <1>d, <2>1, <2>2, ZenonT(30) DEF GateInv
  <2>3. CASE sync[c].fresh /\ csv' = [csv EXCEPT ![c].phase = sync[c].phase,
                                                  ![c].reason = sync[c].reason]
    <3>1. /\ csv[c] # None /\ c \in created
          /\ sync[c].phase \in Installs => GateOpen(c)
        BY <1>7, <1>a, <1>d, <2>3, ZenonT(30) DEF UpdateStatus, At, Consistent, GateInv
    <3>2. /\ \A x \in CSVs \ {c} : csv'[x] = csv[x]
          /\ csv'[c] # None /\ csv'[c].phase = sync[c].phase
        BY <1>a, <2>0, <2>3, <3>1, WriteStatus, ZenonT(30)
    <3> QED
        BY <1>c, <1>d, <2>1, <3>1, <3>2 DEF GateInv
  <2> QED
      BY <1>7, <2>2, <2>3, ZenonT(30) DEF UpdateStatus
<1>8. ASSUME NEW c \in CSVs, CacheCSV(c)
      PROVE  GateInv'
  <2>1. /\ UNCHANGED <<csv, deployment, depcache, sync, created>>
        /\ cache'[c] = csv[c] /\ \A x \in CSVs \ {c} : cache'[x] = cache[x]
      BY <1>8, <1>a, ZenonT(30) DEF CacheCSV, TypeOK
  <2> QED
      BY <1>c, <1>d, <2>1, ZenonT(30) DEF GateInv
<1>9. ASSUME NEW c \in CSVs, CreateCSV(c)
      PROVE  GateInv'
  <2>1. /\ c \notin created /\ created' = created \cup {c}
        /\ Replaces[c] # None => Replaces[c] \in created
        /\ UNCHANGED <<cache, deployment, depcache, sync>>
        /\ csv'[c].phase = "None" /\ \A x \in CSVs \ {c} : csv'[x] = csv[x]
      BY <1>9, <1>a, ZenonT(30) DEF CreateCSV, TypeOK
  <2>2. ~(sync[c].pc \in {"gate", "write"} /\ sync[c].fresh)
      BY <1>d, <2>1, ZenonT(30)
  <2> QED
      BY <1>c, <1>d, <2>1, <2>2 DEF GateInv, Installs
<1>10. ASSUME NEW d \in Deployments, CacheDeployment(d)
       PROVE  GateInv'
  <2>1. /\ UNCHANGED <<csv, cache, deployment, sync, created>>
        /\ \A e \in Deployments : depcache'[e] \in {depcache[e], deployment[e]}
      BY <1>10, <1>a, ZenonT(30) DEF CacheDeployment, TypeOK
  <2> QED
      BY <1>c, <1>d, <2>1, ZenonT(30) DEF GateInv
<1>11. ASSUME NEW d \in Deployments, DeleteDeployment(d)
       PROVE  GateInv'
  <2>1. /\ UNCHANGED <<csv, cache, depcache, sync, created>>
        /\ \A e \in Deployments : deployment'[e] \in {deployment[e], None}
      BY <1>11, <1>a, ZenonT(30) DEF DeleteDeployment, TypeOK
  <2> QED
      BY <1>c, <1>d, <2>1 DEF GateInv
<1>12. ASSUME Restart
       PROVE  GateInv'
  <2>1. /\ UNCHANGED <<csv, deployment, created>>
        /\ cache' = csv /\ depcache' = deployment
        /\ \A x \in CSVs : sync'[x].pc = "idle"
      BY <1>12, ZenonT(30) DEF Restart, IdleSync
  <2> QED
      BY <1>c, <1>d, <2>1, ZenonT(30) DEF GateInv
<1> QED
    BY <1>1, <1>3, <1>4, <1>5, <1>6, <1>7, <1>8, <1>9, <1>10, <1>11, <1>12, ZenonT(30)
       DEF Next, CSVNext, SyncCSV, LocalStep

(* Unless an OperatorGroup problem, an error of the API server or one of   *)
(* the webhook check intervenes, no CSV of any replacement chain or tree   *)
(* is installed before the one it replaces has given way, with any number  *)
(* of other faults: crashes, conflicts, stale caches, deletions by users.  *)
THEOREM GateSafe ==
    ASSUME Faults \cap GateFaults = {}
    PROVE  Spec => []UpgradeGate
<1> USE CSVAssumption
<1>1. Init => Base /\ GateInv
    BY BaseInit, GateInit, ZenonT(30)
<1>2. Base /\ GateInv /\ [Next]_vars => (Base /\ GateInv)'
  <2> SUFFICES ASSUME Base, GateInv, [Next]_vars PROVE Base' /\ GateInv'
      BY ZenonT(30)
  <2>1. Base'
      BY BaseStep, ZenonT(30)
  <2>2. CASE Next
      BY <2>1, <2>2, GateStep, ZenonT(30)
  <2>3. CASE UNCHANGED vars
    <3>1. \A x \in CSVs : GateOpen(x)' <=> GateOpen(x)
        BY <2>3, ZenonT(30) DEF vars, GateOpen, HasPrevious
    <3> QED
        BY <2>1, <2>3, <3>1, ZenonT(30) DEF vars, GateInv
  <2> QED
      BY <2>2, <2>3, ZenonT(30)
<1>3. Base /\ GateInv => UpgradeGate
  <2> SUFFICES ASSUME Base, GateInv, NEW c \in CSVs,
                      Exists(c, {"InstallReady", "Installing", "Succeeded"}), HasPrevious(c)
               PROVE  Exists(Replaces[c], {"Replacing", "Deleting"})
      BY ZenonT(30) DEF UpgradeGate
  <2>1. GateOpen(c)
      BY ZenonT(30) DEF GateInv, Exists, Installs
  <2> QED
      BY <2>1, ZenonT(30) DEF GateOpen, HasPrevious, Exists, Retired
<1> QED
    BY <1>1, <1>2, <1>3, PTL DEF Spec

-----------------------------------------------------------------------------
(* Deletion after a replacement                                            *)

Justified(c) == \E r \in succeeded : IsNewer(r, c)

(* Every Succeeded phase, in the API server or in the cache, was written,  *)
(* and every Deleting phase, written or about to be, is justified.         *)
DeletingInv ==
    \A c \in CSVs :
        /\ csv[c] # None /\ csv[c].phase = "Succeeded" => c \in succeeded
        /\ cache[c] # None /\ cache[c].phase = "Succeeded" => c \in succeeded
        /\ csv[c] # None /\ csv[c].phase = "Deleting" => Justified(c)
        /\ sync[c].pc = "write" /\ sync[c].phase = "Deleting" => Justified(c)

(* The mapping gives a CSV one of the CSVs that replace it, if there is one *)
LEMMA MappingFacts ==
    ASSUME NEW f \in ReplacementMappings, NEW c \in CSVs
    PROVE  /\ f[c] \subseteq Replacers(c)
           /\ f[c] = {} => Replacers(c) = {}
<1> DEFINE replaced == {x \in CSVs : Replacers(x) # {}}
<1>1. PICK g \in [replaced -> CSVs] :
         /\ \A x \in replaced : g[x] \in Replacers(x)
         /\ f = [x \in CSVs |-> IF x \in replaced THEN {g[x]} ELSE {}]
    BY ZenonT(30) DEF ReplacementMappings
<1>2. CASE c \in replaced
    BY <1>1, <1>2, ZenonT(30)
<1>3. CASE c \notin replaced
    BY <1>1, <1>3, ZenonT(30)
<1> QED
    BY <1>2, <1>3, ZenonT(30)

(* A walk from a replacement of c stays among cached CSVs newer than c *)
LEMMA WalkNewer ==
    ASSUME NEW c \in CSVs, NEW next \in Replacers(c), NEW f \in ReplacementMappings,
           NEW last \in Reach(f, next)
    PROVE  /\ cache[last] # None
           /\ last \in Reach([x \in CSVs |-> {y \in CSVs : Replaces[y] = x}], c)
<1> DEFINE N == [x \in CSVs |-> {y \in CSVs : Replaces[y] = x}]
           C == {x \in CSVs : cache[x] # None}
<1>1. \A x \in CSVs : f[x] \subseteq Replacers(x)
    BY MappingFacts, ZenonT(30)
<1>2. next \in C /\ \A y \in C : f[y] \subseteq C
    BY <1>1, ZenonT(30) DEF Replacers
<1>3. last \in C
    BY <1>2, ZenonT(30) DEF Reach
<1>4. ASSUME NEW S \in SUBSET CSVs, c \in S, \A y \in S : N[y] \subseteq S
      PROVE  last \in S
  <2>1. next \in S
      BY <1>4, ZenonT(30) DEF Replacers
  <2>2. \A y \in S : f[y] \subseteq S
      BY <1>1, <1>4, ZenonT(30) DEF Replacers
  <2> QED
      BY <2>1, <2>2, ZenonT(30) DEF Reach
<1> QED
    BY <1>3, <1>4, ZenonT(30) DEF Reach

(* What the Replacing case takes for a reason to delete is one *)
LEMMA ReplacingJustified ==
    ASSUME DeletingInv, NEW c \in CSVs, NEW next \in Replacers(c),
           NEW last \in IF FailForward THEN WalkReplacementChain(next) ELSE {next},
           IsRunning(last)
    PROVE  Justified(c)
<1> USE CSVAssumption
<1> DEFINE N == [x \in CSVs |-> {y \in CSVs : Replaces[y] = x}]
<1>1. CASE FailForward
  <2>1. PICK f \in ReplacementMappings : last \in Reach(f, next) /\ f[last] = {}
      BY <1>1, ZenonT(30) DEF WalkReplacementChain
  <2>2. cache[last] # None /\ last \in Reach(N, c)
      BY <2>1, WalkNewer, ZenonT(30)
  <2>3. last \in CSVs
      BY <2>2, ZenonT(30) DEF Reach
  <2>4. Replacers(last) = {}
      BY <2>1, <2>3, MappingFacts, ZenonT(30)
  <2>5. last # c
      BY <2>4, ZenonT(30)
  <2>6. last \in succeeded
      BY <2>2, <2>3, ZenonT(30) DEF IsRunning, DeletingInv
  <2> QED
      BY <2>2, <2>5, <2>6, ZenonT(30) DEF Justified, IsNewer, NewerThan
<1>2. CASE ~FailForward
  <2>1. last \in CSVs /\ cache[last] # None /\ Replaces[last] = c
      BY <1>2, ZenonT(30) DEF Replacers
  <2>2. last # c
      BY <2>1, ZenonT(30)
  <2>3. last \in Reach(N, c)
      BY <2>1, ZenonT(30) DEF Reach
  <2>4. last \in succeeded
      BY <2>1, ZenonT(30) DEF IsRunning, DeletingInv
  <2> QED
      BY <2>2, <2>3, <2>4, ZenonT(30) DEF Justified, IsNewer, NewerThan
<1> QED
    BY <1>1, <1>2, ZenonT(30)

LEMMA LocalDeleting ==
    ASSUME Base, DeletingInv, NEW c \in CSVs, LocalStep(c)
    PROVE  sync'[c].pc = "write" /\ sync'[c].phase = "Deleting" => Justified(c)
<1> USE CSVAssumption
<1> DEFINE Goal == sync'[c].pc = "write" /\ sync'[c].phase = "Deleting" => Justified(c)
           Other == Phases \ {"Deleting"}
<1>a. TypeOK /\ sync \in [CSVs -> Sync] /\ sync[c] \in Sync
    BY ZenonT(30) DEF Base, TypeOK
<1>b. {"Pending", "InstallReady", "Installing", "Succeeded", "Failed", "Replacing"}
        \subseteq Other /\ {"", "group", "noretry"} \subseteq Reasons
    BY ZenonT(30) DEF Phases, Reasons
<1>c. \A phase \in Other, reason \in Reasons : Status(c, phase, reason) => Goal
  <2> SUFFICES ASSUME NEW phase \in Other, NEW reason \in Reasons, Status(c, phase, reason)
               PROVE  Goal
      BY ZenonT(30)
  <2>1. sync'[c].pc = "write" => sync'[c].phase = phase
      BY <1>a, StatusSync, ZenonT(30)
  <2> QED
      BY <2>1, ZenonT(30)
<1>d. UNCHANGED sync => Goal
    BY ZenonT(30) DEF DeletingInv
<1>e. \A s : s.pc # "write" /\ sync' = [sync EXCEPT ![c] = s] => Goal
    BY <1>a, ZenonT(30)
<1>f. \A phase \in Other :
        cache[c].phase \in Other /\ UpdateInstallStatus(c, phase) => Goal
    BY <1>b, <1>c, ZenonT(30) DEF UpdateInstallStatus
<1>g. ASSUME Status(c, "Deleting", ""), Justified(c)
      PROVE  Goal
    BY <1>g, ZenonT(30)
<1> SUFFICES Goal
    BY ZenonT(30)
<1> HIDE DEF Goal, Other
<1>1. CASE GroupProblem(c)
    BY <1>1, <1>b, <1>c, ZenonT(30) DEF GroupProblem
<1>2. CASE SyncNone(c)
    BY <1>2, <1>b, <1>c, ZenonT(30) DEF SyncNone
<1>3. CASE SyncPending(c)
  <2>1. [IdleSync EXCEPT !.pc = "gate", !.fresh = c \notin stale].pc # "write"
      BY ZenonT(30) DEF IdleSync
  <2> QED
      BY <1>3, <1>b, <1>c, <1>e, <2>1, ZenonT(30) DEF SyncPending
<1>4. CASE SyncInstallReady(c)
    BY <1>4, <1>b, <1>c, ZenonT(30) DEF SyncInstallReady
<1>5. CASE SyncInstalling(c)
  <2>1. cache[c].phase \in Other
      BY <1>5, <1>b, ZenonT(30) DEF SyncInstalling, Syncing
  <2> QED
      BY <1>5, <1>b, <1>c, <1>f, <2>1, ZenonT(30) DEF SyncInstalling
<1>6. CASE SyncSucceeded(c)
  <2>1. cache[c].phase \in Other
      BY <1>6, <1>b, ZenonT(30) DEF SyncSucceeded, Syncing
  <2> QED
      BY <1>6, <1>b, <1>c, <1>f, <2>1, ZenonT(30) DEF SyncSucceeded
<1>7. CASE SyncFailed(c)
  <2>1. cache[c].phase \in Other
      BY <1>7, <1>b, ZenonT(30) DEF SyncFailed, Syncing
  <2> QED
      BY <1>7, <1>b, <1>c, <1>f, <2>1, ZenonT(30) DEF SyncFailed
<1>8. CASE SyncReplacing(c)
  <2>1. [IdleSync EXCEPT !.pc = "panic"].pc # "write"
      BY ZenonT(30) DEF IdleSync
  <2>2. ASSUME NEW next \in Replacers(c),
               NEW last \in IF FailForward THEN WalkReplacementChain(next) ELSE {next},
               IF IsRunning(last) THEN Status(c, "Deleting", "") ELSE UNCHANGED sync
        PROVE  Goal
      BY <1>d, <1>g, <2>2, ReplacingJustified, ZenonT(30)
  <2> QED
      BY <1>8, <1>d, <1>e, <2>1, <2>2, ZenonT(30) DEF SyncReplacing
<1>9. CASE Gate(c)
  <2>1. IdleSync.pc # "write"
      BY ZenonT(30) DEF IdleSync
  <2>2. ASSUME sync' = [sync EXCEPT ![c].pc = "write", ![c].phase = "InstallReady"]
        PROVE  Goal
    <3>1. sync'[c] = [sync[c] EXCEPT !.pc = "write", !.phase = "InstallReady"]
        BY <1>a, <2>2, ZenonT(30)
    <3>2. sync'[c].phase = "InstallReady"
        BY <1>a, <3>1, ZenonT(30) DEF Sync
    <3> QED
        BY <3>2, ZenonT(30) DEF Goal
  <2> QED
      BY <1>9, <1>e, <2>1, <2>2, ZenonT(30) DEF Gate
<1> QED
    BY <1>1, <1>2, <1>3, <1>4, <1>5, <1>6, <1>7, <1>8, <1>9, ZenonT(30) DEF LocalStep

LEMMA DeletingStep ==
    ASSUME Base, DeletingInv, Next
    PROVE  DeletingInv'
<1> USE CSVAssumption
<1>a. TypeOK /\ Consistent
    BY ZenonT(30) DEF Base
<1>b. ASSUME succeeded \subseteq succeeded'
      PROVE  \A x \in CSVs : Justified(x) => Justified(x)'
    BY <1>b, ZenonT(30) DEF Justified, IsNewer, Reach
<1>1. ASSUME NEW c \in CSVs, LocalStep(c)
      PROVE  DeletingInv'
  <2>1. /\ UNCHANGED <<csv, cache, succeeded>>
        /\ \A x \in CSVs \ {c} : sync'[x] = sync[x]
      BY <1>1, LocalStepSync, ZenonT(30) DEF LocalSync
  <2>2. sync'[c].pc = "write" /\ sync'[c].phase = "Deleting" => Justified(c)
      BY <1>1, LocalDeleting, ZenonT(30)
  <2>3. \A x \in CSVs : Justified(x) => Justified(x)'
      BY <1>b, <2>1, ZenonT(30)
  <2> QED
      BY <2>1, <2>2, <2>3, ZenonT(30) DEF DeletingInv
<1>2. ASSUME NEW c \in CSVs, Changed(c), UNCHANGED <<cache, succeeded>>,
             \A x \in CSVs \ {c} : csv'[x] = csv[x],
             \/ csv'[c] = None
             \/ csv[c] # None /\ csv'[c].phase \in {csv[c].phase, "Pending"}
      PROVE  DeletingInv'
  <2>1. /\ \A x \in CSVs \ {c} : sync'[x] = sync[x]
        /\ sync'[c].pc = sync[c].pc /\ sync'[c].phase = sync[c].phase
      BY <1>a, <1>2, ChangedSync, ZenonT(30)
  <2>2. \A x \in CSVs : Justified(x) => Justified(x)'
      BY <1>b, <1>2, ZenonT(30)
  <2> QED
      BY <1>2, <2>1, <2>2 DEF DeletingInv
<1>3. ASSUME NEW c \in CSVs, SyncDeleting(c) \/ DeleteCSV(c)
      PROVE  DeletingInv'
  <2>1. csv[c] # None /\ csv' = [csv EXCEPT ![c].deleting = TRUE] /\ Changed(c)
        /\ UNCHANGED <<cache, succeeded>>
      BY <1>3, ZenonT(30) DEF SyncDeleting, DeleteCSV
  <2>2. (\A x \in CSVs \ {c} : csv'[x] = csv[x]) /\ csv'[c].phase = csv[c].phase
      BY <1>a, <2>1, MarkDeleted, ZenonT(30)
  <2> QED
      BY <1>2, <2>1, <2>2, ZenonT(30)
<1>4. ASSUME NEW c \in CSVs, ProcessFinalizer(c)
      PROVE  DeletingInv'
  <2>1. csv' = [csv EXCEPT ![c] = None] /\ Changed(c) /\ UNCHANGED <<cache, succeeded>>
      BY <1>4, ZenonT(30) DEF ProcessFinalizer
  <2>2. (\A x \in CSVs \ {c} : csv'[x] = csv[x]) /\ csv'[c] = None
      BY <1>a, <2>1, ZenonT(30) DEF TypeOK
  <2> QED
      BY <1>2, <2>1, <2>2, ZenonT(30)
<1>5. ASSUME NEW c \in CSVs, UpdateMetadata(c)
      PROVE  DeletingInv'
    BY <1>2, <1>5, ZenonT(30) DEF UpdateMetadata
<1>6. ASSUME NEW c \in CSVs, SyncObject(c)
      PROVE  DeletingInv'
  <2>1. csv[c] # None /\ "Pending" \in Phases /\ "" \in Reasons
        /\ csv' = [csv EXCEPT ![c].phase = "Pending", ![c].reason = ""] /\ Changed(c)
        /\ UNCHANGED <<cache, succeeded>>
      BY <1>6, <1>a, ZenonT(30) DEF SyncObject, Consistent, Phases, Reasons
  <2>2. (\A x \in CSVs \ {c} : csv'[x] = csv[x]) /\ csv'[c].phase = "Pending"
      BY <1>a, <2>1, WriteStatus, ZenonT(30)
  <2> QED
      BY <1>2, <2>1, <2>2, ZenonT(30)
<1>7. ASSUME NEW c \in CSVs, UpdateStatus(c)
      PROVE  DeletingInv'
  <2>0. /\ sync[c] \in Sync /\ sync[c].phase \in Phases /\ sync[c].reason \in Reasons
        /\ IdleSync.pc = "idle" /\ sync[c].pc = "write"
      BY <1>a, <1>7, ZenonT(30) DEF TypeOK, Sync, IdleSync, UpdateStatus, At
  <2>1. /\ \A x \in CSVs \ {c} : sync'[x] = sync[x]
        /\ sync'[c].pc = "idle" /\ UNCHANGED cache
      BY <1>a, <1>7, <2>0, ZenonT(30) DEF UpdateStatus, TypeOK
  <2>2. /\ \A x \in CSVs : Justified(x) => Justified(x)'
        /\ succeeded \subseteq succeeded'
    <3>1. succeeded \subseteq succeeded'
        BY <1>7, ZenonT(30) DEF UpdateStatus
    <3> QED
        BY <1>b, <3>1, ZenonT(30)
  <2>3. CASE UNCHANGED csv
      BY <2>1, <2>2, <2>3, ZenonT(30) DEF DeletingInv
  <2>4. CASE /\ sync[c].fresh
             /\ csv' = [csv EXCEPT ![c].phase = sync[c].phase, ![c].reason = sync[c].reason]
             /\ succeeded' = IF sync[c].phase = "Succeeded" THEN succeeded \cup {c} ELSE succeeded
    <3>1. csv[c] # None
        BY <1>a, <2>0, <2>4, ZenonT(30) DEF Consistent
    <3>2. /\ \A x \in CSVs \ {c} : csv'[x] = csv[x]
          /\ csv'[c] # None /\ csv'[c].phase = sync[c].phase
        BY <1>a, <2>0, <2>4, <3>1, WriteStatus, ZenonT(30)
    <3>3. csv'[c].phase = "Succeeded" => c \in succeeded'
        BY <2>4, <3>2, ZenonT(30)
    <3> QED
        BY <2>0, <2>1, <2>2, <3>2, <3>3, ZenonT(30) DEF DeletingInv
  <2> QED
      BY <1>7, <2>3, <2>4, ZenonT(30) DEF UpdateStatus
<1>8. ASSUME NEW c \in CSVs, CacheCSV(c)
      PROVE  DeletingInv'
  <2>1. /\ UNCHANGED <<csv, sync, succeeded>>
        /\ cache'[c] = csv[c] /\ \A x \in CSVs \ {c} : cache'[x] = cache[x]
      BY <1>8, <1>a, ZenonT(30) DEF CacheCSV, TypeOK
  <2>2. \A x \in CSVs : Justified(x) => Justified(x)'
      BY <1>b, <2>1, ZenonT(30)
  <2> QED
      BY <2>1, <2>2, ZenonT(30) DEF DeletingInv
<1>9. ASSUME NEW c \in CSVs, CreateCSV(c)
      PROVE  DeletingInv'
  <2>1. /\ UNCHANGED <<cache, sync, succeeded>>
        /\ csv'[c].phase = "None" /\ \A x \in CSVs \ {c} : csv'[x] = csv[x]
      BY <1>9, <1>a, ZenonT(30) DEF CreateCSV, TypeOK
  <2>2. \A x \in CSVs : Justified(x) => Justified(x)'
      BY <1>b, <2>1, ZenonT(30)
  <2> QED
      BY <2>1, <2>2, ZenonT(30) DEF DeletingInv
<1>10. ASSUME UNCHANGED <<csv, cache, sync, succeeded>>
       PROVE  DeletingInv'
  <2>1. \A x \in CSVs : Justified(x) => Justified(x)'
      BY <1>b, <1>10, ZenonT(30)
  <2> QED
      BY <1>10, <2>1, ZenonT(30) DEF DeletingInv
<1>11. ASSUME NEW d \in Deployments, CacheDeployment(d) \/ DeleteDeployment(d)
       PROVE  DeletingInv'
    BY <1>10, <1>11, ZenonT(30) DEF CacheDeployment, DeleteDeployment
<1>12. ASSUME Restart
       PROVE  DeletingInv'
  <2>1. /\ UNCHANGED <<csv, succeeded>> /\ cache' = csv
        /\ \A x \in CSVs : sync'[x].pc = "idle"
      BY <1>12, ZenonT(30) DEF Restart, IdleSync
  <2>2. \A x \in CSVs : Justified(x) => Justified(x)'
      BY <1>b, <2>1, ZenonT(30)
  <2> QED
      BY <2>1, <2>2, ZenonT(30) DEF DeletingInv
<1> QED
    BY <1>1, <1>3, <1>4, <1>5, <1>6, <1>7, <1>8, <1>9, <1>11, <1>12, ZenonT(30)
       DEF Next, CSVNext, SyncCSV, LocalStep

(* Whatever goes wrong, in chains, trees and cycles of replacements, with  *)
(* and without fail forward, a CSV is marked for deletion only when one    *)
(* that replaces it was Succeeded.                                         *)
THEOREM DeletingSafe == Spec => []ReplacedBySucceeded
<1> USE CSVAssumption
<1>1. Init => Base /\ DeletingInv
  <2> SUFFICES ASSUME Init PROVE Base /\ DeletingInv
      BY ZenonT(30)
  <2>1. Base /\ \A c \in CSVs : sync[c].pc = "idle"
      BY BaseInit, ZenonT(30) DEF Init, IdleSync
  <2> QED
      BY <2>1, ZenonT(30) DEF Init, DeletingInv
<1>2. Base /\ DeletingInv /\ [Next]_vars => (Base /\ DeletingInv)'
  <2> SUFFICES ASSUME Base, DeletingInv, [Next]_vars PROVE Base' /\ DeletingInv'
      BY ZenonT(30)
  <2>1. Base'
      BY BaseStep, ZenonT(30)
  <2>2. CASE Next
      BY <2>1, <2>2, DeletingStep, ZenonT(30)
  <2>3. CASE UNCHANGED vars
    <3>1. \A x \in CSVs : Justified(x)' <=> Justified(x)
        BY <2>3, ZenonT(30) DEF vars, Justified
    <3> QED
        BY <2>1, <2>3, <3>1, ZenonT(30) DEF vars, DeletingInv
  <2> QED
      BY <2>2, <2>3, ZenonT(30)
<1>3. Base /\ DeletingInv => ReplacedBySucceeded
    BY ZenonT(30) DEF DeletingInv, ReplacedBySucceeded, Exists, Justified
<1> QED
    BY <1>1, <1>2, <1>3, PTL DEF Spec

-----------------------------------------------------------------------------
(* The steps of the model, as what they do to each CSV                     *)

(* What a local step leaves for the next step of the sync: a panic, the    *)
(* gate, or a status to write, each with the reason the code has for it.   *)
Outcome(c) ==
    /\ sync'[c].pc = "panic" => Syncing(c, "Replacing") /\ Replacers(c) = {}
    /\ sync'[c].pc = "gate" =>
         /\ Syncing(c, "Pending")
         /\ sync'[c].fresh = (c \notin stale)
         /\ \E chain \in GetReplacementChains(c) : ~CRDOwnerConflict(c, chain)
    /\ sync'[c].pc = "write" =>
         /\ \/ cache[c] # None /\ sync'[c].fresh = (c \notin stale)
            \/ /\ sync[c].pc = "gate" /\ sync'[c].fresh = sync[c].fresh
               /\ sync'[c].phase = "InstallReady"
         /\ sync'[c].phase = "Deleting" =>
              Syncing(c, "Replacing") /\ (IsLeaf(c) \/ "get" \in Faults)
         /\ sync'[c].phase = "Replacing" =>
              /\ Replacers(c) # {}
              /\ cache[c].phase = "Succeeded" \/ FailForward
         /\ sync'[c].phase \in Installs =>
              \/ sync[c].pc = "gate" \/ "webhook" \in Faults
              \/ cache[c].phase \in Installs \/ depcache[Deploys[c]] = c

LocalShape(c) ==
    /\ UNCHANGED <<csv, cache, stale, depcache, created, succeeded>>
    /\ \A x \in CSVs \ {c} : sync'[x] = sync[x]
    /\ Outcome(c)
    /\ \A d \in Deployments :
         \/ deployment'[d] = deployment[d] \/ deployment'[d] = None
         \/ deployment'[d] = c /\ Syncing(c, "InstallReady")

(* The object is marked for deletion, removed, or changed by others than   *)
(* its own sync.                                                           *)
ChangeShape(c) ==
    /\ UNCHANGED <<cache, deployment, depcache, created, succeeded>>
    /\ stale' = stale \cup {c}
    /\ \A x \in CSVs \ {c} : csv'[x] = csv[x] /\ sync'[x] = sync[x]
    /\ sync'[c].pc = sync[c].pc /\ sync'[c].phase = sync[c].phase /\ ~sync'[c].fresh
    /\ \/ csv'[c] = csv[c]
       \/ /\ csv[c] # None /\ csv'[c] # None /\ csv'[c].phase = csv[c].phase
          /\ Syncing(c, "Deleting") \/ "delete" \in Faults
       \/ /\ csv[c] # None /\ csv'[c] = None
          /\ cache[c] = csv[c] /\ csv[c].deleting
       \/ /\ csv[c] # None /\ csv[c].phase = "Failed"
          /\ csv'[c] # None /\ csv'[c].phase = "Pending" /\ csv'[c].deleting = csv[c].deleting

WriteShape(c) ==
    /\ UNCHANGED <<cache, deployment, depcache, created>>
    /\ \A x \in CSVs \ {c} : csv'[x] = csv[x] /\ sync'[x] = sync[x]
    /\ sync[c].pc = "write" /\ sync'[c].pc = "idle"
    /\ \/ csv'[c] = csv[c] /\ UNCHANGED <<stale, succeeded>>
       \/ /\ sync[c].fresh /\ csv[c] # None
          /\ csv'[c] # None /\ csv'[c].phase = sync[c].phase /\ csv'[c].deleting = csv[c].deleting
          /\ stale' = stale \cup {c}
          /\ succeeded' = IF sync[c].phase = "Succeeded" THEN succeeded \cup {c} ELSE succeeded

CacheShape(c) ==
    /\ UNCHANGED <<csv, deployment, depcache, sync, created, succeeded>>
    /\ stale' = stale \ {c}
    /\ \A x \in CSVs : cache'[x] = IF x = c THEN csv[c] ELSE cache[x]

CreateShape(c) ==
    /\ UNCHANGED <<cache, deployment, depcache, sync, succeeded>>
    /\ c \notin created /\ (Replaces[c] # None => Replaces[c] \in created)
    /\ created' = created \cup {c} /\ stale' = stale \cup {c}
    /\ \A x \in CSVs \ {c} : csv'[x] = csv[x]
    /\ csv'[c] # None /\ csv'[c].phase = "None" /\ ~csv'[c].deleting

DeployShape ==
    /\ UNCHANGED <<csv, cache, stale, sync, created, succeeded>>
    /\ \A d \in Deployments :
         /\ deployment'[d] \in {deployment[d], None}
         /\ depcache'[d] \in {depcache[d], deployment[d]}

RestartShape ==
    /\ UNCHANGED <<csv, deployment, created, succeeded>>
    /\ cache' = csv /\ stale' = {} /\ depcache' = deployment
    /\ \A x \in CSVs : sync'[x].pc = "idle"

LEMMA StatusOutcome ==
    ASSUME Base, NEW c \in CSVs, cache[c] # None, sync[c].pc = "idle",
           NEW phase \in Phases, NEW reason \in Reasons, Status(c, phase, reason),
           phase = "Deleting" => Syncing(c, "Replacing") /\ (IsLeaf(c) \/ "get" \in Faults),
           phase = "Replacing" => Replacers(c) # {} /\ (cache[c].phase = "Succeeded" \/ FailForward),
           phase \in Installs => \/ "webhook" \in Faults \/ cache[c].phase \in Installs
                                 \/ depcache[Deploys[c]] = c
    PROVE  Outcome(c)
<1>1. /\ sync'[c].pc \in {"idle", "write"}
      /\ sync'[c].pc = "write" => sync'[c].phase = phase /\ sync'[c].fresh = (c \notin stale)
    BY StatusSync, ZenonT(30) DEF Base
<1> QED
    BY <1>1, ZenonT(30) DEF Outcome

LEMMA InstallStatusOutcome ==
    ASSUME Base, NEW c \in CSVs, cache[c] # None, sync[c].pc = "idle",
           cache[c].phase \notin Retired, NEW requeuePhase \in Phases,
           requeuePhase \notin Retired,
           requeuePhase \in Installs => cache[c].phase \in Installs,
           UpdateInstallStatus(c, requeuePhase)
    PROVE  Outcome(c)
<1>1. cache[c].phase \in Phases /\ {"Succeeded", "Failed", "InstallReady"} \subseteq Phases
      /\ "" \in Reasons /\ "Failed" \notin Installs
    BY ZenonT(30) DEF Base, TypeOK, Csv, Phases, Reasons, Installs
<1>2. Fault("webhook") => "webhook" \in Faults
    BY ZenonT(30) DEF Fault
<1>3. PICK phase \in Phases : Status(c, phase, "") /\ phase \notin Retired
            /\ (phase \in Installs => \/ "webhook" \in Faults \/ cache[c].phase \in Installs
                                      \/ depcache[Deploys[c]] = c)
    BY <1>1, <1>2, ZenonT(30) DEF UpdateInstallStatus, Retired
<1> QED
    BY <1>1, <1>3, StatusOutcome, ZenonT(30) DEF Retired

LEMMA LocalStepShape ==
    ASSUME Base, NEW c \in CSVs, LocalStep(c)
    PROVE  LocalShape(c)
<1> USE CSVAssumption DEF Installs, Retired
<1> DEFINE Kept == \A d \in Deployments : deployment'[d] = deployment[d]
<1>a. {"Pending", "InstallReady", "Installing", "Succeeded", "Failed", "Replacing", "Deleting"}
        \subseteq Phases /\ {"", "noretry", "group"} \subseteq Reasons
    BY ZenonT(30) DEF Phases, Reasons
<1>b. TypeOK /\ sync \in [CSVs -> Sync] /\ sync[c] \in Sync
    BY ZenonT(30) DEF Base, TypeOK
<1>c. \A phase \in Phases, reason \in Reasons :
        /\ cache[c] # None /\ sync[c].pc = "idle"
        /\ phase \notin Retired
        /\ phase \in Installs => cache[c].phase \in Installs
        /\ Status(c, phase, reason)
        => Outcome(c)
    BY StatusOutcome, ZenonT(30)
<1>d. \A phase \in Phases :
        /\ cache[c] # None /\ sync[c].pc = "idle"
        /\ cache[c].phase \notin Retired /\ phase \notin Retired
        /\ phase \in Installs => cache[c].phase \in Installs
        /\ UpdateInstallStatus(c, phase)
        => Outcome(c)
    BY InstallStatusOutcome, ZenonT(30)
<1>e. \A s : s.pc = "idle" /\ sync' = [sync EXCEPT ![c] = s] => Outcome(c)
    BY <1>b, ZenonT(30) DEF Outcome
<1>f. UNCHANGED deployment => Kept
    BY ZenonT(30)
<1>g. IdleSync.pc = "idle"
    BY ZenonT(30) DEF IdleSync
<1>h. UNCHANGED sync /\ sync[c].pc = "idle" => Outcome(c)
    BY ZenonT(30) DEF Outcome
<1> HIDE DEF Kept
<1>1. ASSUME GroupProblem(c) PROVE Outcome(c)
  <2>1. cache[c] # None /\ sync[c].pc = "idle" /\ Status(c, "Failed", "group")
      BY <1>1, ZenonT(30) DEF GroupProblem, Syncing, At
  <2> QED
      BY <1>a, <1>c, <2>1, ZenonT(30)
<1>2. ASSUME SyncNone(c) PROVE Outcome(c) /\ Kept
    BY <1>2, <1>a, <1>c, <1>f, ZenonT(30) DEF SyncNone, Syncing, At
<1>3. ASSUME SyncPending(c) PROVE Outcome(c) /\ Kept
  <2> DEFINE s == [IdleSync EXCEPT !.pc = "gate", !.fresh = c \notin stale]
  <2>1. ASSUME NEW chain \in GetReplacementChains(c), ~CRDOwnerConflict(c, chain),
               sync' = [sync EXCEPT ![c] = s]
        PROVE  Outcome(c)
    <3>1. sync'[c] = s
        BY <1>b, <2>1, ZenonT(30)
    <3>2. s.pc = "gate" /\ s.fresh = (c \notin stale)
        BY ZenonT(30) DEF IdleSync
    <3>3. Syncing(c, "Pending")
        BY <1>3, ZenonT(30) DEF SyncPending
    <3> HIDE DEF s
    <3> QED
        BY <2>1, <3>1, <3>2, <3>3, ZenonT(30) DEF Outcome
  <2>2. cache[c] # None /\ sync[c].pc = "idle"
      BY <1>3, ZenonT(30) DEF SyncPending, Syncing, At
  <2> HIDE DEF s
  <2> QED
      BY <1>3, <1>a, <1>c, <1>f, <2>1, <2>2, ZenonT(30) DEF SyncPending, s
<1>4. ASSUME SyncInstallReady(c) PROVE Outcome(c)
  <2>1. cache[c] # None /\ cache[c].phase = "InstallReady" /\ sync[c].pc = "idle"
      BY <1>4, ZenonT(30) DEF SyncInstallReady, Syncing, At
  <2> QED
      BY <1>4, <1>a, <1>c, <2>1, ZenonT(30) DEF SyncInstallReady
<1>5. ASSUME SyncInstalling(c) PROVE Outcome(c) /\ Kept
  <2>1. cache[c] # None /\ cache[c].phase = "Installing" /\ sync[c].pc = "idle"
      BY <1>5, ZenonT(30) DEF SyncInstalling, Syncing, At
  <2> QED
      BY <1>5, <1>a, <1>c, <1>d, <1>f, <2>1, ZenonT(30) DEF SyncInstalling
<1>6. ASSUME SyncSucceeded(c) PROVE Outcome(c) /\ Kept
  <2>1. cache[c] # None /\ cache[c].phase = "Succeeded" /\ sync[c].pc = "idle"
      BY <1>6, ZenonT(30) DEF SyncSucceeded, Syncing, At
  <2>2. Replacers(c) # {} /\ Status(c, "Replacing", "") => Outcome(c)
      BY <1>a, <2>1, StatusOutcome, ZenonT(30)
  <2> QED
      BY <1>6, <1>a, <1>c, <1>d, <1>f, <2>1, <2>2, ZenonT(30) DEF SyncSucceeded
<1>7. ASSUME SyncFailed(c) PROVE Outcome(c) /\ Kept
  <2>1. cache[c] # None /\ cache[c].phase = "Failed" /\ sync[c].pc = "idle"
      BY <1>7, ZenonT(30) DEF SyncFailed, Syncing, At
  <2>2. FailForward /\ Replacers(c) # {} /\ Status(c, "Replacing", "") => Outcome(c)
      BY <1>a, <2>1, StatusOutcome, ZenonT(30)
  <2> QED
      BY <1>7, <1>a, <1>c, <1>d, <1>f, <2>1, <2>2, ZenonT(30) DEF SyncFailed
<1>8. ASSUME SyncReplacing(c) PROVE Outcome(c) /\ Kept
  <2> DEFINE s == [IdleSync EXCEPT !.pc = "panic"]
  <2>1. cache[c] # None /\ sync[c].pc = "idle" /\ Syncing(c, "Replacing")
      BY <1>8, ZenonT(30) DEF SyncReplacing, Syncing, At
  <2>2. ASSUME sync' = [sync EXCEPT ![c] = s], Replacers(c) = {} PROVE Outcome(c)
    <3>1. sync'[c].pc = "panic"
        BY <1>b, <2>2, ZenonT(30) DEF IdleSync
    <3> QED
        BY <2>1, <2>2, <3>1, ZenonT(30) DEF Outcome
  <2>3. ASSUME Status(c, "Deleting", ""), IsLeaf(c) \/ "get" \in Faults PROVE Outcome(c)
      BY <1>a, <2>1, <2>3, StatusOutcome, ZenonT(30)
  <2>4. Fault("get") => "get" \in Faults
      BY ZenonT(30) DEF Fault
  <2> HIDE DEF s
  <2> QED
      BY <1>8, <1>f, <1>h, <2>1, <2>2, <2>3, <2>4, ZenonT(30) DEF SyncReplacing, s
<1>9. ASSUME Gate(c) PROVE Outcome(c) /\ Kept
  <2>1. ASSUME sync' = [sync EXCEPT ![c].pc = "write", ![c].phase = "InstallReady"]
        PROVE  Outcome(c)
    <3>1. sync'[c] = [sync[c] EXCEPT !.pc = "write", !.phase = "InstallReady"]
        BY <1>b, <2>1, ZenonT(30)
    <3>2. sync'[c].pc = "write" /\ sync'[c].phase = "InstallReady"
          /\ sync'[c].fresh = sync[c].fresh
        BY <1>b, <3>1, ZenonT(30) DEF Sync
    <3>3. sync[c].pc = "gate"
        BY <1>9, ZenonT(30) DEF Gate, At
    <3> QED
        BY <3>2, <3>3, ZenonT(30) DEF Outcome
  <2> QED
      BY <1>9, <1>e, <1>f, <1>g, <2>1, ZenonT(30) DEF Gate
<1>10. \A d \in Deployments :
          \/ deployment'[d] = deployment[d] \/ deployment'[d] = None
          \/ deployment'[d] = c /\ Syncing(c, "InstallReady")
  <2>1. CASE GroupProblem(c)
      BY <1>b, <2>1, ZenonT(30) DEF GroupProblem, TypeOK
  <2>2. CASE SyncInstallReady(c)
    <3>1. deployment' \in {deployment, Deployed(c)} /\ Syncing(c, "InstallReady")
        BY <2>2, ZenonT(30) DEF SyncInstallReady
    <3> QED
        BY <1>b, <3>1, ZenonT(30) DEF Deployed, TypeOK
  <2> QED
      BY <2>1, <2>2, <1>2, <1>3, <1>5, <1>6, <1>7, <1>8, <1>9, ZenonT(30) DEF LocalStep, Kept
<1>11. Outcome(c)
    BY <1>1, <1>2, <1>3, <1>4, <1>5, <1>6, <1>7, <1>8, <1>9, ZenonT(30) DEF LocalStep
<1>12. /\ UNCHANGED <<csv, cache, stale, depcache, created, succeeded>>
       /\ \A x \in CSVs \ {c} : sync'[x] = sync[x]
    BY LocalStepSync, ZenonT(30) DEF LocalSync
<1> QED
    BY <1>10, <1>11, <1>12, ZenonT(30) DEF LocalShape

LEMMA ChangeStepShape ==
    ASSUME Base, NEW c \in CSVs,
           \/ SyncDeleting(c) \/ DeleteCSV(c) \/ ProcessFinalizer(c)
           \/ UpdateMetadata(c) \/ SyncObject(c)
    PROVE  ChangeShape(c)
<1> USE CSVAssumption
<1>a. TypeOK /\ Consistent
    BY ZenonT(30) DEF Base
<1>1. Changed(c) /\ UNCHANGED <<cache, deployment, depcache, created, succeeded>>
    BY ZenonT(30) DEF SyncDeleting, DeleteCSV, ProcessFinalizer, UpdateMetadata, SyncObject
<1>2. /\ stale' = stale \cup {c}
      /\ \A x \in CSVs \ {c} : sync'[x] = sync[x]
      /\ sync'[c].pc = sync[c].pc /\ sync'[c].phase = sync[c].phase /\ ~sync'[c].fresh
    BY <1>1, <1>a, ChangedSync, ZenonT(30)
<1>3. ASSUME SyncDeleting(c) \/ DeleteCSV(c)
      PROVE  /\ \A x \in CSVs \ {c} : csv'[x] = csv[x]
             /\ csv[c] # None /\ csv'[c] # None /\ csv'[c].phase = csv[c].phase
             /\ Syncing(c, "Deleting") \/ "delete" \in Faults
  <2>1. csv[c] # None /\ csv' = [csv EXCEPT ![c].deleting = TRUE]
        /\ (Syncing(c, "Deleting") \/ "delete" \in Faults)
      BY <1>3, ZenonT(30) DEF SyncDeleting, DeleteCSV, Fault
  <2> QED
      BY <1>a, <2>1, MarkDeleted, ZenonT(30)
<1>4. ASSUME ProcessFinalizer(c)
      PROVE  /\ \A x \in CSVs \ {c} : csv'[x] = csv[x]
             /\ csv[c] # None /\ csv'[c] = None /\ cache[c] = csv[c] /\ csv[c].deleting
    BY <1>4, <1>a, ZenonT(30) DEF ProcessFinalizer, Consistent, TypeOK
<1>5. ASSUME UpdateMetadata(c)
      PROVE  (\A x \in CSVs \ {c} : csv'[x] = csv[x]) /\ csv'[c] = csv[c]
    BY <1>5, ZenonT(30) DEF UpdateMetadata
<1>6. ASSUME SyncObject(c)
      PROVE  /\ \A x \in CSVs \ {c} : csv'[x] = csv[x]
             /\ csv[c] # None /\ csv[c].phase = "Failed" /\ csv'[c] # None
             /\ csv'[c].phase = "Pending" /\ csv'[c].deleting = csv[c].deleting
  <2>1. /\ csv[c] # None /\ csv[c].phase = "Failed" /\ "Pending" \in Phases /\ "" \in Reasons
        /\ csv' = [csv EXCEPT ![c].phase = "Pending", ![c].reason = ""]
      BY <1>6, <1>a, ZenonT(30) DEF SyncObject, Consistent, Phases, Reasons
  <2> QED
      BY <1>a, <2>1, WriteStatus, ZenonT(30)
<1> QED
    BY <1>1, <1>2, <1>3, <1>4, <1>5, <1>6, ZenonT(30) DEF ChangeShape

LEMMA WriteStepShape ==
    ASSUME Base, NEW c \in CSVs, UpdateStatus(c)
    PROVE  WriteShape(c)
<1>a. TypeOK /\ Consistent
    BY ZenonT(30) DEF Base
<1>1. /\ sync[c] \in Sync /\ sync[c].phase \in Phases /\ sync[c].reason \in Reasons
      /\ IdleSync.pc = "idle" /\ sync[c].pc = "write"
    BY <1>a, ZenonT(30) DEF TypeOK, Sync, IdleSync, UpdateStatus, At
<1>2. /\ \A x \in CSVs \ {c} : sync'[x] = sync[x]
      /\ sync'[c].pc = "idle" /\ UNCHANGED <<cache, deployment, depcache, created>>
    BY <1>a, <1>1, ZenonT(30) DEF UpdateStatus, TypeOK
<1>3. CASE UNCHANGED <<csv, stale, succeeded>>
    BY <1>1, <1>2, <1>3, ZenonT(30) DEF WriteShape
<1>4. CASE /\ sync[c].fresh
           /\ csv' = [csv EXCEPT ![c].phase = sync[c].phase, ![c].reason = sync[c].reason]
           /\ stale' = stale \cup {c}
           /\ succeeded' = IF sync[c].phase = "Succeeded" THEN succeeded \cup {c} ELSE succeeded
  <2>1. csv[c] # None
      BY <1>a, <1>1, <1>4, ZenonT(30) DEF Consistent
  <2>2. /\ \A x \in CSVs \ {c} : csv'[x] = csv[x]
        /\ csv'[c] # None /\ csv'[c].phase = sync[c].phase /\ csv'[c].deleting = csv[c].deleting
      BY <1>a, <1>1, <1>4, <2>1, WriteStatus, ZenonT(30)
  <2> QED
      BY <1>1, <1>2, <1>4, <2>1, <2>2, ZenonT(30) DEF WriteShape
<1> QED
    BY <1>3, <1>4, ZenonT(30) DEF UpdateStatus

LEMMA NextShape ==
    ASSUME Base, Next
    PROVE  \/ \E c \in CSVs : \/ LocalShape(c) \/ ChangeShape(c) \/ WriteShape(c)
                              \/ CacheShape(c) \/ CreateShape(c)
           \/ DeployShape
           \/ RestartShape
<1> USE CSVAssumption
<1>a. TypeOK
    BY ZenonT(30) DEF Base
<1>1. ASSUME NEW c \in CSVs, CacheCSV(c)
      PROVE  CacheShape(c)
    BY <1>1, <1>a, ZenonT(30) DEF CacheCSV, CacheShape, TypeOK
<1>2. ASSUME NEW c \in CSVs, CreateCSV(c)
      PROVE  CreateShape(c)
  <2> DEFINE n == [phase |-> "None", reason |-> "", deleting |-> FALSE]
  <2>1. n \in Csv /\ n.phase = "None" /\ ~n.deleting
      BY ZenonT(30) DEF Csv, Phases, Reasons
  <2>2. n # None
      BY <2>1, ZenonT(30)
  <2> HIDE DEF n
  <2>3. csv'[c] = n /\ \A x \in CSVs \ {c} : csv'[x] = csv[x]
      BY <1>2, <1>a, ZenonT(30) DEF CreateCSV, TypeOK, n
  <2> QED
      BY <1>2, <2>1, <2>2, <2>3, ZenonT(30) DEF CreateCSV, CreateShape
<1>3. ASSUME NEW d \in Deployments, CacheDeployment(d) \/ DeleteDeployment(d)
      PROVE  DeployShape
    BY <1>3, <1>a DEF CacheDeployment, DeleteDeployment, DeployShape, TypeOK
<1>4. ASSUME Restart
      PROVE  RestartShape
  <2>1. IdleSync.pc = "idle"
      BY ZenonT(30) DEF IdleSync
  <2> QED
      BY <1>4, <2>1, ZenonT(30) DEF Restart, RestartShape
<1>5. ASSUME NEW c \in CSVs, CSVNext(c)
      PROVE  \/ LocalShape(c) \/ ChangeShape(c) \/ WriteShape(c)
             \/ CacheShape(c) \/ CreateShape(c)
    BY <1>1, <1>2, <1>5, LocalStepShape, ChangeStepShape, WriteStepShape, ZenonT(30)
       DEF CSVNext, SyncCSV, LocalStep
<1> QED
    BY <1>3, <1>4, <1>5, ZenonT(30) DEF Next

-----------------------------------------------------------------------------
(* Invariants                                                              *)

(* The newer CSVs of a chain: next in the Reach of IsNewer *)
Newer == [x \in CSVs |-> {y \in CSVs : Replaces[y] = x}]

(* The CSVs that replace each other were created in order, and only a CSV  *)
(* that was created is in the API server or the cache, is being synced or  *)
(* has a deployment.                                                       *)
CreatedInv ==
    \A c \in CSVs :
        /\ c \in created /\ Replaces[c] # None => Replaces[c] \in created
        /\ csv[c] # None \/ cache[c] # None => c \in created
        /\ sync[c].pc \in {"gate", "write"} => c \in created
        /\ \A d \in Deployments : deployment[d] = c \/ depcache[d] = c => c \in created

(* A CSV that is to be deleted, or was seen to be, replaces none that is   *)
(* still there.                                                            *)
OldestInv ==
    \A c \in CSVs :
        \/ csv[c] # None /\ csv[c].phase = "Deleting"
        \/ cache[c] # None /\ cache[c].phase = "Deleting"
        \/ sync[c].pc = "write" /\ sync[c].phase = "Deleting"
        => ~HasPrevious(c)

(* The cache notices a deletion before the object is gone *)
GoneInv == \A c \in CSVs : csv[c] = None /\ cache[c] # None => cache[c].deleting

(* A CSV marked for deletion replaces none that is still there; and while  *)
(* a CSV is there that is, was or is about to be Replacing, the cache has  *)
(* one that replaces it.                                                   *)
ReplacerInv ==
    \A c \in CSVs :
        /\ \/ csv[c] # None /\ csv[c].deleting
           \/ cache[c] # None /\ cache[c].deleting
           => ~HasPrevious(c)
        /\ csv[c] # None /\ (\/ csv[c].phase = "Replacing"
                             \/ cache[c] # None /\ cache[c].phase = "Replacing"
                             \/ sync[c].pc = "write" /\ sync[c].phase = "Replacing")
           => Replacers(c) # {}
        /\ sync[c].pc # "panic"

(* No two created CSVs replace each other *)
Acyclic == \A r, c \in created : IsNewer(r, c) => ~IsNewer(c, r)

(* A CSV that is Deleting in the cache, or marked for deletion, has a      *)
(* Succeeded one above it too.                                             *)
KeptInv ==
    /\ succeeded \subseteq created
    /\ \A c \in CSVs :
         \/ cache[c] # None /\ cache[c].phase = "Deleting"
         \/ csv[c] # None /\ csv[c].deleting
         => Justified(c)

(* c passed the owner check of the Pending case, as can still be seen *)
Passed(c) ==
    /\ csv[c] # None
    /\ \/ csv[c].phase \in Installs
       \/ cache[c] # None /\ cache[c].phase \in Installs
       \/ sync[c].pc = "gate"
       \/ sync[c].pc = "write" /\ sync[c].phase \in Installs
       \/ \E d \in Deployments : deployment[d] = c \/ depcache[d] = c

Rivals(x, y) ==
    x # y /\ Owned[x] \cap Owned[y] # {} /\ ~IsNewer(x, y) /\ ~IsNewer(y, x)

(* A CSV that passed is in the cache, where its rivals find it *)
OwnerInv ==
    /\ \A c \in CSVs : Passed(c) => cache[c] # None
    /\ \A x, y \in CSVs : Rivals(x, y) => ~(Passed(x) /\ Passed(y))

(* c was created, and is gone or no longer installs anything *)
Done(c) == c \in created /\ (csv[c] # None => csv[c].phase \in Retired)

(* A chain is Done from its oldest CSV on, and the cache never shows the   *)
(* installation of a CSV that is Done.                                     *)
DoneInv ==
    \A c \in CSVs :
        /\ Done(c) /\ Replaces[c] # None => Done(Replaces[c])
        /\ cache[c] # None /\ cache[c].phase \in Retired => Done(c)
        /\ csv[c] # None /\ csv[c].deleting => Done(c)
        /\ sync[c].pc \in {"gate", "write"} /\ sync[c].fresh => c \notin stale
        /\ sync[c].pc = "write" /\ sync[c].fresh /\ sync[c].phase \in Retired
             => cache[c] # None /\ cache[c].phase \in {"Succeeded", "Replacing", "Deleting"}
        /\ csv[c] # None /\ csv[c].phase \in Retired
             => cache[c] # None /\ cache[c].phase \in {"Succeeded", "Replacing", "Deleting"}

-----------------------------------------------------------------------------
(* Created in order                                                        *)

LEMMA CreatedInit == Init => CreatedInv
<1> SUFFICES ASSUME Init PROVE CreatedInv
    BY ZenonT(30)
<1>1. \A c \in CSVs : sync[c].pc = "idle"
    BY ZenonT(30) DEF Init, IdleSync
<1> QED
    BY <1>1, CSVAssumption, ZenonT(30) DEF Init, CreatedInv

LEMMA CreatedStep ==
    ASSUME Base, CreatedInv, Next
    PROVE  CreatedInv'
<1> USE CSVAssumption
<1>1. ASSUME NEW c \in CSVs, LocalShape(c) PROVE CreatedInv'
  <2>1. sync'[c].pc \in {"gate", "write"} => c \in created
      BY <1>1, ZenonT(30) DEF LocalShape, Outcome, Syncing, CreatedInv
  <2>2. \A d \in Deployments :
          \/ deployment'[d] \in {deployment[d], None}
          \/ deployment'[d] = c /\ c \in created
      BY <1>1, ZenonT(30) DEF LocalShape, Syncing, CreatedInv
  <2>3. /\ UNCHANGED <<csv, cache, depcache, created>>
        /\ \A x \in CSVs \ {c} : sync'[x] = sync[x]
      BY <1>1, ZenonT(30) DEF LocalShape
  <2> QED
      BY <2>1, <2>2, <2>3 DEF CreatedInv
<1>2. ASSUME NEW c \in CSVs, ChangeShape(c) PROVE CreatedInv'
  <2>1. csv'[c] # None => csv[c] # None
      BY <1>2, ZenonT(30) DEF ChangeShape
  <2>2. /\ UNCHANGED <<cache, deployment, depcache, created>>
        /\ \A x \in CSVs \ {c} : csv'[x] = csv[x] /\ sync'[x] = sync[x]
        /\ sync'[c].pc = sync[c].pc
      BY <1>2, ZenonT(30) DEF ChangeShape
  <2> QED
      BY <2>1, <2>2, ZenonT(30) DEF CreatedInv
<1>3. ASSUME NEW c \in CSVs, WriteShape(c) PROVE CreatedInv'
  <2>1. /\ csv'[c] # None => csv[c] # None
        /\ UNCHANGED <<cache, deployment, depcache, created>>
        /\ \A x \in CSVs \ {c} : csv'[x] = csv[x] /\ sync'[x] = sync[x]
        /\ sync'[c].pc = "idle"
      BY <1>3, ZenonT(30) DEF WriteShape
  <2> QED
      BY <2>1, ZenonT(30) DEF CreatedInv
<1>4. ASSUME NEW c \in CSVs, CacheShape(c) PROVE CreatedInv'
    BY <1>4, ZenonT(30) DEF CacheShape, CreatedInv
<1>5. ASSUME NEW c \in CSVs, CreateShape(c) PROVE CreatedInv'
    BY <1>5, ZenonT(30) DEF CreateShape, CreatedInv
<1>6. ASSUME DeployShape PROVE CreatedInv'
    BY <1>6, ZenonT(30) DEF DeployShape, CreatedInv
<1>7. ASSUME RestartShape PROVE CreatedInv'
    BY <1>7, ZenonT(30) DEF RestartShape, CreatedInv
<1> QED
    BY <1>1, <1>2, <1>3, <1>4, <1>5, <1>6, <1>7, NextShape, ZenonT(30)

(* A CSV that is gone never returns *)
LEMMA GoneStays ==
    ASSUME Base, Next, NEW p \in created, csv[p] = None
    PROVE  csv'[p] = None
<1>0. p \in CSVs
    BY ZenonT(30) DEF Base, TypeOK
<1>1. ASSUME NEW c \in CSVs, \/ LocalShape(c) \/ ChangeShape(c) \/ WriteShape(c)
                             \/ CacheShape(c) \/ CreateShape(c)
      PROVE  csv'[p] = None
    BY <1>0, <1>1, ZenonT(30) DEF LocalShape, ChangeShape, WriteShape, CacheShape, CreateShape
<1> QED
    BY <1>1, NextShape, ZenonT(30) DEF DeployShape, RestartShape

LEMMA PreviousStaysGone ==
    ASSUME Base, CreatedInv, Next, NEW c \in created, ~HasPrevious(c)
    PROVE  ~HasPrevious(c)'
<1>1. c \in CSVs
    BY ZenonT(30) DEF Base, TypeOK
<1>2. Replaces[c] # None => Replaces[c] \in created
    BY <1>1, ZenonT(30) DEF CreatedInv
<1> QED
    BY <1>2, GoneStays, ZenonT(30) DEF HasPrevious

-----------------------------------------------------------------------------
(* The oldest CSV is deleted first                                         *)

LEMMA OldestStep ==
    ASSUME Base, CreatedInv, OldestInv, "get" \notin Faults, Next
    PROVE  OldestInv'
<1> USE CSVAssumption
<1> DEFINE Leaving(x) ==
        \/ csv[x] # None /\ csv[x].phase = "Deleting"
        \/ cache[x] # None /\ cache[x].phase = "Deleting"
        \/ sync[x].pc = "write" /\ sync[x].phase = "Deleting"
<1>a. \A x \in CSVs : Leaving(x) => x \in created /\ ~HasPrevious(x)
    BY ZenonT(30) DEF CreatedInv, OldestInv
<1>b. \A x \in created : ~HasPrevious(x) => ~HasPrevious(x)'
    BY PreviousStaysGone, ZenonT(30)
<1>c. SUFFICES ASSUME NEW x \in CSVs, Leaving(x)' PROVE Leaving(x) \/ (x \in created /\ ~HasPrevious(x))
    BY <1>a, <1>b, ZenonT(30) DEF OldestInv
<1>1. ASSUME NEW c \in CSVs, LocalShape(c) PROVE Leaving(x) \/ (x \in created /\ ~HasPrevious(x))
  <2>1. CASE x = c /\ sync'[x].pc = "write" /\ sync'[x].phase = "Deleting"
    <3>1. cache[c] # None /\ IsLeaf(c)
        BY <1>1, <2>1, ZenonT(30) DEF LocalShape, Outcome, Syncing
    <3> QED
        BY <2>1, <3>1, ZenonT(30) DEF CreatedInv, IsLeaf
  <2>2. UNCHANGED <<csv, cache>> /\ (x # c => sync'[x] = sync[x])
      BY <1>1, ZenonT(30) DEF LocalShape
  <2>3. CASE ~(x = c /\ sync'[x].pc = "write" /\ sync'[x].phase = "Deleting")
      BY <1>c, <2>2, <2>3, ZenonT(30)
  <2> QED
      BY <2>1, <2>3, ZenonT(30)
<1>2. ASSUME NEW c \in CSVs, ChangeShape(c) PROVE Leaving(x)
  <2>1. /\ UNCHANGED cache
        /\ sync'[x].pc = sync[x].pc /\ sync'[x].phase = sync[x].phase
        /\ csv'[x] # None /\ csv'[x].phase = "Deleting" => csv[x] # None /\ csv[x].phase = "Deleting"
      BY <1>2, ZenonT(30) DEF ChangeShape
  <2> QED
      BY <1>c, <2>1, ZenonT(30)
<1>3. ASSUME NEW c \in CSVs, WriteShape(c) PROVE Leaving(x)
    BY <1>c, <1>3, ZenonT(30) DEF WriteShape
<1>4. ASSUME NEW c \in CSVs, CacheShape(c) PROVE Leaving(x)
    BY <1>c, <1>4, ZenonT(30) DEF CacheShape
<1>5. ASSUME NEW c \in CSVs, CreateShape(c) PROVE Leaving(x)
    BY <1>c, <1>5, ZenonT(30) DEF CreateShape
<1>6. ASSUME DeployShape PROVE Leaving(x)
    BY <1>c, <1>6, ZenonT(30) DEF DeployShape
<1>7. ASSUME RestartShape PROVE Leaving(x)
    BY <1>c, <1>7, ZenonT(30) DEF RestartShape
<1> HIDE DEF Leaving
<1> QED
    BY <1>1, <1>2, <1>3, <1>4, <1>5, <1>6, <1>7, NextShape, ZenonT(30)

(* Unless the API server fails to return the CSV that is being replaced, a *)
(* CSV is marked for deletion only when the CSV it replaces is gone, for   *)
(* chains, trees and cycles of replacements and every other fault: the     *)
(* Replacing case looks the previous CSV up before it asks whether the     *)
(* newer ones are running, and a CSV that is gone never returns.           *)
THEOREM OldestSafe ==
    "get" \notin Faults => (Spec => []OldestFirst)
<1> DEFINE Inv == Base /\ CreatedInv /\ OldestInv
<1> SUFFICES ASSUME "get" \notin Faults PROVE Spec => []OldestFirst
    BY ZenonT(30)
<1>1. Init => Inv
  <2> SUFFICES ASSUME Init PROVE Inv
      BY ZenonT(30)
  <2>1. \A c \in CSVs : csv[c] = None /\ cache[c] = None /\ sync[c].pc = "idle"
      BY ZenonT(30) DEF Init, IdleSync
  <2> QED
      BY <2>1, BaseInit, CreatedInit, ZenonT(30) DEF OldestInv
<1>2. Inv /\ [Next]_vars => Inv'
  <2> SUFFICES ASSUME Inv, [Next]_vars PROVE Inv'
      BY ZenonT(30)
  <2>1. Base'
      BY BaseStep, ZenonT(30)
  <2>2. CASE Next
      BY <2>1, <2>2, CreatedStep, OldestStep, ZenonT(30)
  <2>3. CASE UNCHANGED vars
      BY <2>1, <2>3, ZenonT(30) DEF vars, CreatedInv, OldestInv, HasPrevious
  <2> QED
      BY <2>2, <2>3, ZenonT(30)
<1>3. Inv => OldestFirst
    BY ZenonT(30) DEF OldestInv, OldestFirst, Exists
<1> QED
    BY <1>1, <1>2, <1>3, PTL DEF Spec

-----------------------------------------------------------------------------
(* A Replacing CSV has a replacement                                       *)

LEMMA GoneStep ==
    ASSUME Base, GoneInv, Next
    PROVE  GoneInv'
<1>1. ASSUME NEW c \in CSVs, LocalShape(c) PROVE GoneInv'
    BY <1>1, ZenonT(30) DEF LocalShape, GoneInv
<1>2. ASSUME NEW c \in CSVs, ChangeShape(c) PROVE GoneInv'
  <2>1. csv'[c] = None /\ cache[c] # None => cache[c].deleting
      BY <1>2, ZenonT(30) DEF ChangeShape, GoneInv
  <2> QED
      BY <1>2, <2>1, ZenonT(30) DEF ChangeShape, GoneInv
<1>3. ASSUME NEW c \in CSVs, WriteShape(c) PROVE GoneInv'
    BY <1>3, ZenonT(30) DEF WriteShape, GoneInv
<1>4. ASSUME NEW c \in CSVs, CacheShape(c) PROVE GoneInv'
    BY <1>4, ZenonT(30) DEF CacheShape, GoneInv
<1>5. ASSUME NEW c \in CSVs, CreateShape(c) PROVE GoneInv'
    BY <1>5, ZenonT(30) DEF CreateShape, GoneInv
<1> QED
    BY <1>1, <1>2, <1>3, <1>4, <1>5, NextShape, ZenonT(30) DEF DeployShape, RestartShape, GoneInv

(* The steps that change what ReplacerInv says of a CSV marked for         *)
(* deletion                                                                *)
LEMMA MarkedStep ==
    ASSUME Base, CreatedInv, OldestInv, ReplacerInv, "delete" \notin Faults, Next,
           NEW x \in CSVs,
           \/ csv'[x] # None /\ csv'[x].deleting
           \/ cache'[x] # None /\ cache'[x].deleting
    PROVE  ~HasPrevious(x)'
<1> DEFINE Marked == \/ csv[x] # None /\ csv[x].deleting
                     \/ cache[x] # None /\ cache[x].deleting
                     \/ cache[x] # None /\ cache[x].phase = "Deleting"
<1>a. Marked => x \in created /\ ~HasPrevious(x)
    BY ZenonT(30) DEF CreatedInv, OldestInv, ReplacerInv
<1>1. ASSUME NEW c \in CSVs, LocalShape(c) PROVE Marked
    BY <1>1, ZenonT(30) DEF LocalShape
<1>2. ASSUME NEW c \in CSVs, ChangeShape(c) PROVE Marked
    BY <1>2, ZenonT(30) DEF ChangeShape, Syncing
<1>3. ASSUME NEW c \in CSVs, WriteShape(c) PROVE Marked
    BY <1>3, ZenonT(30) DEF WriteShape
<1>4. ASSUME NEW c \in CSVs, CacheShape(c) PROVE Marked
    BY <1>4, ZenonT(30) DEF CacheShape
<1>5. ASSUME NEW c \in CSVs, CreateShape(c) PROVE Marked
    BY <1>5, ZenonT(30) DEF CreateShape
<1>6. DeployShape \/ RestartShape => Marked
    BY ZenonT(30) DEF DeployShape, RestartShape
<1> HIDE DEF Marked
<1>7. Marked
    BY <1>1, <1>2, <1>3, <1>4, <1>5, <1>6, NextShape, ZenonT(30)
<1> QED
    BY <1>7, <1>a, PreviousStaysGone, ZenonT(30)

(* The cache keeps the replacement of a CSV that is there *)
LEMMA ReplacersKept ==
    ASSUME Base, CreatedInv, GoneInv, ReplacerInv, Next,
           NEW x \in CSVs, csv[x] # None, Replacers(x) # {}
    PROVE  Replacers(x)' # {}
<1>0. PICK r \in CSVs : cache[r] # None /\ Replaces[r] = x
    BY ZenonT(30) DEF Replacers
<1>1. HasPrevious(r)
    BY <1>0, CSVAssumption, ZenonT(30) DEF HasPrevious
<1>2. csv[r] # None
    BY <1>0, <1>1, ZenonT(30) DEF GoneInv, ReplacerInv
<1>3. cache'[r] # None
    BY <1>0, <1>2, NextShape, ZenonT(30)
       DEF LocalShape, ChangeShape, WriteShape, CacheShape, CreateShape, DeployShape, RestartShape
<1> QED
    BY <1>0, <1>3, ZenonT(30) DEF Replacers

LEMMA ReplacerStep ==
    ASSUME Base, CreatedInv, OldestInv, GoneInv, ReplacerInv, "delete" \notin Faults, Next
    PROVE  ReplacerInv'
<1> DEFINE Replacing(x) == \/ csv[x].phase = "Replacing"
                           \/ cache[x] # None /\ cache[x].phase = "Replacing"
                           \/ sync[x].pc = "write" /\ sync[x].phase = "Replacing"
<1>a. \A x \in CSVs : csv[x] # None /\ Replacing(x) => Replacers(x) # {}
    BY ZenonT(30) DEF ReplacerInv
<1>b. \A x \in CSVs : csv[x] # None /\ Replacers(x) # {} => Replacers(x)' # {}
    BY ReplacersKept, ZenonT(30)
<1>1. ASSUME NEW x \in CSVs, csv'[x] # None, Replacing(x)' PROVE Replacers(x)' # {}
  <2>1. ASSUME NEW c \in CSVs, LocalShape(c)
        PROVE  csv[x] # None /\ (Replacing(x) \/ Replacers(x) # {})
    <3>1. CASE x = c /\ sync'[x].pc = "write" /\ sync'[x].phase = "Replacing"
        BY <1>1, <2>1, <3>1, ZenonT(30) DEF LocalShape, Outcome
    <3>2. CASE ~(x = c /\ sync'[x].pc = "write" /\ sync'[x].phase = "Replacing")
        BY <1>1, <2>1, <3>2, ZenonT(30) DEF LocalShape
    <3> QED
        BY <3>1, <3>2, ZenonT(30)
  <2>2. ASSUME NEW c \in CSVs, ChangeShape(c) PROVE csv[x] # None /\ Replacing(x)
      BY <1>1, <2>2, ZenonT(30) DEF ChangeShape
  <2>3. ASSUME NEW c \in CSVs, WriteShape(c) PROVE csv[x] # None /\ Replacing(x)
      BY <1>1, <2>3, ZenonT(30) DEF WriteShape
  <2>4. ASSUME NEW c \in CSVs, CacheShape(c) PROVE csv[x] # None /\ Replacing(x)
      BY <1>1, <2>4, ZenonT(30) DEF CacheShape
  <2>5. ASSUME NEW c \in CSVs, CreateShape(c) PROVE csv[x] # None /\ Replacing(x)
      BY <1>1, <2>5, ZenonT(30) DEF CreateShape, CreatedInv
  <2>6. DeployShape \/ RestartShape => csv[x] # None /\ Replacing(x)
      BY <1>1, ZenonT(30) DEF DeployShape, RestartShape
  <2> HIDE DEF Replacing
  <2>7. csv[x] # None /\ Replacers(x) # {}
      BY <1>a, <2>1, <2>2, <2>3, <2>4, <2>5, <2>6, NextShape, ZenonT(30)
  <2> QED
      BY <1>b, <2>7, ZenonT(30)
<1>2. ASSUME NEW x \in CSVs PROVE sync'[x].pc # "panic"
  <2>1. ASSUME NEW c \in CSVs, LocalShape(c) PROVE sync'[x].pc # "panic"
    <3>1. CASE x = c /\ sync'[x].pc = "panic"
      <4>1. cache[c] # None /\ ~cache[c].deleting /\ cache[c].phase = "Replacing"
            /\ Replacers(c) = {}
          BY <2>1, <3>1, ZenonT(30) DEF LocalShape, Outcome, Syncing
      <4> QED
          BY <1>a, <4>1, ZenonT(30) DEF GoneInv
    <3> QED
        BY <2>1, <3>1, ZenonT(30) DEF LocalShape, ReplacerInv
  <2> QED
      BY <2>1, NextShape, ZenonT(30)
         DEF ChangeShape, WriteShape, CacheShape, CreateShape, DeployShape, RestartShape, ReplacerInv
<1>3. \A x \in CSVs :
        (csv'[x] # None /\ csv'[x].deleting) \/ (cache'[x] # None /\ cache'[x].deleting)
        => ~HasPrevious(x)'
    BY MarkedStep, ZenonT(30)
<1> QED
    BY <1>1, <1>2, <1>3, ZenonT(30) DEF ReplacerInv

(* Unless someone else deletes a CSV, or the API server fails to return    *)
(* the one that is being replaced, the sync of a Replacing CSV finds its   *)
(* replacement in the cache, and with fail forward does not read the       *)
(* fields of a missing one.  The replacement cannot go before the CSV it   *)
(* replaces, and the cache shows the deletion of that CSV before it is     *)
(* gone.                                                                   *)
THEOREM PanicSafe ==
    Faults \cap {"get", "delete"} = {} => (Spec => []NoPanic)
<1> DEFINE Inv == Base /\ CreatedInv /\ OldestInv /\ GoneInv /\ ReplacerInv
<1> SUFFICES ASSUME "get" \notin Faults, "delete" \notin Faults PROVE Spec => []NoPanic
    BY ZenonT(30)
<1>1. Init => Inv
  <2> SUFFICES ASSUME Init PROVE Inv
      BY ZenonT(30)
  <2>1. \A c \in CSVs : csv[c] = None /\ cache[c] = None /\ sync[c].pc = "idle"
      BY ZenonT(30) DEF Init, IdleSync
  <2> QED
      BY <2>1, BaseInit, CreatedInit, ZenonT(30) DEF OldestInv, GoneInv, ReplacerInv
<1>2. Inv /\ [Next]_vars => Inv'
  <2> SUFFICES ASSUME Inv, [Next]_vars PROVE Inv'
      BY ZenonT(30)
  <2>1. Base'
      BY BaseStep, ZenonT(30)
  <2>2. CASE Next
      BY <2>1, <2>2, CreatedStep, OldestStep, GoneStep, ReplacerStep, ZenonT(30)
  <2>3. CASE UNCHANGED vars
      BY <2>1, <2>3, ZenonT(30)
         DEF vars, CreatedInv, OldestInv, GoneInv, ReplacerInv, HasPrevious, Replacers
  <2> QED
      BY <2>2, <2>3, ZenonT(30)
<1>3. Inv => NoPanic
    BY ZenonT(30) DEF ReplacerInv, NoPanic, Running
<1> QED
    BY <1>1, <1>2, <1>3, PTL DEF Spec

-----------------------------------------------------------------------------
(* Newer CSVs                                                              *)

LEMMA NewerReach ==
    ASSUME NEW c \in CSVs, NEW r
    PROVE  /\ IsNewer(r, c) <=> r # c /\ r \in Reach(Newer, c)
           /\ r = c => r \in Reach(Newer, c)
BY ZenonT(30) DEF IsNewer, NewerThan, Newer, Reach

LEMMA ReachTransitive ==
    ASSUME NEW next, NEW x, NEW y \in Reach(next, x), NEW z \in Reach(next, y)
    PROVE  z \in Reach(next, x)
BY ZenonT(30) DEF Reach

(* Nothing above a CSV that is still to be created was created *)
LEMMA NewestCreated ==
    ASSUME CreatedInv, NEW c \in CSVs, c \notin created, NEW r \in Reach(Newer, c)
    PROVE  r = c \/ r \notin created
<1> DEFINE S == {x \in CSVs : x = c \/ x \notin created}
<1>1. c \in S /\ S \in SUBSET CSVs
    BY ZenonT(30)
<1>2. \A y \in S : Newer[y] \subseteq S
    BY CSVAssumption, SMTT(30) DEF Newer, CreatedInv
<1>3. r \in S
    BY <1>1, <1>2, ZenonT(30) DEF Reach
<1> QED
    BY <1>3, ZenonT(30)

LEMMA AcyclicStep ==
    ASSUME Base, CreatedInv, Acyclic, Next
    PROVE  Acyclic'
<1>a. created \subseteq CSVs
    BY ZenonT(30) DEF Base, TypeOK
<1>1. ASSUME NEW c \in CSVs, CreateShape(c) PROVE Acyclic'
  <2>1. created' = created \cup {c} /\ c \notin created
      BY <1>1, ZenonT(30) DEF CreateShape
  <2>2. \A r \in created : ~IsNewer(r, c)
      BY <2>1, NewerReach, NewestCreated, ZenonT(30)
  <2>3. ~IsNewer(c, c)
      BY NewerReach, ZenonT(30)
  <2> QED
      BY <2>1, <2>2, <2>3, ZenonT(30) DEF Acyclic
<1> QED
    BY <1>1, NextShape, ZenonT(30)
       DEF Acyclic, LocalShape, ChangeShape, WriteShape, CacheShape, DeployShape, RestartShape

-----------------------------------------------------------------------------
(* An operator that was installed stays installed                          *)

(* One of the CSVs above x that were Succeeded is there and stays *)
Stays(r, x) ==
    /\ r \in succeeded /\ r \in Reach(Newer, x)
    /\ csv[r] # None /\ ~csv[r].deleting

Kept == \A x \in succeeded : \E r \in succeeded : Stays(r, x)

LEMMA KeptOperator ==
    ASSUME Base, Kept
    PROVE  OperatorKept
<1>1. succeeded \subseteq CSVs
    BY ZenonT(30) DEF Base, TypeOK
<1>2. \A x \in CSVs, r \in CSVs : r \in Reach(Newer, x) => r = x \/ IsNewer(r, x)
    BY NewerReach, ZenonT(30)
<1> QED
    BY <1>1, <1>2, ZenonT(30) DEF OperatorKept, Stays, Kept

(* Above a CSV that may be deleted there is another one that stays *)
LEMMA JustifiedKept ==
    ASSUME Base, Acyclic, KeptInv, Kept, NEW c \in created, Justified(c)
    PROVE  \E r \in succeeded : r # c /\ Stays(r, c)
<1>a. created \subseteq CSVs /\ succeeded \subseteq created
    BY ZenonT(30) DEF Base, TypeOK, KeptInv
<1>1. PICK q \in succeeded : IsNewer(q, c)
    BY ZenonT(30) DEF Justified
<1>2. PICK r \in succeeded : Stays(r, q)
    BY ZenonT(30) DEF Kept
<1>3. q \in Reach(Newer, c) /\ r \in Reach(Newer, q)
    BY <1>1, <1>2, <1>a, NewerReach, ZenonT(30) DEF Stays
<1>4. r \in Reach(Newer, c)
    BY <1>3, ReachTransitive, ZenonT(30)
<1>5. r # c
  <2> SUFFICES ASSUME r = c PROVE FALSE
      BY ZenonT(30)
  <2>1. IsNewer(c, q)
      BY <1>1, <1>3, <1>a, NewerReach, ZenonT(30) DEF IsNewer
  <2> QED
      BY <1>1, <1>a, <2>1, ZenonT(30) DEF Acyclic
<1> QED
    BY <1>2, <1>4, <1>5, ZenonT(30) DEF Stays

LEMMA KeptInvStep ==
    ASSUME Base, CreatedInv, DeletingInv, KeptInv, "delete" \notin Faults, Next
    PROVE  KeptInv'
<1> DEFINE Marked(x) == \/ cache[x] # None /\ cache[x].phase = "Deleting"
                        \/ csv[x] # None /\ csv[x].deleting
           Leaving(x) == Marked(x) \/ (csv[x] # None /\ csv[x].phase = "Deleting")
<1>a. \A x \in CSVs : Leaving(x) => Justified(x)
    BY ZenonT(30) DEF KeptInv, DeletingInv
<1>b. succeeded \subseteq created /\ \A x \in CSVs : sync[x].pc = "write" => x \in created
    BY ZenonT(30) DEF KeptInv, CreatedInv
<1>1. ASSUME NEW c \in CSVs, LocalShape(c)
      PROVE  /\ succeeded \subseteq succeeded' /\ succeeded' \subseteq created'
             /\ \A x \in CSVs : Marked(x)' => Leaving(x)
    BY <1>1, <1>b, ZenonT(30) DEF LocalShape
<1>2. ASSUME NEW c \in CSVs, ChangeShape(c)
      PROVE  /\ succeeded \subseteq succeeded' /\ succeeded' \subseteq created'
             /\ \A x \in CSVs : Marked(x)' => Leaving(x)
    BY <1>2, <1>b, ZenonT(30) DEF ChangeShape, Syncing
<1>3. ASSUME NEW c \in CSVs, WriteShape(c)
      PROVE  /\ succeeded \subseteq succeeded' /\ succeeded' \subseteq created'
             /\ \A x \in CSVs : Marked(x)' => Leaving(x)
    BY <1>3, <1>b, ZenonT(30) DEF WriteShape
<1>4. ASSUME NEW c \in CSVs, CacheShape(c)
      PROVE  /\ succeeded \subseteq succeeded' /\ succeeded' \subseteq created'
             /\ \A x \in CSVs : Marked(x)' => Leaving(x)
    BY <1>4, <1>b, ZenonT(30) DEF CacheShape
<1>5. ASSUME NEW c \in CSVs, CreateShape(c)
      PROVE  /\ succeeded \subseteq succeeded' /\ succeeded' \subseteq created'
             /\ \A x \in CSVs : Marked(x)' => Leaving(x)
    BY <1>5, <1>b, ZenonT(30) DEF CreateShape
<1>6. ASSUME DeployShape \/ RestartShape
      PROVE  /\ succeeded \subseteq succeeded' /\ succeeded' \subseteq created'
             /\ \A x \in CSVs : Marked(x)' => Leaving(x)
    BY <1>6, <1>b, ZenonT(30) DEF DeployShape, RestartShape
<1> HIDE DEF Marked, Leaving
<1>7. /\ succeeded \subseteq succeeded' /\ succeeded' \subseteq created'
      /\ \A x \in CSVs : Marked(x)' => Leaving(x)
    BY <1>1, <1>2, <1>3, <1>4, <1>5, <1>6, NextShape, ZenonT(30)
<1>8. \A x \in CSVs : Justified(x) => Justified(x)'
    BY <1>7, ZenonT(30) DEF Justified, IsNewer, Reach
<1> QED
    BY <1>a, <1>7, <1>8, ZenonT(30) DEF KeptInv, Marked

LEMMA KeptStep ==
    ASSUME Base, CreatedInv, Acyclic, KeptInv, Kept, "delete" \notin Faults, Next
    PROVE  Kept'
<1> DEFINE There(r) == csv[r] # None /\ ~csv[r].deleting
<1>a. created \subseteq CSVs /\ succeeded \subseteq created
    BY ZenonT(30) DEF Base, TypeOK, KeptInv
<1>b. ASSUME succeeded \subseteq succeeded', \A r \in succeeded : There(r) => There(r)'
      PROVE  /\ \A r \in succeeded : \A x : Stays(r, x) => Stays(r, x)'
             /\ \A x \in succeeded : \E r \in succeeded' : Stays(r, x)'
  <2>1. \A r \in succeeded : \A x : Stays(r, x) => Stays(r, x)'
      BY <1>b, ZenonT(30) DEF Stays
  <2> QED
      BY <1>b, <2>1, ZenonT(30) DEF Kept
<1>c. ASSUME succeeded' = succeeded, \A r \in succeeded : There(r) => There(r)'
      PROVE  Kept'
  <2>1. \A x \in succeeded : \E r \in succeeded' : Stays(r, x)'
      BY <1>b, <1>c, ZenonT(30)
  <2> QED
      BY <1>c, <2>1, ZenonT(30) DEF Kept
<1>1. ASSUME NEW c \in CSVs, LocalShape(c) \/ CacheShape(c) PROVE Kept'
    BY <1>1, <1>c, ZenonT(30) DEF LocalShape, CacheShape
<1>2. ASSUME NEW c \in CSVs, ChangeShape(c) PROVE Kept'
  <2>1. succeeded' = succeeded /\ \A x \in CSVs \ {c} : csv'[x] = csv[x]
      BY <1>2, ZenonT(30) DEF ChangeShape
  <2>2. CASE There(c) => There(c)'
    <3>1. \A r \in succeeded : There(r) => There(r)'
        BY <1>a, <2>1, <2>2, ZenonT(30)
    <3> QED
        BY <1>c, <2>1, <3>1, ZenonT(30)
  <2>3. CASE There(c) /\ ~There(c)'
    <3>1. cache[c] # None /\ cache[c].phase = "Deleting"
        BY <1>2, <2>3, ZenonT(30) DEF ChangeShape, Syncing
    <3>2. c \in created /\ Justified(c)
        BY <3>1, ZenonT(30) DEF CreatedInv, KeptInv
    <3>3. PICK r \in succeeded : r # c /\ Stays(r, c)
        BY <3>2, JustifiedKept, ZenonT(30)
    <3>4. \A q \in succeeded \ {c} : \A x : Stays(q, x) => Stays(q, x)'
        BY <1>a, <2>1, ZenonT(30) DEF Stays
    <3>5. ASSUME NEW x \in succeeded PROVE \E q \in succeeded : Stays(q, x)'
      <4>1. PICK q \in succeeded : Stays(q, x)
          BY ZenonT(30) DEF Kept
      <4>2. CASE q # c
          BY <3>4, <4>1, <4>2, ZenonT(30)
      <4>3. CASE q = c
        <5>1. Stays(r, x)
            BY <3>3, <4>1, <4>3, ReachTransitive, ZenonT(30) DEF Stays
        <5> QED
            BY <3>3, <3>4, <5>1, ZenonT(30)
      <4> QED
          BY <4>2, <4>3, ZenonT(30)
    <3> QED
        BY <2>1, <3>5, ZenonT(30) DEF Kept
  <2> QED
      BY <2>2, <2>3, ZenonT(30)
<1>3. ASSUME NEW c \in CSVs, WriteShape(c) PROVE Kept'
  <2>1. \A r \in succeeded : There(r) => There(r)'
      BY <1>3, <1>a, ZenonT(30) DEF WriteShape
  <2>2. CASE succeeded' = succeeded
      BY <1>c, <2>1, <2>2, ZenonT(30)
  <2>3. CASE succeeded' = succeeded \cup {c} /\ csv[c] # None /\ csv'[c] # None
             /\ csv'[c].deleting = csv[c].deleting
    <3>1. /\ \A r \in succeeded : \A x : Stays(r, x) => Stays(r, x)'
          /\ \A x \in succeeded : \E r \in succeeded' : Stays(r, x)'
        BY <1>b, <2>1, <2>3, ZenonT(30)
    <3>2. CASE ~csv[c].deleting
      <4>1. c \in Reach(Newer, c)
          BY NewerReach, ZenonT(30)
      <4>2. Stays(c, c)'
          BY <2>3, <3>2, <4>1, ZenonT(30) DEF Stays
      <4> QED
          BY <2>3, <3>1, <4>2, ZenonT(30) DEF Kept
    <3>3. CASE csv[c].deleting
      <4>1. c \in created /\ Justified(c)
          BY <2>3, <3>3, ZenonT(30) DEF CreatedInv, KeptInv
      <4>2. PICK r \in succeeded : Stays(r, c)
          BY <4>1, JustifiedKept, ZenonT(30)
      <4>3. r \in succeeded' /\ Stays(r, c)'
          BY <2>3, <3>1, <4>2, ZenonT(30)
      <4> QED
          BY <2>3, <3>1, <4>3, ZenonT(30) DEF Kept
    <3> QED
        BY <3>2, <3>3, ZenonT(30)
  <2> QED
      BY <1>3, <2>2, <2>3, ZenonT(30) DEF WriteShape
<1>4. ASSUME NEW c \in CSVs, CreateShape(c) PROVE Kept'
  <2>1. succeeded' = succeeded /\ c \notin succeeded /\ \A x \in CSVs \ {c} : csv'[x] = csv[x]
      BY <1>4, <1>a, ZenonT(30) DEF CreateShape
  <2>2. \A r \in succeeded : There(r) => There(r)'
      BY <1>a, <2>1, ZenonT(30)
  <2> QED
      BY <1>c, <2>1, <2>2, ZenonT(30)
<1>5. ASSUME DeployShape \/ RestartShape PROVE Kept'
    BY <1>5, <1>c, ZenonT(30) DEF DeployShape, RestartShape
<1> QED
    BY <1>1, <1>2, <1>3, <1>4, <1>5, NextShape, ZenonT(30)

(* Unless someone else deletes CSVs, a CSV that was once Succeeded is      *)
(* there and stays, or one that replaces it and was Succeeded too: with or *)
(* without fail forward, for every set of CSVs, replacements and other     *)
(* faults.  A deleted CSV has a newer one that was Succeeded; of that one  *)
(* the same can be said, and as CSVs are created in order they never       *)
(* replace each other in a circle.                                         *)
THEOREM KeptSafe ==
    "delete" \notin Faults => (Spec => []OperatorKept)
<1> DEFINE Inv == Base /\ CreatedInv /\ DeletingInv /\ Acyclic /\ KeptInv /\ Kept
<1> SUFFICES ASSUME "delete" \notin Faults PROVE Spec => []OperatorKept
    BY ZenonT(30)
<1>1. Init => Inv
  <2> SUFFICES ASSUME Init PROVE Inv
      BY ZenonT(30)
  <2>1. /\ \A c \in CSVs : csv[c] = None /\ cache[c] = None /\ sync[c].pc = "idle"
        /\ created = {} /\ succeeded = {}
      BY ZenonT(30) DEF Init, IdleSync
  <2> QED
      BY <2>1, BaseInit, CreatedInit, ZenonT(30) DEF DeletingInv, Acyclic, KeptInv, Kept
<1>2. Inv /\ [Next]_vars => Inv'
  <2> SUFFICES ASSUME Inv, [Next]_vars PROVE Inv'
      BY ZenonT(30)
  <2>1. Base'
      BY BaseStep, ZenonT(30)
  <2>2. CASE Next
      BY <2>1, <2>2, CreatedStep, DeletingStep, AcyclicStep, KeptInvStep, KeptStep, ZenonT(30)
  <2>3. CASE UNCHANGED vars
    <3>1. \A x \in CSVs : Justified(x)' <=> Justified(x)
        BY <2>3, ZenonT(30) DEF vars, Justified
    <3>2. CreatedInv' /\ DeletingInv' /\ KeptInv' /\ Acyclic'
        BY <2>3, <3>1, ZenonT(30) DEF vars, CreatedInv, DeletingInv, KeptInv, Acyclic
    <3>3. Kept'
        BY <2>3, ZenonT(30) DEF vars, Kept, Stays
    <3> QED
        BY <2>1, <3>2, <3>3, ZenonT(30)
  <2> QED
      BY <2>2, <2>3, ZenonT(30)
<1>3. Inv => OperatorKept
    BY KeptOperator, ZenonT(30)
<1> QED
    BY <1>1, <1>2, <1>3, PTL DEF Spec

-----------------------------------------------------------------------------
(* One owner of a CRD                                                      *)

(* The replacement chain of c has only CSVs that replace c or that c       *)
(* replaces.                                                               *)
LEMMA ChainRelated ==
    ASSUME NEW c \in CSVs, NEW chain \in GetReplacementChains(c), NEW y \in chain
    PROVE  y \in CSVs /\ (y = c \/ IsNewer(y, c) \/ IsNewer(c, y))
<1> USE CSVAssumption
<1> DEFINE older == [x \in CSVs |-> IF x = c \/ cache[x] # None THEN {Replaces[x]} \ {None} ELSE {}]
           S == {x \in CSVs : c \in Reach(Newer, x)}
<1>1. PICK f \in ReplacementMappings : chain = Reach(f, c) \cup Reach(older, c)
    BY ZenonT(30) DEF GetReplacementChains
<1>2. CASE y \in Reach(f, c)
  <2>1. \A x \in CSVs : f[x] \subseteq Newer[x]
      BY MappingFacts, ZenonT(30) DEF Replacers, Newer
  <2>2. y \in Reach(Newer, c) /\ y \in CSVs
      BY <1>2, <2>1, ZenonT(30) DEF Reach
  <2> QED
      BY <2>2, NewerReach, ZenonT(30)
<1>3. CASE y \in Reach(older, c)
  <2>1. c \in S
      BY NewerReach, ZenonT(30)
  <2>2. ASSUME NEW x \in S, NEW w \in older[x] PROVE w \in S
    <3>1. w \in CSVs /\ x \in Newer[w] /\ x \in CSVs /\ c \in Reach(Newer, x)
        BY <2>2, ZenonT(30) DEF Newer
    <3> HIDE DEF older
    <3>2. x \in Reach(Newer, w)
        BY <3>1, ZenonT(30) DEF Reach
    <3>3. c \in Reach(Newer, w)
        BY <3>1, <3>2, ReachTransitive, ZenonT(30)
    <3> QED
        BY <3>1, <3>3, ZenonT(30)
  <2> HIDE DEF older
  <2>3. y \in S
    <3>1. S \in SUBSET CSVs /\ \A x \in S : older[x] \subseteq S
        BY <2>2, ZenonT(30)
    <3> HIDE DEF S
    <3> QED
        BY <1>3, <2>1, <3>1, ZenonT(30) DEF Reach
  <2> QED
      BY <2>3, NewerReach, ZenonT(30)
<1> QED
    BY <1>1, <1>2, <1>3, ZenonT(30)

LEMMA RivalsSymmetric ==
    ASSUME NEW x \in CSVs, NEW y \in CSVs, Rivals(x, y)
    PROVE  Rivals(y, x)
<1>1. Owned[y] \cap Owned[x] = Owned[x] \cap Owned[y]
    BY ZenonT(30)
<1> QED
    BY <1>1, ZenonT(30) DEF Rivals

(* The check finds a rival that is in the cache *)
LEMMA RivalFound ==
    ASSUME NEW c \in CSVs, NEW y \in CSVs, Rivals(c, y), cache[y] # None,
           NEW chain \in GetReplacementChains(c)
    PROVE  CRDOwnerConflict(c, chain)
<1>1. y \notin chain \cup {c}
    BY ChainRelated, ZenonT(30) DEF Rivals
<1>2. Owned[y] \cap Owned[c] # {}
    BY RivalsSymmetric, ZenonT(30) DEF Rivals
<1> QED
    BY <1>1, <1>2, ZenonT(30) DEF CRDOwnerConflict

(* Only the check of the Pending case lets a CSV pass *)
LEMMA PassedStep ==
    ASSUME Base, CreatedInv, "webhook" \notin Faults, Next,
           NEW x \in CSVs, Passed(x)', ~Passed(x)
    PROVE  /\ csv[x] # None /\ cache[x] # None /\ UNCHANGED cache
           /\ \E chain \in GetReplacementChains(x) : ~CRDOwnerConflict(x, chain)
           /\ \A y \in CSVs \ {x} : Passed(y)' => Passed(y)
<1> USE CSVAssumption DEF Installs
<1>1. ASSUME NEW c \in CSVs, ChangeShape(c) PROVE FALSE
    BY <1>1, ZenonT(30) DEF ChangeShape, Passed
<1>2. ASSUME NEW c \in CSVs, WriteShape(c) PROVE FALSE
    BY <1>2, ZenonT(30) DEF WriteShape, Passed
<1>3. ASSUME NEW c \in CSVs, CacheShape(c) PROVE FALSE
    BY <1>3, ZenonT(30) DEF CacheShape, Passed
<1>4. ASSUME NEW c \in CSVs, CreateShape(c) PROVE FALSE
    BY <1>4, ZenonT(30) DEF CreateShape, Passed, CreatedInv
<1>5. ~DeployShape /\ ~RestartShape
    BY ZenonT(30) DEF DeployShape, RestartShape, Passed
<1>6. PICK c \in CSVs : LocalShape(c)
    BY <1>1, <1>2, <1>3, <1>4, <1>5, NextShape, ZenonT(30)
<1>7. /\ UNCHANGED <<csv, cache, depcache>>
      /\ \A y \in CSVs \ {c} : sync'[y] = sync[y]
      /\ \A d \in Deployments :
           \/ deployment'[d] \in {deployment[d], None}
           \/ deployment'[d] = c /\ cache[c] # None /\ cache[c].phase = "InstallReady"
    BY <1>6, ZenonT(30) DEF LocalShape, Syncing
<1>8. \A y \in CSVs \ {c} : Passed(y)' => Passed(y)
    BY <1>7, ZenonT(30) DEF Passed
<1>9. x = c /\ csv[c] # None /\ sync'[c].pc \in {"gate", "write"}
    BY <1>7, <1>8, ZenonT(30) DEF Passed
<1>10. /\ sync'[c].pc # "write" \/ sync'[c].phase \notin Installs
       /\ sync'[c].pc = "gate" =>
            /\ cache[c] # None
            /\ \E chain \in GetReplacementChains(c) : ~CRDOwnerConflict(c, chain)
  <2>1. ~Passed(c) /\ csv[c] # None
      BY <1>9, ZenonT(30)
  <2>2. sync[c].pc # "gate" /\ depcache[Deploys[c]] # c
        /\ (cache[c] # None => cache[c].phase \notin Installs)
      BY <2>1, ZenonT(30) DEF Passed
  <2>3. Outcome(c)
      BY <1>6, ZenonT(30) DEF LocalShape
  <2> QED
      BY <2>2, <2>3, ZenonT(30) DEF Outcome, Syncing
<1>11. sync'[c].pc = "gate"
    BY <1>7, <1>9, <1>10, ZenonT(30) DEF Passed
<1> QED
    BY <1>7, <1>8, <1>9, <1>10, <1>11, ZenonT(30)

LEMMA OwnerStep ==
    ASSUME Base, CreatedInv, OwnerInv, "webhook" \notin Faults, Next
    PROVE  OwnerInv'
<1>1. ASSUME NEW x \in CSVs, Passed(x)' PROVE cache'[x] # None
  <2>1. CASE Passed(x)
    <3>1. cache[x] # None /\ csv[x] # None
        BY <2>1, ZenonT(30) DEF OwnerInv, Passed
    <3> QED
        BY <3>1, NextShape, SMTT(30)
           DEF LocalShape, ChangeShape, WriteShape, CacheShape, CreateShape, DeployShape, RestartShape
  <2>2. CASE ~Passed(x)
      BY <1>1, <2>2, PassedStep, ZenonT(30)
  <2> QED
      BY <2>1, <2>2, ZenonT(30)
<1>2. ASSUME NEW x \in CSVs, NEW y \in CSVs, Rivals(x, y), Passed(x)', ~Passed(x), Passed(y)'
      PROVE  FALSE
  <2>1. x # y
      BY <1>2, ZenonT(30) DEF Rivals
  <2>2. Passed(y)
      BY <1>2, <2>1, PassedStep, ZenonT(30)
  <2>3. cache[y] # None
      BY <2>2, ZenonT(30) DEF OwnerInv
  <2>4. PICK chain \in GetReplacementChains(x) : ~CRDOwnerConflict(x, chain)
      BY <1>2, PassedStep, ZenonT(30)
  <2> QED
      BY <1>2, <2>3, <2>4, RivalFound, ZenonT(30)
<1>3. ASSUME NEW x \in CSVs, NEW y \in CSVs, Rivals(x, y), Passed(x)', Passed(y)'
      PROVE  FALSE
  <2>1. Passed(x)
      BY <1>2, <1>3, ZenonT(30)
  <2>2. Passed(y)
      BY <1>2, <1>3, RivalsSymmetric, ZenonT(30)
  <2> QED
      BY <1>3, <2>1, <2>2, ZenonT(30) DEF OwnerInv
<1>4. \A x, y \in CSVs : Rivals(x, y)' <=> Rivals(x, y)
    BY ZenonT(30) DEF Rivals, IsNewer, Reach
<1> QED
    BY <1>1, <1>3, <1>4, ZenonT(30) DEF OwnerInv

(* Unless a webhook cannot be checked, two CSVs that own the same CRD and  *)
(* do not replace each other are never both installed, whatever else goes  *)
(* wrong and whichever replacements getReplacementChain happens to follow: *)
(* a CSV that passed crdOwnerConflicts is in the cache as long as it is    *)
(* there, so the one that comes second finds it.                           *)
THEOREM OwnerSafe ==
    "webhook" \notin Faults => (Spec => []OneOwner)
<1> DEFINE Inv == Base /\ CreatedInv /\ OwnerInv
<1> SUFFICES ASSUME "webhook" \notin Faults PROVE Spec => []OneOwner
    BY ZenonT(30)
<1>1. Init => Inv
  <2> SUFFICES ASSUME Init PROVE Inv
      BY ZenonT(30)
  <2>1. \A c \in CSVs : csv[c] = None
      BY ZenonT(30) DEF Init
  <2> QED
      BY <2>1, BaseInit, CreatedInit, ZenonT(30) DEF OwnerInv, Passed
<1>2. Inv /\ [Next]_vars => Inv'
  <2> SUFFICES ASSUME Inv, [Next]_vars PROVE Inv'
      BY ZenonT(30)
  <2>1. Base'
      BY BaseStep, ZenonT(30)
  <2>2. CASE Next
      BY <2>1, <2>2, CreatedStep, OwnerStep, ZenonT(30)
  <2>3. CASE UNCHANGED vars
    <3>1. \A x \in CSVs : Passed(x)' <=> Passed(x)
        BY <2>3, ZenonT(30) DEF vars, Passed
    <3>2. \A x, y \in CSVs : Rivals(x, y)' <=> Rivals(x, y)
        BY ZenonT(30) DEF Rivals, IsNewer, Reach
    <3> QED
        BY <2>1, <2>3, <3>1, <3>2, ZenonT(30) DEF vars, CreatedInv, OwnerInv
  <2> QED
      BY <2>2, <2>3, ZenonT(30)
<1>3. Inv => OneOwner
    BY ZenonT(30) DEF OwnerInv, Passed, Rivals, OneOwner, Exists, Installs
<1> QED
    BY <1>1, <1>2, <1>3, PTL DEF Spec

-----------------------------------------------------------------------------
(* Deployments go to newer CSVs                                            *)

LEMMA DoneStays ==
    ASSUME Base, GateInv, Faults \cap GateFaults = {}, Next, NEW x \in CSVs, Done(x)
    PROVE  Done(x)'
<1>1. CsvForward
    BY CsvStep, ZenonT(30)
<1>2. x \in created'
    BY NextShape, ZenonT(30)
       DEF Done, LocalShape, ChangeShape, WriteShape, CacheShape, CreateShape, DeployShape,
           RestartShape
<1> QED
    BY <1>1, <1>2, ZenonT(30) DEF Done, CsvForward

(* A CSV is only Done by a sync that saw it Succeeded, after the gate was  *)
(* opened for it.                                                          *)
LEMMA DoneAfterGate ==
    ASSUME Base, CreatedInv, GateInv, DoneInv, Next,
           NEW x \in CSVs, ~Done(x), Done(x)', Replaces[x] # None
    PROVE  Done(Replaces[x])
<1> USE CSVAssumption
<1>1. ASSUME NEW c \in CSVs, ChangeShape(c) PROVE FALSE
    BY <1>1, ZenonT(30) DEF ChangeShape, Done, DoneInv, Retired
<1>2. ASSUME NEW c \in CSVs, WriteShape(c) PROVE Done(Replaces[x])
  <2>1. x = c /\ sync[c].pc = "write" /\ sync[c].fresh /\ csv[c] # None
        /\ sync[c].phase \in Retired /\ csv[c].phase \notin Retired /\ c \in created
      BY <1>2, ZenonT(30) DEF WriteShape, Done
  <2>2. c \notin stale /\ cache[c].phase \in {"Succeeded", "Replacing", "Deleting"}
      BY <2>1, ZenonT(30) DEF DoneInv
  <2>3. csv[c].phase = "Succeeded"
      BY <2>1, <2>2, ZenonT(30) DEF Base, Consistent, Retired
  <2>4. GateOpen(x) /\ Replaces[x] \in created
      BY <2>1, <2>3, ZenonT(30) DEF GateInv, Installs
  <2> QED
      BY <2>4, ZenonT(30) DEF Done, GateOpen, HasPrevious
<1>3. ASSUME NEW c \in CSVs, CreateShape(c) PROVE FALSE
    BY <1>3, ZenonT(30) DEF CreateShape, Done, Retired
<1>4. ASSUME NEW c \in CSVs, LocalShape(c) \/ CacheShape(c) PROVE FALSE
    BY <1>4, ZenonT(30) DEF LocalShape, CacheShape, Done
<1>5. ~DeployShape /\ ~RestartShape
    BY ZenonT(30) DEF DeployShape, RestartShape, Done
<1> QED
    BY <1>1, <1>2, <1>3, <1>4, <1>5, NextShape, ZenonT(30)

(* A sync that can still write read the copy that is in the cache *)
LEMMA FreshStep ==
    ASSUME Base, CreatedInv, DoneInv, Next, NEW x \in CSVs,
           sync'[x].pc \in {"gate", "write"}, sync'[x].fresh
    PROVE  x \notin stale'
<1>1. ASSUME NEW c \in CSVs, LocalShape(c) PROVE x \notin stale
  <2>1. CASE x = c
      BY <1>1, <2>1, ZenonT(30) DEF LocalShape, Outcome, DoneInv
  <2>2. CASE x # c
      BY <1>1, <2>2, ZenonT(30) DEF LocalShape, DoneInv
  <2> QED
      BY <2>1, <2>2, ZenonT(30)
<1>2. ASSUME NEW c \in CSVs, ChangeShape(c) \/ WriteShape(c) PROVE x # c /\ x \notin stale
    BY <1>2, SMTT(30) DEF ChangeShape, WriteShape, DoneInv
<1>3. ASSUME NEW c \in CSVs, CacheShape(c) PROVE x \notin stale
    BY <1>3, ZenonT(30) DEF CacheShape, DoneInv
<1>4. ASSUME NEW c \in CSVs, CreateShape(c) PROVE x # c /\ x \notin stale
    BY <1>4, ZenonT(30) DEF CreateShape, DoneInv, CreatedInv
<1>5. DeployShape \/ RestartShape => x \notin stale'
    BY ZenonT(30) DEF DeployShape, RestartShape, DoneInv
<1>6. ASSUME NEW c \in CSVs, LocalShape(c) \/ CacheShape(c) PROVE x \notin stale'
    BY <1>1, <1>3, <1>6, ZenonT(30) DEF LocalShape, CacheShape
<1>7. ASSUME NEW c \in CSVs, ChangeShape(c) \/ WriteShape(c) \/ CreateShape(c)
      PROVE  x \notin stale'
    BY <1>2, <1>4, <1>7, ZenonT(30) DEF ChangeShape, WriteShape, CreateShape
<1> QED
    BY <1>5, <1>6, <1>7, NextShape, ZenonT(30)

(* A CSV that is, or is about to be, Replacing or Deleting was Succeeded   *)
(* in the cache before.                                                    *)
LEMMA SeenStep ==
    ASSUME Base, DoneInv, ~FailForward, Next, NEW x \in CSVs,
           \/ sync'[x].pc = "write" /\ sync'[x].fresh /\ sync'[x].phase \in Retired
           \/ csv'[x] # None /\ csv'[x].phase \in Retired
    PROVE  cache'[x] # None /\ cache'[x].phase \in {"Succeeded", "Replacing", "Deleting"}
<1> DEFINE Seen == cache[x] # None /\ cache[x].phase \in {"Succeeded", "Replacing", "Deleting"}
<1> USE DEF Retired
<1>1. ASSUME NEW c \in CSVs, LocalShape(c) PROVE Seen /\ UNCHANGED cache
  <2>1. CASE x = c /\ sync'[x].pc = "write" /\ sync'[x].phase \in Retired
      BY <1>1, <2>1, ZenonT(30) DEF LocalShape, Outcome, Syncing
  <2>2. CASE ~(x = c /\ sync'[x].pc = "write" /\ sync'[x].phase \in Retired)
      BY <1>1, <2>2, ZenonT(30) DEF LocalShape, DoneInv
  <2>3. UNCHANGED cache
      BY <1>1, ZenonT(30) DEF LocalShape
  <2> QED
      BY <2>1, <2>2, <2>3, ZenonT(30)
<1>2. ASSUME NEW c \in CSVs, ChangeShape(c) PROVE Seen /\ UNCHANGED cache
    BY <1>2, ZenonT(30) DEF ChangeShape, DoneInv
<1>3. ASSUME NEW c \in CSVs, WriteShape(c) PROVE Seen /\ UNCHANGED cache
    BY <1>3, ZenonT(30) DEF WriteShape, DoneInv
<1>4. ASSUME NEW c \in CSVs, CacheShape(c) PROVE Seen'
  <2>1. CASE csv[x] # None /\ csv[x].phase \in Retired
      BY <1>4, <2>1, ZenonT(30) DEF CacheShape, DoneInv
  <2>2. CASE sync[x].pc = "write" /\ sync[x].fresh /\ sync[x].phase \in Retired
    <3>1. Seen /\ cache[x] = csv[x]
        BY <2>2, ZenonT(30) DEF DoneInv, Base, Consistent
    <3> QED
        BY <1>4, <3>1, ZenonT(30) DEF CacheShape
  <2> QED
      BY <1>4, <2>1, <2>2, ZenonT(30) DEF CacheShape
<1>5. ASSUME NEW c \in CSVs, CreateShape(c) PROVE Seen /\ UNCHANGED cache
    BY <1>5, ZenonT(30) DEF CreateShape, DoneInv
<1>6. ASSUME DeployShape PROVE Seen /\ UNCHANGED cache
    BY <1>6, ZenonT(30) DEF DeployShape, DoneInv
<1>7. ASSUME RestartShape PROVE Seen'
    BY <1>7, ZenonT(30) DEF RestartShape
<1>8. Seen'
    BY <1>1, <1>2, <1>3, <1>4, <1>5, <1>6, <1>7, NextShape, ZenonT(30)
<1> QED
    BY <1>8, ZenonT(30)

LEMMA DoneStep ==
    ASSUME Base, CreatedInv, GateInv, DoneInv, ~FailForward, Faults \cap GateFaults = {},
           "delete" \notin Faults, Next
    PROVE  DoneInv'
<1>1. \A x \in CSVs : Done(x) => Done(x)'
    BY DoneStays, ZenonT(30)
<1>2. ASSUME NEW x \in CSVs, Done(x)', Replaces[x] # None PROVE Done(Replaces[x])'
  <2>1. Done(Replaces[x]) /\ Replaces[x] \in CSVs
      BY <1>2, DoneAfterGate, CSVAssumption, ZenonT(30) DEF DoneInv
  <2> QED
      BY <1>1, <2>1, ZenonT(30)
<1>3. ASSUME NEW x \in CSVs, cache'[x] # None, cache'[x].phase \in Retired PROVE Done(x)'
  <2>1. \/ cache[x] # None /\ cache[x].phase \in Retired
        \/ csv[x] # None /\ csv[x].phase \in Retired
      BY <1>3, NextShape, ZenonT(30)
         DEF LocalShape, ChangeShape, WriteShape, CacheShape, CreateShape, DeployShape, RestartShape
  <2>2. Done(x)
      BY <2>1, ZenonT(30) DEF DoneInv, Done, CreatedInv
  <2> QED
      BY <1>1, <2>2, ZenonT(30)
<1>4. ASSUME NEW x \in CSVs, csv'[x] # None, csv'[x].deleting PROVE Done(x)'
  <2>1. \/ cache[x] # None /\ cache[x].phase = "Deleting"
        \/ csv[x] # None /\ csv[x].deleting
      BY <1>4, NextShape, ZenonT(30)
         DEF LocalShape, ChangeShape, WriteShape, CacheShape, CreateShape, DeployShape, RestartShape,
             Syncing
  <2>2. Done(x)
      BY <2>1, ZenonT(30) DEF DoneInv, Retired
  <2> QED
      BY <1>1, <2>2, ZenonT(30)
<1> QED
    BY <1>2, <1>3, <1>4, FreshStep, SeenStep, ZenonT(30) DEF DoneInv

(* If a CSV is not Done, neither is any above it, up to the one that some  *)
(* CSV replaces.                                                           *)
LEMMA NewerWaits ==
    ASSUME DoneInv, NEW c \in CSVs, ~Done(c), NEW o \in CSVs, IsNewer(o, c)
    PROVE  Replaces[o] # None /\ ~Done(Replaces[o])
<1> USE CSVAssumption
<1> DEFINE S == {x \in CSVs : x = c \/ (Replaces[x] # None /\ ~Done(Replaces[x]))}
<1>1. c \in S /\ S \in SUBSET CSVs
    BY ZenonT(30)
<1>2. ASSUME NEW y \in S PROVE Newer[y] \subseteq S
  <2>1. ~Done(y)
      BY ZenonT(30) DEF DoneInv
  <2> QED
      BY <2>1, ZenonT(30) DEF Newer
<1>3. o \in Reach(Newer, c) /\ o # c
    BY NewerReach, ZenonT(30)
<1>4. o \in S
  <2> HIDE DEF S
  <2> QED
      BY <1>1, <1>2, <1>3, ZenonT(30) DEF Reach
<1> QED
    BY <1>3, <1>4, ZenonT(30)

LEMMA RollbackStep ==
    ASSUME Base, GateInv, GoneInv, DoneInv, Next,
           NEW d \in Deployments, deployment[d] # None, deployment'[d] # None
    PROVE  ~IsNewer(deployment[d], deployment'[d])
<1> USE CSVAssumption
<1>1. ASSUME deployment'[d] = deployment[d] PROVE ~IsNewer(deployment[d], deployment'[d])
  <2>1. deployment[d] \in CSVs
      BY ZenonT(30) DEF Base, TypeOK
  <2> QED
      BY <1>1, <2>1, NewerReach, ZenonT(30)
<1>2. ASSUME NEW c \in CSVs, LocalShape(c), deployment'[d] # deployment[d]
      PROVE  ~IsNewer(deployment[d], deployment'[d])
  <2>1. /\ deployment'[d] = c
        /\ cache[c] # None /\ ~cache[c].deleting /\ cache[c].phase = "InstallReady"
      BY <1>2, ZenonT(30) DEF LocalShape, Syncing
  <2>2. ~Done(c)
      BY <2>1, ZenonT(30) DEF GoneInv, DoneInv, Done
  <2> SUFFICES ASSUME IsNewer(deployment[d], c) PROVE FALSE
      BY <2>1, ZenonT(30)
  <2>3. deployment[d] \in CSVs
      BY ZenonT(30) DEF Base, TypeOK
  <2>4. Replaces[deployment[d]] # None /\ ~Done(Replaces[deployment[d]])
      BY <2>2, <2>3, NewerWaits, ZenonT(30)
  <2>5. GateOpen(deployment[d]) /\ Replaces[deployment[d]] \in created
      BY <2>3, <2>4, ZenonT(30) DEF GateInv
  <2> QED
      BY <2>4, <2>5, ZenonT(30) DEF GateOpen, HasPrevious, Done
<1>3. \/ deployment'[d] = deployment[d]
      \/ \E c \in CSVs : LocalShape(c)
    BY NextShape, ZenonT(30)
       DEF ChangeShape, WriteShape, CacheShape, CreateShape, DeployShape, RestartShape
<1> QED
    BY <1>1, <1>2, <1>3, ZenonT(30)

(* Without fail forward, the faults of the gate and deletions by others, a *)
(* deployment never goes back to a CSV that its owner replaces.  When a    *)
(* CSV gets a deployment every older one is gone, Replacing or Deleting;   *)
(* and a cache in which one of them is still InstallReady has not seen the *)
(* Succeeded from which it became so, which is impossible as the sync that *)
(* retired it read that from the same cache.                               *)
THEOREM RollbackSafe ==
    ~FailForward /\ Faults \cap (GateFaults \cup {"delete"}) = {} => (Spec => NoRollback)
<1> DEFINE Inv == Base /\ CreatedInv /\ GateInv /\ GoneInv /\ DoneInv
           Forward == \A d \in Deployments :
                        deployment[d] # None /\ deployment'[d] # None
                            => ~IsNewer(deployment[d], deployment'[d])
<1> SUFFICES ASSUME ~FailForward, Faults \cap GateFaults = {}, "delete" \notin Faults
             PROVE  Spec => NoRollback
    BY ZenonT(30)
<1>1. Init => Inv
  <2> SUFFICES ASSUME Init PROVE Inv
      BY ZenonT(30)
  <2>1. /\ \A c \in CSVs : csv[c] = None /\ cache[c] = None /\ sync[c].pc = "idle"
        /\ created = {}
      BY ZenonT(30) DEF Init, IdleSync
  <2> QED
      BY <2>1, BaseInit, CreatedInit, GateInit, ZenonT(30) DEF GoneInv, DoneInv, Done
<1>2. Inv /\ [Next]_vars => Inv'
  <2> SUFFICES ASSUME Inv, [Next]_vars PROVE Inv'
      BY ZenonT(30)
  <2>1. Base'
      BY BaseStep, ZenonT(30)
  <2>2. CASE Next
      BY <2>1, <2>2, CreatedStep, GateStep, GoneStep, DoneStep, ZenonT(30)
  <2>3. CASE UNCHANGED vars
    <3>1. \A x \in CSVs : GateOpen(x)' <=> GateOpen(x)
        BY <2>3, ZenonT(30) DEF vars, GateOpen, HasPrevious
    <3>2. CreatedInv' /\ GateInv' /\ GoneInv'
        BY <2>3, <3>1, ZenonT(30) DEF vars, CreatedInv, GateInv, GoneInv
    <3>3. DoneInv'
        BY <2>3, ZenonT(30) DEF vars, DoneInv, Done
    <3> QED
        BY <2>1, <3>2, <3>3, ZenonT(30)
  <2> QED
      BY <2>2, <2>3, ZenonT(30)
<1>3. Inv /\ [Next]_vars => [Forward]_vars
    BY RollbackStep, ZenonT(30)
<1> QED
    BY <1>1, <1>2, <1>3, PTL DEF Spec, NoRollback

=============================================================================
