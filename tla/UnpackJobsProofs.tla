-------------------------- MODULE UnpackJobsProofs --------------------------
(***************************************************************************)
(* Proofs about UnpackJobs for any numbers of Jobs, retained Jobs,         *)
(* failures and faults: what a retry may delete, however stale the cache   *)
(* is that it takes the names from.                                        *)
(***************************************************************************)
EXTENDS UnpackJobs, FiniteSetTheorems, TLAPS

JobRecord == [phase : {"none", "running", "failed", "complete"}, at : Nat,
              owner : Int, spec : JobSpec]

CMRecord == [uid : Int, there : BOOLEAN, data : BOOLEAN]

\* The part of the type invariant that the proofs use.
Typed ==
    /\ jobs \in [Name -> JobRecord]
    /\ cachedJobs \in [Name -> JobRecord]
    /\ worker \in [pc : {"idle", "role", "job"}, uid : Int, data : BOOLEAN]
    /\ cm \in CMRecord
    /\ cachedCM \in CMRecord
    /\ spec \in JobSpec
    /\ failures \in Nat

\* No two Jobs failed at the same time, and none later than the last failure;
\* beside other Jobs the first one has failed, before any of them.
Ordered(J, last) ==
    /\ \A n \in Name : Failed(J[n]) => J[n].at <= last
    /\ \A m, n \in Name : Failed(J[m]) /\ Failed(J[n]) /\ m # n => J[m].at # J[n].at
    /\ Base \in Existing(J) =>
         \A n \in Existing(J) \ {Base} :
            Failed(J[Base]) /\ (Failed(J[n]) => J[Base].at < J[n].at)

\* What the cache tells of the cluster: a Job that has failed in the cache is
\* that very Job, or gone; an empty cache leaves room for the first Job only;
\* and the first Job is in the cache when any Job is.
Shows(C, J) ==
    /\ \A n \in Name : Failed(C[n]) => J[n] \in {C[n], NoJob}
    /\ Existing(C) = {} => Existing(J) \subseteq {Base}
    /\ Existing(C) # {} /\ Base \in Existing(J) => Base \in Existing(C)

UInv ==
    /\ Typed
    /\ Ordered(jobs, failures)
    /\ Ordered(cachedJobs, failures)
    /\ Shows(cachedJobs, jobs)

USE UnpackBounds

LEMMA Names == Base \in Name /\ Name \subseteq Int /\ IsFiniteSet(Name)
BY FS_Interval DEF Base, Name

LEMMA NoJobFacts == NoJob \in JobRecord /\ ~Failed(NoJob) /\ NoJob.phase = "none"
BY DEF NoJob, JobRecord, JobSpec, Failed

LEMMA NewJobFacts ==
    ASSUME Typed, NEW uid \in Int
    PROVE  /\ NewJob(uid) \in JobRecord /\ ~Failed(NewJob(uid))
           /\ NewJob(uid).phase = "running"
BY DEF Typed, NewJob, JobRecord, JobSpec, Failed

LEMMA DeleteFacts ==
    ASSUME NEW J \in [Name -> JobRecord], NEW names
    PROVE  /\ Delete(J, names) \in [Name -> JobRecord]
           /\ \A n \in Name : Delete(J, names)[n] = IF n \in names THEN NoJob ELSE J[n]
BY NoJobFacts, ZenonT(30) DEF Delete

LEMMA InitUInv == Init => UInv
<1> SUFFICES ASSUME Init PROVE UInv
    OBVIOUS
<1>1. \A n \in Name : jobs[n] = NoJob /\ cachedJobs[n] = NoJob
    BY ZenonT(30) DEF Init
<1>2. Existing(jobs) = {} /\ Existing(cachedJobs) = {}
    BY <1>1, NoJobFacts, ZenonT(30) DEF Existing
<1>3. Typed
    BY NoJobFacts DEF Init, Typed, Idle, JobSpec, CMRecord
<1>4. Ordered(jobs, failures) /\ Ordered(cachedJobs, failures)
    BY <1>1, <1>2, NoJobFacts, ZenonT(30) DEF Ordered
<1>5. Shows(cachedJobs, jobs)
    BY <1>1, <1>2, NoJobFacts, ZenonT(30) DEF Shows
<1> QED
    BY <1>3, <1>4, <1>5 DEF UInv
-----------------------------------------------------------------------------
(* What the order of the cached Jobs tells of a retry *)

\* The comparison of sortUnpackJobs, by cases.
LEMMA BeforeFacts ==
    ASSUME NEW J \in [Name -> JobRecord], NEW m \in Name, NEW n \in Name
    PROVE  /\ ~Before(J, n, n)
           /\ Failed(J[m]) /\ ~Failed(J[n]) => ~Before(J, m, n) /\ Before(J, n, m)
           /\ Failed(J[m]) /\ Failed(J[n]) => (Before(J, m, n) <=> J[m].at > J[n].at)
<1>1. J[m].at \in Nat /\ J[n].at \in Nat
    BY DEF JobRecord
<1> QED
    BY <1>1 DEF Before, Failed

\* The Job that a retry follows is the first of the order: it and all others
\* have failed.
LEMMA AllFailed ==
    ASSUME UInv, Sorted, Failed(cachedJobs[Latest])
    PROVE  \A n \in Existing(cachedJobs) : Failed(cachedJobs[n])
<1> SUFFICES ASSUME NEW n \in Existing(cachedJobs), ~Failed(cachedJobs[n]) PROVE FALSE
    OBVIOUS
<1> DEFINE J == cachedJobs
           Prior(m) == {k \in Existing(J) : Before(J, k, m)}
<1>t. J \in [Name -> JobRecord] /\ Existing(J) \subseteq Name /\ n \in Name
    BY ZenonT(30) DEF UInv, Typed, Existing
<1>1. \A m \in Existing(J) : IsFiniteSet(Prior(m))
    BY FS_Subset, Names DEF Existing
<1>2. Prior(n) = {}
    <2>1. ASSUME NEW k \in Existing(J), k # n PROVE ~Before(J, k, n)
        <3>1. Failed(J[k])
            BY <2>1, ZenonT(30) DEF Sorted, ComparesNil
        <3> QED
            BY <3>1, <1>t, <2>1, BeforeFacts, ZenonT(30)
    <2> QED
        BY <2>1, <1>t, BeforeFacts, ZenonT(30)
<1>3. Position(J, n) = 0
    BY <1>2, FS_EmptySet DEF Position
<1>4. Latest \in Existing(J) /\ Position(J, Latest) = 0
    BY <1>3, ZenonT(30) DEF Latest
<1>5. Prior(Latest) = {}
    BY <1>1, <1>4, FS_EmptySet DEF Position
<1>6. Before(J, n, Latest)
    BY <1>4, <1>t, BeforeFacts, ZenonT(30)
<1> QED
    BY <1>5, <1>6

\* What a retry deletes: Jobs that failed in the cache, each before another one,
\* and not the first.
LEMMA DeletedFacts ==
    ASSUME UInv, Sorted, Failed(cachedJobs[Latest]), NEW n \in ToDelete(cachedJobs)
    PROVE  /\ n \in Existing(cachedJobs) \ {Base}
           /\ Failed(cachedJobs[n])
           /\ cachedJobs[n].at < failures
<1> DEFINE J == cachedJobs
           Prior(m) == {k \in Existing(J) : Before(J, k, m)}
<1>t. J \in [Name -> JobRecord] /\ Existing(J) \subseteq Name /\ Ordered(J, failures)
    BY ZenonT(30) DEF UInv, Typed, Existing
<1>e. n \in Existing(J)
    BY ZenonT(30) DEF ToDelete
<1>f. \A m \in Existing(J) : Failed(J[m])
    BY AllFailed
<1>i. /\ Position(J, n) >= 1
      /\ Position(J, n) < Cardinality(Existing(J)) - 1
    BY DEF ToDelete
<1>1. IsFiniteSet(Existing(J))
    BY FS_Subset, Names, <1>t
<1>2. n # Base
    <2> SUFFICES ASSUME n = Base PROVE FALSE
        OBVIOUS
    <2>1. \A k \in Existing(J) \ {Base} : J[k].at > J[Base].at
        <3>1. \A k \in Existing(J) \ {Base} : J[Base].at < J[k].at
            BY <1>e, <1>f, <1>t, ZenonT(30) DEF Ordered
        <3>2. \A k \in Name : J[k].at \in Nat
            BY <1>t DEF JobRecord
        <3> QED
            BY <3>1, <3>2, <1>t, <1>e
    <2>2. Prior(Base) = Existing(J) \ {Base}
        BY <2>1, <1>e, <1>f, <1>t, BeforeFacts, ZenonT(30)
    <2>3. Position(J, Base) = Cardinality(Existing(J)) - 1
        BY <2>2, <1>1, <1>e, FS_RemoveElement DEF Position
    <2> QED
        BY <2>3, <1>i, <1>1, FS_CardinalityType
<1>3. PICK m \in Existing(J) : Before(J, m, n)
    BY <1>i, FS_EmptySet DEF Position
<1>4. J[n].at < J[m].at /\ J[m].at <= failures
    <2>1. J[m].at > J[n].at
        BY <1>3, <1>e, <1>f, <1>t, BeforeFacts, ZenonT(30)
    <2>2. J[m].at <= failures
        BY <1>f, <1>t, ZenonT(30) DEF Ordered
    <2>3. J[m].at \in Nat /\ J[n].at \in Nat
        BY <1>t, <1>e DEF JobRecord
    <2> QED
        BY <2>1, <2>2, <2>3
<1>5. J[m].at \in Nat /\ J[n].at \in Nat /\ failures \in Nat
    BY <1>t, <1>e DEF JobRecord, UInv, Typed
<1> QED
    BY <1>2, <1>4, <1>5, <1>e, <1>f
-----------------------------------------------------------------------------
(* The invariant is kept by what the steps do to the Jobs *)

\* Jobs are deleted.
LEMMA FewerJobs ==
    ASSUME NEW C, NEW J, NEW last, Ordered(J, last), Shows(C, J),
           NEW K, \A n \in Name : K[n] \in {J[n], NoJob}
    PROVE  Ordered(K, last) /\ Shows(C, K)
<1>1. Existing(K) \subseteq Existing(J)
    BY NoJobFacts, ZenonT(30) DEF Existing
<1>2. \A n \in Existing(K) : K[n] = J[n]
    BY NoJobFacts, ZenonT(30) DEF Existing
<1>3. \A n \in Name : Failed(K[n]) => n \in Existing(K)
    BY DEF Existing, Failed
<1>4. Ordered(K, last)
    BY <1>1, <1>2, <1>3, ZenonT(30) DEF Ordered
<1>5. Shows(C, K)
    BY <1>1, ZenonT(30) DEF Shows
<1> QED
    BY <1>4, <1>5

\* The first Job is created: no other Job is there.
LEMMA FirstJob ==
    ASSUME NEW C, NEW J \in [Name -> JobRecord], NEW last, Ordered(J, last), Shows(C, J),
           Existing(C) = {}, NEW job \in JobRecord, ~Failed(job)
    PROVE  LET K == [J EXCEPT ![Base] = job]
           IN  Ordered(K, last) /\ Shows(C, K)
<1> DEFINE K == [J EXCEPT ![Base] = job]
<1>1. K[Base] = job /\ \A n \in Name \ {Base} : K[n] = J[n]
    BY Names, ZenonT(30)
<1> HIDE DEF K
<1>2. Existing(K) \subseteq {Base}
    BY <1>1, ZenonT(30) DEF Existing, Shows
<1>3. \A n \in Name : ~Failed(C[n])
    BY DEF Existing, Failed
<1>4. \A n \in Name : ~Failed(K[n])
    BY <1>1, <1>2 DEF Existing, Failed
<1>5. Ordered(K, last)
    BY <1>2, <1>4, ZenonT(30) DEF Ordered
<1>6. Shows(C, K)
    BY <1>2, <1>3, ZenonT(30) DEF Shows
<1> QED
    BY <1>5, <1>6 DEF K

\* A Job with a generated name is created: the first Job has failed.
LEMMA RetriedJob ==
    ASSUME NEW C, NEW J \in [Name -> JobRecord], NEW last, Ordered(J, last), Shows(C, J),
           Existing(C) # {}, \A n \in Existing(C) : Failed(C[n]),
           NEW k \in Name \ {Base}, k \notin Existing(C), k \notin Existing(J),
           NEW job \in JobRecord, ~Failed(job)
    PROVE  LET K == [J EXCEPT ![k] = job]
           IN  Ordered(K, last) /\ Shows(C, K)
<1> DEFINE K == [J EXCEPT ![k] = job]
<1>1. K[k] = job /\ \A n \in Name \ {k} : K[n] = J[n]
    BY ZenonT(30)
<1> HIDE DEF K
<1>2. Existing(K) \subseteq Existing(J) \cup {k}
    BY <1>1, ZenonT(30) DEF Existing
<1>3. Base \in Existing(K) => Base \in Existing(J)
    BY <1>2, ZenonT(30)
<1>4. Base \in Existing(J) => Failed(J[Base])
    <2> SUFFICES ASSUME Base \in Existing(J) PROVE Failed(J[Base])
        OBVIOUS
    <2>1. Base \in Existing(C) /\ Failed(C[Base])
        BY ZenonT(30) DEF Shows
    <2>2. J[Base] \in {C[Base], NoJob}
        BY <2>1, Names, ZenonT(30) DEF Shows
    <2>3. J[Base] # NoJob
        BY NoJobFacts, ZenonT(30) DEF Existing
    <2> QED
        BY <2>1, <2>2, <2>3, ZenonT(30)
<1>5. Ordered(K, last)
    <2>1. \A n \in Name : Failed(K[n]) => n # k /\ K[n] = J[n]
        BY <1>1, ZenonT(30)
    <2>2. \A n \in Name : Failed(K[n]) => K[n].at <= last
        BY <2>1, ZenonT(30) DEF Ordered
    <2>3. \A m, n \in Name : Failed(K[m]) /\ Failed(K[n]) /\ m # n => K[m].at # K[n].at
        BY <2>1, ZenonT(30) DEF Ordered
    <2>4. ASSUME Base \in Existing(K), NEW n \in Existing(K) \ {Base}
          PROVE  Failed(K[Base]) /\ (Failed(K[n]) => K[Base].at < K[n].at)
        <3>1. K[Base] = J[Base] /\ Failed(J[Base]) /\ n \in Name
            BY <2>4, <1>1, <1>3, <1>4, Names, ZenonT(30) DEF Existing
        <3>2. Failed(K[n]) => n \in Existing(J) /\ K[n] = J[n]
            BY <2>1, <2>4, <1>2, <3>1, ZenonT(30)
        <3> QED
            BY <3>1, <3>2, <2>4, <1>3, ZenonT(30) DEF Ordered
    <2> QED
        BY <2>2, <2>3, <2>4, ZenonT(30) DEF Ordered
<1>6. Shows(C, K)
    <2>1. ASSUME NEW n \in Name, Failed(C[n]) PROVE K[n] \in {C[n], NoJob}
        <3>1. n \in Existing(C)
            BY <2>1 DEF Existing, Failed
        <3> QED
            BY <2>1, <3>1, <1>1, ZenonT(30) DEF Shows
    <2> QED
        BY <2>1, <1>3, ZenonT(30) DEF Shows
<1> QED
    BY <1>5, <1>6 DEF K

\* A running Job completes, or fails later than all that failed before.
LEMMA EndedJob ==
    ASSUME NEW C \in [Name -> JobRecord], NEW J \in [Name -> JobRecord],
           NEW last \in Nat, NEW now \in Nat, last <= now,
           Ordered(J, last), Ordered(C, last), Shows(C, J),
           NEW k \in Name, J[k].phase = "running",
           NEW job \in JobRecord, job.phase # "none",
           Failed(job) => job.at = now /\ last < now
    PROVE  LET K == [J EXCEPT ![k] = job]
           IN  Ordered(K, now) /\ Ordered(C, now) /\ Shows(C, K)
<1> DEFINE K == [J EXCEPT ![k] = job]
<1>1. K[k] = job /\ \A n \in Name \ {k} : K[n] = J[n]
    BY ZenonT(30)
<1> HIDE DEF K
<1>2. Existing(K) = Existing(J) /\ k \in Existing(J)
    BY <1>1 DEF Existing
<1>3. ~Failed(J[k]) /\ J[k] # NoJob /\ \A n \in Name : Failed(C[n]) => C[n] # J[k]
    BY NoJobFacts DEF Failed
<1>4. \A n \in Name : (Failed(J[n]) => J[n].at <= last) /\ (Failed(C[n]) => C[n].at <= now)
    <2>1. \A n \in Name : J[n].at \in Nat /\ C[n].at \in Nat
        BY DEF JobRecord
    <2>2. \A n \in Name : (Failed(J[n]) => J[n].at <= last) /\ (Failed(C[n]) => C[n].at <= last)
        BY ZenonT(30) DEF Ordered
    <2> QED
        BY <2>1, <2>2
<1>5. \A n \in Name : Failed(J[n]) => J[n].at <= now
    <2>1. \A n \in Name : J[n].at \in Nat
        BY DEF JobRecord
    <2> QED
        BY <2>1, <1>4
<1>6. Base \in Existing(J) /\ k # Base => Failed(J[Base])
    BY <1>2, ZenonT(30) DEF Ordered
<1>7. k = Base => Existing(J) = {Base}
    BY <1>2, <1>3, ZenonT(30) DEF Ordered
<1>8. Ordered(K, now)
    <2>1. \A n \in Name : Failed(K[n]) => K[n].at <= now
        <3>1. now <= now
            OBVIOUS
        <3> QED
            BY <3>1, <1>1, <1>5, ZenonT(30)
    <2>2. \A m, n \in Name : Failed(K[m]) /\ Failed(K[n]) /\ m # n => K[m].at # K[n].at
        <3>1. \A n \in Name \ {k} : Failed(K[n]) /\ Failed(K[k]) => K[n].at # K[k].at
            <4>1. \A n \in Name : J[n].at \in Nat
                BY DEF JobRecord
            <4> QED
                BY <4>1, <1>1, <1>4
        <3> QED
            BY <3>1, <1>1, ZenonT(30) DEF Ordered
    <2>3. ASSUME Base \in Existing(K), NEW n \in Existing(K) \ {Base}
          PROVE  Failed(K[Base]) /\ (Failed(K[n]) => K[Base].at < K[n].at)
        <3>1. Base # k /\ K[Base] = J[Base] /\ Failed(J[Base])
            BY <2>3, <1>1, <1>2, <1>6, <1>7, Names, ZenonT(30)
        <3>2. CASE n = k
            <4>1. J[Base].at \in Nat
                BY Names DEF JobRecord
            <4>2. J[Base].at <= last
                BY <3>1, <1>4, Names
            <4>3. Failed(job) => J[Base].at < job.at
                BY <4>1, <4>2
            <4> QED
                BY <3>1, <3>2, <4>3, <1>1
        <3>3. CASE n # k
            <4>1. n \in Existing(J) /\ K[n] = J[n]
                BY <3>3, <2>3, <1>1, <1>2, ZenonT(30) DEF Existing
            <4> QED
                BY <4>1, <3>1, <2>3, <1>2, ZenonT(30) DEF Ordered
        <3> QED
            BY <3>2, <3>3
    <2> QED
        BY <2>1, <2>2, <2>3, ZenonT(30) DEF Ordered
<1>9. Ordered(C, now)
    BY <1>4, ZenonT(30) DEF Ordered
<1>10. Shows(C, K)
    <2>1. ASSUME NEW n \in Name, Failed(C[n]) PROVE K[n] \in {C[n], NoJob}
        <3>1. n # k
            BY <2>1, <1>3, ZenonT(30) DEF Shows
        <3> QED
            BY <2>1, <3>1, <1>1, ZenonT(30) DEF Shows
    <2> QED
        BY <2>1, <1>2, ZenonT(30) DEF Shows
<1> QED
    BY <1>8, <1>9, <1>10 DEF K
-----------------------------------------------------------------------------
(* Every step keeps the invariant *)

\* The steps that leave the Jobs and their cache alone.
LEMMA OtherStep ==
    ASSUME UInv, Typed', UNCHANGED <<jobs, cachedJobs, failures>>
    PROVE  UInv'
BY ZenonT(30) DEF UInv, Ordered, Shows, Existing, Failed

\* The uids and what else the type needs, in the steps that set them.
LEMMA TypedStep ==
    ASSUME UInv, Next, jobs' \in [Name -> JobRecord]
    PROVE  Typed'
<1>t. Typed
    BY DEF UInv
<1>1. CASE UnpackBundle
    <2>1. UNCHANGED <<cachedJobs, cachedCM, spec, failures>>
        BY <1>1, ZenonT(30) DEF UnpackBundle
    <2>2. cm' \in CMRecord
        <3>1. cm' = cm \/ cm' = [uid |-> cm.uid + 1, there |-> TRUE, data |-> FALSE]
            BY <1>1, ZenonT(30) DEF UnpackBundle, EnsureConfigMap
        <3>2. cm \in CMRecord
            BY <1>t DEF Typed
        <3>3. cm.uid + 1 \in Int
            BY <3>2 DEF CMRecord
        <3>4. [uid |-> cm.uid + 1, there |-> TRUE, data |-> FALSE] \in CMRecord
            BY <3>3 DEF CMRecord
        <3> QED
            BY <3>1, <3>2, <3>4, ZenonT(30)
    <2>3. worker' \in [pc : {"idle", "role", "job"}, uid : Int, data : BOOLEAN]
        <3>1. \/ worker' = worker
              \/ \E held \in {cachedCM, cm'} :
                    worker' = [pc |-> "role", uid |-> held.uid, data |-> held.data]
            BY <1>1, ZenonT(30) DEF UnpackBundle, EnsureConfigMap
        <3>2. \A held \in {cachedCM, cm'} : held.uid \in Int /\ held.data \in BOOLEAN
            BY <2>2, <1>t DEF Typed, CMRecord
        <3> QED
            BY <3>1, <3>2, <1>t DEF Typed
    <2> QED
        BY <2>1, <2>2, <2>3, <1>t, ZenonT(30) DEF Typed
<1>2. CASE EnsureRole \/ RequestFails \/ Panic \/ CreateJob \/ RetryJob \/ UseJob
    <2>1. UNCHANGED <<cachedJobs, cm, cachedCM, spec, failures>>
        BY <1>2, ZenonT(30) DEF EnsureRole, RequestFails, Panic, CreateJob, RetryJob, UseJob,
                                Return, cluster
    <2>2. worker' = Idle \/ worker' = [worker EXCEPT !.pc = "job"]
        BY <1>2, ZenonT(30) DEF EnsureRole, RequestFails, Panic, CreateJob, RetryJob, UseJob, Return
    <2>3. worker' \in [pc : {"idle", "role", "job"}, uid : Int, data : BOOLEAN]
        <3>1. CASE worker' = Idle
            BY <3>1 DEF Idle
        <3>2. CASE worker' = [worker EXCEPT !.pc = "job"]
            BY <3>2, <1>t DEF Typed
        <3> QED
            BY <3>1, <3>2, <2>2
    <2> QED
        BY <2>1, <2>3, <1>t, ZenonT(30) DEF Typed
<1>3. CASE Environment \/ DeleteConfigMap \/ DeleteCatalog \/ DeleteJob \/ ChangeSpec
    <2>1. UNCHANGED worker
        BY <1>3, ZenonT(30) DEF Environment, SyncJobs, SyncCM, SyncRights, Elapse, Collect,
               JobSucceeds, JobFails, DeleteConfigMap, DeleteCatalog, DeleteJob, ChangeSpec, rest
    <2>2. cachedJobs' \in {cachedJobs, jobs}
        BY <1>3, ZenonT(30) DEF Environment, SyncJobs, SyncCM, SyncRights, Elapse, Collect,
               JobSucceeds, JobFails, DeleteConfigMap, DeleteCatalog, DeleteJob, ChangeSpec
    <2>3. \/ cm' = cm \/ cm' = [cm EXCEPT !.data = TRUE]
          \/ cm' = [cm EXCEPT !.there = FALSE, !.data = FALSE]
        BY <1>3, ZenonT(30) DEF Environment, SyncJobs, SyncCM, SyncRights, Elapse, Collect,
               JobSucceeds, JobFails, DeleteConfigMap, DeleteCatalog, DeleteJob, ChangeSpec
    <2>4. cachedCM' \in {cachedCM, cm}
        BY <1>3, ZenonT(30) DEF Environment, SyncJobs, SyncCM, SyncRights, Elapse, Collect,
               JobSucceeds, JobFails, DeleteConfigMap, DeleteCatalog, DeleteJob, ChangeSpec
    <2>5. spec' \in {spec, 2}
        BY <1>3, ZenonT(30) DEF Environment, SyncJobs, SyncCM, SyncRights, Elapse, Collect,
               JobSucceeds, JobFails, DeleteConfigMap, DeleteCatalog, DeleteJob, ChangeSpec
    <2>6. failures' \in {failures, failures + 1}
        BY <1>3, ZenonT(30) DEF Environment, SyncJobs, SyncCM, SyncRights, Elapse, Collect,
               JobSucceeds, JobFails, DeleteConfigMap, DeleteCatalog, DeleteJob, ChangeSpec
    <2>7. failures' \in Nat /\ spec' \in JobSpec
        BY <2>5, <2>6, <1>t DEF Typed, JobSpec
    <2>8. cm' \in CMRecord
        BY <2>3, <1>t DEF Typed, CMRecord
    <2> QED
        BY <2>1, <2>2, <2>4, <2>7, <2>8, <1>t, ZenonT(30) DEF Typed
<1> QED
    BY <1>1, <1>2, <1>3, ZenonT(30) DEF Next, Worker

\* The steps that delete Jobs.
LEMMA DeletingStep ==
    ASSUME UInv, Next, NEW names, jobs' = Delete(jobs, names),
           UNCHANGED <<cachedJobs, failures>>
    PROVE  UInv'
<1>1. jobs' \in [Name -> JobRecord] /\ \A n \in Name : jobs'[n] \in {jobs[n], NoJob}
    <2>1. jobs \in [Name -> JobRecord]
        BY DEF UInv, Typed
    <2> QED
        BY <2>1, DeleteFacts
<1>2. Typed'
    BY <1>1, TypedStep, ZenonT(30)
<1>3. Ordered(jobs', failures) /\ Shows(cachedJobs, jobs')
    BY <1>1, FewerJobs, ZenonT(30) DEF UInv
<1> QED
    BY <1>2, <1>3, ZenonT(30) DEF UInv, Ordered, Shows, Existing, Failed

LEMMA CreateJobStep == UInv /\ Next /\ CreateJob => UInv'
<1> SUFFICES ASSUME UInv, Next, CreateJob PROVE UInv'
    OBVIOUS
<1> DEFINE job == NewJob(worker.uid)
<1>1. UNCHANGED <<cachedJobs, failures>> /\ Existing(cachedJobs) = {}
    BY ZenonT(30) DEF CreateJob, Return
<1>2. CASE UNCHANGED jobs
    <2>1. Typed'
        BY <1>2, TypedStep, ZenonT(30) DEF UInv, Typed
    <2> QED
        BY <1>1, <1>2, <2>1, OtherStep, ZenonT(30)
<1>3. CASE jobs' = [jobs EXCEPT ![Base] = job]
    <2>1. job \in JobRecord /\ ~Failed(job)
        <3>1. worker.uid \in Int
            BY DEF UInv, Typed
        <3> QED
            BY <3>1, NewJobFacts, ZenonT(30) DEF UInv
    <2> HIDE DEF job
    <2>2. jobs' \in [Name -> JobRecord]
        BY <1>3, <2>1, ZenonT(30) DEF UInv, Typed
    <2>3. Typed'
        BY <2>2, TypedStep, ZenonT(30)
    <2>4. Ordered(jobs', failures) /\ Shows(cachedJobs, jobs')
        BY <1>1, <1>3, <2>1, FirstJob, ZenonT(30) DEF UInv, Typed
    <2> QED
        BY <1>1, <2>3, <2>4, ZenonT(30) DEF UInv, Ordered, Shows, Existing, Failed
<1> QED
    BY <1>2, <1>3, ZenonT(30) DEF CreateJob

LEMMA RetryJobStep == UInv /\ Next /\ RetryJob => UInv'
<1> SUFFICES ASSUME UInv, Next, RetryJob PROVE UInv'
    OBVIOUS
<1> DEFINE left == Delete(jobs, ToDelete(cachedJobs))
           job == NewJob(worker.uid)
<1>1. UNCHANGED <<cachedJobs, failures>>
    BY ZenonT(30) DEF RetryJob, Return
<1>2. CASE jobs' = left
    BY <1>1, <1>2, DeletingStep, ZenonT(30)
<1>3. ASSUME NEW k \in Unused, jobs' = [left EXCEPT ![k] = job] PROVE UInv'
    <2>1. job \in JobRecord /\ ~Failed(job)
        <3>1. worker.uid \in Int
            BY DEF UInv, Typed
        <3> QED
            BY <3>1, NewJobFacts, ZenonT(30) DEF UInv
    <2>2. left \in [Name -> JobRecord] /\ \A n \in Name : left[n] \in {jobs[n], NoJob}
        <3>1. jobs \in [Name -> JobRecord]
            BY DEF UInv, Typed
        <3> QED
            BY <3>1, DeleteFacts
    <2>3. Existing(cachedJobs) # {} /\ \A n \in Existing(cachedJobs) : Failed(cachedJobs[n])
        BY AllFailed, ZenonT(30) DEF RetryJob, Sorted
    <2>4. /\ k \in Name \ {Base} /\ k \notin Existing(cachedJobs)
          /\ k \notin Existing(left)
        <3>1. k \in Name \ {Base} /\ k \notin Existing(cachedJobs) /\ k \notin Existing(jobs)
            BY <1>3, ZenonT(30) DEF Unused
        <3>2. Existing(left) \subseteq Existing(jobs)
            BY <2>2, NoJobFacts, ZenonT(30) DEF Existing
        <3> QED
            BY <3>1, <3>2, ZenonT(30)
    <2> HIDE DEF job, left
    <2>5. Ordered(left, failures) /\ Shows(cachedJobs, left)
        BY <2>2, FewerJobs, ZenonT(30) DEF UInv
    <2>6. jobs' \in [Name -> JobRecord]
        BY <1>3, <2>1, <2>2, ZenonT(30)
    <2>7. Typed'
        BY <2>6, TypedStep, ZenonT(30)
    <2>8. Ordered(jobs', failures) /\ Shows(cachedJobs, jobs')
        BY <1>3, <2>1, <2>2, <2>3, <2>4, <2>5, RetriedJob, ZenonT(30)
    <2> QED
        BY <1>1, <2>7, <2>8, ZenonT(30) DEF UInv, Ordered, Shows, Existing, Failed
<1> QED
    BY <1>2, <1>3, ZenonT(30) DEF RetryJob

LEMMA JobEndsStep ==
    ASSUME UInv, Next, NEW n \in Name, JobSucceeds(n) \/ JobFails(n)
    PROVE  UInv'
<1> DEFINE job == IF UNCHANGED failures THEN [jobs[n] EXCEPT !.phase = "complete"]
                  ELSE [jobs[n] EXCEPT !.phase = "failed", !.at = failures + 1]
<1>t. /\ jobs \in [Name -> JobRecord] /\ cachedJobs \in [Name -> JobRecord]
      /\ failures \in Nat /\ jobs[n] \in JobRecord
    BY ZenonT(30) DEF UInv, Typed
<1>1. /\ jobs[n].phase = "running" /\ UNCHANGED cachedJobs
      /\ failures' \in {failures, failures + 1}
    BY ZenonT(30) DEF JobSucceeds, JobFails
<1>2. jobs' = [jobs EXCEPT ![n] = job]
    <2>1. CASE JobSucceeds(n)
        BY <2>1, <1>t DEF JobSucceeds
    <2>2. CASE JobFails(n)
        <3>1. failures' # failures
            BY <2>2, <1>t DEF JobFails
        <3> QED
            BY <2>2, <3>1, <1>t DEF JobFails
    <2> QED
        BY <2>1, <2>2
<1>3. job \in JobRecord /\ job.phase # "none"
    <2>1. [jobs[n] EXCEPT !.phase = "complete"] \in JobRecord
        BY <1>t DEF JobRecord
    <2>2. [jobs[n] EXCEPT !.phase = "failed", !.at = failures + 1] \in JobRecord
        <3>1. failures + 1 \in Nat
            BY <1>t
        <3> QED
            BY <3>1, <1>t, ZenonT(30) DEF JobRecord
    <2>3. job.phase \in {"complete", "failed"}
        BY <1>t DEF JobRecord
    <2> QED
        BY <2>1, <2>2, <2>3
<1>4. Failed(job) => job.at = failures' /\ failures' = failures + 1
    BY <1>1, <1>t DEF JobRecord, Failed
<1> HIDE DEF job
<1>5. jobs' \in [Name -> JobRecord]
    BY <1>2, <1>3, <1>t, ZenonT(30)
<1>6. Typed'
    BY <1>5, TypedStep, ZenonT(30)
<1> DEFINE now == failures'
<1> HIDE DEF now
<1>7. /\ Ordered(jobs', now) /\ Ordered(cachedJobs, now)
      /\ Shows(cachedJobs, jobs')
    <2>1. /\ now \in Nat /\ failures <= now
          /\ Failed(job) => job.at = now /\ failures < now
        BY <1>1, <1>4, <1>t DEF now
    <2>2. LET K == [jobs EXCEPT ![n] = job]
          IN  Ordered(K, now) /\ Ordered(cachedJobs, now) /\ Shows(cachedJobs, K)
        <3>1. /\ Ordered(jobs, failures) /\ Ordered(cachedJobs, failures)
              /\ Shows(cachedJobs, jobs)
            BY ZenonT(30) DEF UInv
        <3> QED
            BY <3>1, <2>1, <1>1, <1>3, <1>t, EndedJob
    <2> QED
        BY <2>2, <1>2, ZenonT(30)
<1> QED
    BY <1>1, <1>6, <1>7, ZenonT(30) DEF now, UInv, Ordered, Shows, Existing, Failed

LEMMA SyncJobsStep == UInv /\ Next /\ SyncJobs => UInv'
<1> SUFFICES ASSUME UInv, Next, SyncJobs PROVE UInv'
    OBVIOUS
<1>1. UNCHANGED <<jobs, failures>> /\ cachedJobs' = jobs
    BY ZenonT(30) DEF SyncJobs
<1>2. Typed'
    BY <1>1, TypedStep, ZenonT(30) DEF UInv, Typed
<1>3. Shows(jobs, jobs)
    BY ZenonT(30) DEF Shows
<1> QED
    BY <1>1, <1>2, <1>3, ZenonT(30) DEF UInv, Ordered, Shows, Existing, Failed

LEMMA StepUInv == UInv /\ [Next]_vars => UInv'
<1> SUFFICES ASSUME UInv, [Next]_vars PROVE UInv'
    OBVIOUS
<1>1. CASE UNCHANGED vars
    <2>1. Typed'
        BY <1>1, ZenonT(30) DEF UInv, Typed, vars
    <2> QED
        BY <1>1, <2>1, OtherStep, ZenonT(30) DEF vars
<1>2. CASE Next /\ UNCHANGED <<jobs, cachedJobs, failures>>
    <2>1. Typed'
        BY <1>2, TypedStep, ZenonT(30) DEF UInv, Typed
    <2> QED
        BY <1>2, <2>1, OtherStep, ZenonT(30)
<1>3. CASE Next /\ UnpackBundle
    BY <1>2, <1>3, ZenonT(30) DEF UnpackBundle
<1>4. CASE Next /\ (EnsureRole \/ RequestFails \/ Panic)
    BY <1>2, <1>4, ZenonT(30) DEF EnsureRole, RequestFails, Panic, cluster
<1>5. CASE Next /\ (SyncCM \/ SyncRights \/ Elapse)
    BY <1>2, <1>5, ZenonT(30) DEF SyncCM, SyncRights, Elapse
<1>6. CASE Next /\ (DeleteConfigMap \/ DeleteCatalog \/ ChangeSpec)
    BY <1>2, <1>6, ZenonT(30) DEF DeleteConfigMap, DeleteCatalog, ChangeSpec
<1>7. CASE Next /\ (Collect \/ DeleteJob)
    BY <1>7, DeletingStep, ZenonT(30) DEF Collect, DeleteJob
<1>8. CASE Next /\ UseJob
    <2>1. UNCHANGED <<cachedJobs, failures>>
        BY <1>8, ZenonT(30) DEF UseJob, Return
    <2>2. UNCHANGED jobs \/ jobs' = Delete(jobs, {Latest})
        BY <1>8, ZenonT(30) DEF UseJob
    <2> QED
        BY <1>2, <1>8, <2>1, <2>2, DeletingStep, ZenonT(30)
<1>9. CASE \E n \in Name : JobSucceeds(n) \/ JobFails(n)
    <2>1. Next
        BY <1>9, ZenonT(30) DEF Next, Environment
    <2> QED
        BY <1>9, <2>1, JobEndsStep, ZenonT(30)
<1> QED
    BY <1>1, <1>3, <1>4, <1>5, <1>6, <1>7, <1>8, <1>9, CreateJobStep, RetryJobStep,
       SyncJobsStep, ZenonT(30) DEF Next, Worker, Environment

\* However many Jobs, failures and faults there are, the times of the failures
\* tell the Jobs of a bundle apart, the first one is the oldest, and what has
\* failed in the cache of ensureJob is still that Job or gone.
THEOREM JobsOrdered == Spec => []UInv
BY InitUInv, StepUInv, PTL DEF Spec

\* For all constants, a retry of ensureJob deletes only Jobs that failed, never
\* the one that failed last and never the first one, however stale the cache is.
THEOREM RetriesKeep == Spec => RetriesKeepJobs
<1>1. ASSUME UInv, RetryJob, NEW n \in Existing(jobs) \ Existing(jobs')
      PROVE  Failed(jobs[n]) /\ jobs[n].at < failures /\ n # Base
    <2>1. Sorted /\ Failed(cachedJobs[Latest])
        BY <1>1, ZenonT(30) DEF RetryJob
    <2>2. n \in Name /\ jobs \in [Name -> JobRecord] /\ jobs[n].phase # "none"
        BY <1>1, ZenonT(30) DEF Existing, UInv, Typed
    <2>3. n \in ToDelete(cachedJobs)
        <3> DEFINE left == Delete(jobs, ToDelete(cachedJobs))
        <3>1. left \in [Name -> JobRecord] /\ (n \notin ToDelete(cachedJobs) => left[n] = jobs[n])
            BY <2>2, DeleteFacts
        <3>2. \/ jobs' = left
              \/ \E k \in Unused : jobs' = [left EXCEPT ![k] = NewJob(worker.uid)]
            BY <1>1, ZenonT(30) DEF RetryJob
        <3>3. n \notin Unused
            BY <1>1, ZenonT(30) DEF Unused
        <3>4. jobs'[n] = left[n]
            <4> HIDE DEF left
            <4> QED
                BY <3>1, <3>2, <3>3, <2>2, ZenonT(30)
        <3> QED
            BY <1>1, <2>2, <3>1, <3>4, ZenonT(30) DEF Existing
    <2>4. n # Base /\ Failed(cachedJobs[n]) /\ cachedJobs[n].at < failures
        BY <1>1, <2>1, <2>3, DeletedFacts, ZenonT(30)
    <2>5. jobs[n] = cachedJobs[n]
        BY <1>1, <2>2, <2>4, NoJobFacts, ZenonT(30) DEF UInv, Shows
    <2> QED
        BY <2>4, <2>5, ZenonT(30)
<1>2. UInv /\ [Next]_vars =>
        [RetryJob =>
            \A n \in Existing(jobs) \ Existing(jobs') :
               /\ Failed(jobs[n])
               /\ jobs[n].at < failures
               /\ n # Base]_vars
    BY <1>1, ZenonT(30)
<1> QED
    BY <1>2, JobsOrdered, PTL DEF Spec, RetriesKeepJobs
=============================================================================
