------------------------ MODULE IngestPipeline_proofs ------------------------
(***************************************************************************)
(* Theorems about IngestPipeline for every number of versions, jobs and    *)
(* workers and every value of the limits.                                  *)
(***************************************************************************)
EXTENDS IngestPipeline, FiniteSetTheorems, TLAPS

-----------------------------------------------------------------------------
(* Types, with the two facts they rest on: a job somebody has claimed was  *)
(* enqueued, and only a job with a version gets as far as parsing.         *)

Assigned ==
    /\ \A j \in Jobs : jobState[j] # "absent" => task[j] # NoTask
    /\ \A w \in Workers : /\ worker[w].pc # "idle" =>
                                jobState[worker[w].job] # "absent"
                          /\ worker[w].pc \in {"parsing", "written", "published",
                                                "superseding"}
                                => VersionOf(w) \in Versions

\* The initial state is well typed.
LEMMA InitTyped == Init => TypeOK /\ Assigned
  BY LimitsAssumption
  DEF Init, TypeOK, Assigned, WorkerState, Idle, Task, VersionStatus

\* Taking a job out of the queue leaves a sequence of jobs.
LEMMA WithoutType == ASSUME TypeOK, NEW j \in Jobs PROVE Without(j) \in Seq(Jobs)
<1>1. CASE Enqueued(j)
  <2> DEFINE i == CHOOSE i \in DOMAIN queue : queue[i] = j
  <2>1. i \in DOMAIN queue /\ queue \in Seq(Jobs)
    BY <1>1 DEF Enqueued, TypeOK
  <2> HIDE DEF i
  <2>2. i \in 1..Len(queue) /\ Len(queue) \in Nat
    BY <2>1
  <2>3. SubSeq(queue, 1, i - 1) \in Seq(Jobs)
    BY <2>1, <2>2
  <2>4. SubSeq(queue, i + 1, Len(queue)) \in Seq(Jobs)
    BY <2>1, <2>2
  <2>5. Without(j) = SubSeq(queue, 1, i - 1) \o SubSeq(queue, i + 1, Len(queue))
    BY <1>1 DEF Without, i
  <2> QED
    BY <2>3, <2>4, <2>5
<1>2. CASE ~Enqueued(j)
  BY <1>2 DEF Without, TypeOK
<1> QED
  BY <1>1, <1>2

\* A new version's number is a number.
LEMMA NextNumberType == NextNumber \in Nat
<1>1. IsFiniteSet(Registered)
  BY LimitsAssumption, FS_Subset DEF Registered
<1> QED
  BY <1>1, FS_CardinalityType DEF NextNumber

\* Requests keep the types.
LEMMA RequestTyped == ASSUME TypeOK, Assigned, Request PROVE TypeOK' /\ Assigned'
<1> USE DEF TypeOK, Assigned, VersionOf
<1>0. /\ Idle.pc = "idle" /\ \A w \in Workers : worker[w] \in WorkerState
      /\ \A w \in Workers : worker[w].pc # "idle" => worker[w].job \in Jobs
  BY DEF WorkerState, Idle
<1>1. CASE \E v \in Versions : UploadDuplicate(v)
  BY <1>0, <1>1 DEF UploadDuplicate, Restore, jobVars
<1>2. ASSUME NEW j \in Jobs, NEW what \in Task \ {NoTask}, Enqueue(j, what),
             UNCHANGED worker
      PROVE  /\ Assigned' /\ jobState' \in [Jobs -> JobState \cup {"absent"}]
             /\ task' \in [Jobs -> Task] /\ queue' \in Seq(Jobs)
             /\ attempts' = attempts /\ lease' = lease
  <2>1. \A w \in Workers : worker[w].pc # "idle" => worker[w].job # j
    BY <1>0, <1>2 DEF Enqueue
  <2>2. /\ jobState' \in [Jobs -> JobState \cup {"absent"}]
        /\ task' \in [Jobs -> Task]
        /\ attempts' = attempts /\ lease' = lease
    BY <1>2 DEF Enqueue, JobState
  <2>3. queue' \in Seq(Jobs)
    BY <1>2 DEF Enqueue
  <2>4. Assigned'
    BY <1>0, <1>2, <2>1 DEF Enqueue
  <2> QED
    BY <2>2, <2>3, <2>4
<1>3. CASE \E v \in Versions, j \in Jobs : Upload(v, j)
  <2>1. PICK v \in Versions, j \in Jobs : Upload(v, j)
    BY <1>3
  <2> DEFINE what == [type |-> "ingest", version |-> v]
  <2>2. what \in Task \ {NoTask}
    BY DEF Task, NoTask
  <2>3. Enqueue(j, what) /\ UNCHANGED worker
    BY <2>1 DEF Upload
  <2>4. /\ document' \in {"absent", "live", "deleted"}
        /\ current' = current /\ chunks' = chunks
        /\ worker' = worker /\ crashes' = crashes /\ revivals' = revivals
    BY <2>1 DEF Upload, Restore
  <2>5. versionStatus' \in [Versions -> VersionStatus]
    BY <2>1 DEF Upload, VersionStatus
  <2>6. number' \in [Versions -> Nat]
    BY <2>1, NextNumberType DEF Upload
  <2> HIDE DEF what
  <2>7. /\ Assigned' /\ jobState' \in [Jobs -> JobState \cup {"absent"}]
        /\ task' \in [Jobs -> Task] /\ queue' \in Seq(Jobs)
        /\ attempts' = attempts /\ lease' = lease
    BY <1>2, <2>2, <2>3
  <2> QED
    BY <2>4, <2>5, <2>6, <2>7
<1>4. CASE \E j \in Jobs : RequestReindex(j)
  <2>1. PICK j \in Jobs : RequestReindex(j)
    BY <1>4
  <2> DEFINE what == [type |-> "reindex", version |-> current]
  <2>2. what \in Task \ {NoTask}
    BY <2>1 DEF Task, NoTask, RequestReindex
  <2>3. Enqueue(j, what) /\ UNCHANGED <<documentVars, worker, crashes, revivals>>
    BY <2>1 DEF RequestReindex
  <2> HIDE DEF what
  <2>4. /\ Assigned' /\ jobState' \in [Jobs -> JobState \cup {"absent"}]
        /\ task' \in [Jobs -> Task] /\ queue' \in Seq(Jobs)
        /\ attempts' = attempts /\ lease' = lease
    BY <1>2, <2>2, <2>3
  <2> QED
    BY <2>3, <2>4 DEF documentVars
<1>5. CASE \E j \in Jobs : RequestDelete(j)
  <2>1. PICK j \in Jobs : RequestDelete(j)
    BY <1>5
  <2> DEFINE what == [type |-> "delete", version |-> None]
  <2>2. what \in Task \ {NoTask}
    BY DEF Task, NoTask
  <2>3. Enqueue(j, what) /\ UNCHANGED <<documentVars, worker, crashes, revivals>>
    BY <2>1 DEF RequestDelete
  <2> HIDE DEF what
  <2>4. /\ Assigned' /\ jobState' \in [Jobs -> JobState \cup {"absent"}]
        /\ task' \in [Jobs -> Task] /\ queue' \in Seq(Jobs)
        /\ attempts' = attempts /\ lease' = lease
    BY <1>2, <2>2, <2>3
  <2> QED
    BY <2>3, <2>4 DEF documentVars
<1>6. CASE \E j \in Jobs : RetryJob(j)
  <2>1. PICK j \in Jobs : RetryJob(j)
    BY <1>6
  <2>2. queue' \in Seq(Jobs)
    BY <2>1 DEF RetryJob
  <2>3. /\ jobState' = [jobState EXCEPT ![j] = "pending"]
        /\ jobState[j] = "failed"
        /\ attempts' = [attempts EXCEPT ![j] = 0]
        /\ revivals' = revivals + 1
        /\ UNCHANGED <<documentVars, task, lease, worker, crashes>>
    BY <2>1 DEF RetryJob
  <2> QED
    BY <1>0, <2>2, <2>3 DEF documentVars, JobState
<1> QED
  BY <1>1, <1>3, <1>4, <1>5, <1>6 DEF Request

\* Workers keep the types.
LEMMA WorkerTyped ==
    ASSUME TypeOK, Assigned, NEW w \in Workers,
           ClaimJob(w) \/ Execute(w) \/ Crash(w)
    PROVE  TypeOK' /\ Assigned'
<1> USE DEF TypeOK, Assigned
<1>0. /\ Idle.pc = "idle" /\ Idle \in WorkerState /\ worker[w] \in WorkerState
      /\ \A x \in Workers : worker[x].pc # "idle" => worker[x].job \in Jobs
  BY DEF WorkerState, Idle
<1>1. CASE ClaimJob(w)
  <2>1. PICK i \in DOMAIN queue : 
          /\ Claimable(queue[i])
          /\ jobState' = [jobState EXCEPT ![queue[i]] = "parsing"]
          /\ attempts' = [attempts EXCEPT ![queue[i]] = @ + 1]
          /\ lease' = [lease EXCEPT ![queue[i]] = "live"]
          /\ worker' = [worker EXCEPT ![w] = [pc |-> "claimed", job |-> queue[i]]]
    BY <1>1 DEF ClaimJob
  <2>2. queue[i] \in Jobs
    BY <2>1
  <2>3. jobState[queue[i]] # "absent"
    BY <2>1 DEF Claimable, Runnable
  <2>4. [pc |-> "claimed", job |-> queue[i]] \in WorkerState
    BY <2>2 DEF WorkerState
  <2>5. UNCHANGED <<documentVars, task, queue, crashes, revivals>>
    BY <1>1 DEF ClaimJob
  <2> QED
    BY <1>0, <2>1, <2>2, <2>3, <2>4, <2>5 DEF documentVars, JobState, VersionOf
<1>2. CASE LoadJob(w)
  <2> DEFINE next == [pc |-> "loaded", job |-> worker[w].job,
                      seenStatus |-> IF VersionOf(w) = None THEN "absent"
                                     ELSE versionStatus[VersionOf(w)],
                      seenCurrent |-> current]
  <2>1. worker[w].job \in Jobs /\ worker' = [worker EXCEPT ![w] = next]
    BY <1>0, <1>2 DEF LoadJob
  <2>2. VersionOf(w) \in Versions \cup {None}
    BY <2>1, task[worker[w].job] \in Task DEF Task, NoTask, VersionOf
  <2>3. next \in WorkerState
    BY <2>1, <2>2 DEF WorkerState, VersionStatus
  <2>4. UNCHANGED <<documentVars, jobVars, crashes, revivals>>
    BY <1>2 DEF LoadJob
  <2>5. next.pc = "loaded" /\ next.job = worker[w].job /\ worker[w].pc # "idle"
    BY <1>2 DEF LoadJob
  <2> HIDE DEF next
  <2> QED
    BY <1>0, <2>1, <2>3, <2>4, <2>5 DEF documentVars, jobVars, VersionOf
<1>3. CASE StartParsing(w) \/ WriteChunks(w) \/ Publish(w)
  <2>1. PICK p \in {"parsing", "written", "published"} :
          worker' = [worker EXCEPT ![w].pc = p]
    BY <1>3 DEF StartParsing, WriteChunks, Publish
  <2>2. worker[w].pc \in {"loaded", "parsing", "written"}
    BY <1>3 DEF StartParsing, WriteChunks, Publish
  <2>3. [worker[w] EXCEPT !.pc = p] \in WorkerState
    BY <1>0, <2>2 DEF WorkerState, Idle
  <2>4. UNCHANGED <<documentVars, jobVars, crashes, revivals>>
    BY <1>3 DEF StartParsing, WriteChunks, Publish
  <2>5. VersionOf(w) \in Versions
    <3>1. CASE StartParsing(w)
      <4>1. task[worker[w].job] \in Task /\ task[worker[w].job] # NoTask
        BY <1>0, <2>2
      <4>2. task[worker[w].job].type # "delete"
        BY <3>1 DEF StartParsing, IsDelete
      <4> QED
        BY <4>1, <4>2 DEF Task, VersionOf
    <3>2. CASE WriteChunks(w) \/ Publish(w)
      BY <3>2 DEF WriteChunks, Publish
    <3> QED
      BY <1>3, <3>1, <3>2
  <2>6. worker'[w].job = worker[w].job /\ worker[w].pc # "idle"
    BY <1>0, <2>1, <2>2 DEF WorkerState, Idle
  <2>7. worker' \in [Workers -> WorkerState]
    BY <2>1, <2>3
  <2>8. \A x \in Workers : x # w => worker'[x] = worker[x]
    BY <2>1
  <2> QED
    BY <1>0, <2>4, <2>5, <2>6, <2>7, <2>8 DEF documentVars, jobVars, VersionOf
<1>4. ASSUME NEW state \in JobState, worker[w].pc # "idle",
             Finish(worker[w].job, state)
      PROVE  /\ jobState' \in [Jobs -> JobState \cup {"absent"}]
             /\ lease' \in [Jobs -> {"none", "live", "expired"}]
             /\ queue' \in Seq(Jobs)
             /\ \A j \in Jobs : jobState'[j] = "absent" <=> jobState[j] = "absent"
  <2>1. worker[w].job \in Jobs /\ jobState[worker[w].job] # "absent"
    BY <1>0, <1>4
  <2>2. queue' \in Seq(Jobs)
    BY <1>4, <2>1, WithoutType DEF Finish
  <2> QED
    BY <1>4, <2>1, <2>2 DEF Finish, JobState
<1>5. CASE CommitIngest(w)
  <2>1. worker[w].pc = "superseding" /\ VersionOf(w) \in Versions
    BY <1>5 DEF CommitIngest
  <2>2. Finish(worker[w].job, "completed") /\ worker' = [worker EXCEPT ![w] = Idle]
    BY <1>5 DEF CommitIngest
  <2>3. versionStatus' \in [Versions -> VersionStatus]
    BY <1>5 DEF CommitIngest, VersionStatus
  <2>4. current' \in Versions \cup {None} /\ chunks' \in SUBSET Versions
    BY <1>5, <2>1 DEF CommitIngest
  <2>5. UNCHANGED <<document, number, task, attempts, crashes, revivals>>
    BY <1>5 DEF CommitIngest
  <2> QED
    BY <1>0, <1>4, <2>1, <2>2, <2>3, <2>4, <2>5 DEF JobState, VersionOf
<1>6. CASE ClearDocument(w)
  <2> DEFINE next == [pc |-> "cleared", job |-> worker[w].job,
                      seenCurrent |-> worker[w].seenCurrent,
                      listed |-> Registered, cleared |-> chunks]
  <2>1. /\ worker[w].pc = "loaded" /\ worker' = [worker EXCEPT ![w] = next]
        /\ UNCHANGED <<documentVars, jobVars, crashes, revivals>>
    BY <1>6 DEF ClearDocument
  <2>2. next \in WorkerState
    BY <1>0, <2>1 DEF WorkerState, Idle, Registered
  <2>3. next.pc = "cleared" /\ next.job = worker[w].job
    OBVIOUS
  <2> HIDE DEF next
  <2> QED
    BY <1>0, <2>1, <2>2, <2>3 DEF documentVars, jobVars, VersionOf
<1>7. CASE CommitDelete(w)
  <2>1. worker[w].pc = "cleared"
    BY <1>7 DEF CommitDelete
  <2>2. Finish(worker[w].job, "completed") /\ worker' = [worker EXCEPT ![w] = Idle]
    BY <1>7 DEF CommitDelete
  <2>3. versionStatus' \in [Versions -> VersionStatus]
    BY <1>7 DEF CommitDelete, VersionStatus
  <2>4. current' \in Versions \cup {None} /\ chunks' \in SUBSET Versions
    BY <1>7 DEF CommitDelete, CurrentAfterDelete
  <2>5. document' = "deleted" /\ UNCHANGED <<number, task, attempts, crashes, revivals>>
    BY <1>7 DEF CommitDelete
  <2> QED
    BY <1>0, <1>4, <2>1, <2>2, <2>3, <2>4, <2>5 DEF JobState, VersionOf
<1>8. CASE Raise(w)
  <2> DEFINE next == [pc |-> "raised", job |-> worker[w].job]
  <2>1. /\ worker[w].pc # "idle" /\ worker' = [worker EXCEPT ![w] = next]
        /\ UNCHANGED <<documentVars, jobVars, crashes, revivals>>
    BY <1>8 DEF Raise
  <2>2. next \in WorkerState
    BY <1>0, <2>1 DEF WorkerState
  <2>3. next.pc = "raised" /\ next.job = worker[w].job
    OBVIOUS
  <2> HIDE DEF next
  <2> QED
    BY <1>0, <2>1, <2>2, <2>3 DEF documentVars, jobVars, VersionOf
<1>11. CASE SupersedeOlder(w)
  <2> DEFINE next == [pc |-> "superseding", job |-> worker[w].job,
                      seenStatus |-> worker[w].seenStatus,
                      seenCurrent |-> worker[w].seenCurrent,
                      listed |-> Stale(VersionOf(w)),
                      cleared |-> Supersedable(VersionOf(w))]
  <2>1. /\ worker[w].pc = "published" /\ worker' = [worker EXCEPT ![w] = next]
        /\ UNCHANGED <<documentVars, jobVars, crashes, revivals>>
    BY <1>11 DEF SupersedeOlder
  <2>2. next \in WorkerState
    BY <1>0, <2>1 DEF WorkerState, Idle, Registered, Stale, Supersedable
  <2>3. next.job = worker[w].job /\ VersionOf(w) \in Versions
    BY <2>1
  <2> HIDE DEF next
  <2> QED
    BY <1>0, <2>1, <2>2, <2>3 DEF documentVars, jobVars, VersionOf
<1>9. CASE Fail(w)
  <2>1. worker[w].pc = "raised"
    BY <1>9 DEF Fail
  <2>2. /\ \E state \in JobState : Finish(worker[w].job, state)
        /\ worker' = [worker EXCEPT ![w] = Idle]
    BY <1>9 DEF Fail, JobState
  <2>3. versionStatus' \in [Versions -> VersionStatus]
    BY <1>9 DEF Fail, VersionStatus
  <2>4. UNCHANGED <<document, current, number, chunks, task, attempts, crashes,
                    revivals>>
    BY <1>9 DEF Fail
  <2> QED
    BY <1>0, <1>4, <2>1, <2>2, <2>3, <2>4 DEF VersionOf
<1>10. CASE Crash(w)
  BY <1>0, <1>10 DEF Crash, documentVars, jobVars, VersionOf
<1> QED
  BY <1>1, <1>2, <1>3, <1>5, <1>6, <1>7, <1>8, <1>9, <1>10, <1>11 DEF Execute

\* Time keeps the types.
LEMMA TimeTyped ==
    ASSUME TypeOK, Assigned, NEW j \in Jobs, BackoffEnds(j) \/ LeaseExpires(j)
    PROVE  TypeOK' /\ Assigned'
<1> USE DEF TypeOK, Assigned
<1>1. CASE BackoffEnds(j)
  <2>1. queue' \in Seq(Jobs)
    BY <1>1 DEF BackoffEnds
  <2> QED
    BY <1>1, <2>1 DEF BackoffEnds, documentVars, VersionOf
<1>2. CASE LeaseExpires(j)
  BY <1>2 DEF LeaseExpires, documentVars, VersionOf
<1> QED
  BY <1>1, <1>2

\* Every step keeps them.
LEMMA StepTyped == TypeOK /\ Assigned /\ [Next]_vars => TypeOK' /\ Assigned'
<1> SUFFICES ASSUME TypeOK, Assigned, [Next]_vars
             PROVE  TypeOK' /\ Assigned'
  OBVIOUS
<1>1. CASE UNCHANGED vars
  BY <1>1 DEF vars, TypeOK, Assigned, VersionOf
<1>2. CASE Next
  BY <1>2, RequestTyped, WorkerTyped, TimeTyped DEF Next
<1> QED
  BY <1>1, <1>2

\* Type correctness: ids, states and row references stay what the schema of
\* db/models.py says they are.
THEOREM TypeCorrect == Spec => [](TypeOK /\ Assigned)
<1> QED
  BY InitTyped, StepTyped, PTL DEF Spec

-----------------------------------------------------------------------------
(* What is marked indexed is stored, with any number of workers.  The      *)
(* deletion must mark at least the versions whose rows it deletes, so the  *)
(* strengthening follows the versions that have rows, are current or have  *)
(* a job back to their registration.                                       *)

Known ==
    /\ chunks \subseteq Registered
    /\ current \in Registered \cup {None}
    /\ \A j \in Jobs : task[j].version \in Registered \cup {None}
    /\ \A w \in Workers :
         worker[w].pc \in {"cleared", "superseding"}
           => worker[w].cleared \subseteq worker[w].listed

\* Requests only add versions and restore documents.
LEMMA RequestStored ==
    ASSUME TypeOK, Known, IndexedIsStored, Request
    PROVE  Known' /\ IndexedIsStored'
<1> USE DEF TypeOK, Known, IndexedIsStored, Registered
<1>1. CASE \E v \in Versions : UploadDuplicate(v)
  BY <1>1 DEF UploadDuplicate, jobVars
<1>2. CASE \E v \in Versions, j \in Jobs : Upload(v, j)
  <2>1. PICK v \in Versions, j \in Jobs : Upload(v, j)
    BY <1>2
  <2>2. /\ task' = [task EXCEPT ![j] = [type |-> "ingest", version |-> v]]
        /\ UNCHANGED <<current, chunks, worker>>
    BY <2>1 DEF Upload, Enqueue
  <2>3. /\ versionStatus' \in [Versions -> VersionStatus]
        /\ \A u \in Versions \ {v} : versionStatus'[u] = versionStatus[u]
        /\ versionStatus'[v] # "absent" /\ versionStatus'[v] # "indexed"
    BY <2>1 DEF Upload, VersionStatus
  <2>4. \A u \in Versions : versionStatus[u] # "absent" => versionStatus'[u] # "absent"
    BY <2>3
  <2>5. \A k \in Jobs : task'[k].version \in {u \in Versions : versionStatus'[u] # "absent"} \cup {None}
    <3>1. TAKE k \in Jobs
    <3>2. CASE k = j
      BY <2>2, <2>3, <3>2
    <3>3. CASE k # j
      BY <2>2, <2>4, <3>3
    <3> QED
      BY <3>2, <3>3
  <2> QED
    BY <2>2, <2>3, <2>4, <2>5
<1>3. CASE \E j \in Jobs : RequestReindex(j) \/ RequestDelete(j)
  <2>1. PICK j \in Jobs : RequestReindex(j) \/ RequestDelete(j)
    BY <1>3
  <2>2. /\ \E t \in {"reindex", "delete"}, v \in {current, None} :
             task' = [task EXCEPT ![j] = [type |-> t, version |-> v]]
        /\ UNCHANGED <<documentVars, worker>>
    BY <2>1 DEF RequestReindex, RequestDelete, Enqueue
  <2> QED
    BY <2>2 DEF documentVars
<1>4. CASE \E j \in Jobs : RetryJob(j)
  BY <1>4 DEF RetryJob, documentVars
<1> QED
  BY <1>1, <1>2, <1>3, <1>4 DEF Request

\* A worker stores what it marks, and marks what it removes.
LEMMA WorkerStored ==
    ASSUME TypeOK, Assigned, Known, IndexedIsStored, NEW w \in Workers,
           ClaimJob(w) \/ Execute(w) \/ Crash(w)
    PROVE  Known' /\ IndexedIsStored'
<1> USE DEF TypeOK, Known, IndexedIsStored, Registered
<1>0. Idle.pc = "idle" /\ worker[w] \in WorkerState
  BY DEF Idle
<1>1. CASE ClaimJob(w) \/ LoadJob(w) \/ Raise(w) \/ Crash(w)
  <2>1. /\ UNCHANGED <<documentVars, task>>
        /\ \A x \in Workers :
             worker'[x] = worker[x] \/ worker'[x].pc \notin {"cleared", "superseding"}
    BY <1>0, <1>1 DEF ClaimJob, LoadJob, Raise, Crash, jobVars
  <2> QED
    BY <2>1 DEF documentVars
<1>2. CASE StartParsing(w) \/ WriteChunks(w) \/ Publish(w)
  <2>1. PICK p \in {"parsing", "written", "published"} :
          worker' = [worker EXCEPT ![w].pc = p]
    BY <1>2 DEF StartParsing, WriteChunks, Publish
  <2>2. worker[w].pc \in {"loaded", "parsing", "written"}
    BY <1>2 DEF StartParsing, WriteChunks, Publish
  <2>3. [worker[w] EXCEPT !.pc = p].pc \notin {"cleared", "superseding"}
    BY <1>0, <2>2 DEF WorkerState, Idle
  <2>4. UNCHANGED <<documentVars, task>>
    BY <1>2 DEF StartParsing, WriteChunks, Publish, jobVars
  <2> QED
    BY <2>1, <2>3, <2>4 DEF documentVars
<1>3. CASE CommitIngest(w)
  <2> DEFINE v == VersionOf(w)
  <2>1. v \in Versions /\ versionStatus[v] # "absent"
    <3>1. worker[w].job \in Jobs /\ v \in Versions
      BY <1>0, <1>3 DEF CommitIngest, WorkerState, Idle, Assigned
    <3>2. v # None
      BY <3>1, LimitsAssumption
    <3> QED
      BY <3>1, <3>2 DEF VersionOf
  <2>2. /\ versionStatus' = [u \in Versions |->
               IF u \in worker[w].listed THEN "superseded"
               ELSE IF u = v /\ worker[w].seenStatus # "indexed" THEN "indexed"
               ELSE versionStatus[u]]
        /\ current' \in {current, v}
        /\ chunks' = (chunks \ worker[w].cleared) \cup {v}
        /\ task' = task /\ worker' = [worker EXCEPT ![w] = Idle]
        /\ worker[w].cleared \subseteq worker[w].listed
    BY <1>3 DEF CommitIngest
  <2> HIDE DEF v
  <2>4. \A u \in Versions : versionStatus[u] # "absent" => versionStatus'[u] # "absent"
    BY <2>2
  <2>5. \A u \in Versions \ {v} :
          versionStatus'[u] = "indexed"
            => versionStatus[u] = "indexed" /\ u \notin worker[w].cleared
    BY <2>2
  <2>6. Known'
    BY <1>0, <2>1, <2>2, <2>4
  <2> QED
    BY <2>2, <2>5, <2>6
<1>4. CASE ClearDocument(w)
  BY <1>4 DEF ClearDocument, documentVars, jobVars
<1>7. CASE SupersedeOlder(w)
  BY <1>7 DEF SupersedeOlder, Supersedable, documentVars, jobVars
<1>5. CASE CommitDelete(w)
  <2>1. /\ chunks' = chunks \ worker[w].cleared
        /\ versionStatus' = [v \in Versions |->
               IF v \in worker[w].listed THEN "superseded" ELSE versionStatus[v]]
        /\ current' \in {current, None}
        /\ task' = task /\ worker' = [worker EXCEPT ![w] = Idle]
        /\ worker[w].pc = "cleared"
    BY <1>5 DEF CommitDelete, CurrentAfterDelete, MarkedByDelete
  <2>2. worker[w].cleared \subseteq worker[w].listed
    BY <2>1
  <2>3. \A v \in Versions : versionStatus[v] # "absent" => versionStatus'[v] # "absent"
    BY <2>1
  <2>4. Known'
    BY <1>0, <2>1, <2>3
  <2> QED
    BY <2>1, <2>2, <2>4
<1>6. CASE Fail(w)
  <2>1. /\ \/ UNCHANGED versionStatus
           \/ versionStatus' = [v \in Versions |->
                  IF v = VersionOf(w) THEN "failed" ELSE versionStatus[v]]
        /\ UNCHANGED <<current, chunks, task>>
        /\ worker' = [worker EXCEPT ![w] = Idle]
    BY <1>6 DEF Fail
  <2>2. \A v \in Versions : /\ versionStatus[v] # "absent" => versionStatus'[v] # "absent"
                            /\ versionStatus'[v] = "indexed" => versionStatus[v] = "indexed"
    BY <2>1
  <2> QED
    BY <1>0, <2>1, <2>2
<1> QED
  BY <1>1, <1>2, <1>3, <1>4, <1>5, <1>6, <1>7 DEF Execute

\* register_bytes may answer "deduplicated" from the status column alone: a
\* version marked indexed has its chunks, whatever the workers interleave.
THEOREM DuplicatesAreStored == Spec => []IndexedIsStored
<1>1. Init => Known /\ IndexedIsStored
  BY LimitsAssumption DEF Init, Known, IndexedIsStored, Registered, NoTask, Idle
<1>2. TypeOK /\ Assigned /\ Known /\ IndexedIsStored /\ [Next]_vars
        => Known' /\ IndexedIsStored'
  <2> SUFFICES ASSUME TypeOK, Assigned, Known, IndexedIsStored, [Next]_vars
               PROVE  Known' /\ IndexedIsStored'
    OBVIOUS
  <2>1. CASE UNCHANGED vars
    BY <2>1 DEF vars, Known, IndexedIsStored, Registered
  <2>2. CASE \E j \in Jobs : BackoffEnds(j) \/ LeaseExpires(j)
    BY <2>2 DEF BackoffEnds, LeaseExpires, documentVars, Known, IndexedIsStored,
                Registered
  <2>3. CASE Next
    BY <2>2, <2>3, RequestStored, WorkerStored DEF Next
  <2> QED
    BY <2>1, <2>3
<1> QED
  BY <1>1, <1>2, TypeCorrect, PTL DEF Spec

-----------------------------------------------------------------------------
(* The jobs: theorems that hold while leases outlive the executions they   *)
(* cover, for every number of jobs and workers.                            *)

Working(j) == \E w \in Workers : WorksOn(w, j)

\* The strengthening: a worker's job is marked and leased, and nobody else's.
Exclusive ==
    /\ \A w \in Workers :
         worker[w].pc # "idle" => /\ jobState[worker[w].job] = "parsing"
                                  /\ lease[worker[w].job] = "live"
    /\ \A w, v \in Workers :
         (/\ worker[w].pc # "idle" /\ worker[v].pc # "idle"
          /\ worker[w].job = worker[v].job)
           => w = v

\* A job that waits to run has attempts left, and one whose worker died has
\* used at most as many as there were crashes beyond them.
AttemptsLeft ==
    \A j \in Jobs :
        /\ jobState[j] \in {"absent", "pending"} => attempts[j] = 0
        /\ jobState[j] = "retry_wait" => attempts[j] < MaxAttempts
        /\ jobState[j] = "parsing" /\ ~Working(j)
             => attempts[j] < MaxAttempts + crashes
        /\ attempts[j] <= MaxAttempts + crashes

\* What each step does to jobs and workers, in terms the invariants use.
Keeps(w) ==
    /\ worker[w].pc # "idle" /\ worker'[w].pc # "idle"
    /\ worker'[w].job = worker[w].job
    /\ \A x \in Workers : x # w => worker'[x] = worker[x]
    /\ UNCHANGED <<jobState, attempts, lease, crashes>>

Claims(w, j) ==
    /\ worker[w] = Idle /\ Runnable(j)
    /\ worker'[w].pc # "idle" /\ worker'[w].job = j
    /\ \A x \in Workers : x # w => worker'[x] = worker[x]
    /\ jobState' = [jobState EXCEPT ![j] = "parsing"]
    /\ attempts' = [attempts EXCEPT ![j] = @ + 1]
    /\ lease' = [lease EXCEPT ![j] = "live"]
    /\ UNCHANGED crashes

Ends(w) ==
    /\ worker[w].pc # "idle"
    /\ worker' = [worker EXCEPT ![w] = Idle]
    /\ \E state \in {"completed", "failed", "retry_wait"} :
         /\ jobState' = [jobState EXCEPT ![worker[w].job] = state]
         /\ state = "retry_wait" => attempts[worker[w].job] < MaxAttempts
    /\ lease' = [lease EXCEPT ![worker[w].job] = "none"]
    /\ UNCHANGED <<attempts, crashes>>

Dies(w) ==
    /\ worker[w].pc # "idle"
    /\ worker' = [worker EXCEPT ![w] = Idle]
    /\ crashes' = crashes + 1
    /\ UNCHANGED <<jobState, attempts, lease>>

Requested(j) ==
    /\ \/ jobState[j] = "absent" /\ attempts' = attempts
       \/ jobState[j] = "failed" /\ attempts' = [attempts EXCEPT ![j] = 0]
    /\ jobState' = [jobState EXCEPT ![j] = "pending"]
    /\ UNCHANGED <<lease, worker, crashes>>

Expires(j) ==
    /\ ~Working(j)
    /\ lease' = [lease EXCEPT ![j] = "expired"]
    /\ UNCHANGED <<jobState, attempts, worker, crashes>>

JobStep ==
    \/ \E w \in Workers : \/ Keeps(w) \/ Ends(w) \/ Dies(w)
                          \/ \E j \in Jobs : Claims(w, j)
    \/ \E j \in Jobs : Requested(j) \/ Expires(j)
    \/ UNCHANGED <<jobState, attempts, lease, worker, crashes>>

\* The facts about types that the steps below use.
LEMMA JobTypes ==
    ASSUME TypeOK
    PROVE  /\ Idle.pc = "idle"
           /\ \A w \in Workers : worker[w] \in WorkerState
           /\ \A w \in Workers : worker[w].pc # "idle" => worker[w].job \in Jobs
           /\ worker \in [Workers -> WorkerState]
           /\ jobState \in [Jobs -> JobState \cup {"absent"}]
           /\ lease \in [Jobs -> {"none", "live", "expired"}]
           /\ attempts \in [Jobs -> Nat] /\ crashes \in Nat
           /\ MaxAttempts \in Nat \ {0}
<1>1. Idle.pc = "idle" /\ worker \in [Workers -> WorkerState]
  BY DEF Idle, TypeOK
<1>2. \A r \in WorkerState : r.pc # "idle" => r.job \in Jobs
  BY DEF WorkerState, Idle
<1> QED
  BY <1>1, <1>2, LimitsAssumption DEF TypeOK

\* A worker's step is one of the kinds above.
LEMMA WorkerStep ==
    ASSUME TypeOK, NEW w \in Workers, ClaimJob(w) \/ Execute(w) \/ Crash(w)
    PROVE  JobStep
<1> USE DEF TypeOK
<1>0. /\ Idle.pc = "idle" /\ worker[w] \in WorkerState
      /\ worker[w].pc # "idle" => worker[w].job \in Jobs
      /\ worker \in [Workers -> WorkerState]
  BY JobTypes
<1>1. CASE ClaimJob(w)
  <2>1. PICK i \in DOMAIN queue :
          /\ Claimable(queue[i])
          /\ jobState' = [jobState EXCEPT ![queue[i]] = "parsing"]
          /\ attempts' = [attempts EXCEPT ![queue[i]] = @ + 1]
          /\ lease' = [lease EXCEPT ![queue[i]] = "live"]
          /\ worker' = [worker EXCEPT ![w] = [pc |-> "claimed", job |-> queue[i]]]
    BY <1>1 DEF ClaimJob
  <2>2. queue[i] \in Jobs /\ Runnable(queue[i])
    BY <2>1 DEF Claimable
  <2>3. worker[w] = Idle /\ UNCHANGED crashes
    BY <1>1 DEF ClaimJob
  <2>4. Claims(w, queue[i])
    BY <2>1, <2>2, <2>3 DEF Claims
  <2> QED
    BY <2>2, <2>4 DEF JobStep
<1>2. CASE LoadJob(w) \/ StartParsing(w) \/ WriteChunks(w) \/ Publish(w)
           \/ SupersedeOlder(w) \/ ClearDocument(w) \/ Raise(w)
  <2>1. UNCHANGED <<jobState, attempts, lease, crashes>>
    BY <1>2 DEF LoadJob, StartParsing, WriteChunks, Publish, SupersedeOlder,
                ClearDocument, Raise, jobVars
  <2>2. worker[w].pc # "idle"
    BY <1>2 DEF LoadJob, StartParsing, WriteChunks, Publish, SupersedeOlder,
                ClearDocument, Raise
  <2>3. /\ worker'[w].pc # "idle" /\ worker'[w].job = worker[w].job
        /\ \A x \in Workers : x # w => worker'[x] = worker[x]
    <3>1. CASE LoadJob(w) \/ SupersedeOlder(w) \/ ClearDocument(w) \/ Raise(w)
      BY <3>1 DEF LoadJob, SupersedeOlder, ClearDocument, Raise
    <3>2. CASE StartParsing(w) \/ WriteChunks(w) \/ Publish(w)
      <4>1. PICK p \in {"parsing", "written", "published"} :
              worker' = [worker EXCEPT ![w].pc = p]
        BY <3>2 DEF StartParsing, WriteChunks, Publish
      <4>2. worker[w].pc \in {"loaded", "parsing", "written"}
        BY <3>2 DEF StartParsing, WriteChunks, Publish
      <4>3. worker'[w] = [worker[w] EXCEPT !.pc = p]
        BY <1>0, <4>1
      <4>4. DOMAIN worker[w] = {"pc", "job", "seenStatus", "seenCurrent"}
        BY <1>0, <4>2 DEF WorkerState, Idle
      <4> QED
        BY <1>0, <4>1, <4>3, <4>4
    <3> QED
      BY <1>2, <3>1, <3>2
  <2> QED
    BY <2>1, <2>2, <2>3 DEF JobStep, Keeps
<1>3. CASE CommitIngest(w) \/ CommitDelete(w)
  BY <1>3 DEF CommitIngest, CommitDelete, Finish, JobStep, Ends
<1>4. CASE Fail(w)
  <2>1. \/ Finish(worker[w].job, "failed")
        \/ /\ Finish(worker[w].job, "retry_wait")
           /\ ~OutOfAttempts(worker[w].job)
    BY <1>4 DEF Fail
  <2>2. /\ worker[w].pc # "idle" /\ worker' = [worker EXCEPT ![w] = Idle]
        /\ UNCHANGED <<attempts, crashes>>
    BY <1>4 DEF Fail
  <2>3. attempts[worker[w].job] \in Nat /\ MaxAttempts \in Nat
    BY <1>0, <2>2, LimitsAssumption
  <2>4. ~OutOfAttempts(worker[w].job) => attempts[worker[w].job] < MaxAttempts
    BY <2>3 DEF OutOfAttempts
  <2>5. Ends(w)
    BY <2>1, <2>2, <2>4 DEF Finish, Ends
  <2> QED
    BY <2>5 DEF JobStep
<1>5. CASE Crash(w)
  <2>1. worker[w].pc # "idle"
    BY <1>0, <1>5 DEF Crash, WorkerState, Idle
  <2> QED
    BY <1>5, <2>1 DEF Crash, jobVars, JobStep, Dies
<1> QED
  BY <1>1, <1>2, <1>3, <1>4, <1>5 DEF Execute

\* So is every step, if a lease never runs out under its worker.
LEMMA EveryStep ==
    ASSUME ~SlowWorkers, TypeOK, [Next]_vars
    PROVE  JobStep
<1>1. CASE UNCHANGED vars
  BY <1>1 DEF vars, JobStep
<1>2. CASE Request
  <2>1. CASE \E v \in Versions : UploadDuplicate(v)
    BY <2>1 DEF UploadDuplicate, jobVars, JobStep
  <2>2. CASE \E j \in Jobs : \/ \E v \in Versions : Upload(v, j)
                             \/ RequestReindex(j) \/ RequestDelete(j) \/ RetryJob(j)
    BY <2>2 DEF Upload, RequestReindex, RequestDelete, RetryJob, Enqueue, JobStep,
                Requested
  <2> QED
    BY <1>2, <2>1, <2>2 DEF Request
<1>3. CASE \E j \in Jobs : BackoffEnds(j)
  BY <1>3 DEF BackoffEnds, JobStep
<1>4. CASE \E j \in Jobs : LeaseExpires(j)
  BY <1>4 DEF LeaseExpires, Working, JobStep, Expires
<1> QED
  BY <1>1, <1>2, <1>3, <1>4, WorkerStep DEF Next

\* No step lets two workers have one job.
LEMMA ExclusiveKept == TypeOK /\ Exclusive /\ JobStep => Exclusive'
<1> SUFFICES ASSUME TypeOK, Exclusive, JobStep PROVE Exclusive'
  OBVIOUS
<1>0. /\ Idle.pc = "idle"
      /\ \A w \in Workers : worker[w].pc # "idle" => worker[w].job \in Jobs
      /\ worker \in [Workers -> WorkerState]
      /\ jobState \in [Jobs -> JobState \cup {"absent"}]
      /\ lease \in [Jobs -> {"none", "live", "expired"}]
  BY JobTypes
<1>1. ASSUME NEW w \in Workers, Keeps(w) PROVE Exclusive'
  BY <1>0, <1>1 DEF Keeps, Exclusive
<1>2. ASSUME NEW w \in Workers, NEW j \in Jobs, Claims(w, j) PROVE Exclusive'
  <2>1. \A x \in Workers : worker[x].pc # "idle" => worker[x].job # j
    BY <1>2 DEF Claims, Runnable, Exclusive
  <2> QED
    BY <1>0, <1>2, <2>1 DEF Claims, Exclusive
<1>3. ASSUME NEW w \in Workers, Ends(w) \/ Dies(w) PROVE Exclusive'
  <2>1. worker[w].job \in Jobs /\ worker' = [worker EXCEPT ![w] = Idle]
    BY <1>0, <1>3 DEF Ends, Dies
  <2>2. \A j \in Jobs : j # worker[w].job =>
          jobState'[j] = jobState[j] /\ lease'[j] = lease[j]
    BY <1>0, <1>3 DEF Ends, Dies
  <2>3. \A x \in Workers : worker'[x].pc # "idle" =>
          x # w /\ worker'[x] = worker[x] /\ worker[x].job # worker[w].job
    BY <1>0, <1>3, <2>1 DEF Ends, Dies, Exclusive
  <2>4. ASSUME NEW x \in Workers, worker'[x].pc # "idle"
        PROVE  /\ jobState'[worker'[x].job] = "parsing"
               /\ lease'[worker'[x].job] = "live"
    <3>1. /\ worker'[x] = worker[x] /\ worker[x].job \in Jobs
          /\ worker[x].job # worker[w].job /\ worker[x].pc # "idle"
      BY <1>0, <2>3, <2>4
    <3>2. jobState[worker[x].job] = "parsing" /\ lease[worker[x].job] = "live"
      BY <3>1 DEF Exclusive
    <3> QED
      BY <2>2, <3>1, <3>2
  <2>5. ASSUME NEW x \in Workers, NEW y \in Workers,
               worker'[x].pc # "idle", worker'[y].pc # "idle",
               worker'[x].job = worker'[y].job
        PROVE  x = y
    <3>1. worker'[x] = worker[x] /\ worker'[y] = worker[y]
      BY <2>3, <2>5
    <3> QED
      BY <2>5, <3>1 DEF Exclusive
  <2> QED
    BY <2>4, <2>5 DEF Exclusive
<1>4. ASSUME NEW j \in Jobs, Requested(j) \/ Expires(j) PROVE Exclusive'
  BY <1>0, <1>4 DEF Requested, Expires, Working, WorksOn, Exclusive
<1>5. CASE UNCHANGED <<jobState, attempts, lease, worker, crashes>>
  BY <1>5 DEF Exclusive
<1> QED
  BY <1>1, <1>2, <1>3, <1>4, <1>5 DEF JobStep

\* Only deaths of workers add to the attempts a job may use.
LEMMA AttemptsKept ==
    TypeOK /\ Exclusive /\ AttemptsLeft /\ JobStep => AttemptsLeft'
<1> SUFFICES ASSUME TypeOK, Exclusive, AttemptsLeft, JobStep, NEW k \in Jobs
             PROVE  (/\ jobState[k] \in {"absent", "pending"} => attempts[k] = 0
                     /\ jobState[k] = "retry_wait" => attempts[k] < MaxAttempts
                     /\ jobState[k] = "parsing" /\ ~Working(k)
                          => attempts[k] < MaxAttempts + crashes
                     /\ attempts[k] <= MaxAttempts + crashes)'
  BY DEF AttemptsLeft
<1>0. /\ Idle.pc = "idle"
      /\ \A w \in Workers : worker[w].pc # "idle" => worker[w].job \in Jobs
      /\ worker \in [Workers -> WorkerState]
      /\ jobState \in [Jobs -> JobState \cup {"absent"}]
      /\ attempts \in [Jobs -> Nat] /\ crashes \in Nat
      /\ MaxAttempts \in Nat \ {0}
  BY JobTypes
<1>1. /\ jobState[k] \in {"absent", "pending"} => attempts[k] = 0
      /\ jobState[k] = "retry_wait" => attempts[k] < MaxAttempts
      /\ jobState[k] = "parsing" /\ ~Working(k) => attempts[k] < MaxAttempts + crashes
      /\ attempts[k] <= MaxAttempts + crashes
  BY DEF AttemptsLeft
<1>2. ASSUME NEW w \in Workers, Keeps(w)
      PROVE  Working(k)' <=> Working(k)
  BY <1>0, <1>2 DEF Keeps, Working, WorksOn
<1>3. ASSUME NEW w \in Workers, NEW j \in Jobs, Claims(w, j)
      PROVE  /\ k = j => Working(k)' /\ attempts[k] < MaxAttempts + crashes
             /\ k # j => (Working(k)' <=> Working(k))
  <2>1. \A x \in Workers : worker[x].pc # "idle" => worker[x].job # j
    BY <1>3 DEF Claims, Runnable, Exclusive
  <2>2. ~Working(j)
    BY <2>1 DEF Working, WorksOn
  <2> QED
    BY <1>0, <1>1, <1>3, <2>2 DEF Claims, Runnable, Working, WorksOn
<1>4. ASSUME NEW w \in Workers, Ends(w) \/ Dies(w)
      PROVE  k # worker[w].job => (Working(k)' <=> Working(k))
  BY <1>0, <1>4 DEF Ends, Dies, Working, WorksOn
<1>5. CASE \E w \in Workers : Keeps(w)
  BY <1>1, <1>2, <1>5 DEF Keeps
<1>6. CASE \E w \in Workers, j \in Jobs : Claims(w, j)
  <2>1. PICK w \in Workers, j \in Jobs : Claims(w, j)
    BY <1>6
  <2>2. CASE k = j
    <3>1. /\ Working(k)' /\ attempts'[k] = attempts[k] + 1
          /\ jobState'[k] = "parsing" /\ crashes' = crashes
      BY <1>0, <1>3, <2>1, <2>2 DEF Claims
    <3>2. attempts[k] < MaxAttempts + crashes /\ attempts[k] \in Nat
      BY <1>0, <1>3, <2>1, <2>2
    <3>3. attempts'[k] <= MaxAttempts + crashes'
      BY <1>0, <3>1, <3>2
    <3> QED
      BY <3>1, <3>3
  <2>3. CASE k # j
    BY <1>0, <1>1, <1>3, <2>1, <2>3 DEF Claims
  <2> QED
    BY <2>2, <2>3
<1>7. CASE \E w \in Workers : Ends(w)
  <2>1. PICK w \in Workers : Ends(w)
    BY <1>7
  <2>2. worker[w].job \in Jobs
    BY <1>0, <2>1 DEF Ends
  <2>3. PICK state \in {"completed", "failed", "retry_wait"} :
          /\ jobState' = [jobState EXCEPT ![worker[w].job] = state]
          /\ state = "retry_wait" => attempts[worker[w].job] < MaxAttempts
    BY <2>1 DEF Ends
  <2>4. CASE k = worker[w].job
    BY <1>0, <1>1, <2>1, <2>3, <2>4 DEF Ends
  <2>5. CASE k # worker[w].job
    BY <1>0, <1>1, <1>4, <2>1, <2>2, <2>3, <2>5 DEF Ends
  <2> QED
    BY <2>4, <2>5
<1>8. CASE \E w \in Workers : Dies(w)
  <2>1. PICK w \in Workers : Dies(w)
    BY <1>8
  <2>2. /\ crashes' = crashes + 1 /\ attempts' = attempts /\ jobState' = jobState
        /\ attempts[k] \in Nat
    BY <1>0, <2>1 DEF Dies
  <2>3. attempts[k] < MaxAttempts + crashes' /\ attempts[k] <= MaxAttempts + crashes'
    BY <1>0, <1>1, <2>2
  <2> QED
    BY <1>1, <2>2, <2>3
<1>9. CASE \E j \in Jobs : Requested(j) \/ Expires(j)
  BY <1>0, <1>1, <1>9 DEF Requested, Expires, Working, WorksOn
<1>10. CASE UNCHANGED <<jobState, attempts, lease, worker, crashes>>
  BY <1>1, <1>10 DEF Working, WorksOn
<1> QED
  BY <1>5, <1>6, <1>7, <1>8, <1>9, <1>10 DEF JobStep

\* Both invariants hold of every behaviour.
LEMMA JobsCorrect == ASSUME ~SlowWorkers PROVE Spec => [](Exclusive /\ AttemptsLeft)
<1>1. Init => Exclusive /\ AttemptsLeft
  <2> SUFFICES ASSUME Init PROVE Exclusive /\ AttemptsLeft
    OBVIOUS
  <2>1. \A w \in Workers : worker[w].pc = "idle"
    BY DEF Init, Idle
  <2>2. \A j \in Jobs : jobState[j] = "absent" /\ attempts[j] = 0
    BY DEF Init
  <2>3. crashes = 0 /\ MaxAttempts \in Nat \ {0}
    BY LimitsAssumption DEF Init
  <2> QED
    <3>1. \A j \in Jobs : attempts[j] <= MaxAttempts + crashes
      BY <2>2, <2>3
    <3>2. Exclusive
      BY <2>1 DEF Exclusive
    <3>3. AttemptsLeft
      BY <2>2, <3>1 DEF AttemptsLeft
    <3> QED
      BY <3>2, <3>3
<1>2. TypeOK /\ Exclusive /\ AttemptsLeft /\ [Next]_vars => (Exclusive /\ AttemptsLeft)'
  BY EveryStep, ExclusiveKept, AttemptsKept
<1> QED
  BY <1>1, <1>2, TypeCorrect, PTL DEF Spec

\* claim_job: if leases outlive executions, two workers never have one job
\* and the job a worker has is marked so, whatever crashes and is retried.
THEOREM OneWorkerForJob == ASSUME ~SlowWorkers PROVE Spec => []OneWorkerPerJob
<1>1. Exclusive => OneWorkerPerJob
  BY DEF Exclusive, OneWorkerPerJob, WorksOn
<1> QED
  BY <1>1, JobsCorrect, PTL

\* max_attempts bounds the executions of a job up to the crashes there were.
THEOREM AttemptsBound == ASSUME ~SlowWorkers PROVE Spec => []AttemptsAreBounded
<1>1. AttemptsLeft => AttemptsAreBounded
  BY DEF AttemptsLeft, AttemptsAreBounded
<1> QED
  BY <1>1, JobsCorrect, PTL

\* _finish and _fail: no worker touches a job that has been completed.
THEOREM CompletedStays == ASSUME ~SlowWorkers PROVE Spec => CompletedIsFinal
<1>1. TypeOK /\ Exclusive /\ [Next]_vars
        => [\A j \in Jobs : jobState[j] = "completed" => jobState'[j] = "completed"]_vars
  <2> SUFFICES ASSUME TypeOK, Exclusive, JobStep, NEW j \in Jobs,
                      jobState[j] = "completed"
               PROVE  jobState'[j] = "completed"
    BY EveryStep
  <2>1. jobState \in [Jobs -> JobState \cup {"absent"}]
    BY DEF TypeOK
  <2> QED
    BY <2>1 DEF JobStep, Keeps, Claims, Runnable, Ends, Dies, Requested, Expires,
                Exclusive
<1> QED
  BY <1>1, JobsCorrect, TypeCorrect, PTL DEF Spec, CompletedIsFinal

-----------------------------------------------------------------------------
(* One worker process, the number docker-compose.yml starts by default and *)
(* the only one SQLite serves: the rows in the store are those of the      *)
(* current version, and readers see what DocumentPromise promises.  Any    *)
(* number of versions and jobs, any mixture of requests, failures, crashes *)
(* and expired leases.                                                     *)

Executing == {"loaded", "parsing", "written", "published", "superseding"}

\* What the worker cached when it loaded its job is still so when it uses it.
Fresh(w) ==
    /\ worker[w].pc \in Executing \cup {"cleared"} => worker[w].seenCurrent = current
    /\ worker[w].pc \in Executing /\ VersionOf(w) \in Versions
         => worker[w].seenStatus = versionStatus[VersionOf(w)]
    /\ worker[w].pc = "superseding" => worker[w].cleared = chunks \ {VersionOf(w)}
    /\ worker[w].pc = "cleared" => worker[w].cleared = chunks

\* A version that is current has not been superseded, so the next one that is
\* published finds it among those to retire.
CurrentCounts ==
    current # None => versionStatus[current] \in {"indexed", "failed"}

ListedKnown ==
    \A w \in Workers :
        /\ worker[w].pc \in {"cleared", "superseding"} => worker[w].listed \subseteq Registered
        /\ worker[w].pc = "superseding" => VersionOf(w) \notin worker[w].listed

Single ==
    /\ Known /\ OnlyCurrentStored /\ CurrentCounts /\ ListedKnown
    /\ \A w \in Workers : Fresh(w)

\* The steps as the readers of the document see them.
ReaderStep ==
    \/ \E v \in Versions : Registered' = Registered \cup {v} /\ chunks' = chunks
    \/ \E v \in Registered : chunks' = {v} /\ Registered' = Registered
    \/ chunks' = {} /\ Registered' = Registered
    \/ chunks' = chunks /\ Registered' = Registered

\* Requests leave alone what the worker has cached.
LEMMA RequestSingle ==
    ASSUME TypeOK, Assigned, Single, Request
    PROVE  (OnlyCurrentStored /\ CurrentCounts /\ ListedKnown)'
           /\ (\A w \in Workers : Fresh(w))' /\ ReaderStep
<1> USE DEF TypeOK, Single, Known, Registered
<1>0. /\ current \in Registered \cup {None}
      /\ \A w \in Workers : worker[w].pc # "idle" =>
           /\ worker[w].job \in Jobs /\ jobState[worker[w].job] # "absent"
           /\ VersionOf(w) \in Registered \cup {None}
  BY DEF VersionOf, Assigned, WorkerState, Idle
<1>1. ASSUME UNCHANGED <<current, chunks, worker>>,
             \A v \in Versions : versionStatus[v] # "absent" => versionStatus'[v] = versionStatus[v],
             \A w \in Workers : worker[w].pc # "idle" => VersionOf(w)' = VersionOf(w)
      PROVE  (OnlyCurrentStored /\ CurrentCounts /\ ListedKnown)'
             /\ (\A w \in Workers : Fresh(w))'
  <2>1. OnlyCurrentStored'
    BY <1>1 DEF OnlyCurrentStored
  <2>2. CurrentCounts'
    BY <1>0, <1>1 DEF CurrentCounts
  <2>3. ASSUME NEW w \in Workers PROVE Fresh(w)'
    <3>1. worker[w].pc # "idle" /\ VersionOf(w) \in Versions =>
            versionStatus'[VersionOf(w)] = versionStatus[VersionOf(w)]
      BY <1>0, <1>1, LimitsAssumption
    <3>2. Fresh(w)
      OBVIOUS
    <3> QED
      BY <1>1, <3>1, <3>2 DEF Fresh, Executing
  <2>4. ListedKnown'
    BY <1>1 DEF ListedKnown
  <2> QED
    BY <2>1, <2>2, <2>3, <2>4
<1>2. CASE \E v \in Versions : UploadDuplicate(v)
  <2>1. UNCHANGED <<current, chunks, worker, versionStatus, task>>
    BY <1>2 DEF UploadDuplicate, jobVars
  <2> QED
    BY <1>1, <2>1 DEF VersionOf, ReaderStep
<1>3. CASE \E v \in Versions, j \in Jobs : Upload(v, j)
  <2>1. PICK v \in Versions, j \in Jobs : Upload(v, j)
    BY <1>3
  <2>2. /\ UNCHANGED <<current, chunks, worker>> /\ jobState[j] = "absent"
        /\ task' = [task EXCEPT ![j] = [type |-> "ingest", version |-> v]]
    BY <2>1 DEF Upload, Enqueue
  <2>3. /\ \A u \in Versions : versionStatus[u] # "absent" => versionStatus'[u] = versionStatus[u]
        /\ {u \in Versions : versionStatus'[u] # "absent"} = Registered \cup {v}
    BY <2>1 DEF Upload
  <2>4. \A w \in Workers : worker[w].pc # "idle" => VersionOf(w)' = VersionOf(w)
    BY <1>0, <2>2 DEF VersionOf
  <2> QED
    BY <1>1, <2>2, <2>3, <2>4 DEF ReaderStep
<1>4. CASE \E j \in Jobs : RequestReindex(j) \/ RequestDelete(j) \/ RetryJob(j)
  <2>1. PICK j \in Jobs : RequestReindex(j) \/ RequestDelete(j) \/ RetryJob(j)
    BY <1>4
  <2>2. UNCHANGED <<current, chunks, worker, versionStatus>>
    BY <2>1 DEF RequestReindex, RequestDelete, RetryJob, documentVars
  <2>3. \A k \in Jobs : jobState[k] # "absent" => task'[k] = task[k]
    BY <2>1 DEF RequestReindex, RequestDelete, RetryJob, Enqueue
  <2>4. \A w \in Workers : worker[w].pc # "idle" => VersionOf(w)' = VersionOf(w)
    BY <1>0, <2>2, <2>3 DEF VersionOf
  <2> QED
    BY <1>1, <2>2, <2>4 DEF ReaderStep
<1> QED
  BY <1>2, <1>3, <1>4 DEF Request

\* With nobody else at work, the worker acts on what is there.
LEMMA WorkerSingle ==
    ASSUME TypeOK, Assigned, Single, NEW w \in Workers,
           \A x \in Workers : x = w,
           ClaimJob(w) \/ Execute(w) \/ Crash(w)
    PROVE  (OnlyCurrentStored /\ CurrentCounts /\ ListedKnown)'
           /\ (\A x \in Workers : Fresh(x))' /\ ReaderStep
<1> USE DEF TypeOK, Single, Known, Registered
<1>0. /\ Idle.pc = "idle" /\ worker \in [Workers -> WorkerState]
      /\ Fresh(w) /\ current \in Registered \cup {None}
      /\ worker[w].pc # "idle" =>
           worker[w].job \in Jobs /\ VersionOf(w) \in Registered \cup {None}
  BY DEF Idle, VersionOf, WorkerState
<1>1. ASSUME UNCHANGED documentVars, Fresh(w)', ListedKnown'
      PROVE  (OnlyCurrentStored /\ CurrentCounts /\ ListedKnown)'
             /\ (\A x \in Workers : Fresh(x))' /\ ReaderStep
  BY <1>1 DEF documentVars, OnlyCurrentStored, CurrentCounts, ReaderStep
<1>2. ASSUME worker'[w].pc \notin Executing \cup {"cleared"}
      PROVE  Fresh(w)' /\ ListedKnown'
  BY <1>2 DEF Fresh, ListedKnown, Executing
<1>3. CASE ClaimJob(w) \/ Raise(w) \/ Crash(w)
  <2>1. worker'[w].pc \notin Executing \cup {"cleared"} /\ UNCHANGED documentVars
    BY <1>0, <1>3 DEF ClaimJob, Raise, Crash, Executing
  <2> QED
    BY <1>1, <1>2, <2>1
<1>4. CASE LoadJob(w)
  <2>1. /\ worker' = [worker EXCEPT ![w] =
               [pc |-> "loaded", job |-> worker[w].job,
                seenStatus |-> IF VersionOf(w) = None THEN "absent"
                               ELSE versionStatus[VersionOf(w)],
                seenCurrent |-> current]]
        /\ UNCHANGED documentVars /\ VersionOf(w)' = VersionOf(w)
    BY <1>4 DEF LoadJob, jobVars, VersionOf
  <2>2. Fresh(w)'
    BY <1>0, <2>1, LimitsAssumption DEF Fresh, Executing, documentVars
  <2>3. ListedKnown'
    BY <1>0, <2>1 DEF ListedKnown
  <2> QED
    BY <1>1, <2>1, <2>2, <2>3
<1>5. CASE StartParsing(w) \/ WriteChunks(w) \/ Publish(w)
  <2>1. PICK p \in {"parsing", "written", "published"} :
          worker' = [worker EXCEPT ![w].pc = p]
    BY <1>5 DEF StartParsing, WriteChunks, Publish
  <2>2. /\ worker[w].pc \in {"loaded", "parsing", "written"}
        /\ UNCHANGED <<documentVars, jobVars>>
    BY <1>5 DEF StartParsing, WriteChunks, Publish
  <2>3. DOMAIN worker[w] = {"pc", "job", "seenStatus", "seenCurrent"}
    BY <1>0, <2>2 DEF WorkerState, Idle
  <2>4. /\ worker'[w].pc = p /\ worker'[w].job = worker[w].job
        /\ worker'[w].seenStatus = worker[w].seenStatus
        /\ worker'[w].seenCurrent = worker[w].seenCurrent
    BY <1>0, <2>1, <2>3
  <2>5. VersionOf(w)' = VersionOf(w)
    BY <2>2, <2>4 DEF VersionOf, jobVars
  <2>6. Fresh(w)'
    BY <1>0, <2>2, <2>4, <2>5 DEF Fresh, Executing, documentVars
  <2>7. ListedKnown'
    BY <2>4 DEF ListedKnown
  <2> QED
    BY <1>1, <2>2, <2>6, <2>7
<1>6. CASE SupersedeOlder(w)
  <2> DEFINE v == VersionOf(w)
             next == [pc |-> "superseding", job |-> worker[w].job,
                      seenStatus |-> worker[w].seenStatus,
                      seenCurrent |-> worker[w].seenCurrent,
                      listed |-> Stale(v), cleared |-> Supersedable(v)]
  <2>1. /\ worker[w].pc = "published" /\ worker' = [worker EXCEPT ![w] = next]
        /\ UNCHANGED <<documentVars, jobVars>>
    BY <1>6 DEF SupersedeOlder
  <2>2. worker'[w] = next /\ VersionOf(w)' = v
    BY <1>0, <2>1 DEF VersionOf, jobVars
  <2>3. Supersedable(v) = chunks \ {v}
    <3>1. chunks = IF current = None THEN {} ELSE {current}
      BY DEF OnlyCurrentStored
    <3>2. current # None => versionStatus[current] \notin {"absent", "superseded"}
      BY DEF CurrentCounts
    <3> QED
      BY <3>1, <3>2 DEF Supersedable, Stale
  <2>4. Fresh(w)'
    BY <1>0, <2>1, <2>2, <2>3 DEF Fresh, Executing, documentVars
  <2>5. ListedKnown'
    BY <2>1, <2>2 DEF ListedKnown, Stale, documentVars
  <2> HIDE DEF v, next
  <2> QED
    BY <1>1, <2>1, <2>4, <2>5
<1>7. CASE CommitIngest(w)
  <2> DEFINE v == VersionOf(w)
  <2>1. /\ worker[w].pc = "superseding" /\ worker' = [worker EXCEPT ![w] = Idle]
        /\ current' = IF worker[w].seenCurrent = v THEN current ELSE v
        /\ chunks' = (chunks \ worker[w].cleared) \cup {v}
        /\ versionStatus' = [u \in Versions |->
               IF u \in worker[w].listed THEN "superseded"
               ELSE IF u = v /\ worker[w].seenStatus # "indexed" THEN "indexed"
               ELSE versionStatus[u]]
    BY <1>7 DEF CommitIngest
  <2>2. /\ v \in Registered /\ v # None
        /\ worker[w].seenCurrent = current
        /\ worker[w].seenStatus = versionStatus[v]
        /\ worker[w].cleared = chunks \ {v}
        /\ v \notin worker[w].listed /\ worker[w].listed \subseteq Registered
    <3>1. v \in Versions /\ v # None
      BY <2>1, LimitsAssumption DEF Assigned
    <3> QED
      BY <1>0, <2>1, <3>1 DEF Fresh, Executing, ListedKnown
  <2> HIDE DEF v
  <2>3. current' = v /\ chunks' = {v} /\ versionStatus'[v] = "indexed"
    BY <2>1, <2>2
  <2>4. Registered' = Registered
    BY <2>1, <2>2
  <2>5. OnlyCurrentStored' /\ CurrentCounts'
    BY <2>2, <2>3 DEF OnlyCurrentStored, CurrentCounts
  <2>6. worker'[w].pc \notin Executing \cup {"cleared"}
    BY <1>0, <2>1 DEF Executing
  <2> QED
    BY <1>2, <2>2, <2>3, <2>4, <2>5, <2>6 DEF ReaderStep
<1>8. CASE ClearDocument(w)
  <2> DEFINE next == [pc |-> "cleared", job |-> worker[w].job,
                      seenCurrent |-> worker[w].seenCurrent,
                      listed |-> Registered, cleared |-> chunks]
  <2>1. /\ worker[w].pc = "loaded" /\ worker' = [worker EXCEPT ![w] = next]
        /\ UNCHANGED documentVars
    BY <1>8 DEF ClearDocument
  <2>2. worker'[w] = next
    BY <1>0, <2>1
  <2>3. Fresh(w)'
    BY <1>0, <2>1, <2>2 DEF Fresh, Executing, documentVars
  <2>4. ListedKnown'
    BY <2>1, <2>2 DEF ListedKnown, documentVars
  <2> HIDE DEF next
  <2> QED
    BY <1>1, <2>1, <2>3, <2>4
<1>9. CASE CommitDelete(w)
  <2>1. /\ worker[w].pc = "cleared" /\ worker' = [worker EXCEPT ![w] = Idle]
        /\ current' = IF worker[w].seenCurrent = None THEN current ELSE None
        /\ chunks' = chunks \ worker[w].cleared
        /\ versionStatus' = [v \in Versions |->
               IF v \in worker[w].listed THEN "superseded" ELSE versionStatus[v]]
    BY <1>9 DEF CommitDelete, CurrentAfterDelete, MarkedByDelete
  <2>2. /\ worker[w].seenCurrent = current /\ worker[w].cleared = chunks
        /\ worker[w].listed \subseteq Registered
    BY <1>0, <2>1 DEF Fresh, ListedKnown
  <2>3. current' = None /\ chunks' = {}
    BY <2>1, <2>2
  <2>4. Registered' = Registered
    BY <2>1, <2>2
  <2>5. worker'[w].pc \notin Executing \cup {"cleared"}
    BY <1>0, <2>1 DEF Executing
  <2> QED
    BY <1>2, <2>3, <2>4, <2>5 DEF OnlyCurrentStored, CurrentCounts, ReaderStep
<1>10. CASE Fail(w)
  <2>1. /\ UNCHANGED <<current, chunks>> /\ worker' = [worker EXCEPT ![w] = Idle]
        /\ \/ UNCHANGED versionStatus
           \/ versionStatus' = [v \in Versions |->
                  IF v = VersionOf(w) THEN "failed" ELSE versionStatus[v]]
        /\ worker[w].pc = "raised"
    BY <1>10 DEF Fail
  <2>2. VersionOf(w) \in Registered \cup {None}
    BY <1>0, <2>1
  <2>3. Registered' = Registered
    BY <2>1, <2>2, LimitsAssumption
  <2>4. OnlyCurrentStored' /\ CurrentCounts'
    BY <1>0, <2>1 DEF OnlyCurrentStored, CurrentCounts
  <2>5. worker'[w].pc \notin Executing \cup {"cleared"}
    BY <1>0, <2>1 DEF Executing
  <2> QED
    BY <1>2, <2>1, <2>3, <2>4, <2>5 DEF ReaderStep
<1> QED
  BY <1>3, <1>4, <1>5, <1>6, <1>7, <1>8, <1>9, <1>10 DEF Execute

OneWorkerAssumption == \A w, v \in Workers : w = v

\* Every step keeps the invariant and is a step the readers may see.
LEMMA StepSingle ==
    ASSUME OneWorkerAssumption
    PROVE  TypeOK /\ Assigned /\ Single /\ IndexedIsStored /\ [Next]_vars
             => Single' /\ (ReaderStep \/ UNCHANGED <<chunks, versionStatus>>)
<1> SUFFICES ASSUME TypeOK, Assigned, Single, IndexedIsStored, [Next]_vars
             PROVE  Single' /\ (ReaderStep \/ UNCHANGED <<chunks, versionStatus>>)
  OBVIOUS
<1>1. CASE UNCHANGED vars \/ \E j \in Jobs : BackoffEnds(j) \/ LeaseExpires(j)
  <2>1. UNCHANGED <<documentVars, worker, task>>
    BY <1>1 DEF vars, documentVars, BackoffEnds, LeaseExpires
  <2>2. Known' /\ OnlyCurrentStored' /\ CurrentCounts' /\ ListedKnown'
    BY <2>1 DEF documentVars, Single, Known, Registered, OnlyCurrentStored, CurrentCounts,
                ListedKnown, VersionOf
  <2>3. (\A w \in Workers : Fresh(w))'
    BY <2>1 DEF documentVars, Single, Fresh, VersionOf
  <2> QED
    BY <2>1, <2>2, <2>3 DEF Single, documentVars
<1>2. CASE Request
  BY <1>2, RequestSingle, RequestStored DEF Single
<1>3. CASE \E w \in Workers : ClaimJob(w) \/ Execute(w) \/ Crash(w)
  BY <1>3, WorkerSingle, WorkerStored DEF Single, OneWorkerAssumption
<1> QED
  BY <1>1, <1>2, <1>3 DEF Next

\* The invariant holds at the start.
LEMMA InitSingle == Init => Single
<1> SUFFICES ASSUME Init PROVE Single
  OBVIOUS
<1>1. \A w \in Workers : worker[w].pc = "idle"
  BY DEF Init, Idle
<1>2. Known
  BY <1>1, LimitsAssumption DEF Init, Known, Registered, NoTask
<1>3. OnlyCurrentStored /\ CurrentCounts
  BY DEF Init, OnlyCurrentStored, CurrentCounts
<1>4. ListedKnown /\ \A w \in Workers : Fresh(w)
  BY <1>1 DEF ListedKnown, Fresh, Executing
<1> QED
  BY <1>2, <1>3, <1>4 DEF Single

\* _run_ingest, _run_delete: with one worker the chunk rows in the store are
\* always those of the current version, none when there is none.
THEOREM StoreIsCurrent == ASSUME OneWorkerAssumption PROVE Spec => []OnlyCurrentStored
<1>1. TypeOK /\ Assigned /\ Single /\ IndexedIsStored /\ [Next]_vars => Single'
  BY StepSingle
<1>2. Single => OnlyCurrentStored
  BY DEF Single
<1> QED
  BY <1>1, <1>2, InitSingle, TypeCorrect, DuplicatesAreStored, PTL DEF Spec

\* With one worker the pipeline implements what DocumentPromise promises:
\* readers find one whole version or none, and it is replaced in one step.
THEOREM PipelineKeepsPromise == ASSUME OneWorkerAssumption PROVE Spec => KeepsPromise
<1>1. Init => Promise!Init
  BY DEF Init, Promise!Init, Registered
<1>2. TypeOK /\ Assigned /\ Single /\ IndexedIsStored /\ [Next]_vars
        => Single' /\ [Promise!Next]_(Promise!vars)
  <2> SUFFICES ASSUME Single', ReaderStep \/ UNCHANGED <<chunks, versionStatus>>
               PROVE  [Promise!Next]_(Promise!vars)
    BY StepSingle
  <2> QED
    BY DEF ReaderStep, Registered, Promise!Next, Promise!Accept, Promise!Replace,
           Promise!Remove, Promise!vars
<1> QED
  BY <1>1, <1>2, InitSingle, TypeCorrect, DuplicatesAreStored, PTL
  DEF Spec, KeepsPromise, Promise!Spec
=============================================================================
