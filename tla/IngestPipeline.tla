--------------------------- MODULE IngestPipeline ---------------------------
(***************************************************************************)
(* The ingest queue (kbsvc/ingest) as it acts on one document: uploads,    *)
(* reindex and delete requests that enqueue jobs, and worker processes     *)
(* that claim them under a lease and publish, supersede or delete the      *)
(* document's versions.  Jobs of other documents touch none of its rows.   *)
(*                                                                         *)
(* The database is PostgreSQL under READ COMMITTED (the profile with       *)
(* several workers).  A job is executed in one transaction, so what it     *)
(* does becomes visible at its commit; until then it holds the rows it has *)
(* written, and other transactions wait for them.  The columns of both     *)
(* retrieval indexes live in the chunk rows.                               *)
(***************************************************************************)
EXTENDS Naturals, Sequences, FiniteSets

CONSTANTS
    Versions,     \* contents the document is uploaded with (one hash each)
    Jobs,         \* identities a job can be given
    Workers,      \* ingest worker processes
    None,         \* NULL
    MaxAttempts,  \* worker_max_attempts
    SlowWorkers,  \* may a lease run out under a worker that is still alive?
    MaxCrashes,   \* bound: worker crashes in one behaviour
    MaxRevivals   \* bound: failed jobs put back by hand in one behaviour

ASSUME LimitsAssumption ==
    /\ MaxAttempts \in Nat \ {0}
    /\ MaxCrashes \in Nat
    /\ MaxRevivals \in Nat
    /\ SlowWorkers \in BOOLEAN
    /\ IsFiniteSet(Versions) /\ None \notin Versions

VARIABLES
    document,       \* absent, live, or deleted (deleted_at is set)
    current,        \* current_version_id
    versionStatus,  \* the status column of each version, or absent
    number,         \* the version column, 0 while the version is absent
    chunks,         \* the versions whose chunk rows are stored and searchable
    jobState,
    task,           \* what each job is to do: job_type and version_id
    attempts,
    lease,          \* lease_expires_at: none (NULL), live or expired
    queue,          \* the jobs that are due, by scheduled_at
    worker,
    crashes,
    revivals

documentVars == <<document, current, versionStatus, number, chunks>>
jobVars == <<jobState, task, attempts, lease, queue>>
vars == <<document, current, versionStatus, number, chunks, jobState, task,
          attempts, lease, queue, worker, crashes, revivals>>

-----------------------------------------------------------------------------
VersionStatus == {"absent", "pending", "indexed", "superseded", "failed"}

\* ingest/states.py.  "cancelled" is never assigned.
JobState == {"pending", "parsing", "chunking", "embedding", "indexing",
             "completed", "retry_wait", "failed", "cancelled"}

NoTask == [type |-> "none", version |-> None]

Task ==
    {NoTask} \cup [type : {"delete"}, version : {None}] \cup
    [type : {"ingest", "reindex"}, version : Versions]

Idle == [pc |-> "idle"]

\* seenStatus and seenCurrent are what the session read of the version and
\* of the document when the job was loaded: the ORM writes a column only if
\* its new value differs from the one it read.  listed is what the versions
\* to retire were when they were selected, cleared those of them whose chunk
\* rows were there to be deleted.
WorkerState ==
    {Idle} \cup
    [pc : {"claimed", "raised"}, job : Jobs] \cup
    [pc : {"loaded", "parsing", "written", "published"}, job : Jobs,
     seenStatus : VersionStatus, seenCurrent : Versions \cup {None}] \cup
    [pc : {"superseding"}, job : Jobs,
     seenStatus : VersionStatus, seenCurrent : Versions \cup {None},
     listed : SUBSET Versions, cleared : SUBSET Versions] \cup
    [pc : {"cleared"}, job : Jobs, seenCurrent : Versions \cup {None},
     listed : SUBSET Versions, cleared : SUBSET Versions]

VersionOf(w) == task[worker[w].job].version

WorksOn(w, j) == worker[w].pc # "idle" /\ worker[w].job = j

(* Row locks, held from the first write of a transaction to its end.       *)

JobLocked(j) ==
    \E w \in Workers :
        /\ worker[w].pc \in {"parsing", "written", "published", "superseding"}
        /\ worker[w].job = j

HoldsVersion(w, v) ==
    \/ /\ worker[w].pc \in {"written", "published", "superseding"}
       /\ VersionOf(w) = v
    \/ /\ worker[w].pc \in {"cleared", "superseding"}
       /\ v \in worker[w].cleared

VersionLocked(v) == \E w \in Workers : HoldsVersion(w, v)

VersionLockedToOthers(w, v) == \E x \in Workers \ {w} : HoldsVersion(x, v)

DocumentLocked ==
    \E w \in Workers : /\ worker[w].pc \in {"published", "superseding"}
                       /\ worker[w].seenCurrent # VersionOf(w)

Registered == {v \in Versions : versionStatus[v] # "absent"}

Enqueued(j) == \E i \in DOMAIN queue : queue[i] = j

Without(j) ==
    IF Enqueued(j)
      THEN LET i == CHOOSE i \in DOMAIN queue : queue[i] = j
           IN  SubSeq(queue, 1, i - 1) \o SubSeq(queue, i + 1, Len(queue))
      ELSE queue

Init ==
    /\ document = "absent"
    /\ current = None
    /\ versionStatus = [v \in Versions |-> "absent"]
    /\ number = [v \in Versions |-> 0]
    /\ chunks = {}
    /\ jobState = [j \in Jobs |-> "absent"]
    /\ task = [j \in Jobs |-> NoTask]
    /\ attempts = [j \in Jobs |-> 0]
    /\ lease = [j \in Jobs |-> "none"]
    /\ queue = <<>>
    /\ worker = [w \in Workers |-> Idle]
    /\ crashes = 0
    /\ revivals = 0

-----------------------------------------------------------------------------
(* Requests, one transaction each.                                         *)

Enqueue(j, what) ==
    /\ jobState[j] = "absent"
    /\ jobState' = [jobState EXCEPT ![j] = "pending"]
    /\ task' = [task EXCEPT ![j] = what]
    /\ queue' = Append(queue, j)
    /\ UNCHANGED <<attempts, lease>>

\* get_or_create_document clears deleted_at of a document it finds.
Restore ==
    /\ document = "deleted" => ~DocumentLocked
    /\ document' = "live"

\* next_version_number
NextNumber == Cardinality(Registered) + 1

\* register_bytes: content that is not indexed gets a job, and a version if
\* it is new.
Upload(v, j) ==
    /\ versionStatus[v] # "indexed"
    /\ Restore
    /\ Enqueue(j, [type |-> "ingest", version |-> v])
    /\ IF versionStatus[v] = "absent"
         THEN /\ versionStatus' = [versionStatus EXCEPT ![v] = "pending"]
              /\ number' = [number EXCEPT ![v] = NextNumber]
         ELSE UNCHANGED <<versionStatus, number>>
    /\ UNCHANGED <<current, chunks, worker, crashes, revivals>>

\* Content that is indexed already is answered as a duplicate.
UploadDuplicate(v) ==
    /\ versionStatus[v] = "indexed"
    /\ document = "deleted"
    /\ Restore
    /\ UNCHANGED <<current, versionStatus, number, chunks, jobVars, worker,
                   crashes, revivals>>

\* Mutant: a document without an indexed version is not refused.
RequestReindex_Any(j) ==
    /\ document = "live"
    /\ Enqueue(j, [type |-> "reindex", version |-> current])
    /\ UNCHANGED <<documentVars, worker, crashes, revivals>>

RequestReindex(j) ==
    /\ document = "live" /\ current # None
    /\ Enqueue(j, [type |-> "reindex", version |-> current])
    /\ UNCHANGED <<documentVars, worker, crashes, revivals>>

RequestDelete(j) ==
    /\ document = "live"
    /\ Enqueue(j, [type |-> "delete", version |-> None])
    /\ UNCHANGED <<documentVars, worker, crashes, revivals>>

\* POST /jobs/{id}/retry
RetryJob(j) ==
    /\ jobState[j] = "failed" /\ ~JobLocked(j)
    /\ revivals < MaxRevivals
    /\ revivals' = revivals + 1
    /\ jobState' = [jobState EXCEPT ![j] = "pending"]
    /\ attempts' = [attempts EXCEPT ![j] = 0]
    /\ queue' = Append(queue, j)
    /\ UNCHANGED <<documentVars, task, lease, worker, crashes>>

-----------------------------------------------------------------------------
(* Workers: claim_job, IngestWorker.run_once.                              *)

\* Mutants: a leased job is taken again, an expired one never.
Runnable_Leased(j) == jobState[j] \in {"pending", "retry_wait", "parsing"}
Runnable_Pending(j) == jobState[j] \in {"pending", "retry_wait"}

Runnable(j) ==
    \/ jobState[j] \in {"pending", "retry_wait"}
    \/ jobState[j] = "parsing" /\ lease[j] = "expired"

Claimable(j) == Runnable(j) /\ ~JobLocked(j)

\* The first runnable job by scheduled_at, passing over locked rows.
ClaimJob(w) ==
    /\ worker[w] = Idle
    /\ \E i \in DOMAIN queue :
         LET j == queue[i] IN
         /\ Claimable(j)
         /\ \A k \in 1..(i - 1) : ~Claimable(queue[k])
         /\ jobState' = [jobState EXCEPT ![j] = "parsing"]
         /\ attempts' = [attempts EXCEPT ![j] = @ + 1]
         /\ lease' = [lease EXCEPT ![j] = "live"]
         /\ worker' = [worker EXCEPT ![w] = [pc |-> "claimed", job |-> j]]
    /\ UNCHANGED <<documentVars, task, queue, crashes, revivals>>

\* session.get of the job, its version and its document
LoadJob(w) ==
    /\ worker[w].pc = "claimed"
    /\ worker' = [worker EXCEPT ![w] =
           [pc |-> "loaded", job |-> worker[w].job,
            seenStatus |-> IF VersionOf(w) = None THEN "absent"
                                                  ELSE versionStatus[VersionOf(w)],
            seenCurrent |-> current]]
    /\ UNCHANGED <<documentVars, jobVars, crashes, revivals>>

IsDelete(w) == task[worker[w].job].type = "delete"

\* _advance(PARSING): the first UPDATE of the job row, not committed.
StartParsing(w) ==
    /\ worker[w].pc = "loaded" /\ ~IsDelete(w)
    /\ ~JobLocked(worker[w].job)
    /\ worker' = [worker EXCEPT ![w].pc = "parsing"]
    /\ UNCHANGED <<documentVars, jobVars, crashes, revivals>>

\* _persist_chunks and both index writes, after parsing and chunking
WriteChunks(w) ==
    /\ worker[w].pc = "parsing"
    /\ ~VersionLocked(VersionOf(w))
    /\ worker' = [worker EXCEPT ![w].pc = "written"]
    /\ UNCHANGED <<documentVars, jobVars, crashes, revivals>>

\* version.status and document.current_version_id, flushed with the event
Publish(w) ==
    /\ worker[w].pc = "written"
    /\ worker[w].seenCurrent # VersionOf(w) => ~DocumentLocked
    /\ worker' = [worker EXCEPT ![w].pc = "published"]
    /\ UNCHANGED <<documentVars, jobVars, crashes, revivals>>

\* Mutant: versions that are not indexed are left as they are.
Stale_Indexed(v) == {u \in Versions \ {v} : versionStatus[u] = "indexed"}

\* superseded_version_ids: every other version, whatever its number.
Stale(v) == {u \in Registered \ {v} : versionStatus[u] # "superseded"}

\* Mutant: the rows of the versions it replaces stay.
Supersedable_None(v) == {}

Supersedable(v) == chunks \cap Stale(v)

\* _supersede_older: the other versions are selected, and those of their
\* chunk rows that are visible are deleted, once nobody holds them ...
SupersedeOlder(w) ==
    /\ worker[w].pc = "published"
    /\ \A u \in Supersedable(VersionOf(w)) : ~VersionLockedToOthers(w, u)
    /\ worker' = [worker EXCEPT ![w] =
           [pc |-> "superseding", job |-> worker[w].job,
            seenStatus |-> worker[w].seenStatus,
            seenCurrent |-> worker[w].seenCurrent,
            listed |-> Stale(VersionOf(w)),
            cleared |-> Supersedable(VersionOf(w))]]
    /\ UNCHANGED <<documentVars, jobVars, crashes, revivals>>

\* _finish, and the job's side of _fail
Finish(j, state) ==
    /\ jobState' = [jobState EXCEPT ![j] = state]
    /\ lease' = [lease EXCEPT ![j] = "none"]
    /\ queue' = Without(j)

\* ... then mark_versions_superseded, which waits for version rows that
\* others hold, _finish and the commit.
CommitIngest(w) ==
    /\ worker[w].pc = "superseding"
    /\ \A u \in worker[w].listed : ~VersionLockedToOthers(w, u)
    /\ LET v == VersionOf(w) IN
         /\ versionStatus' = [u \in Versions |->
                IF u \in worker[w].listed THEN "superseded"
                ELSE IF u = v /\ worker[w].seenStatus # "indexed" THEN "indexed"
                ELSE versionStatus[u]]
         /\ current' = IF worker[w].seenCurrent = v THEN current ELSE v
         /\ chunks' = (chunks \ worker[w].cleared) \cup {v}
    /\ Finish(worker[w].job, "completed")
    /\ worker' = [worker EXCEPT ![w] = Idle]
    /\ UNCHANGED <<document, number, task, attempts, crashes, revivals>>

\* _run_delete: the version ids are listed and the rows that are visible
\* now are deleted ...
ClearDocument(w) ==
    /\ worker[w].pc = "loaded" /\ IsDelete(w)
    /\ \A v \in chunks : ~VersionLocked(v)
    /\ worker' = [worker EXCEPT ![w] =
           [pc |-> "cleared", job |-> worker[w].job,
            seenCurrent |-> worker[w].seenCurrent,
            listed |-> Registered, cleared |-> chunks]]
    /\ UNCHANGED <<documentVars, jobVars, crashes, revivals>>

\* Mutant: the versions keep their status.
MarkedByDelete_None(w) == {}

MarkedByDelete(w) == worker[w].listed

\* An attribute that was None when it was loaded is not written.
CurrentAfterDelete(w) == IF worker[w].seenCurrent = None THEN current ELSE None

\* ... then the document, version and job rows are updated, each as soon as
\* no other transaction holds it.
CommitDelete(w) ==
    /\ worker[w].pc = "cleared"
    /\ ~DocumentLocked /\ ~JobLocked(worker[w].job)
    /\ \A v \in worker[w].listed : ~VersionLockedToOthers(w, v)
    /\ document' = "deleted"
    /\ current' = CurrentAfterDelete(w)
    /\ versionStatus' = [v \in Versions |->
           IF v \in MarkedByDelete(w) THEN "superseded" ELSE versionStatus[v]]
    /\ chunks' = chunks \ worker[w].cleared
    /\ Finish(worker[w].job, "completed")
    /\ worker' = [worker EXCEPT ![w] = Idle]
    /\ UNCHANGED <<number, task, attempts, crashes, revivals>>

\* Any exception, a deadlock victim's included, rolls the job back.
Raise(w) ==
    /\ worker[w].pc \notin {"idle", "claimed", "raised"}
    /\ worker' = [worker EXCEPT ![w] = [pc |-> "raised", job |-> worker[w].job]]
    /\ UNCHANGED <<documentVars, jobVars, crashes, revivals>>

\* Mutant: the attempts are not looked at.
OutOfAttempts_Never(j) == FALSE

OutOfAttempts(j) == attempts[j] >= MaxAttempts

\* _fail, in a transaction of its own
Fail(w) ==
    /\ worker[w].pc = "raised"
    /\ ~JobLocked(worker[w].job)
    /\ IF OutOfAttempts(worker[w].job)
         THEN /\ Finish(worker[w].job, "failed")
              /\ ~VersionLocked(VersionOf(w))
              /\ versionStatus' = [v \in Versions |->
                     IF v = VersionOf(w) THEN "failed" ELSE versionStatus[v]]
         ELSE /\ Finish(worker[w].job, "retry_wait")
              /\ UNCHANGED versionStatus
    /\ worker' = [worker EXCEPT ![w] = Idle]
    /\ UNCHANGED <<document, current, number, chunks, task, attempts, crashes,
                   revivals>>

\* The process dies; the database rolls its open transaction back.
Crash(w) ==
    /\ worker[w] # Idle
    /\ crashes < MaxCrashes
    /\ crashes' = crashes + 1
    /\ worker' = [worker EXCEPT ![w] = Idle]
    /\ UNCHANGED <<documentVars, jobVars, revivals>>

\* Time reaches scheduled_at, which backoff_seconds put ahead.
BackoffEnds(j) ==
    /\ jobState[j] = "retry_wait" /\ ~Enqueued(j)
    /\ queue' = Append(queue, j)
    /\ UNCHANGED <<documentVars, jobState, task, attempts, lease, worker,
                   crashes, revivals>>

\* Time reaches lease_expires_at.
LeaseExpires(j) ==
    /\ lease[j] = "live"
    /\ SlowWorkers \/ \A w \in Workers : ~WorksOn(w, j)
    /\ lease' = [lease EXCEPT ![j] = "expired"]
    /\ UNCHANGED <<documentVars, jobState, task, attempts, queue, worker,
                   crashes, revivals>>

-----------------------------------------------------------------------------
Request ==
    \/ \E v \in Versions : UploadDuplicate(v) \/ \E j \in Jobs : Upload(v, j)
    \/ \E j \in Jobs : RequestReindex(j) \/ RequestDelete(j) \/ RetryJob(j)

Execute(w) ==
    \/ LoadJob(w) \/ StartParsing(w) \/ WriteChunks(w) \/ Publish(w)
    \/ SupersedeOlder(w) \/ CommitIngest(w)
    \/ ClearDocument(w) \/ CommitDelete(w)
    \/ Raise(w) \/ Fail(w)

Next ==
    \/ Request
    \/ \E w \in Workers : ClaimJob(w) \/ Execute(w) \/ Crash(w)
    \/ \E j \in Jobs : BackoffEnds(j) \/ LeaseExpires(j)

Spec == Init /\ [][Next]_vars

(* Workers poll (run_forever) and time passes.  Nobody has to upload,      *)
(* delete, reindex or retry anything.                                      *)
Fairness ==
    /\ \A w \in Workers : WF_vars(ClaimJob(w)) /\ WF_vars(Execute(w))
    /\ \A j \in Jobs : WF_vars(BackoffEnds(j)) /\ WF_vars(LeaseExpires(j))

FairSpec == Spec /\ Fairness

-----------------------------------------------------------------------------
(* Types.                                                                  *)

TypeOK ==
    /\ document \in {"absent", "live", "deleted"}
    /\ current \in Versions \cup {None}
    /\ versionStatus \in [Versions -> VersionStatus]
    /\ number \in [Versions -> Nat]
    /\ chunks \in SUBSET Versions
    /\ jobState \in [Jobs -> JobState \cup {"absent"}]
    /\ task \in [Jobs -> Task]
    /\ attempts \in [Jobs -> Nat]
    /\ lease \in [Jobs -> {"none", "live", "expired"}]
    /\ queue \in Seq(Jobs)
    /\ worker \in [Workers -> WorkerState]
    /\ crashes \in Nat
    /\ revivals \in Nat

-----------------------------------------------------------------------------
(* Safety.                                                                 *)

\* test_ingest.py: two workers never claim the same job.  While leases
\* outlive executions, no claim, crash, retry or reclaim lets two workers
\* execute one job, and a job somebody executes is marked so.
OneWorkerPerJob ==
    \A w, v \in Workers, j \in Jobs :
        WorksOn(w, j) => /\ WorksOn(v, j) => v = w
                         /\ jobState[j] = "parsing"

\* The chunk rows in the store are those of the current version, whatever
\* mixture of uploads, reindexing, deletions, failures and crashes led here.
OnlyCurrentStored == chunks = IF current = None THEN {} ELSE {current}

\* register_bytes answers "deduplicated" and enqueues nothing when the
\* version is indexed: then its chunks must really be there, or the content
\* could never be uploaded again.
IndexedIsStored ==
    \A v \in Versions : versionStatus[v] = "indexed" => v \in chunks

\* max_attempts bounds how often a job is executed; only the death of a
\* worker, whose lease is reclaimed without looking at attempts, adds to it.
AttemptsAreBounded == \A j \in Jobs : attempts[j] <= MaxAttempts + crashes

\* A deleted document has no searchable chunks left.
DeletedIsEmpty == document = "deleted" => chunks = {}

-----------------------------------------------------------------------------
(* Readers of the document see whole versions, one at a time.              *)

Promise == INSTANCE DocumentPromise WITH
    uploaded <- Registered, searchable <- chunks

\* With one worker the pipeline keeps the promise through failures, retries,
\* crashes, deletions and reindexing.
KeepsPromise == Promise!Spec

-----------------------------------------------------------------------------
(* Steps.                                                                  *)

\* A job that was completed is not taken up, retried or failed afterwards.
CompletedIsFinal ==
    [][\A j \in Jobs :
          jobState[j] = "completed" => jobState'[j] = "completed"]_vars

\* _supersede_older: the version that is published replaces older ones.
OnlyOlderSuperseded ==
    [][\A u \in Versions :
          (/\ versionStatus[u] # "superseded" /\ versionStatus'[u] = "superseded"
           /\ current' # None)
             => number[u] < number[current']]_vars

-----------------------------------------------------------------------------
(* Liveness.                                                               *)

\* Every job is completed or parked as failed in the end, through crashes,
\* deadlocks between transactions, retries and reclaims.
JobsSettle ==
    \A j \in Jobs :
        jobState[j] = "pending" ~> jobState[j] \in {"completed", "failed"}
=============================================================================
