-------------------------- MODULE CorpusProjection --------------------------
(***************************************************************************)
(* The plagiarism corpus (kbsvc/plagiarism) as it follows one document:    *)
(* ingestion registers a build when it publishes a version and drops the   *)
(* document's projections when it deletes it; plagiarism workers build and *)
(* activate projections; checks freeze a snapshot and read the projections *)
(* whose window contains it; a cleanup removes what nobody can read.       *)
(*                                                                         *)
(* PostgreSQL under READ COMMITTED: a build is visible at its commit, and  *)
(* the UPDATE that retires its predecessors changes the rows it saw when   *)
(* it began, if they are still live when it gets their locks.  A version   *)
(* is built once (a completed job is never queued again), so a projection  *)
(* is known by its version.  A lease outlives the build it is taken for.   *)
(***************************************************************************)
EXTENDS Naturals, Sequences, FiniteSets

CONSTANTS
    Versions,      \* versions of the document
    Workers,       \* plagiarism worker processes
    Checks,        \* checks somebody may create
    None,          \* NULL
    MaxAttempts,   \* plag_max_attempts
    Retention,     \* plag_retention_days, in ticks of the clock
    MaxCrashes,    \* bound: worker crashes in one behaviour
    MaxDeletions,  \* bound: deletions of the document in one behaviour
    MaxClock       \* bound: the last instant

ASSUME LimitsAssumption ==
    /\ MaxAttempts \in Nat \ {0}
    /\ Retention \in Nat
    /\ MaxCrashes \in Nat /\ MaxDeletions \in Nat /\ MaxClock \in Nat
    /\ IsFiniteSet(Versions) /\ None \notin Versions \cup Nat

VARIABLES
    current,     \* the document's current version, None if it has none
    projection,  \* the committed projection row of each version, or NoRow
    jobStatus,   \* plag_corpus_job.status of each version, or absent
    attempts,
    lease,       \* lease_expires_at: none (NULL), live or expired
    queue,       \* the pending jobs that are due, by available_at
    worker,
    deletion,    \* the projections a delete job has listed, or None
    check,
    clock,       \* utcnow()
    crashes,
    deletions

jobVars == <<jobStatus, attempts, lease, queue>>
bounds == <<crashes, deletions>>
vars == <<current, projection, jobStatus, attempts, lease, queue, worker,
          deletion, check, clock, crashes, deletions>>

-----------------------------------------------------------------------------
NoRow == [from |-> None, until |-> None, text |-> FALSE]

\* text says whether the projection has chunks: the text is reassembled from
\* the chunk rows of its version, which only the current version has.
Row == [from : Nat, until : Nat \cup {None}, text : BOOLEAN]

Stored(v) == projection[v] # NoRow

\* active_from IS NOT NULL AND active_until IS NULL
Live(v) == Stored(v) /\ projection[v].until = None

\* active_projection_ids: the window is half-open.
ActiveAt(t) ==
    {v \in Versions : /\ Stored(v) /\ projection[v].from <= t
                      /\ Live(v) \/ projection[v].until > t}

JobStatus == {"pending", "running", "completed", "failed"}

Idle == [pc |-> "idle"]

WorkerState ==
    {Idle} \cup
    [pc : {"claimed", "raised"}, job : Versions] \cup
    [pc : {"loaded"}, job : Versions, text : BOOLEAN] \cup
    [pc : {"activating"}, job : Versions, text : BOOLEAN, moment : Nat,
     retired : SUBSET Versions]

NoCheck == [pc |-> "none"]

CheckState ==
    {NoCheck} \cup
    [pc : {"ready"}] \cup
    [pc : {"active", "done"}, snapshot : Nat]

Enqueued(v) == \E i \in DOMAIN queue : queue[i] = v

WorksOn(w, v) == worker[w].pc # "idle" /\ worker[w].job = v

HasSnapshot(c) == check[c].pc \in {"active", "done"}

Init ==
    /\ current = None
    /\ projection = [v \in Versions |-> NoRow]
    /\ jobStatus = [v \in Versions |-> "absent"]
    /\ attempts = [v \in Versions |-> 0]
    /\ lease = [v \in Versions |-> "none"]
    /\ queue = <<>>
    /\ worker = [w \in Workers |-> Idle]
    /\ deletion = None
    /\ check = [c \in Checks |-> NoCheck]
    /\ clock = 0
    /\ crashes = 0
    /\ deletions = 0

-----------------------------------------------------------------------------
(* Registration: the ingest hook and register_backfill.                    *)

\* enqueue_corpus_job inserts a job or revives a failed one; a queued,
\* running or completed one is left alone.
Register(v) ==
    IF jobStatus[v] \in {"absent", "failed"}
      THEN /\ jobStatus' = [jobStatus EXCEPT ![v] = "pending"]
           /\ attempts' = [attempts EXCEPT ![v] = 0]
           /\ queue' = Append(queue, v)
           /\ UNCHANGED lease
      ELSE UNCHANGED jobVars

\* An ingest or reindex job commits version v as current.  The hook runs in
\* a savepoint: if it fails the version is published without a job.
Publish(v) ==
    /\ current' = v
    /\ Register(v) \/ UNCHANGED jobVars
    /\ UNCHANGED <<projection, worker, deletion, check, clock, bounds>>

\* kbsvc plagiarism backfill and rebuild, for a document that is current.
\* backfill passes over a document that has a live projection.
Backfill(rebuild) ==
    /\ current # None
    /\ rebuild \/ \A v \in Versions : ~Live(v)
    /\ Register(current)
    /\ UNCHANGED <<current, projection, worker, deletion, check, clock, bounds>>

\* retire_document_if_enabled, inside a delete job: the projections of the
\* document are listed (none if the hook fails) and deleted ...
BeginDeletion ==
    /\ current # None /\ deletion = None
    /\ deletions < MaxDeletions
    /\ deletions' = deletions + 1
    /\ deletion' \in {{}, {v \in Versions : Stored(v)}}
    /\ UNCHANGED <<current, projection, jobVars, worker, check, clock, crashes>>

\* ... and the delete job commits, or is rolled back to be tried again.
EndDeletion ==
    /\ deletion # None
    /\ deletion' = None
    /\ \/ /\ current' = None
          /\ projection' = [v \in Versions |->
                 IF v \in deletion THEN NoRow ELSE projection[v]]
       \/ UNCHANGED <<current, projection>>
    /\ UNCHANGED <<jobVars, worker, check, clock, bounds>>

-----------------------------------------------------------------------------
(* Workers: PlagiarismWorker._run_corpus_job and ProjectionBuilder.build.  *)

\* reclaim_expired_corpus_jobs: one UPDATE over every row it matches.
Reclaimable == {v \in Versions : jobStatus[v] = "running" /\ lease[v] = "expired"}

Reclaim(w) ==
    /\ worker[w] = Idle
    /\ Reclaimable # {}
    /\ jobStatus' = [v \in Versions |-> IF v \in Reclaimable THEN "pending"
                                                             ELSE jobStatus[v]]
    /\ lease' = [v \in Versions |-> IF v \in Reclaimable THEN "none"
                                                         ELSE lease[v]]
    /\ \E order \in [1..Cardinality(Reclaimable) -> Reclaimable] :
         /\ \A i, k \in DOMAIN order : order[i] = order[k] => i = k
         /\ queue' = queue \o order
    /\ UNCHANGED <<current, projection, attempts, worker, deletion, check,
                   clock, bounds>>

\* claim_corpus_job, in a transaction of its own
ClaimJob(w) ==
    /\ worker[w] = Idle
    /\ queue # <<>>
    /\ LET v == Head(queue) IN
         /\ jobStatus' = [jobStatus EXCEPT ![v] = "running"]
         /\ attempts' = [attempts EXCEPT ![v] = @ + 1]
         /\ lease' = [lease EXCEPT ![v] = "live"]
         /\ queue' = Tail(queue)
         /\ worker' = [worker EXCEPT ![w] = [pc |-> "claimed", job |-> v]]
    /\ UNCHANGED <<current, projection, deletion, check, clock, bounds>>

\* _load_text reads the version's chunk rows; without any the projection is
\* built empty.
LoadText(w) ==
    /\ worker[w].pc = "claimed"
    /\ worker' = [worker EXCEPT ![w] =
           [pc |-> "loaded", job |-> worker[w].job,
            text |-> worker[w].job = current]]
    /\ UNCHANGED <<current, projection, jobVars, deletion, check, clock, bounds>>

\* Mutant: the predecessors stay live.
Predecessors_None(v) == {}

Predecessors(v) == {u \in Versions \ {v} : Live(u)}

\* activate_projection reads the clock and begins to retire what is live ...
Activate(w) ==
    /\ worker[w].pc = "loaded"
    /\ worker' = [worker EXCEPT ![w] =
           [pc |-> "activating", job |-> worker[w].job, text |-> worker[w].text,
            moment |-> clock, retired |-> Predecessors(worker[w].job)]]
    /\ UNCHANGED <<current, projection, jobVars, deletion, check, clock, bounds>>

\* Mutants: the new window begins at the commit, or active_from is not set.
From_Commit(w) == clock
From_Never(w) == None

From(w) == worker[w].moment

\* ... and the build commits, together with finish_corpus_job.
CommitBuild(w) ==
    /\ worker[w].pc = "activating"
    /\ LET v == worker[w].job IN
         /\ projection' = [u \in Versions |->
                IF u = v
                  THEN [from |-> From(w), until |-> None, text |-> worker[w].text]
                ELSE IF u \in worker[w].retired /\ Live(u)
                  THEN [projection[u] EXCEPT !.until = worker[w].moment]
                ELSE projection[u]]
         /\ jobStatus' = [jobStatus EXCEPT ![v] = "completed"]
         /\ lease' = [lease EXCEPT ![v] = "none"]
    /\ worker' = [worker EXCEPT ![w] = Idle]
    /\ UNCHANGED <<current, attempts, queue, deletion, check, clock, bounds>>

\* Any exception rolls the build back.
BuildRaises(w) ==
    /\ worker[w].pc \in {"claimed", "loaded", "activating"}
    /\ worker' = [worker EXCEPT ![w] =
           [pc |-> "raised", job |-> worker[w].job]]
    /\ UNCHANGED <<current, projection, jobVars, deletion, check, clock, bounds>>

\* Mutant: the attempts are not looked at.
AttemptsLeft_Always(v) == TRUE

AttemptsLeft(v) == attempts[v] < MaxAttempts

\* finish_corpus_job(FAILED), in a transaction of its own
FailJob(w) ==
    /\ worker[w].pc = "raised"
    /\ LET v == worker[w].job IN
         /\ jobStatus' = [jobStatus EXCEPT ![v] =
                IF AttemptsLeft(v) THEN "pending" ELSE "failed"]
         /\ lease' = [lease EXCEPT ![v] = "none"]
    /\ worker' = [worker EXCEPT ![w] = Idle]
    /\ UNCHANGED <<current, projection, attempts, queue, deletion, check, clock,
                   bounds>>

\* The process dies; the database rolls its open transaction back.
Crash(w) ==
    /\ worker[w] # Idle
    /\ crashes < MaxCrashes
    /\ crashes' = crashes + 1
    /\ worker' = [worker EXCEPT ![w] = Idle]
    /\ UNCHANGED <<current, projection, jobVars, deletion, check, clock,
                   deletions>>

\* Time reaches available_at of a job that backs off ...
BackoffEnds(v) ==
    /\ jobStatus[v] = "pending" /\ ~Enqueued(v)
    /\ queue' = Append(queue, v)
    /\ UNCHANGED <<current, projection, jobStatus, attempts, lease, worker,
                   deletion, check, clock, bounds>>

\* ... or lease_expires_at of one whose worker is gone.
LeaseExpires(v) ==
    /\ lease[v] = "live"
    /\ \A w \in Workers : ~WorksOn(w, v)
    /\ lease' = [lease EXCEPT ![v] = "expired"]
    /\ UNCHANGED <<current, projection, jobStatus, attempts, queue, worker,
                   deletion, check, clock, bounds>>

-----------------------------------------------------------------------------
(* Checks, as far as they read the corpus.                                 *)

\* projection_readiness: the document, if visible, has a live projection.
FindReady(c) ==
    /\ check[c] = NoCheck
    /\ current # None
    /\ \E v \in Versions : Live(v)
    /\ check' = [check EXCEPT ![c] = [pc |-> "ready"]]
    /\ UNCHANGED <<current, projection, jobVars, worker, deletion, clock, bounds>>

\* The row is inserted with snapshot_at = utcnow() once the creator's lock
\* is free.
Admit(c) ==
    /\ check[c].pc = "ready"
    /\ check' = [check EXCEPT ![c] =
           [pc |-> "active", snapshot |-> clock]]
    /\ UNCHANGED <<current, projection, jobVars, worker, deletion, clock, bounds>>

\* The check is settled.  Until then every attempt of it asks for the
\* projections at its snapshot.
Complete(c) ==
    /\ check[c].pc = "active"
    /\ check' = [check EXCEPT ![c] =
           [pc |-> "done", snapshot |-> check[c].snapshot]]
    /\ UNCHANGED <<current, projection, jobVars, worker, deletion, clock, bounds>>

-----------------------------------------------------------------------------
(* kbsvc plagiarism cleanup                                                *)

\* A retired projection goes once its window ended before the cutoff and
\* before the snapshot of every active check.
Removable(v) ==
    /\ Stored(v) /\ ~Live(v)
    /\ projection[v].until + Retention < clock
    /\ \A c \in Checks :
         check[c].pc = "active" => projection[v].until < check[c].snapshot

Outdated(c) == check[c].pc = "done" /\ check[c].snapshot + Retention < clock

Cleanup ==
    /\ check' = [c \in Checks |-> IF Outdated(c) THEN NoCheck ELSE check[c]]
    /\ projection' = [v \in Versions |-> IF Removable(v) THEN NoRow
                                                        ELSE projection[v]]
    /\ UNCHANGED <<current, jobVars, worker, deletion, clock, bounds>>

Tick ==
    /\ clock < MaxClock
    /\ clock' = clock + 1
    /\ UNCHANGED <<current, projection, jobVars, worker, deletion, check, bounds>>

-----------------------------------------------------------------------------
Build(w) ==
    \/ LoadText(w) \/ Activate(w) \/ CommitBuild(w)
    \/ BuildRaises(w) \/ FailJob(w)

Next ==
    \/ \E v \in Versions : Publish(v) \/ BackoffEnds(v) \/ LeaseExpires(v)
    \/ \E rebuild \in BOOLEAN : Backfill(rebuild)
    \/ BeginDeletion \/ EndDeletion \/ Cleanup \/ Tick
    \/ \E w \in Workers : Reclaim(w) \/ ClaimJob(w) \/ Build(w) \/ Crash(w)
    \/ \E c \in Checks : FindReady(c) \/ Admit(c) \/ Complete(c)

Spec == Init /\ [][Next]_vars

(* Workers poll (run_forever) and reclaim in every poll, time passes for   *)
(* leases and backoffs, a delete job that began ends, and an operator who  *)
(* finds the corpus not ready runs backfill, as the runbook says.          *)
Fairness ==
    /\ \A w \in Workers : /\ SF_vars(Reclaim(w))
                          /\ WF_vars(ClaimJob(w))
                          /\ WF_vars(Build(w))
    /\ \A v \in Versions : WF_vars(BackoffEnds(v)) /\ WF_vars(LeaseExpires(v))
    /\ WF_vars(EndDeletion)
    /\ WF_vars(Backfill(FALSE))

FairSpec == Spec /\ Fairness

-----------------------------------------------------------------------------
(* Types.                                                                  *)

TypeOK ==
    /\ current \in Versions \cup {None}
    /\ projection \in [Versions -> Row \cup {NoRow}]
    /\ jobStatus \in [Versions -> JobStatus \cup {"absent"}]
    /\ attempts \in [Versions -> Nat]
    /\ lease \in [Versions -> {"none", "live", "expired"}]
    /\ queue \in Seq(Versions)
    /\ worker \in [Workers -> WorkerState]
    /\ deletion \in {None} \cup SUBSET Versions
    /\ check \in [Checks -> CheckState]
    /\ clock \in Nat
    /\ crashes \in Nat
    /\ deletions \in Nat

-----------------------------------------------------------------------------
(* Safety.                                                                 *)

\* activate_projection: no instant, past or present, resolves to two
\* projections of one document.
WindowsAreDisjoint ==
    \A t \in 0..clock : \A u, v \in ActiveAt(t) : u = v

\* A check, and its report as long as it is kept, has the corpus that was
\* live at its snapshot: unless the document was deleted, that is neither lost
\* to a rebuild, whose clock is read before its commit, nor to a cleanup.
SnapshotResolves ==
    deletions = 0 =>
        \A c \in Checks : HasSnapshot(c) => ActiveAt(check[c].snapshot) # {}

\* A job is built at most max_attempts times since it was registered, and
\* once more for each crash, whose lease is reclaimed without looking.
AttemptsAreBounded == \A v \in Versions : attempts[v] <= MaxAttempts + crashes

\* "No check runs against an incomplete corpus": once every version is built,
\* the live projection, by which the document counts as ready, holds its text.
ReadyIsComplete ==
    (current # None /\ \A v \in Versions : jobStatus[v] = "completed")
       => \A v \in Versions : Live(v) => projection[v].text

-----------------------------------------------------------------------------
(* Liveness.                                                               *)

\* A document that stays current gets a live projection, unless its builds
\* failed: until then every check of its readers is refused.
BecomesReady ==
    \A v \in Versions :
        current = v ~> \/ current # v \/ jobStatus[v] = "failed"
                       \/ \E u \in Versions : Live(u)
=============================================================================
