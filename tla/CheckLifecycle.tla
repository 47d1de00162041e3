--------------------------- MODULE CheckLifecycle ---------------------------
(***************************************************************************)
(* The life of a plagiarism check (kbsvc/plagiarism): requests that admit  *)
(* and delete checks, and worker processes that claim, run and settle      *)
(* them, over one PostgreSQL row per check under READ COMMITTED.           *)
(*                                                                         *)
(* What a transaction wrote becomes visible when it commits, so a worker's *)
(* run is three steps: loading the row into the session (the status it     *)
(* will judge by from then on), its first UPDATE (which takes the row lock *)
(* until the transaction ends), and the commit or rollback.  A DELETE      *)
(* request likewise reads the status first and writes later, waiting for   *)
(* the lock in between.                                                    *)
(***************************************************************************)
EXTENDS Naturals, Sequences, FiniteSets

CONSTANTS
    Checks,        \* identities a check can be given
    Workers,       \* plagiarism worker processes
    Deleters,      \* concurrent DELETE /v1/plagiarism/checks/{id} requests
    Owner,         \* the API key that creates each check
    IdemKey,       \* the Idempotency-Key it is created with, or NoKey
    NoKey,
    DocumentMode,  \* the checks of a stored document (the others carry text)
    Documents,     \* documents of the corpus that a run may name as sources
    MaxActive,     \* plag_max_active_checks_per_key
    MaxAttempts,   \* plag_max_attempts
    SlowWorkers,   \* may a lease run out under a worker that is still alive?
    MaxCrashes,    \* bound: worker crashes in one behaviour
    ClaimCap       \* bound: claims of one check in one behaviour

ASSUME LimitsAssumption ==
    /\ MaxActive \in Nat \ {0}
    /\ MaxAttempts \in Nat \ {0}
    /\ MaxCrashes \in Nat
    /\ ClaimCap \in Nat
    /\ SlowWorkers \in BOOLEAN
    /\ DocumentMode \subseteq Checks

VARIABLES
    status,           \* the committed status column, or absent / gone
    cancelRequested,  \* the committed cancel_requested column
    attempts,
    lease,            \* lease_expires_at: none (NULL), live or expired
    text,             \* does query_text still hold the submitted text?
    sources,          \* the source rows stored: the run and the document of each
    terminalEvents,   \* terminal events in the order they were committed
    admission,        \* where the request creating each check stands
    worker,
    deleter,
    crashes

rows == <<status, cancelRequested, attempts, lease, text, sources,
          terminalEvents>>
vars == <<status, cancelRequested, attempts, lease, text, sources,
          terminalEvents, admission, worker, deleter, crashes>>

-----------------------------------------------------------------------------
(* The status table of plagiarism/states.py and types.py.                  *)

Active   == {"pending", "running", "cancel_requested"}
Terminal == {"completed", "completed_partial", "failed", "cancelled"}
Status   == Active \cup Terminal

CheckTransitions ==
    {<<"pending", s>> : s \in {"running", "cancelled", "failed"}} \cup
    {<<"running", s>> : s \in {"completed", "completed_partial", "failed",
                               "cancel_requested", "pending"}} \cup
    {<<"cancel_requested", s>> : s \in {"cancelled", "completed",
                                        "completed_partial", "failed"}}

CanTransition(current, target) == <<current, target>> \in CheckTransitions

-----------------------------------------------------------------------------
RowExists(c) == status[c] \in Status

ActiveChecksOf(k) == {c \in Checks : Owner[c] = k /\ status[c] \in Active}

SameKey(c) ==
    {d \in Checks \ {c} : /\ IdemKey[c] # NoKey
                          /\ Owner[d] = Owner[c]
                          /\ IdemKey[d] = IdemKey[c]
                          /\ RowExists(d)}

SourceRow == [run : Nat, document : Documents]

Idle == [pc |-> "idle"]

WorkerState ==
    {Idle} \cup
    [pc : {"claimed"}, check : Checks, run : Nat] \cup
    [pc : {"loaded", "locked"}, check : Checks, run : Nat, seen : Status,
     cleared : SUBSET SourceRow] \cup
    [pc : {"raised"}, check : Checks, fatal : BOOLEAN] \cup
    [pc : {"failing"}, check : Checks, fatal : BOOLEAN, seen : Status,
     leaseSeen : {"none", "live", "expired"}, tries : Nat]

DeleterState ==
    {Idle} \cup
    [pc : {"loaded"}, check : Checks, seen : Status] \cup
    [pc : {"cleared"}, check : Checks, cleared : SUBSET SourceRow]

(* A run holds the row lock from its first UPDATE to the end of its        *)
(* transaction; every other writer of that row waits (or, under SKIP       *)
(* LOCKED, passes the row over).                                           *)
RowLocked(c) == \E w \in Workers : worker[w].pc = "locked" /\ worker[w].check = c

WorksOn(w, c) == worker[w].pc # "idle" /\ worker[w].check = c

Init ==
    /\ status = [c \in Checks |-> "absent"]
    /\ cancelRequested = [c \in Checks |-> FALSE]
    /\ attempts = [c \in Checks |-> 0]
    /\ lease = [c \in Checks |-> "none"]
    /\ text = [c \in Checks |-> FALSE]
    /\ sources = [c \in Checks |-> {}]
    /\ terminalEvents = [c \in Checks |-> <<>>]
    /\ admission = [c \in Checks |-> "none"]
    /\ worker = [w \in Workers |-> Idle]
    /\ deleter = [d \in Deleters |-> Idle]
    /\ crashes = 0

-----------------------------------------------------------------------------
(* Admission: PlagiarismService._create, one transaction per request.      *)

\* The key is looked up before any lock; a hit returns the existing check.
LookUpKey(c) ==
    /\ status[c] = "absent" /\ admission[c] = "none"
    /\ SameKey(c) = {}
    /\ admission' = [admission EXCEPT ![c] = "looked_up"]
    /\ UNCHANGED <<rows, worker, deleter, crashes>>

CreatorLocked(k) == \E c \in Checks : Owner[c] = k /\ admission[c] = "counted"

\* pg_advisory_xact_lock, then the count; at the limit the answer is 429.
CountActive(c) ==
    /\ admission[c] = "looked_up"
    /\ ~CreatorLocked(Owner[c])
    /\ admission' = [admission EXCEPT ![c] =
           IF Cardinality(ActiveChecksOf(Owner[c])) >= MaxActive
             THEN "none" ELSE "counted"]
    /\ UNCHANGED <<rows, worker, deleter, crashes>>

\* uq_plag_check_idempotency, a unique index over rows with a key.
UniqueKey(c) == SameKey(c) = {}

\* The insert commits, with the QUEUED event, and releases the lock; the
\* partial unique index refuses a second row with the same key.
InsertCheck(c) ==
    /\ admission[c] = "counted"
    /\ admission' = [admission EXCEPT ![c] = "none"]
    /\ IF UniqueKey(c)
         THEN /\ status' = [status EXCEPT ![c] = "pending"]
              /\ text' = [text EXCEPT ![c] = c \notin DocumentMode]
         ELSE UNCHANGED <<status, text>>
    /\ UNCHANGED <<cancelRequested, attempts, lease, sources, terminalEvents,
                   worker, deleter, crashes>>

\* The corpus is not ready, or the request dies: its transaction rolls back.
AbandonCreate(c) ==
    /\ admission[c] # "none"
    /\ admission' = [admission EXCEPT ![c] = "none"]
    /\ UNCHANGED <<rows, worker, deleter, crashes>>

-----------------------------------------------------------------------------
(* Deletion: PlagiarismService.delete_check.                               *)

LoadForDelete(d, c) ==
    /\ deleter[d] = Idle
    /\ RowExists(c)
    /\ deleter' = [deleter EXCEPT ![d] =
           [pc |-> "loaded", check |-> c, seen |-> status[c]]]
    /\ UNCHANGED <<rows, admission, worker, crashes>>

\* The UPDATE waits for the row; if the row is gone by then the ORM raises
\* and the request rolls back.
DeleteRunning(d) ==
    /\ deleter[d].pc = "loaded" /\ deleter[d].seen = "running"
    /\ LET c == deleter[d].check IN
         /\ ~RowLocked(c)
         /\ IF RowExists(c)
              THEN /\ status' = [status EXCEPT ![c] = "cancel_requested"]
                   /\ cancelRequested' = [cancelRequested EXCEPT ![c] = TRUE]
              ELSE UNCHANGED <<status, cancelRequested>>
    /\ deleter' = [deleter EXCEPT ![d] = Idle]
    /\ UNCHANGED <<attempts, lease, text, sources, terminalEvents, admission,
                   worker, crashes>>

DeletePending(d) ==
    /\ deleter[d].pc = "loaded" /\ deleter[d].seen = "pending"
    /\ LET c == deleter[d].check IN
         /\ ~RowLocked(c)
         /\ IF RowExists(c)
              THEN /\ status' = [status EXCEPT ![c] = "cancelled"]
                   /\ cancelRequested' = [cancelRequested EXCEPT ![c] = TRUE]
                   /\ text' = [text EXCEPT ![c] = FALSE]
                   /\ sources' = [sources EXCEPT ![c] = {}]
                   /\ terminalEvents' =
                        [terminalEvents EXCEPT ![c] = Append(@, "cancelled")]
              ELSE UNCHANGED <<status, cancelRequested, text, sources,
                               terminalEvents>>
    /\ deleter' = [deleter EXCEPT ![d] = Idle]
    /\ UNCHANGED <<attempts, lease, admission, worker, crashes>>

\* Mutant: the stored results are forgotten.
ClearedByDelete_None(d) == {}

ClearedByDelete(d) == sources[deleter[d].check]

\* Any other status is deleted outright: the stored results are selected and
\* deleted first, then the UPDATE that blanks the text waits for the row.
ClearForDelete(d) ==
    /\ deleter[d].pc = "loaded"
    /\ deleter[d].seen \notin {"running", "pending"}
    /\ deleter' = [deleter EXCEPT ![d] =
           [pc |-> "cleared", check |-> deleter[d].check,
            cleared |-> ClearedByDelete(d)]]
    /\ UNCHANGED <<rows, admission, worker, crashes>>

DeleteOutright(d) ==
    /\ deleter[d].pc = "cleared"
    /\ LET c == deleter[d].check IN
         /\ ~RowLocked(c)
         /\ status' = [status EXCEPT ![c] = "gone"]
         /\ cancelRequested' = [cancelRequested EXCEPT ![c] = FALSE]
         /\ lease' = [lease EXCEPT ![c] = "none"]
         /\ text' = [text EXCEPT ![c] = FALSE]
         /\ sources' = [sources EXCEPT ![c] = @ \ deleter[d].cleared]
    /\ deleter' = [deleter EXCEPT ![d] = Idle]
    /\ UNCHANGED <<attempts, terminalEvents, admission, worker, crashes>>

\* The request dies, or the database ends it as the victim of a deadlock over
\* the source rows: its transaction rolls back.
AbandonDelete(d) ==
    /\ deleter[d] # Idle
    /\ deleter' = [deleter EXCEPT ![d] = Idle]
    /\ UNCHANGED <<rows, admission, worker, crashes>>

-----------------------------------------------------------------------------
(* Workers: PlagiarismWorker.run_once, _run_check, _settle and _fail, and  *)
(* CheckRunner.run.                                                        *)

\* Mutant: the NULL test is the wrong way round.
Reclaimable_Null == {c \in Checks : status[c] = "running" /\ lease[c] = "none"}

\* reclaim_expired_checks: one UPDATE over every row it matches.
Reclaimable == {c \in Checks : status[c] = "running" /\ lease[c] = "expired"}

Reclaim(w) ==
    /\ worker[w] = Idle
    /\ Reclaimable # {}
    /\ \A c \in Reclaimable : ~RowLocked(c)
    /\ status' = [c \in Checks |-> IF c \in Reclaimable THEN "pending"
                                                        ELSE status[c]]
    /\ lease' = [c \in Checks |-> IF c \in Reclaimable THEN "none"
                                                       ELSE lease[c]]
    /\ UNCHANGED <<cancelRequested, attempts, text, sources, terminalEvents,
                   admission, worker, deleter, crashes>>

\* Mutants: a running, a failed or a partly completed check is taken again.
Claimable_Running(c) ==
    status[c] \in {"pending", "running"} /\ ~RowLocked(c) /\ attempts[c] < ClaimCap
Claimable_Failed(c) ==
    status[c] \in {"pending", "failed"} /\ ~RowLocked(c) /\ attempts[c] < ClaimCap

Claimable(c) ==
    status[c] = "pending" /\ ~RowLocked(c) /\ attempts[c] < ClaimCap

\* claim_check, in a transaction of its own.
ClaimCheck(w, c) ==
    /\ worker[w] = Idle
    /\ Claimable(c)
    /\ status' = [status EXCEPT ![c] = "running"]
    /\ attempts' = [attempts EXCEPT ![c] = @ + 1]
    /\ lease' = [lease EXCEPT ![c] = "live"]
    /\ worker' = [worker EXCEPT ![w] =
           [pc |-> "claimed", check |-> c, run |-> attempts[c] + 1]]
    /\ UNCHANGED <<cancelRequested, text, sources, terminalEvents, admission,
                   deleter, crashes>>

\* The exception leaves session_scope, which rolls the run back.
Raised(w, fatal) ==
    [worker EXCEPT ![w] =
        [pc |-> "raised", check |-> worker[w].check, fatal |-> fatal]]

\* session.get and clear_results: the status read here is the one _settle
\* judges by, and the rows seen here are the ones the run replaces.
LoadCheck(w) ==
    /\ worker[w].pc = "claimed"
    /\ LET c == worker[w].check IN
         worker' = IF RowExists(c)
                     THEN [worker EXCEPT ![w] =
                             [pc |-> "loaded", check |-> c,
                              run |-> worker[w].run, seen |-> status[c],
                              cleared |-> sources[c]]]
                     ELSE Raised(w, FALSE)
    /\ UNCHANGED <<rows, admission, deleter, crashes>>

\* The first UPDATE of the run (its chunk counts, flushed with the CHUNKING
\* event).  No other session writes the row after this, so the cancel flag
\* the chunk loop re-reads is the one committed now.
FlushCheck(w) ==
    /\ worker[w].pc = "loaded"
    /\ ~RowLocked(worker[w].check)
    /\ worker' = IF RowExists(worker[w].check)
                   THEN [worker EXCEPT ![w].pc = "locked"]
                   ELSE Raised(w, FALSE)
    /\ UNCHANGED <<rows, admission, deleter, crashes>>

\* Any exception inside the run.  Too little text is found before the first
\* flush, only for a document (text is measured at creation), and is fatal.
RunRaises(w) ==
    /\ worker[w].pc \in {"loaded", "locked"}
    /\ \E fatal \in BOOLEAN :
         /\ fatal => worker[w].pc = "loaded" /\ worker[w].check \in DocumentMode
         /\ worker' = Raised(w, fatal)
    /\ UNCHANGED <<rows, admission, deleter, crashes>>

\* Mutant: the flag is not re-read.
SettleTargets_Stale(c) == {"completed", "completed_partial"}

SettleTargets(c) ==
    IF cancelRequested[c] THEN {"cancelled"}
                          ELSE {"completed", "completed_partial"}

\* uq_plag_check_source: one row per check and document.  Rows of another
\* run that this one did not clear collide with its own where they name the
\* same document.
Collides(w, found) ==
    \E row \in sources[worker[w].check] \ worker[w].cleared : row.document \in found

\* The rows stored once the run has committed.
SourcesAfter(w, target, found) ==
    IF target = "cancelled" THEN {}
    ELSE (sources[worker[w].check] \ worker[w].cleared)
           \cup [run : {worker[w].run}, document : found]

\* _persist and _settle, committed together with the terminal event.  Two
\* runs of one check need not name the same documents: the deadline cuts
\* them at different places, a document is deleted in between, and the stop
\* list counts the corpus as it is now.
Settle(w) ==
    /\ worker[w].pc = "locked"
    /\ \E found \in SUBSET Documents, target \in SettleTargets(worker[w].check) :
         LET c == worker[w].check IN
         /\ CanTransition(worker[w].seen, target)
         /\ ~Collides(w, found)
         /\ status' = [status EXCEPT ![c] = target]
         /\ lease' = [lease EXCEPT ![c] = "none"]
         /\ text' = [text EXCEPT ![c] =
                target # "cancelled" /\ (@ \/ c \in DocumentMode)]
         /\ sources' = [sources EXCEPT ![c] = SourcesAfter(w, target, found)]
         /\ terminalEvents' = [terminalEvents EXCEPT ![c] = Append(@, target)]
    /\ worker' = [worker EXCEPT ![w] = Idle]
    /\ UNCHANGED <<cancelRequested, attempts, admission, deleter, crashes>>

\* advance_check or the unique constraint refuses: the run is rolled back.
SettleRaises(w) ==
    /\ worker[w].pc = "locked"
    /\ \E found \in SUBSET Documents, target \in SettleTargets(worker[w].check) :
         ~CanTransition(worker[w].seen, target) \/ Collides(w, found)
    /\ worker' = Raised(w, FALSE)
    /\ UNCHANGED <<rows, admission, deleter, crashes>>

\* _fail, in a new session: first the row is read ...
LoadForFail(w) ==
    /\ worker[w].pc = "raised"
    /\ LET c == worker[w].check IN
         worker' = [worker EXCEPT ![w] =
             IF RowExists(c)
               THEN [pc |-> "failing", check |-> c, fatal |-> worker[w].fatal,
                     seen |-> status[c], leaseSeen |-> lease[c],
                     tries |-> attempts[c]]
               ELSE Idle]
    /\ UNCHANGED <<rows, admission, deleter, crashes>>

\* Mutant: the retry state of the ingest queue.
FailTarget_RetryWait(w) ==
    IF worker[w].tries < MaxAttempts /\ ~worker[w].fatal THEN "retry_wait"
                                                         ELSE "failed"

FailTarget(w) ==
    IF worker[w].tries < MaxAttempts /\ ~worker[w].fatal THEN "pending"
                                                         ELSE "failed"

\* Mutant: the lease outlives the attempt.
LeaseAfterFail_Kept(w) == lease[worker[w].check]

LeaseAfterFail(w) ==
    IF worker[w].leaseSeen # "none" THEN "none" ELSE lease[worker[w].check]

\* Mutant: no event.
EventsAfterFail_None(w) == terminalEvents[worker[w].check]

EventsAfterFail(w) ==
    IF FailTarget(w) = "failed"
      THEN Append(terminalEvents[worker[w].check], "failed")
      ELSE terminalEvents[worker[w].check]

\* ... then the UPDATE waits for it.  The ORM writes only the columns whose
\* value differs from the one it read.  If the row is gone the error leaves
\* run_once and the process has to be started again.
WriteFail(w) ==
    /\ worker[w].pc = "failing"
    /\ LET c == worker[w].check
           target == FailTarget(w)
       IN
         /\ ~RowLocked(c)
         /\ IF RowExists(c)
              THEN /\ status' = [status EXCEPT ![c] =
                          IF target = worker[w].seen THEN @ ELSE target]
                   /\ lease' = [lease EXCEPT ![c] = LeaseAfterFail(w)]
                   /\ terminalEvents' =
                          [terminalEvents EXCEPT ![c] = EventsAfterFail(w)]
              ELSE UNCHANGED <<status, lease, terminalEvents>>
    /\ worker' = [worker EXCEPT ![w] = Idle]
    /\ UNCHANGED <<cancelRequested, attempts, text, sources, admission,
                   deleter, crashes>>

\* The process dies; the database rolls its open transaction back.
Crash(w) ==
    /\ worker[w] # Idle
    /\ crashes < MaxCrashes
    /\ crashes' = crashes + 1
    /\ worker' = [worker EXCEPT ![w] = Idle]
    /\ UNCHANGED <<rows, admission, deleter>>

\* Time passes the lease of a check nobody works on any more, or, with
\* SlowWorkers, of one whose worker is late.
LeaseExpires(c) ==
    /\ lease[c] = "live"
    /\ SlowWorkers \/ \A w \in Workers : ~WorksOn(w, c)
    /\ lease' = [lease EXCEPT ![c] = "expired"]
    /\ UNCHANGED <<status, cancelRequested, attempts, text, sources,
                   terminalEvents, admission, worker, deleter, crashes>>

-----------------------------------------------------------------------------
Create(c) == LookUpKey(c) \/ CountActive(c) \/ InsertCheck(c) \/ AbandonCreate(c)

Delete(d) ==
    \/ DeleteRunning(d) \/ DeletePending(d)
    \/ ClearForDelete(d) \/ DeleteOutright(d)

Run(w) ==
    \/ LoadCheck(w) \/ FlushCheck(w) \/ RunRaises(w) \/ Settle(w)
    \/ SettleRaises(w) \/ LoadForFail(w) \/ WriteFail(w)

Next ==
    \/ \E c \in Checks : Create(c) \/ LeaseExpires(c)
    \/ \E d \in Deleters : \/ Delete(d) \/ AbandonDelete(d)
                            \/ \E c \in Checks : LoadForDelete(d, c)
    \/ \E w \in Workers : \/ Run(w) \/ Reclaim(w) \/ Crash(w)
                          \/ \E c \in Checks : ClaimCheck(w, c)

Spec == Init /\ [][Next]_vars

(* Time passes, workers keep polling and a DELETE that was accepted is     *)
(* carried through.  Nothing obliges anybody to create or delete a check.  *)
Fairness ==
    /\ \A w \in Workers : /\ WF_vars(Run(w))
                           /\ WF_vars(Reclaim(w))
                           /\ WF_vars(\E c \in Checks : ClaimCheck(w, c))
    /\ \A c \in Checks : WF_vars(LeaseExpires(c))
    /\ \A d \in Deleters : WF_vars(Delete(d))

FairSpec == Spec /\ Fairness

-----------------------------------------------------------------------------
(* Types.                                                                  *)

TypeOK ==
    /\ status \in [Checks -> Status \cup {"absent", "gone"}]
    /\ cancelRequested \in [Checks -> BOOLEAN]
    /\ attempts \in [Checks -> Nat]
    /\ lease \in [Checks -> {"none", "live", "expired"}]
    /\ text \in [Checks -> BOOLEAN]
    /\ sources \in [Checks -> SUBSET SourceRow]
    /\ terminalEvents \in [Checks -> Seq(Terminal)]
    /\ admission \in [Checks -> {"none", "looked_up", "counted"}]
    /\ worker \in [Workers -> WorkerState]
    /\ deleter \in [Deleters -> DeleterState]
    /\ crashes \in Nat

-----------------------------------------------------------------------------
(* Safety.                                                                 *)

\* Two workers never execute the same check, and one that is queued is not
\* being executed: a lease that outlives its worker's run is enough for
\* that, although nobody compares leased_by with its own name.
OneWorkerEach ==
    \A w, v \in Workers, c \in Checks :
        WorksOn(w, c) => /\ WorksOn(v, c) => v = w
                         /\ status[c] # "pending"

\* No crash, failure, race or reclaim leaves a running check without a
\* lease: reclaim_expired_checks skips a NULL lease, so such a check would
\* run for ever.  And one that is queued again carries no old lease.
RunningIsReclaimable ==
    \A c \in Checks : /\ status[c] = "running" => lease[c] # "none"
                      /\ status[c] = "pending" => lease[c] = "none"

\* append_event: "A terminal event must be committed in the same transaction
\* as the check's terminal status".  Whoever made a check terminal, the
\* event that closes its stream is stored, and it is the last one.
ClosedByItsEvent ==
    \A c \in Checks : status[c] \in Terminal =>
        /\ terminalEvents[c] # <<>>
        /\ terminalEvents[c][Len(terminalEvents[c])] = status[c]

\* A stream is closed once: a client that saw one terminal event will not
\* find another, different one when it reconnects.
ClosedOnce == \A c \in Checks : Len(terminalEvents[c]) <= 1

\* purge_sensitive_content and delete_check: a cancelled check holds neither
\* the submitted text nor findings, whichever of worker and request cancelled
\* it, and a deleted one leaves no source or passage rows (the passages quote
\* the submitted text) behind.
EndedHoldsNothing ==
    \A c \in Checks :
        /\ status[c] = "cancelled" => ~text[c] /\ sources[c] = {}
        /\ status[c] = "gone" => sources[c] = {}

\* CheckRunner.run: "A retry must not append to the previous attempt's rows".
\* A report is never the sum of two runs.
ResultsOfOneRun ==
    \A c \in Checks : \A row, other \in sources[c] : row.run = other.run

\* lock_creator: simultaneous creates by one key do not overshoot the limit,
\* and nothing else brings more checks back to life than were admitted.
WithinLimit ==
    \A k \in {Owner[c] : c \in Checks} :
        Cardinality(ActiveChecksOf(k)) <= MaxActive

-----------------------------------------------------------------------------
(* The promise to the caller: an active check is open, whatever the workers *)
(* do with it; its findings and its closing event appear with its outcome. *)

Promise == INSTANCE CheckPromise WITH
    outcome  <- [c \in Checks |-> IF status[c] \in Active THEN "open"
                                                         ELSE status[c]],
    reported <- [c \in Checks |-> sources[c] # {}],
    closing  <- terminalEvents

\* Where requests do not delete a check that is still active, the service
\* keeps the promise, through failed attempts, retries and crashes.
KeepsPromise == Promise!Spec

-----------------------------------------------------------------------------
(* Steps.                                                                  *)

\* states.py: "Every transition goes through advance_check", so no check
\* moves along an edge the table does not have.
OnlyTableMoves ==
    [][\A c \in Checks :
          status[c] \in Status /\ status'[c] \in Status /\ status'[c] # status[c]
            => CanTransition(status[c], status'[c])]_vars

\* A run completes its check only while the check is running and nobody has
\* asked for its cancellation, although _settle judges by the status cached
\* when the run began and requests write that column while it waits.
CancelIsHonoured ==
    [][\A c \in Checks :
          status'[c] \in {"completed", "completed_partial"} /\ status'[c] # status[c]
            => status[c] = "running" /\ ~cancelRequested[c]]_vars

\* A finished report is not thrown away to honour a cancel that came after
\* it; its owner may still delete it outright.
FinishedIsKept ==
    [][\A c \in Checks :
          status[c] \in {"completed", "completed_partial"}
            => status'[c] \in {status[c], "gone"}]_vars

-----------------------------------------------------------------------------
(* Liveness.                                                               *)

\* A check that was admitted is settled in the end, through crashes, failed
\* attempts and retries.
EverySettles ==
    \A c \in Checks :
        status[c] = "pending" ~> status[c] \in Terminal \cup {"gone"}

\* "A cancelled check must stop holding the user's text": once a cancel is
\* accepted, the text and the findings go, unless the run beat the cancel.
CancelPurges ==
    \A c \in Checks :
        status[c] = "cancel_requested" ~>
            \/ ~text[c] /\ sources[c] = {}
            \/ status[c] \in {"completed", "completed_partial"}
=============================================================================
