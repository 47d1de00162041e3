----------------------------- MODULE EventStream -----------------------------
(***************************************************************************)
(* The progress stream of one check (kbsvc/plagiarism/sse.py): a table of  *)
(* events written by workers and requests, API generators that poll it,    *)
(* and the pages of knowledge-web that listen to them.                     *)
(*                                                                         *)
(* An event gets its id when it is inserted and is seen when the           *)
(* transaction that inserted it commits; a reader only keeps the last id   *)
(* it received.  The runs of the check are those of CheckLifecycle, cut    *)
(* down to what decides which events are inserted and committed when.      *)
(***************************************************************************)
EXTENDS Naturals, FiniteSets, SequencesExt

CONSTANTS
    Workers,      \* plagiarism worker processes
    Pages,        \* browser pages that show the check
    Limit,        \* replay_events reads at most this many events (200)
    MaxAttempts,  \* plag_max_attempts
    SlowWorkers,  \* may a lease run out under a worker that is still alive?
    ClaimCap,     \* bound: claims in one behaviour
    MaxBreaks     \* bound: interrupted streams in one behaviour

ASSUME StreamAssumption ==
    /\ Limit \in Nat \ {0}
    /\ MaxAttempts \in Nat \ {0}
    /\ SlowWorkers \in BOOLEAN
    /\ ClaimCap \in Nat
    /\ MaxBreaks \in Nat
    /\ Workers \cap {"table", "nobody"} = {}

VARIABLES
    status,           \* the committed status of the check, or gone
    cancelRequested,
    attempts,
    log,      \* the event table by id: committed, open and undone inserts
    run,      \* what each worker is doing
    request,  \* a DELETE request: the status it has read, or none
    page,
    breaks

checkVars == <<status, cancelRequested, attempts>>
vars == <<status, cancelRequested, attempts, log, run, request, page, breaks>>

Active   == {"pending", "running", "cancel_requested"}
TerminalStages == {"completed", "completed_partial", "failed", "cancelled"}
Stage    == {"queued", "started", "chunking", "retrieving", "persisting"} \cup
            TerminalStages

RowExists == status # "gone"

Idle == [pc |-> "idle"]
Away == [at |-> "away"]

-----------------------------------------------------------------------------
(* The event table.                                                        *)

\* An insert is open in its worker's transaction until it is committed to
\* the table or undone; its id is used up either way.
Undone == [stage |-> "none", by |-> "nobody"]

Committed == {i \in DOMAIN log : log[i].by = "table"}

\* append_event inside a transaction that is still open, or one of its own.
Inserted(stage, by) == Append(log, [stage |-> stage, by |-> by])
Published(stage)    == Inserted(stage, "table")

Commit(events, w) ==
    [i \in DOMAIN events |->
        IF events[i].by = w THEN [events[i] EXCEPT !.by = "table"] ELSE events[i]]

RollBack(events, w) ==
    [i \in DOMAIN events |-> IF events[i].by = w THEN Undone ELSE events[i]]

\* ORDER BY id: a set of ids, the lowest first.
InOrder(ids) ==
    [n \in 1 .. Cardinality(ids) |->
        CHOOSE i \in ids : Cardinality({j \in ids : j <= i}) = n]

AtMost(n, ids) == SubSeq(ids, 1, IF Len(ids) < n THEN Len(ids) ELSE n)

\* Mutant: at least instead of strictly after.
Replay_AtLeast(after) == AtMost(Limit, InOrder({i \in Committed : i >= after}))

\* replay_events: oldest first, strictly after the id, at most Limit.
Replay(after) == AtMost(Limit, InOrder({i \in Committed : i > after}))

-----------------------------------------------------------------------------
(* Workers.                                                                *)

\* The run's first UPDATE (its chunk counts) is flushed with CHUNKING.
RowLocked == \E w \in Workers : run[w].pc \in {"locked", "persisted"}

Claim(w) ==
    /\ run[w] = Idle
    /\ status = "pending" /\ ~RowLocked /\ attempts < ClaimCap
    /\ status' = "running"
    /\ attempts' = attempts + 1
    /\ run' = [run EXCEPT ![w] = [pc |-> "claimed"]]
    /\ UNCHANGED <<cancelRequested, log, request, page, breaks>>

\* The exception rolls the run's transaction back.
Raised(w) ==
    /\ run' = [run EXCEPT ![w] = [pc |-> "raised"]]
    /\ log' = RollBack(log, w)

\* The check is read and STARTED inserted: no row is updated yet, so the
\* event has an id before the run has the row.
Start(w) ==
    /\ run[w].pc = "claimed"
    /\ IF RowExists
         THEN /\ run' = [run EXCEPT ![w] = [pc |-> "started", seen |-> status]]
              /\ log' = Inserted("started", w)
         ELSE Raised(w)
    /\ UNCHANGED <<checkVars, request, page, breaks>>

Chunk(w) ==
    /\ run[w].pc = "started" /\ ~RowLocked
    /\ IF RowExists
         THEN /\ run' = [run EXCEPT ![w].pc = "locked"]
              /\ log' = Inserted("chunking", w)
         ELSE Raised(w)
    /\ UNCHANGED <<checkVars, request, page, breaks>>

\* The chunk loop reports every fifth chunk and the last; the budget or a
\* cancel may end it before it has reported anything.
Persist(w) ==
    /\ run[w].pc = "locked"
    /\ \E reported \in BOOLEAN :
         LET probed == IF reported THEN Inserted("retrieving", w) ELSE log IN
         log' = Append(probed, [stage |-> "persisting", by |-> w])
    /\ run' = [run EXCEPT ![w].pc = "persisted"]
    /\ UNCHANGED <<checkVars, request, page, breaks>>

SettleTargets ==
    IF cancelRequested THEN {"cancelled"} ELSE {"completed", "completed_partial"}

\* advance_check over the status the session has read.
MayEnd(seen, target) ==
    \/ seen = "running" /\ target \in {"completed", "completed_partial"}
    \/ seen = "cancel_requested"

\* Mutant: the terminal event is inserted after the status is committed, and
\* lost when the worker dies in between.
SettleEvents_None(w, target) == Commit(log, w)

SettleEvents(w, target) == Commit(Inserted(target, w), w)

\* _settle: the terminal status, its event and the run's events commit at
\* once.
Settle(w) ==
    /\ run[w].pc = "persisted"
    /\ \E target \in SettleTargets :
         IF MayEnd(run[w].seen, target)
           THEN /\ status' = target
                /\ log' = SettleEvents(w, target)
                /\ run' = [run EXCEPT ![w] = Idle]
           ELSE Raised(w) /\ UNCHANGED status
    /\ UNCHANGED <<cancelRequested, attempts, request, page, breaks>>

RunRaises(w) ==
    /\ run[w].pc \in {"started", "locked", "persisted"}
    /\ Raised(w)
    /\ UNCHANGED <<checkVars, request, page, breaks>>

\* Mutant: the retry state of the ingest queue.
FailStatus_RetryWait == IF attempts < MaxAttempts THEN "retry_wait" ELSE "failed"

FailStatus == IF attempts < MaxAttempts THEN "pending" ELSE "failed"

\* _fail: queued again while attempts remain, without an event; failed and
\* closed by its event otherwise.
Fail(w) ==
    /\ run[w].pc = "raised" /\ ~RowLocked
    /\ status' = IF RowExists THEN FailStatus ELSE status
    /\ log' = IF RowExists /\ FailStatus = "failed" THEN Published("failed") ELSE log
    /\ run' = [run EXCEPT ![w] = Idle]
    /\ UNCHANGED <<cancelRequested, attempts, request, page, breaks>>

\* The worker dies and its transaction is rolled back.
Die(w) ==
    /\ run[w] # Idle
    /\ run' = [run EXCEPT ![w] = Idle]
    /\ log' = RollBack(log, w)
    /\ UNCHANGED <<checkVars, request, page, breaks>>

\* A worker that died, or is late, is no longer believed in.
Reclaim ==
    /\ status = "running" /\ ~RowLocked
    /\ SlowWorkers \/ \A w \in Workers : run[w] = Idle
    /\ status' = "pending"
    /\ UNCHANGED <<cancelRequested, attempts, log, run, request, page, breaks>>

-----------------------------------------------------------------------------
(* DELETE /v1/plagiarism/checks/{id}: the status is read, then acted on    *)
(* once the row is free.                                                   *)

ReadForDelete ==
    /\ request = "none" /\ RowExists
    /\ request' = status
    /\ UNCHANGED <<checkVars, log, run, page, breaks>>

Delete ==
    /\ request # "none" /\ ~RowLocked
    /\ CASE ~RowExists -> UNCHANGED <<status, cancelRequested, log>>
         [] RowExists /\ request = "running" ->
              /\ status' = "cancel_requested"
              /\ cancelRequested' = TRUE
              /\ UNCHANGED log
         [] RowExists /\ request = "pending" ->
              /\ status' = "cancelled"
              /\ cancelRequested' = TRUE
              /\ log' = Published("cancelled")
         [] OTHER -> status' = "gone" /\ UNCHANGED <<cancelRequested, log>>
    /\ request' = "none"
    /\ UNCHANGED <<attempts, run, page, breaks>>

-----------------------------------------------------------------------------
(* Pages: the server renders a finished check; for another one the page's  *)
(* EventSource listens, reconnecting with the last id it received.         *)

Listening == {"waiting", "streaming"}

Load(r) ==
    /\ page[r].at = "away"
    /\ page' = [page EXCEPT ![r] =
           IF status \in Active THEN [at |-> "waiting", got |-> <<>>, last |-> 0]
                                ELSE [at |-> "shown"]]
    /\ UNCHANGED <<checkVars, log, run, request, breaks>>

\* stream_progress: the cursor is the client's Last-Event-ID.  A check that
\* is gone is answered 404, after which an EventSource gives up.
Connect(r) ==
    /\ page[r].at = "waiting" /\ RowExists
    /\ page' = [page EXCEPT ![r] =
           [at |-> "streaming", got |-> @.got, last |-> @.last,
            cursor |-> @.last, frames |-> <<>>]]
    /\ UNCHANGED <<checkVars, log, run, request, breaks>>

\* A frame is the id of its event; a keepalive has none.
NoId == 0

\* Mutant: a keepalive tells the newest id of the table.
KeepaliveId_Newest == Len(log)

KeepaliveId == NoId

IsTerminal(id) == id # NoId /\ log[id].stage \in TerminalStages

\* Nothing after the first terminal event is sent.
UpToTerminal(ids) ==
    IF \E i \in DOMAIN ids : IsTerminal(ids[i])
      THEN SubSeq(ids, 1, CHOOSE i \in DOMAIN ids :
               IsTerminal(ids[i]) /\ \A j \in 1 .. i - 1 : ~IsTerminal(ids[j]))
      ELSE ids

\* Mutant: a check that is gone is polled like any other.
PollAnswers_Always == TRUE

\* _owns: the stream of a check that is gone ends without a terminal event.
PollAnswers == RowExists

\* One turn of stream_check_events: what is new, or else a keepalive.
Poll(r) ==
    /\ page[r].at = "streaming" /\ page[r].frames = <<>>
    /\ LET new == UpToTerminal(Replay(page[r].cursor)) IN
         page' = [page EXCEPT ![r] =
             IF ~PollAnswers THEN [at |-> "waiting", got |-> @.got, last |-> @.last]
             ELSE IF new = <<>> THEN [@ EXCEPT !.frames = <<KeepaliveId>>]
             ELSE [@ EXCEPT !.frames = new, !.cursor = new[Len(new)]]]
    /\ UNCHANGED <<checkVars, log, run, request, breaks>>

\* A frame arrives.  The page closes its source on a terminal event and
\* loads again; a frame without an id leaves Last-Event-ID alone.
Deliver(r) ==
    /\ page[r].at = "streaming" /\ page[r].frames # <<>>
    /\ LET p == page[r]
           id == Head(p.frames)
       IN
         page' = [page EXCEPT ![r] =
             IF IsTerminal(id) THEN Away
             ELSE IF id = NoId THEN [p EXCEPT !.frames = Tail(p.frames)]
             ELSE [p EXCEPT !.frames = Tail(p.frames), !.last = id,
                            !.got = IF id \in Committed
                                      THEN Append(p.got, id) ELSE p.got]]
    /\ UNCHANGED <<checkVars, log, run, request, breaks>>

\* The connection breaks, or the relay's or the server's time is up: frames
\* under way are lost, and the check goes on.
Break(r) ==
    /\ page[r].at = "streaming" /\ breaks < MaxBreaks
    /\ breaks' = breaks + 1
    /\ page' = [page EXCEPT ![r] =
           [at |-> "waiting", got |-> @.got, last |-> @.last]]
    /\ UNCHANGED <<checkVars, log, run, request>>

\* Nothing has arrived for 15 seconds, keepalives included.
Fallback(r) ==
    /\ page[r].at = "waiting"
    /\ page' = [page EXCEPT ![r] = Away]
    /\ UNCHANGED <<checkVars, log, run, request, breaks>>

-----------------------------------------------------------------------------
Init ==
    /\ status = "pending"
    /\ cancelRequested = FALSE
    /\ attempts = 0
    /\ log = <<[stage |-> "queued", by |-> "table"]>>
    /\ run = [w \in Workers |-> Idle]
    /\ request = "none"
    /\ page = [r \in Pages |-> Away]
    /\ breaks = 0

Work(w) ==
    Start(w) \/ Chunk(w) \/ Persist(w) \/ Settle(w) \/ RunRaises(w) \/ Fail(w)

Next ==
    \/ \E w \in Workers : Claim(w) \/ Work(w) \/ Die(w)
    \/ Reclaim \/ ReadForDelete \/ Delete
    \/ \E r \in Pages : \/ Load(r) \/ Connect(r) \/ Poll(r) \/ Deliver(r)
                        \/ Break(r) \/ Fallback(r)

Spec == Init /\ [][Next]_vars

(* The generator polls, frames arrive, the page reloads.  The page needs    *)
(* nothing of the workers.                                                  *)
Fairness ==
    \A r \in Pages : /\ WF_vars(Load(r)) /\ WF_vars(Connect(r) \/ Fallback(r))
                     /\ WF_vars(Poll(r)) /\ WF_vars(Deliver(r))

FairSpec == Spec /\ Fairness

-----------------------------------------------------------------------------
Event == {Undone} \cup [stage : Stage, by : Workers \cup {"table"}]

RunState ==
    {Idle} \cup [pc : {"claimed", "raised"}] \cup
    [pc : {"started", "locked", "persisted"}, seen : Active \cup TerminalStages]

PageState ==
    {Away} \cup [at : {"shown"}] \cup
    [at : {"waiting"}, got : Seq(Nat), last : Nat] \cup
    [at : {"streaming"}, got : Seq(Nat), last : Nat, cursor : Nat, frames : Seq(Nat)]

TypeOK ==
    /\ status \in Active \cup TerminalStages \cup {"gone"}
    /\ cancelRequested \in BOOLEAN
    /\ attempts \in Nat /\ breaks \in Nat
    /\ log \in Seq(Event)
    /\ request \in {"none"} \cup Active \cup TerminalStages
    /\ run \in [Workers -> RunState]
    /\ page \in [Pages -> PageState]

\* "A reconnect neither drops an event nor repeats one": whatever ids were
\* given to transactions that committed late or never, a page has received
\* every event of the check up to its Last-Event-ID.
NothingSkipped ==
    \A r \in Pages : page[r].at \in Listening =>
        ToSet(page[r].got) = {i \in Committed : i <= page[r].last}

\* The events as one feed in the order of their ids, and what each page has
\* received since it was loaded: through commits, roll-backs, broken streams
\* and reconnections, pages read the feed from its start, in order.
Feed == INSTANCE EventFeed WITH
    Readers  <- Pages,
    feed     <- InOrder(Committed),
    received <- [r \in Pages |-> IF page[r].at \in Listening THEN page[r].got
                                                             ELSE <<>>]

FollowsFeed == Feed!FeedSpec

\* ADR 0001: the worker writes an event at every change of stage, and the
\* stream waits for new ones.  So a run that is cutting its text has let
\* readers know that it started.
StageIsSeen ==
    \A w \in Workers : run[w].pc = "locked" =>
        \E i \in Committed : log[i].stage = "started"

\* A page that is open while its check ends, or is deleted under it, does
\* not go on showing progress: it hears the terminal event, or reloads when
\* its stream ends without one.
PageSettles ==
    \A r \in Pages :
        (page[r].at \in Listening /\ status \notin Active) ~>
            (page[r].at \notin Listening \/ status \in Active)
=============================================================================
