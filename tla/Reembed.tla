------------------------------- MODULE Reembed -------------------------------
(***************************************************************************)
(* The operator's tools of kbsvc/ingest/reembed.py - reembed_tenant,       *)
(* rebuild_lexical and backfill_analyzed - working through the chunk table *)
(* of one tenant in batches,  while the ingest worker goes on publishing  *)
(* and deleting.  A tool commits after every batch (rebuild_lexical at its *)
(* end), computes outside its transactions, and may be killed anywhere.    *)
(***************************************************************************)
EXTENDS IndexStores

CONSTANTS
    Kinds,         \* the deployments to look at: "sqlite", "postgres"
    Alone,         \* those where the worker is stopped while a tool runs
    BatchSize,
    MaxPublishes,  \* bound: versions published in one behaviour
    MaxStarts      \* bound: tools started in one behaviour

ASSUME ToolAssumption ==
    /\ Kinds \subseteq {"sqlite", "postgres"} /\ Alone \subseteq Kinds
    /\ BatchSize \in Nat \ {0}
    /\ MaxPublishes \in Nat /\ MaxStarts \in Nat

VARIABLES
    db,
    live,        \* the versions that are not superseded
    config,      \* the configured model; the worker runs with it
    changed,     \* has the model changed since the vectors were last rebuilt?
    tool,
    owed,        \* what a tool has begun to rebuild and not finished
    reported,    \* the last_chunk_id the last re-embedding printed, or 0
    publishes,
    starts

vars == <<db, live, config, changed, tool, owed, reported, publishes, starts>>

NoTool == [job |-> "none"]

Running == tool.job # "none"

-----------------------------------------------------------------------------
(* The ingest worker: one transaction each.                                *)

\* Rows that an open bulk rebuild has updated are locked on PostgreSQL; on
\* SQLite there is one writer.
Staged == IF tool.job = "lexical" THEN tool.staged ELSE {}

MayWrite(removed) ==
    /\ ~(Running /\ db.kind \in Alone)
    /\ IF OnPostgres(db) THEN Staged \cap removed = {} ELSE Staged = {}

\* superseded_version_ids
Stale(v) == (live \cap VersionsOf(DocOf[v])) \ {v}

\* What _run_ingest and _supersede_older write: rows, points, lexical rows,
\* and the end of every older version in all three.
Published(v, chunks) ==
    LET rows   == ReplaceChunks(db, v, chunks)
        dense  == UpsertPoints(EnsureCollection(rows, config), chunks, config)
        both   == UpsertLexical(DeleteLexicalOf(dense, {v}), chunks)
        retired == RemoveRows(both, UNION {ChunksOf(w) : w \in Stale(v)})
    IN DeleteLexicalOf(DeletePointsOf(retired, Stale(v)), Stale(v))

\* The collection's dimension is checked first; otherwise the job fails.
Publish(v, chunks) ==
    /\ publishes < MaxPublishes
    /\ Accepts(db, config)
    /\ MayWrite(ChunksOf(v) \cup UNION {ChunksOf(w) : w \in Stale(v)})
    /\ db' = Published(v, chunks)
    /\ live' = (live \ Stale(v)) \cup {v}
    /\ publishes' = publishes + 1
    /\ UNCHANGED <<config, changed, tool, owed, reported, starts>>

\* _run_delete
Delete(d) ==
    LET gone == live \cap VersionsOf(d) IN
    /\ gone # {}
    /\ MayWrite(UNION {ChunksOf(v) : v \in gone})
    /\ db' = DeleteDocumentLexical(DeleteDocumentPoints(
                RemoveRows(db, UNION {ChunksOf(v) : v \in gone}), d), d)
    /\ live' = live \ gone
    /\ UNCHANGED <<config, changed, tool, owed, reported, publishes, starts>>

\* The settings change and the worker is restarted with them.
ChangeModel(m) ==
    /\ ~Running /\ m # config
    /\ config' = m
    /\ changed' = TRUE
    /\ UNCHANGED <<db, live, tool, owed, reported, publishes, starts>>

-----------------------------------------------------------------------------
(* The tools.                                                              *)

\* Mutant: the rows after the last one, but not the first of them.
NextBatch_Unordered(last, wanted) ==
    {c \in wanted : /\ c > last
                    /\ Cardinality({d \in wanted : c <= d}) <= BatchSize}

\* _next_batch: keyset pagination in the order of the ids.
NextBatch(last, wanted) ==
    {c \in wanted : /\ c > last
                    /\ Cardinality({d \in wanted : last < d /\ d <= c}) <= BatchSize}

Highest(chunks) == CHOOSE c \in chunks : \A d \in chunks : d <= c

Starting(job) == ~Running /\ starts < MaxStarts /\ starts' = starts + 1

\* A re-embedding of the rows after an id, 0 standing for all of them.
Reembedding(pc, after) ==
    [job |-> "reembed", pc |-> pc, last |-> after, batch |-> {}, after |-> after]

\* reembed from the start: the collection is dropped, created and the
\* lexical index emptied, each in a transaction of its own.
StartReembed ==
    /\ Starting("reembed")
    /\ tool' = Reembedding("create", 0)
    /\ db' = DropCollection(db)
    /\ owed' = owed \cup {"dense", "rest"}
    /\ reported' = 0
    /\ UNCHANGED <<live, config, changed, publishes>>

\* The worker may have created the collection in between.
CreateCollection ==
    /\ tool.job = "reembed" /\ tool.pc = "create" /\ Accepts(db, config)
    /\ db' = EnsureCollection(db, config)
    /\ tool' = [tool EXCEPT !.pc = "empty"]
    /\ UNCHANGED <<live, config, changed, owed, reported, publishes, starts>>

EmptyLexical ==
    /\ tool.job = "reembed" /\ tool.pc = "empty"
    /\ db' = RecreateLexical(db)
    /\ owed' = owed \cup {"lexical"}
    /\ tool' = [tool EXCEPT !.pc = "read"]
    /\ UNCHANGED <<live, config, changed, reported, publishes, starts>>

\* A run that ends prints its last_chunk_id.  One that is killed leaves no id
\* behind; the runbook works one out, "what is written is the first N in the
\* order of the ids", N being the number of points.
NthChunk(n) ==
    CHOOSE c \in db.rows : Cardinality({d \in db.rows : d <= c}) = n

ResumeAfter ==
    IF reported # 0 THEN reported
    ELSE IF CountPoints(db) \in 1 .. Cardinality(db.rows) THEN NthChunk(CountPoints(db))
    ELSE 0

\* reembed --keep-collection, or --resume-after: nothing is dropped.
Resume(after) ==
    /\ Accepts(db, config)
    /\ Starting("reembed")
    /\ db' = EnsureCollection(db, config)
    /\ tool' = Reembedding("read", after)
    /\ reported' = 0
    /\ UNCHANGED <<live, config, changed, owed, publishes>>

\* rebuild-lexical: the index is emptied in a transaction of its own and
\* filled in another, which takes the whole run.
StartLexical ==
    /\ Starting("lexical")
    /\ tool' = [job |-> "lexical", pc |-> "read", last |-> 0, batch |-> {},
                staged |-> {}]
    /\ db' = RecreateLexical(db)
    /\ owed' = owed \cup {"lexical"}
    /\ UNCHANGED <<live, config, changed, reported, publishes>>

\* backfill-analyzed
StartBackfill ==
    /\ Starting("backfill")
    /\ tool' = [job |-> "backfill", pc |-> "read", last |-> 0, batch |-> {}]
    /\ UNCHANGED <<db, live, config, changed, owed, reported, publishes>>

\* A batch is read in one transaction; what is computed from it is written
\* in a later one.
ReadBatch ==
    /\ tool.job \in {"reembed", "lexical"} /\ tool.pc = "read"
    /\ LET batch == NextBatch(tool.last, db.rows) IN
         /\ batch # {}
         /\ tool' = [tool EXCEPT !.pc = "write", !.batch = batch,
                                 !.last = Highest(batch)]
    /\ UNCHANGED <<db, live, config, changed, owed, reported, publishes, starts>>

\* Both indexes in one transaction.
WriteReembed ==
    /\ tool.job = "reembed" /\ tool.pc = "write"
    /\ db' = UpsertLexical(UpsertPoints(db, tool.batch, config), tool.batch)
    /\ tool' = [tool EXCEPT !.pc = "read", !.batch = {}]
    /\ UNCHANGED <<live, config, changed, owed, reported, publishes, starts>>

\* Inside bulk(): seen by nobody until it ends.
WriteLexical ==
    /\ tool.job = "lexical" /\ tool.pc = "write"
    /\ tool' = [tool EXCEPT !.pc = "read", !.batch = {},
                  !.staged = @ \cup (IF OnPostgres(db) THEN tool.batch \cap db.rows
                                                       ELSE tool.batch)]
    /\ UNCHANGED <<db, live, config, changed, owed, reported, publishes, starts>>

Unanalyzed == db.rows \ db.analyzed

\* Each batch of a backfill is read and written in one transaction.
WriteBackfill ==
    /\ tool.job = "backfill"
    /\ LET batch == NextBatch(tool.last, Unanalyzed) IN
         /\ batch # {}
         /\ db' = [db EXCEPT !.analyzed = @ \cup batch]
         /\ tool' = [tool EXCEPT !.last = Highest(batch)]
    /\ UNCHANGED <<live, config, changed, owed, reported, publishes, starts>>

\* What has been rebuilt when a re-embedding ends: both indexes if it began
\* with the first row, what was left of an interrupted run if it resumed one.
\* A run that found no row at all prints no id.
Discharged == IF tool.after = 0 THEN {"dense", "lexical", "rest"} ELSE {"rest"}

Finish ==
    /\ Running /\ tool.pc = "read"
    /\ CASE tool.job = "reembed" ->
              /\ NextBatch(tool.last, db.rows) = {}
              /\ owed' = owed \ Discharged
              /\ changed' = (changed /\ tool.after # 0)
              /\ reported' \in IF db.rows = {} THEN {0, tool.last} ELSE {tool.last}
              /\ UNCHANGED db
         [] tool.job = "lexical" ->
              /\ NextBatch(tool.last, db.rows) = {}
              /\ owed' = owed \ {"lexical"}
              /\ db' = UpsertLexical(db, tool.staged)
              /\ UNCHANGED <<changed, reported>>
         [] tool.job = "backfill" ->
              /\ NextBatch(tool.last, Unanalyzed) = {}
              /\ owed' = owed \ {"analyzed"}
              /\ UNCHANGED <<db, changed, reported>>
    /\ tool' = NoTool
    /\ UNCHANGED <<live, config, publishes, starts>>

\* The process is killed, or a call of it raises: what it has not committed
\* is lost.
Killed ==
    /\ Running
    /\ tool' = NoTool
    /\ UNCHANGED <<db, live, config, changed, owed, reported, publishes, starts>>

-----------------------------------------------------------------------------
\* A database from before the analyzed column, indexed with the first model.
Init ==
    /\ \E kind \in Kinds, m \in Models, v \in Versions : \E chunks \in Layouts[v] :
         /\ db = [kind |-> kind, rows |-> chunks, analyzed |-> {}, dim |-> Dim[m],
                  dense |-> [c \in Ids |-> IF c \in chunks THEN m ELSE None],
                  lexical |-> chunks]
         /\ live = {v}
         /\ config = m
    /\ changed = FALSE
    /\ tool = NoTool
    /\ owed = {"analyzed"}
    /\ reported = 0
    /\ publishes = 0
    /\ starts = 0

Tool ==
    \/ StartReembed \/ CreateCollection \/ EmptyLexical
    \/ (\E after \in {0, ResumeAfter} : Resume(after))
    \/ StartLexical \/ StartBackfill \/ ReadBatch \/ WriteReembed
    \/ WriteLexical \/ WriteBackfill \/ Finish \/ Killed

Next ==
    \/ \E v \in Versions : \E chunks \in Layouts[v] : Publish(v, chunks)
    \/ \E d \in Documents : Delete(d)
    \/ \E m \in Models : ChangeModel(m)
    \/ Tool

Spec == Init /\ [][Next]_vars

-----------------------------------------------------------------------------
ToolState ==
    {NoTool} \cup
    [job : {"reembed"}, pc : {"create", "empty", "read", "write"},
     last : Nat, batch : SUBSET Ids, after : Nat] \cup
    [job : {"lexical"}, pc : {"read", "write"}, last : Nat,
     batch : SUBSET Ids, staged : SUBSET Ids] \cup
    [job : {"backfill"}, pc : {"read"}, last : Nat, batch : SUBSET Ids]

TypeOK ==
    /\ db \in Database
    /\ live \subseteq Versions
    /\ config \in Models /\ changed \in BOOLEAN
    /\ tool \in ToolState
    /\ owed \subseteq {"dense", "lexical", "rest", "analyzed"}
    /\ reported \in Nat /\ publishes \in Nat /\ starts \in Nat

\* reembed_tenant: whatever was published, deleted, killed and resumed in
\* between, once a re-embedding that began with the first row has come to its
\* end, every chunk can be found by its vector, in the space the queries are
\* embedded in, if the model was not changed since.
EveryChunkIsEmbedded ==
    "dense" \notin owed =>
        /\ db.rows \subseteq Embedded(db)
        /\ ~changed => \A c \in db.rows : db.dense[c] = config

\* docs/04-runbook.md: a re-embedding that was interrupted and resumed at the
\* id worked out from the number of points has embedded every chunk.
ResumedIsComplete == "rest" \notin owed => db.rows \subseteq Embedded(db)

\* rebuild_lexical, reembed_tenant and the worker: once the lexical index has
\* been rebuilt over the whole table by either tool it describes the table
\* exactly, no chunk missing and none of a replaced or deleted version there.
LexicalIsExact == "lexical" \notin owed => db.lexical = db.rows

\* A deleted document is found by neither index, even if a tool had read its
\* chunks before and writes after.
GoneIsGone ==
    \A d \in Documents : live \cap VersionsOf(d) = {} =>
        ChunksOfDocument(d) \cap (db.lexical \cup Embedded(db)) = {}

\* docs/02-data-model.md: "chunks", "vector_points" and "lexical_docs" are
\* equal while no rebuild is under way.
CountsAgree ==
    owed \cap {"dense", "lexical"} = {} =>
        /\ Cardinality(db.rows) = CountPoints(db)
        /\ Cardinality(db.rows) = Cardinality(db.lexical)
=============================================================================
