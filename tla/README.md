# Verification of kbsvc, the knowledge service

The repository is a literary search system: `knowledge-service` (Python package `kbsvc`: document ingestion, hybrid
retrieval, plagiarism detection, an HTTP API and an MCP server) and `knowledge-web` (a Flask client of that API). This
directory holds TLA+ specifications of the parts whose behaviour depends on concurrency, failure and order, the TLC
configurations that check them on small instances, and TLAPS proofs of what holds for every instance.

Paths are relative to `src/knowledge-service/src/kbsvc/` unless they start with `docs/`, `tests/` (both below
`src/knowledge-service/`) or with another directory of the repository.

    tlc -workers 2 -config MCCheckLifecycle_races.cfg MCCheckLifecycle.tla     # one run
    tlapm SearchPipeline_proofs.tla                                            # the proofs of one module

## 1. The system's parts

| Component | Source | State it keeps | Operations | What is hard |
|---|---|---|---|---|
| Plagiarism checks | `plagiarism/service.py`, `worker.py`, `runner.py`, `states.py`, `repository.py` | `plag_check` rows, their sources, passages and events | create, delete or cancel, claim, run, settle, fail, reclaim | three kinds of transaction race on one row; the worker judges by a cached status |
| Plagiarism corpus | `plagiarism/projection.py`, `repository.py`, `ingest_hook.py`, `corpus_ops.py` | corpus jobs, projections with activation windows, chunks, fingerprint frequencies | register, build, activate, retire, snapshot, clean up | clocks are read long before a commit; builds run in any order |
| Ingestion | `ingest/worker.py`, `ingest/uploader.py`, `ingest/states.py`, `db/repo.py` | documents, versions, chunks, jobs, both indexes | upload, claim, publish, supersede, delete, reindex, retry | leases, lost workers, jobs of one document in any order, cached columns |
| Event stream | `plagiarism/sse.py`, the relay and the check page of knowledge-web | a generator's cursor, a page's last event id | replay, poll, keepalive, resume, reload | ids are given at insert, rows appear at commit; broken connections |
| Re-embedding | `ingest/reembed.py`, `cli.py` | the place it has got to, until it ends | rebuild both indexes in batches, resume | batches are read and written in different transactions, beside a worker; a killed run leaves no place behind |
| Retrieval | `retrieval/*.py`, `access.py`, `reading.py` | the loaded reranker | search, fuse, rerank, filter by access, cite | each part reads the database at a moment of its own; fallbacks |
| Index stores | `vector/*.py`, `lexical/*.py`, `db/*_ddl.py` | index columns (PostgreSQL) or side tables (SQLite) | upsert, delete, recreate, search | two stores that treat a missing chunk differently |
| Text algorithms | `chunking/`, `plagiarism/chunking`, `fingerprinting`, `alignment`, `intervals.py`, `normalization.py`, `reading.py` | none | chunk, reassemble, winnow, seed and extend, merge intervals, highlight | offsets and boundaries, one algorithm's output being the next one's input |
| HTTP API and limits | `api/*.py`, `ratelimit.py` | request windows, a count cache | rate limit, authenticate, route | windows shared by threads |
| MCP server, command line | `mcp/*.py`, `cli.py` | none | call the operations above | - |
| Configuration, sessions, ids | `config.py`, `db/session.py`, `ids.py` | - | commit or roll back | - |
| Storage, parsing, embedding | `storage/`, `parsing/`, `embedding/` | files | put, get, parse, embed | external I/O that may raise |
| Web client | `src/knowledge-web/kbweb` | none on the server | pages over the API | - |
| Collection data | `src/book`, `src/*.json` | - | - | - |

How they interact. An HTTP request changes rows in one short transaction and enqueues a job; ingest workers
(`kbsvc worker`, or a thread of the API process) and plagiarism workers (`kbsvc plagiarism-worker`) poll the database,
claim jobs under a lease and execute them. Publishing a version calls the plagiarism hook inside the ingest
transaction, which registers a build of the version's projection; deleting a document removes its projections. A
check freezes an instant (`snapshot_at`) and reads the projections whose window contains it. There are no messages and
no shared memory between processes: everything goes through rows, their locks and their visibility. The stream
endpoint polls the event table.

What makes each part correct:

* **Checks.** One worker runs a check at a time; a running check can be reclaimed; a report has the findings of one run;
  a key has at most its limit of active checks and one check per idempotency key; statuses keep to the table; no run
  completes a check over a cancel; the closing event is stored with the final status, once; a cancelled or deleted
  check holds neither text nor findings; every admitted check is settled.
* **Ingestion.** Readers see whole versions, one at a time; the rows stored are those of the current version; what is
  marked indexed is stored (an upload is answered as a duplicate from that mark alone); a completed job is final;
  attempts are bounded; every job settles.
* **Corpus.** No instant resolves to two projections of a document; a check finds the corpus of its snapshot for as
  long as it is kept; builds are bounded; a current document gets a projection that has its text.
* **Event stream.** A page that is disconnected and resumes neither loses nor repeats an event; it does not show
  progress for ever.
* **Re-embedding, index stores.** After a tool has gone over the whole table every current chunk is in both indexes,
  whatever was killed and resumed before; nothing that was replaced or deleted is found any more.
* **Retrieval.** An answer shows what was in the index and what the caller may read; it leaves no place empty that a
  chunk a retriever finds could have had; it keeps an order both retrievers agree on.
* **Text algorithms.** Text survives chunking and joining; a passage's offsets lie where its text is, in both texts; a
  copied document is found; what is counted as matched is what is shown; a passage can be opened and is marked.
* **Limits.** A window admits no more than its limit (not modelled, section 7).

## 2. Plan

1. `CheckLifecycle`, with `CheckPromise` as its abstract specification - done.
2. `IngestPipeline`, with `DocumentPromise` - done.
3. `CorpusProjection` - done.
4. `EventStream`, with `EventFeed` - done.
5. `IndexStores` and `Reembed` - done.
6. `DocumentText`, `Matching` and `Report`: the text of a document from its lines to the rows, of a check from the query
   to the passage that is opened - done.
7. `SearchPipeline` - done.
8. Proofs of the checks, the ingest pipeline, the corpus, the event stream, the index tools, the search and the report -
   done.

Composition. `EventStream` carries the runs of `CheckLifecycle` cut down to what decides which events are inserted and
committed when; `Report` is the content of one such run. `Reembed` and `SearchPipeline` have publishing and deleting by
the ingest worker as single actions, which they are for everybody else (`IngestPipeline`: one commit). `Report` EXTENDS
`Matching`, which EXTENDS `DocumentText`: the rows a document's lines become are the rows a passage is opened in. Both
it and `SearchPipeline` select and sort by `Lists`. `CorpusProjection` has the publishing and deleting ends of
ingestion as its own actions, and the check's admission and settlement as far as they read the corpus.

## 3. The modules and the code

| Module | Models | Extended or used by |
|---|---|---|
| `CheckLifecycle` | checks: requests and workers, transaction by transaction | `MCCheckLifecycle`, `CheckLifecycle_proofs` |
| `CheckPromise` | what the check API promises its callers | `CheckLifecycle` (INSTANCE) |
| `IngestPipeline` | jobs, versions and rows of one document | `MCIngestPipeline`, `IngestPipeline_proofs` |
| `DocumentPromise` | what readers of a document are promised | `IngestPipeline` (INSTANCE) |
| `CorpusProjection` | builds, windows, snapshots and cleanup for one document | `MCCorpusProjection`, `CorpusProjection_proofs` |
| `EventStream` | one check's events, from their insertion to the page | `MCEventStream`, `EventStream_proofs` |
| `EventFeed` | what the stream promises its readers | `EventStream` (INSTANCE) |
| `IndexStores` | chunk table and both indexes, an operator per store method | `Reembed` |
| `Reembed` | the operator's index tools beside the worker | `MCReembed`, `Reembed_proofs` |
| `Lists` | what comprehensions, `sorted` and slices do to a list | `DocumentText`, `SearchPipeline` |
| `DocumentText` | a document's text: blocks, rows, the text joined from them, marks in it | `Matching` |
| `Matching` | the algorithms of a check | `Report` |
| `Report` | one check over a library, from submission to the opened passage | `MCReport`, `Report_proofs` |
| `SearchPipeline` | one search at a time against a changing index | `MCSearch`, `SearchPipeline_proofs` |
| `*_proofs` | theorems, see section 6 | each other, by EXTENDS |

`CheckLifecycle`, `IngestPipeline`, `CorpusProjection` and `EventStream` model PostgreSQL under READ COMMITTED, the only
profile that runs more than one worker: what a transaction wrote becomes visible at its commit; a writer waits for a row
another transaction has written; `FOR UPDATE SKIP LOCKED` passes such rows over. A request that is one short transaction
is one action. A worker's long transaction is several: one per statement that reads what another process may change, and
one for each first write, which takes the row. Its effects appear in the action that commits. SQLite has one writer at a
time and one worker; the run with one worker is its case. `Reembed` and `SearchPipeline` look at both deployments, whose
stores differ.

### CheckLifecycle

`status`, `cancelRequested`, `attempts`, `lease`, `text` are columns of `plag_check`; `lease` keeps only whether
`lease_expires_at` is NULL, ahead or past. `sources` are the stored source rows, each with the run it is of and the
document it names (its passages go with it), `terminalEvents` the closing events in commit order, `admission` how far
each create request has got.

| Code | Actions |
|---|---|
| `PlagiarismService._create` | `LookUpKey`, `CountActive` (takes the advisory lock), `InsertCheck`, `AbandonCreate` |
| `delete_check` | `LoadForDelete`, then by the status read `DeleteRunning`, `DeletePending`, or `ClearForDelete` and `DeleteOutright`; or it is lost on the way, `AbandonDelete` |
| `reclaim_expired_checks`, `claim_check` | `Reclaim`, `ClaimCheck` |
| `CheckRunner.run` | `LoadCheck` (the status `_settle` will judge by), `FlushCheck` (first UPDATE: the row lock), `RunRaises` |
| `_settle` | `Settle`, `SettleRaises` |
| `_fail` | `LoadForFail`, `WriteFail` (only changed columns are written) |

Left out or merged: the order of `available_at` among pending checks (any pending check may be claimed); progress
events (`EventStream`); the row locks that `clear_results` takes on source rows; reading the row and selecting its old
results are one step. The cancel flag is re-read by the chunk loop under the row lock, so its value is the one
committed now. A run finds any set of documents, two runs of one check different ones: either may be cut by the
deadline, and `_persist` leaves out what was deleted meanwhile. `uq_plag_check_source` refuses a row for a document
that already has one (`Collides`), and nothing else. `cleanup_expired` is in `CorpusProjection`.

### IngestPipeline

One document; jobs of others touch none of its rows. `chunks` is the set of versions whose rows are stored and
searchable; on PostgreSQL both indexes are columns of those rows. `worker[w].seenStatus` and `seenCurrent` are what the
session read: the ORM does not write a column whose new value equals the one it read, which two workers can notice.
`listed` and `cleared` are what `_supersede_older` and `_run_delete` selected before they waited. `queue` is the jobs
that are due in the order of `scheduled_at`.

| Code | Actions |
|---|---|
| `register_bytes` | `Upload`, `UploadDuplicate` |
| reindex, delete, retry endpoints | `RequestReindex`, `RequestDelete`, `RetryJob` |
| `claim_job` | `ClaimJob` |
| `_run_ingest` | `LoadJob`, `StartParsing`, `WriteChunks`, `Publish`, `SupersedeOlder`, `CommitIngest` |
| `_run_delete` | `LoadJob`, `ClearDocument`, `CommitDelete` |
| any exception, `_fail` | `Raise` (also the deadlock victim), `Fail` |

Left out: titles, parser columns and the order of a reindex job's updates of its version row; the plagiarism hook (it is
in `CorpusProjection`) and the index events. Listing the versions and deleting their rows are one step, taken when the
locks are free. So the deletion of the model sees rows that were committed while it waited, and the code's does not: it
works from the listing, and from the snapshot of a statement, of before the wait. Only two workers on one document can
tell, and what the run of two workers checks does not depend on it: the transaction marks the versions it listed, and a
version marked indexed has its rows either way.

### CorpusProjection

One document. `projection[v]` is the committed row of version `v`: `from` and `until` are `active_from` and
`active_until`, `text` says whether it has chunks, which depends on whether `v` is current when the build reads them.
A completed job is never queued again, so a version is built once and its row is known by it. `clock` is `utcnow()`.

| Code | Actions |
|---|---|
| `enqueue_projection_if_enabled`, `enqueue_corpus_job` | `Publish` (a failing hook leaves the version without a job) |
| `register_backfill` (`backfill`, `rebuild`) | `Backfill` |
| `retire_document_if_enabled` | `BeginDeletion`, `EndDeletion` |
| `reclaim_expired_corpus_jobs`, `claim_corpus_job` | `Reclaim`, `ClaimJob` |
| `ProjectionBuilder.build` | `LoadText`, `Activate` (the clock and the rows to retire are read), `CommitBuild`, `BuildRaises` |
| `finish_corpus_job` | `CommitBuild`, `FailJob` |
| `projection_readiness`, `_create` | `FindReady`, `Admit` |
| `cleanup_expired` | `Cleanup` |

Assumed: a lease (`plag_lease_seconds`, 600 s) outlives the build of one document; the algorithm's configuration does
not change. The text of a projection, its fingerprints and their frequencies are in `Report`.

### EventStream

`log` is the table by id: an insert is open (`by` its worker), committed (`by` the table) or undone, and its id is used
up either way. `run` is a worker's run as far as events go, `request` the status a DELETE has read, `page` a browser
page with the generator that serves it: `last` is the EventSource's Last-Event-ID, `cursor` the generator's, `frames`
what is under way. `got` is history.

| Code | Actions |
|---|---|
| `claim_check`, `reclaim_expired_checks` | `Claim`, `Reclaim` |
| `CheckRunner.run` and its `append_event` calls | `Start`, `Chunk` (the row is locked), `Persist`, `RunRaises`, `Die` |
| `_settle`, `_fail` | `Settle`, `Fail` |
| `delete_check` | `ReadForDelete`, `Delete` |
| `stream_progress`, `stream_check_events`, `replay_events`, `_owns` | `Connect`, `Poll` |
| `check_stream` of the web client, `check.js` | `Load`, `Deliver`, `Fallback`, `Break` |

Left out: the limit on open streams, keepalive timing, the wording of frames.

### IndexStores and Reembed

`db` is the chunk table with both indexes: on SQLite three tables, on PostgreSQL columns of one row, which is why the
same call on a missing chunk inserts there and does nothing here. Every operator of `IndexStores` is one store method,
from the database before to the database after. A chunk is a number in the order of the ids, which are hashes.

| Code | Actions |
|---|---|
| `_run_ingest` with `_supersede_older`, `_run_delete` | `Publish`, `Delete` |
| new settings, restart | `ChangeModel` |
| `reembed_tenant` | `StartReembed`, `CreateCollection`, `EmptyLexical`, `Resume`, `ReadBatch`, `WriteReembed`, `Finish` |
| `rebuild_lexical` | `StartLexical`, `ReadBatch`, `WriteLexical` (inside `bulk`), `Finish` |
| `backfill_analyzed` | `StartBackfill`, `WriteBackfill`, `Finish` |
| a signal, or a call that raises | `Killed` |

`owed` is history: what a tool has begun and no tool has finished, and of a re-embedding also what was left when it was
interrupted (`"rest"`). Where a run has got to is known to it alone: `reembed_tenant` returns `last_chunk_id` and the
command line prints it when the run is complete (`reported`), and of a run that is killed only `done/total` has been
printed. So `Resume` starts from an id that was reported, from the one the runbook works out from the number of points
(`NthChunk`), or, as `--keep-collection` does, from the first row. A resumed run pays only what was interrupted; both
indexes are owed until a run has gone over the whole table. `Alone` names the deployments whose worker is stopped
meanwhile, as the runbook asks.

### DocumentText, Matching and Report

A text is a sequence of characters of a small alphabet; the classes of characters (letters, white space, punctuation,
sentence ends) are what the code asks of them, and lengths are the code's settings made small. Offsets are half-open and
count from 0, as in the code.

| Code | Operators |
|---|---|
| `build_from_markdown` | `BlocksOf` |
| `chunk_document`, `_pack_sentences`, merging of short chunks | `SentencesOf`, `Pack`, `ChunkBlock`, `Absorbed`, `RowsOf` |
| `_load_text` | `Joined`, `LoadText` |
| `intervals.py` | `MergeIntervals`, `SubtractIntervals` |
| `reading.py` | `Highlights`, `KnownGaps`, `Locate` |
| `normalization.py`, `language.py`, `matching_policy.py` | `Normalize`, `OriginalSpan`, `Detect`, `ResolvePolicy`, `IsDiscriminative` |
| `winnowing.py`, `sliding.py` | `Winnow`, `Fingerprint`, `SlidingChunks` |
| `seed_extend.py` | `FindSeeds`, `Extend`, `Merge`, `DedupeByQueryCoverage`, `Build`, `ShortExact`, `Align` |
| `dedupe_passages` | `DedupePassages` |

| Code | Actions of `Report` |
|---|---|
| `create_text_check`, `create_document_check` | `SubmitText`, `SubmitDocument` |
| `CheckRunner.run` | `Start`, `StopEarly`, `SkipChunk`, `FindCandidates`, `EndChunk`, `AllChecked` |
| `align` with `should_stop` | `AlignNext`, `Abandon` |
| `_persist`, `get_report` | `Persist`, `UniquePassages` |
| `rebuild_fingerprint_df`, deletion, cancel, deadline | `RebuildDf`, `DeleteDocument`, `RequestCancel`, `TimeUp` |

`library` holds of each document the lines and what is stored of them: the chunk rows, the joined text and the
fingerprinted windows (`Built`). `lossy` is history: why a check may have looked at less. The hash of `MCReport` is
injective; the proofs hold for any hash, collisions included. Pages, tables and headings inside a parser's document are
left out; a document has one version here.

A loop of the code that carries a list along is a recursive function over the rounds (`Merge`, `FindSeeds`, `LoadText`),
a comprehension an operator of `Lists`; so the loops can be reasoned about round by round.

`CopiedDocumentIsNamed` speaks of runs of `Guaranteed` characters: `K + W - 1` for a common fingerprint, the seed for
the scan and the passage for the report. It leaves out windows the code passes over on purpose, rules and separators
(`is_discriminative`) and windows of which normalization leaves no effective character (`align`).

### SearchPipeline

A version stands for its one chunk. What scoring inside the databases and models yields - how near a chunk is to each
variant of the query, how well it matches the terms, what the rerankers think of it - is part of the request; what the
code does with these numbers (limits, filters, ranks, weights, ties) is modelled. `always` and `ever` are history: the
chunks that were in the index throughout the search, and at some moment of it.

A ranking is the list of a set's members by their scores. Where the code names what decides between equal scores, it
decides here too: the id in the fusion, the place in the list for `sorted`. Between equal scores of one store neither
SQLite nor PostgreSQL promises anything; the model takes the lower id, and the scores of a query in the run are
distinct. Fused scores are fractions; `Scale` is a common multiple of their denominators, so all of them are whole
numbers here (60 with `rrf_k` 2 and four chunks).

Tags and the stores. PostgreSQL and sqlite-vec compare tags as sets, sqlite-vec after its limit. FTS5 has the tags of a
chunk in one column of words and looks for a tag as a phrase of its words (`FtsReadable`): `hr` is found where only
`hr-only` is. `Words` and `AclWords` say what unicode61 makes of a tag and of a column. The other columns of the filter
are compared exactly in the model: tenant, document and source ids have a form of their own and stand alone in their
column, kinds are single words. `InScope` stands for these filters with the one on documents, and an empty set for none.
pgvector's HNSW index stops after `ef_search` candidates and applies the conditions to those, unless the filter forces
the exact scan (`NeedsExactScan`): `SearchDense` lets such a search see any part of the index.

| Code | Actions |
|---|---|
| `search`, `rewrite` | `Begin` |
| `search_dense` of both stores | `SearchDense`, `ReadPayloads` (SQLite's second statement) |
| `search` of both lexical stores | `SearchSparse` |
| `reciprocal_rank_fusion`, `_apply_heading_filter`, `get_reranker` | `Fuse` |
| `_stored_tokens` | `LookUpTokens` |
| `_rank_and_cite` | `RankAndCite`, `Return` |
| an exception of embedder or store | `RetrieverFails` |
| the ingest worker's commits | `Publish`, `Delete` |

## 4. The runs

| Run | Instance | Shows |
|---|---|---|
| `checks_races` | 1 check, 2 workers, 2 DELETEs, 1 crash, 2 documents to find | one worker per check, reclaimable, closed by its event, cancelled and deleted checks hold nothing, a report has one run's findings, no completion over a cancel |
| `checks_calm` | 3 create requests (two with one key), limit 1, 2 workers, 2 crashes, nobody deletes | statuses keep to the table, `CheckPromise` refined (limit, one check per key, single closing), every check settles |
| `ingest_one` | 2 contents, 3 jobs of any kind, 1 worker, 1 crash | store = current version, `DocumentPromise` refined |
| `ingest_settles` | 2 contents, 2 jobs, 2 workers, 1 crash, 1 manual retry | one worker per job, completed is final, attempts bounded, indexed is stored, every job settles |
| `corpus_one` | 2 versions, 1 worker, 1 check, 1 crash, 1 deletion, clock to 3, retention 1 | windows disjoint, snapshots resolve, builds bounded |
| `events_pages` | 2 workers, 1 page, batches of 2, 2 broken streams, 2 claims, a DELETE | nothing skipped, `EventFeed` refined, a page settles |
| `stores_tools` | 3 versions of 2 documents, 3 models of 2 dimensions, batches of 1, 2 publications, 3 starts, both deployments | after a tool has gone over the whole table both indexes describe it; deleted is gone |
| `report_check` | 24 libraries of 3 documents, 7 queries, 3 languages, K 2 and W 3, chunks of 6 | over the whole path: nothing lost, verbatim is equal, copied documents named, matched is shown, passages open |
| `search_answers` | 4 chunks of 3 documents, 3 tags, 2 writes, overfetch 2, rrf_k 2, every mode and reranker, both deployments | answers are of the index, full or complete, in the agreed order |
| `checks_v_finished`, `ingest_v_deleted`, `corpus_v_ready` | as small as shows it | what documentation or tests say and the code does not keep, section 5 |

Every property of a passing run has a mutant in `PROJECT.json`: a plausible slip in one definition that TLC finds by
violating that property, so none of them holds by the shape of the model. `WithinLimit` and `ClosedOnce` of
`CheckLifecycle` are stated beside the others and follow from `KeepsPromise`; so does `FinishedIsKept` as long as nobody
deletes an active check.

Configurations that reproduce the other findings of section 5 are kept with the modules, each ending in its
counterexample: `MCCheckLifecycle_v_tworuns`, `MCCheckLifecycle_v_purge`, `MCIngestPipeline_v_older`,
`MCCorpusProjection_v_complete`, `MCEventStream_v_late`, `MCEventStream_v_seen`, `MCReembed_v_counts`,
`MCReembed_v_resume`, `MCReport_v_runs`, `MCReport_v_offsets`, `MCSearch_v_tags`, `MCSearch_v_phrase`.

**Bounds.** `MaxAttempts` 2: a first attempt, a retry and the end of attempts. `MaxCrashes` 1 or 2: a crash at every
step of one execution, and one during its repetition. `ClaimCap` (2 to 4) cuts runs off after the claims that attempts
and crashes can cause together. `MaxRevivals` 1: one job put back by hand. `MaxDeletions` 1 and `MaxClock` 3 with
`Retention` 1: a window can open, close, age and be cleaned up while a check keeps its snapshot. Two workers and two
requests are enough for every pairwise race; three jobs let an upload, its successor and a deletion or a reindexing
overlap. Two contents: an older and a newer version. The theorems of section 6 lift most of these bounds.

`MaxBreaks` 2: a stream is resumed, and resumed again after a poll that brought something; `Limit` 2 is below the
events of one run, so a replay takes several polls. `BatchSize` 1 puts every possible write between two batches;
`MaxPublishes` 2 and `MaxStarts` 3: a replacement and a publication while one tool is killed, another one started and
the first resumed. One version has two layouts, so re-indexing changes its chunks. The lengths of `report_check` keep
the order of the real ones (a seed is shorter than a passage, a passage than a chunk, an overlap than both), and its
texts are chosen for the cases named in `MCReport`: repetitions, citations, rules, white space, a sentence longer than
a chunk, a remainder too short for one. `MaxWrites` 2 in `search_answers`: a chunk is replaced or deleted between any
two reads, and another one after that; `Overfetch` 2 with `topK` 1 makes the limit of the stores and of the fusion
smaller than the index, and `topK` the answer's smaller than that; `topK` 2 leaves places empty. `Overfetch` 1 in
`MCSearch_v_tags`: the limit is what was asked for, as in a deployment that sets it so; a larger one needs more chunks
for the same counterexample.

Deadlock checking is off where behaviours end: nobody has to make another request.

**Fairness.** `run_forever` polls until it is stopped, so a worker that can claim, execute, fail or reclaim does so in
the end (WF). Plagiarism workers reclaim at the beginning of every poll, so in `CorpusProjection` reclaiming is taken
though claims keep disabling it (SF). Time passes: leases run out and backoffs end (WF). A DELETE that was accepted is
carried through, a delete job that began ends (WF). In `corpus_v_ready` the operator who finds the corpus not ready
runs `backfill`, as the runbook says (WF). In `EventStream` a page loads, connects or falls back to reloading, its
generator polls and frames arrive (WF each): loops and timers of the page and of the generator; nothing is asked of the
workers. Nobody is obliged to create, upload, delete, rebuild or retry anything, and nothing is assumed of crashes but
their bound: a worker that dies for ever more is not served by any queue.

**Leases.** `SlowWorkers = FALSE` says that a lease outlives the execution it was taken for: `plag_lease_seconds` is
600 and a check has a budget of its own; `worker_lease_seconds` is 300 and the parser's time is not limited, so this is
an assumption on the deployment. `MCCheckLifecycle_v_tworuns` and `MCEventStream_v_late` drop it and end in
counterexamples. So would other properties: with slow workers TLC also refutes `EndedHoldsNothing` and
`CancelIsHonoured` of the checks and `OneWorkerPerJob`, `CompletedIsFinal` and `AttemptsAreBounded` of ingestion, since
neither queue compares the owner of a lease when it settles; `IndexedIsStored` holds without the assumption, and is
proved so. In both queues a live worker's row is locked from its first flush, which `SKIP LOCKED` passes over: this
covers the longest part of a run, not its beginning and not the time between a raised exception and `_fail`.

## 5. What the models say against the documentation

Checked by a run of the project:

* `ingest_v_deleted` (`DeletedIsEmpty`): an ingest job retried after the deletion stores chunks under a deleted document
  (`docs/04-runbook.md:172`).
* `corpus_v_ready` (`BecomesReady`): a document deleted and uploaded again is never built, whatever the operator runs
  (`docs/04-runbook.md:451`).
* `checks_v_finished` (`FinishedIsKept`): a DELETE reads `running`, waits for the run's row and then writes
  `cancel_requested` over `completed` (`tests/plagiarism/test_states.py:58` calls that unacceptable).

Reproduced by a configuration kept beside the module:

* `ResultsOfOneRun` (`MCCheckLifecycle_v_tworuns.cfg`): a lease runs out under a living worker, both runs commit, and
  where they name different documents the report adds up both (`plagiarism/runner.py:81`).
* `CancelPurges` (`MCCheckLifecycle_v_purge.cfg`): a cancel accepted that way stays `cancel_requested` for ever, text
  and findings kept (`docs/specs/2026-08-07-plagiarism-detection-backend.md:249`).
* `OnlyOlderSuperseded` (`MCIngestPipeline_v_older.cfg`): the retried job of an older version supersedes the newer one
  (`docs/01-architecture.md:67`).
* `ReadyIsComplete` (`MCCorpusProjection_v_complete.cfg`): an empty projection makes a document ready
  (`docs/01-architecture.md:257`).
* `NothingSkipped` (`MCEventStream_v_late.cfg`): a run whose lease expired commits a lower event id after a page has
  received a higher one; the page never gets it (`docs/03-api.md:197`).
* `StageIsSeen` (`MCEventStream_v_seen.cfg`): a run's stages are committed with its end, so no reader sees progress
  (`docs/adr/0001-selectively-port-noplag-into-kbsvc.md:168`).
* `ResumedIsComplete` (`MCReembed_v_resume.cfg`): the id derived from the number of points skips chunks the worker's
  own writes have displaced (`docs/04-runbook.md:359`).
* `CountsAgree` (`MCReembed_v_counts.cfg`): re-indexing a version with other chunks leaves points of the old ones
  behind on SQLite (`docs/02-data-model.md:143`).
* `SharedRunIsReported` (`MCReport_v_runs.cfg`): the scan for seeds skips too far after a match that reaches to the left
  (`plagiarism/alignment/seed_extend.py:246`, "every maximal exact common substring").
* `OffsetsLineUp` (`MCReport_v_offsets.cfg`): stripped pieces and joined short chunks shift the text behind them against
  the offsets (`plagiarism/projection.py:152`).
* `EveryPassageOpens` (`MCReport_v_offsets.cfg` with this invariant): a passage that ends in the blanks between two rows
  cannot be opened (`reading.py:143`).
* `PartialIsLabelled` (`MCReport_check.cfg` with this invariant): a deadline inside the last window leaves candidates
  out of a report that says nothing of it (`plagiarism/alignment/seed_extend.py:124`).
* `TagsAreNoPostFilter` (`MCSearch_v_tags.cfg`): on SQLite chunks the caller may not read use up the limit
  (`docs/01-architecture.md:70`).
* `TagsAreMatchedExactly` (`MCSearch_v_phrase.cfg`): in FTS5's column of tags a phrase is not equality
  (`lexical/fts5_store.py:40`).
* `EveryResultIsCited` (`MCSearch_answers.cfg` with this invariant): a chunk replaced between the two statements of
  SQLite's dense search is a result without document or text (`docs/03-api.md:241`).

Seen with the same modules while they were written, without a configuration:

* A worker that dies on a check whose cancel was requested is not relieved: `reclaim_expired_checks` selects `running`
  only, so the check stays active with an expired lease (the specification, line 96, wants another instance to take
  over).
* A DELETE that read `pending` writes `cancelled` over `running`, an edge the table lacks (`plagiarism/states.py:4`,
  "Every transition goes through `advance_check`"), and a late cancel revives a finished check beside a newly admitted
  one, above the limit (specification, line 163).
* With two ingest workers: a deletion that overlaps the first publication leaves its chunks, marks the version
  superseded, and the next version is published beside it (`docs/04-runbook.md:171`); two jobs of one content and a new
  upload can leave a superseded version current. `docker-compose.yml` starts one ingest worker by default.
* `ingest/worker.py:3` says every stage transition is persisted; `_advance` only flushes, so other sessions see
  `parsing` until the job ends.
* With two plagiarism workers two projections of a document stay live: `plagiarism/models.py:47` speaks of a partial
  index that enforces one, which is not there.
* The activation instant is read before the commit, so two attempts of one check may resolve different projections
  (`docs/02-data-model.md:195`); `SnapshotResolves` says that they always resolve one.
* The heading filter of a search follows the fusion's limit, so it may leave fewer results than exist; `api/schemas.py`
  documents it, and `FullOrComplete` leaves such requests out.
* A search that pgvector answers with its HNSW index may miss chunks; `config.py:72` measures how many and accepts it,
  and `FullOrComplete` and `AgreedOrderIsKept` leave such searches out.
* A re-embedding that was resumed fills the lexical index with the rows it goes over and no others:
  `docs/04-runbook.md:349` has that index rebuilt separately, and `LexicalIsExact` says nothing before that.

## 6. What is proved

| Theorem | Says, for every value of the constants |
|---|---|
| `CheckLifecycle_proofs!TypeCorrect` | type correctness |
| `CheckLifecycle_proofs!OneWorkerPerCheck`, `RunningCanBeReclaimed` | leases outlive runs => one worker per check, and a running check can be reclaimed |
| `CheckLifecycle_proofs!OneRunPerReport` | leases outlive runs => a report never adds up two runs, whatever documents they name |
| `CheckLifecycle_proofs!EndedIsPurged`, `EndedIsClosed` | leases outlive runs => a cancelled or deleted check holds nothing, and a final status comes with its closing event |
| `CheckLifecycle_proofs!CancelledIsNotCompleted` | leases outlive runs => a run completes only a running check whose cancel nobody has accepted, with any number of DELETEs |
| `CheckLifecycle_proofs!CheckKeepsPromise` | leases outlive runs and nobody deletes an active check => the service implements `CheckPromise` |
| `IngestPipeline_proofs!TypeCorrect`, `DuplicatesAreStored` | type correctness; what is marked indexed is stored, slow workers included |
| `IngestPipeline_proofs!OneWorkerForJob`, `AttemptsBound`, `CompletedStays` | leases outlive executions => one worker per job, bounded attempts, completed is final |
| `IngestPipeline_proofs!StoreIsCurrent`, `PipelineKeepsPromise` | one worker => the store is the current version, and the pipeline implements `DocumentPromise` |
| `CorpusProjection_proofs!TypeCorrect`, `AttemptsBound` | type correctness; builds bounded with any number of workers |
| `CorpusProjection_proofs!WindowsDisjoint`, `SnapshotsResolve` | one plagiarism worker => no two projections at one instant, and snapshots resolve |
| `EventStream_proofs!TypesHold` | type correctness, slow workers included |
| `EventStream_proofs!NothingIsSkipped`, `PagesReadOneFeed` | leases outlive runs => no page misses an event it has passed, and the stream implements `EventFeed` |
| `Reembed_proofs!StoresTyped` | type correctness |
| `Reembed_proofs!ReembedCoversAll` | a re-embedding that began with the first row and ended left no row behind, whatever was killed and resumed before it |
| `Reembed_proofs!DeletedStaysGone` | SQLite's worker is stopped => no tool brings a deleted document back |
| `Reembed_proofs!LexicalMatchesTable` | SQLite's worker is stopped => once a tool has gone over the whole table, the lexical index has its rows |
| `SearchPipeline_proofs!TypesAreKept` | type correctness; no list of a search has a chunk twice |
| `SearchPipeline_proofs!AnswersAreOfTheIndex` | an answer shows what was in the index during the search, with its text only what the filter of a store that was asked lets through, without it only what is gone |
| `SearchPipeline_proofs!AnswersAreComplete` | an answer is full, or shows each allowed chunk that was there throughout and that a retriever finds |
| `SearchPipeline_proofs!AnswersKeepTheOrder` | without reranking and HNSW, of two chunks that every variant and the terms order alike the allowed one is not shown behind the other |
| `Report_proofs!TypesAreKept` | type correctness; each passage of a report has its place in both texts, and is of another document than the checked one |
| `Report_proofs!CopiesAreNamed` | a thorough check names every document that shares a run long enough for winnowing, a seed and a passage |

`OrderedIds_proofs` holds what four of them need about ids and lists: in a finite set each id has a place, each place an
id, and there are a lowest and a highest; what `Sorted`, `Those`, `Ascending` and `Listed` leave of a list; that a loop
has a result after every round (`LoopRuns`), and that what each round keeps holds after the last (`RoundByRound`).

Assumptions: the ASSUMEs of the modules (limits are natural numbers, versions and a version's chunks finitely many,
chunks of two versions different, NULL none of the values, workers named differently from `"table"` and `"nobody"`; of
a search, scores that are whole numbers, a `Scale` that every `rrf_k + rank` divides, a `topK` of at least 1, a tag
that is found as a phrase in the column of its chunk's tags; of a report, texts made of `Chars`, settings ordered as
the validators of `config.py` demand them (`MinEffective <= ZhSeed < ZhPassage` and `Overlap < PerChunk`), and a
document's title that is not `None`), which TLC evaluates in every run, and the hypothesis each theorem states. These
are deployments: `SlowWorkers = FALSE` (section 4, Leases), one worker, SQLite among the `Alone` (the runbook stops the
worker there). Where a hypothesis is missing from a theorem it is not needed. `MCCheckLifecycle_v_tworuns` and
`MCEventStream_v_late` are counterexamples without the first. The assumption on tags leaves out those of which
unicode61 makes no word (`+`): FTS5 finds them nowhere.

`CheckKeepsPromise` has a hypothesis about the behaviour, `[]DeletesOfEnded`: a DELETE finds the check it is about to
delete in a final status. The run `checks_calm` has no DELETE at all, which is a special case; with a DELETE of an
active check the refinement fails (`checks_v_finished`). That statuses keep to the table (`OnlyTableMoves`) is
model-checked there and not stated as a theorem: under that hypothesis no step is left that could break it but those of
the workers. What does hold with DELETEs of active checks is proved without it: `CancelledIsNotCompleted`,
`EndedIsPurged`, `EndedIsClosed`.

The inductive invariants, and why the properties alone are not inductive:

* *Checks.* That no two workers run one check needs to know where a check can be claimed from: a worker's check is
  leased with a lease that has not run out and is not `pending`; so neither reclaim nor claim can pick it. For the
  outcome of a check (`Outcome`): whoever has read that a check can be ended still finds it so when it writes; a delete
  that has cleared what it saw has seen every row there is; a worker that will settle holds the row or works on a check
  that nobody can have ended. `ClosedByItsEvent` and `EndedHoldsNothing` are parts of it and need each other. For the
  report (`OneReport`): all that is stored of a check that a worker runs is what its run saw and deletes
  (`RowsAreSeen`), so its own rows are the only ones after its commit; this is where leases matter, since a second run
  could otherwise commit between the two.
* *Promise of the checks.* A refinement mapping sends an insert to an admission, a settlement to a settlement, and
  everything else to a stutter; that each is allowed there needs `Undisturbed` (a running check is as its worker read
  it, and an open one has no findings) and `Room` (one request of an owner at a time has counted, and what it counted
  is still below the limit: the advisory lock).
* *Ingest jobs.* The same, plus the queue: no job twice in it, and the attempts of a job that is claimable are below
  the limit unless a crash paid for them.
* *Duplicates.* A version is marked `indexed` only in the commit that stores its rows; the two transactions that delete
  rows hold the version's lock from the moment they selected the rows until they mark the version superseded.
* *One ingest worker.* What the session cached when it loaded the job is still so when it uses it; the current version
  has not been superseded, so the next publication finds it.
* *Corpus jobs.* Whatever is stored was completed, so a build never meets a row of its own version; a job that waits
  or was left behind has attempts to spare.
* *Windows.* Any two stored windows are ordered (one ended before the other began), every window has begun by now, and
  what the worker read in `activate_projection` - the instant and the live rows - still holds at its commit. For
  snapshots: a removed row would have to have ended both before the retention cutoff and before every active
  snapshot, so the check that needs it is itself removed in the same cleanup.

* *Event stream.* `Turns`: one run at a time, and none while the check is pending. `LateAreHigher`: what a run has
  inserted and not committed lies above every committed id, unless its check was cancelled under it, in which case it
  will write nothing more that counts. `PagesFollow`: a page has received a beginning of the committed events, its
  cursor and its last id lie exactly there, and what is under way continues it. That ids are given at the insert and
  rows appear at the commit makes the second part the heart of it.
* *Index tools.* `DenseProgress`: every row up to the place of a run that began with the first one, but those of the
  batch it has read and not written, is in the new space; a run that was resumed says nothing of what lies before its
  beginning. `LexicalProgress`: the same for the lexical index, with what is staged inside `bulk` counted in.
  `NothingStrays`: both indexes, a batch on SQLite and a staged bulk hold nothing but rows of live versions. `Orderly`:
  only the worker writes the chunk table. That a batch is a piece of the order without a gap, and that an empty one
  means the end, are lemmas about keyset pagination (`BatchIs`).

* *Search.* `Staged`: where a search is fits its request, its deployment and the reranker that is loaded, and what is
  in the index now has been in it during the search. `HitsAreSound`: each hit of each intermediate list is of the index
  and of the request, has passed the filter of the store it is from if it has a payload, and has left the index if it
  has none. `NoneIsLost`: each list is full or has all that belong in it (`FullOr`) - the nearest chunks all that were
  there throughout, the dense list those the caller may see (where `DenseSeesAll`: an exact scan, and room for what
  sqlite-vec will drop), the sparse one those that match, the fused one and the answer all that are wanted. A lemma
  chains two such lists (`FullOrOn`): merging variants, fusing and cutting make no list shorter than the limit unless
  nothing is missing in it. `AllAgree`: the nearest chunks have the score of their variant, a merged one that of some
  variant, and of two chunks the nearer one is in the list when the other is, if it is allowed and the scan is exact
  (`ListsDecide`); so sorting puts it in front, its rank is better in both lists, its share of the fused score is
  greater, and neither the heading filter nor the limits turn that round. What rankings, fusion and merging do to lists
  of any length are lemmas (`RankingOrders`, `ArrangedKeeps`, `BestOfBoth`, `FusedHits`): every one of them is a set
  put in order by counting who precedes, so no induction is needed.

* *Report.* `Prepared`: what a check was given at its start is still what it works with, and every live document is
  among those it searches. `Tried`: tasks are windows that the library has, findings lie within the window of the query
  and of the source they came from, hence within both texts. For `CopiedDocumentIsNamed` two parts say where a copy is
  while the check runs: `CheckedAre`, that a document copied in a window already behind has been found, and
  `CurrentIs`, that one copied in the window at work has been found or is among the candidates still to be aligned. All
  this is void once something was left out (`lossy`). What one step finds rests on the algorithms, and these lemmas are
  the longer part: of two texts with a common run of `K + W - 1` winnowing selects a fingerprint of some window inside
  it for both, so the document is a candidate (`Winnow`, `ChunkFingerprints`, and the stop list only with `lossy`); the
  scan for seeds meets the run at a place it does not skip, or was moved past it by a match at least as long
  (`SeedsAreFound`) - the report may then show another run of that document, which is what `MCReport_v_runs` shows;
  extending never shortens a match, merging and dropping covered ones leave one at least as long, since the longest is
  looked at first; it is therefore long enough to be a passage, and normalization maps it back into the window.
  `_persist` makes every live document a source of which something was found; of `dedupe_passage_indexes` the proof
  needs only that it invents nothing.

TLC checked each of these invariants on the instance of the component's run before it was proved.

Every proof has one case per action; `TypeOK` is proved first and used in the rest.

Only model-checked: all liveness (`EverySettles`, `JobsSettle`, `PageSettles`) - temporal proofs under fairness and
ENABLED are out of the prover's reach - and four invariants of `Report`, which say what whole texts look like and not
only where a span lies. `VerbatimMeansEqual` and `PassagesOpen` compare characters across normalization, windows, joined
rows and marks; `NothingIsLost` follows a sentence through packing, cutting and absorbing. Each needs an invariant of a
loop for every loop on the way, character by character. `MatchedIsWhatIsShown` compares sums over merged intervals of
lists that were deduplicated twice, by the folds of the community modules; the step of a fold is an operator, and no
prover here can use a theorem that has one as a parameter. The loops the proofs are about are written as recursive
functions for that reason.

## 7. Not modelled

Components without a module, each with its reason in `PROJECT.json`: the HTTP layer (routing, schemas, authentication
keep no state), the MCP server and the command line (callers of modelled operations), configuration, the pages of the
web client other than the check page, the collection's data. Of storage, parsing and embedding only the step from parsed
text to blocks is modelled; the rest are calls that may raise.

Within the modelled parts: listing, paging and rendering of rows, purging and deletion in batches, sources, statistics,
formatting and logging, schema migrations; scores and word segmentation inside the databases; pages and tables of parsed
documents; the wording of snippets.

Hazards of the code that no property states:

* `plagiarism/worker.py:187` and `ingest/worker.py:363`: who settles does not compare the owner of the lease. What goes
  wrong when leases run out under living workers is in section 4 (Leases); the runs and theorems assume that they do
  not.
* `vector/pgvector_store.py:434`: what HNSW's candidates leave out. The loss is measured and accepted in `config.py`.
* `ratelimit.py:29`: the clock is read before the lock, so threads append and evict hits out of order. The limiter
  guards one process in memory; a hit kept a tick late moves its limit by that hit, and no document promises more.
* `ingest/uploader.py:75`: an upload is answered as a duplicate while a deletion that will remove the content is queued.
  No document promises an order between the two.
* `ingest/worker.py:142`: on SQLite the worker holds the write lock while it parses and embeds. A duration; the models
  have the order of commits and no clock for it.
* `plagiarism/repository.py:177`: two workers activating two versions of one document leave both live. One plagiarism
  worker is what `docker-compose.yml` starts, and what the run and the theorems assume.
