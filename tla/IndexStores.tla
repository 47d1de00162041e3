----------------------------- MODULE IndexStores -----------------------------
(***************************************************************************)
(* The two halves of the search index and the chunk rows they describe, in *)
(* the two deployments of knowledge-service: sqlite-vec and FTS5 tables    *)
(* beside the chunk table on SQLite, columns of the chunk rows themselves  *)
(* (pgvector and pg_search) on PostgreSQL.  Every operator is one method   *)
(* of a store, from the database before to the database after it.          *)
(***************************************************************************)
EXTENDS Naturals, FiniteSets

CONSTANTS
    Versions,   \* the versions of the tenant's documents
    DocOf,      \* the document of each version
    Layouts,    \* the sets of chunks a version can be cut into
    Models,     \* embedding models
    Dim,        \* the dimension of each model's vectors
    None

\* Chunk ids are hashes: their order is no order of time.
Ids == UNION UNION {Layouts[v] : v \in Versions}

ChunksOf(v) == UNION Layouts[v]

Documents == {DocOf[v] : v \in Versions}
VersionsOf(d) == {v \in Versions : DocOf[v] = d}
ChunksOfDocument(d) == UNION {ChunksOf(v) : v \in VersionsOf(d)}

ASSUME LayoutAssumption ==
    /\ Ids \subseteq Nat \ {0}
    /\ \A v \in Versions : \A chunks \in Layouts[v] : IsFiniteSet(chunks)
    /\ \A v, w \in Versions : v # w => ChunksOf(v) \cap ChunksOf(w) = {}
    /\ None \notin Models

Database ==
    [kind : {"sqlite", "postgres"},
     rows : SUBSET Ids,             \* the chunk table
     analyzed : SUBSET Ids,         \* the rows whose analyzed column is filled
     dim : {Dim[m] : m \in Models} \cup {None},  \* of the collection, if any
     dense : [Ids -> Models \cup {None}],        \* the model of each point
     lexical : SUBSET Ids]

Embedded(db) == {c \in Ids : db.dense[c] # None}

WithPoints(db, chunks, model) ==
    [db EXCEPT !.dense = [c \in Ids |-> IF c \in chunks THEN model ELSE @[c]]]

WithoutPoints(db, chunks) == WithPoints(db, chunks, None)

-----------------------------------------------------------------------------
(* The chunk table.                                                        *)

\* On PostgreSQL the index columns go with the row, on SQLite nothing does.
RemoveRows(db, chunks) ==
    LET bare == [db EXCEPT !.rows = @ \ chunks, !.analyzed = @ \ chunks] IN
    IF db.kind = "postgres"
      THEN WithoutPoints([bare EXCEPT !.lexical = @ \ chunks], chunks)
      ELSE bare

\* replace_chunks, with the analyzed text ingestion fills in.
ReplaceChunks(db, v, chunks) ==
    LET bare == RemoveRows(db, ChunksOf(v)) IN
    [bare EXCEPT !.rows = @ \cup chunks, !.analyzed = @ \cup chunks]

-----------------------------------------------------------------------------
(* SqliteVecStore: a table of its own, so a point needs no chunk row.      *)

VecAccepts(db, model) == db.dim \in {None, Dim[model]}

VecEnsure(db, model) == [db EXCEPT !.dim = Dim[model]]

VecDrop(db) == [WithoutPoints(db, Ids) EXCEPT !.dim = None]

VecUpsert(db, chunks, model) == WithPoints(db, chunks, model)

VecDeleteVersions(db, vs) == WithoutPoints(db, UNION {ChunksOf(v) : v \in vs})

VecDeleteDocument(db, d) == WithoutPoints(db, ChunksOfDocument(d))

VecCount(db) == Cardinality(Embedded(db))

-----------------------------------------------------------------------------
(* PgVectorStore: columns of the chunk row, written by UPDATE.             *)

PgAccepts(db, model) == db.dim \in {None, Dim[model]}

PgEnsure(db, model) == [db EXCEPT !.dim = Dim[model]]

\* Mutant: a dropped column has width 0.
PgDrop_Zero(db) == [WithoutPoints(db, Ids) EXCEPT !.dim = 0]

PgDrop(db) == [WithoutPoints(db, Ids) EXCEPT !.dim = None]

\* Mutant: an INSERT that brings a deleted chunk back.
PgUpsert_Insert(db, chunks, model) == WithPoints(db, chunks, model)

PgUpsert(db, chunks, model) == WithPoints(db, chunks \cap db.rows, model)

PgDeleteVersions(db, vs) == WithoutPoints(db, UNION {ChunksOf(v) : v \in vs})

PgDeleteDocument(db, d) == WithoutPoints(db, ChunksOfDocument(d))

PgCount(db) == Cardinality(Embedded(db))

-----------------------------------------------------------------------------
(* Fts5LexicalStore.                                                       *)

FtsRecreate(db) == [db EXCEPT !.lexical = {}]

FtsUpsert(db, chunks) == [db EXCEPT !.lexical = @ \cup chunks]

\* Mutant: nothing is deleted before the new chunks are added.
FtsDeleteVersions_None(db, vs) == db

FtsDeleteVersions(db, vs) ==
    [db EXCEPT !.lexical = @ \ UNION {ChunksOf(v) : v \in vs}]

FtsDeleteDocument(db, d) == [db EXCEPT !.lexical = @ \ ChunksOfDocument(d)]

-----------------------------------------------------------------------------
(* PgSearchLexicalStore: the body column of the chunk row.                 *)

BodyRecreate(db) == [db EXCEPT !.lexical = {}]

BodyUpsert(db, chunks) == [db EXCEPT !.lexical = @ \cup (chunks \cap db.rows)]

BodyDeleteVersions(db, vs) ==
    [db EXCEPT !.lexical = @ \ UNION {ChunksOf(v) : v \in vs}]

BodyDeleteDocument(db, d) == [db EXCEPT !.lexical = @ \ ChunksOfDocument(d)]

-----------------------------------------------------------------------------
(* The stores a deployment is configured with.                             *)

OnPostgres(db) == db.kind = "postgres"

Accepts(db, model) ==
    IF OnPostgres(db) THEN PgAccepts(db, model) ELSE VecAccepts(db, model)
EnsureCollection(db, model) ==
    IF OnPostgres(db) THEN PgEnsure(db, model) ELSE VecEnsure(db, model)
DropCollection(db) == IF OnPostgres(db) THEN PgDrop(db) ELSE VecDrop(db)
UpsertPoints(db, chunks, model) ==
    IF OnPostgres(db) THEN PgUpsert(db, chunks, model) ELSE VecUpsert(db, chunks, model)
DeletePointsOf(db, vs) ==
    IF OnPostgres(db) THEN PgDeleteVersions(db, vs) ELSE VecDeleteVersions(db, vs)
DeleteDocumentPoints(db, d) ==
    IF OnPostgres(db) THEN PgDeleteDocument(db, d) ELSE VecDeleteDocument(db, d)
CountPoints(db) == IF OnPostgres(db) THEN PgCount(db) ELSE VecCount(db)

RecreateLexical(db) == IF OnPostgres(db) THEN BodyRecreate(db) ELSE FtsRecreate(db)
UpsertLexical(db, chunks) ==
    IF OnPostgres(db) THEN BodyUpsert(db, chunks) ELSE FtsUpsert(db, chunks)
DeleteLexicalOf(db, vs) ==
    IF OnPostgres(db) THEN BodyDeleteVersions(db, vs) ELSE FtsDeleteVersions(db, vs)
DeleteDocumentLexical(db, d) ==
    IF OnPostgres(db) THEN BodyDeleteDocument(db, d) ELSE FtsDeleteDocument(db, d)
=============================================================================
