---------------------------- MODULE Reembed_proofs ----------------------------
(***************************************************************************)
(* Theorems about the operator's tools for every number of versions, every *)
(* layout of their chunks, every batch size and every length of the run:   *)
(* what a rebuild leaves behind when the worker goes on and the tools are  *)
(* killed and resumed.                                                     *)
(***************************************************************************)
EXTENDS Reembed, OrderedIds_proofs

-----------------------------------------------------------------------------
(* The inductive invariants.                                               *)

\* Every store of chunks is a finite one.
Sound == TypeOK /\ IsFiniteSet(db.rows)

LiveChunks == UNION {ChunksOf(v) : v \in live}

\* A tool that is not about to write holds no batch.
BatchIsForWriting == Running => tool.pc = "write" \/ tool.batch = {}

\* The chunk table holds what live versions have: only the worker writes it.
Orderly ==
    /\ BatchIsForWriting
    /\ db.kind \in Kinds
    /\ db.rows \subseteq LiveChunks

\* What a tool has passed: the rows up to its place in the order of the ids
\* but those of the batch it has not written yet.
PassedRows == {c \in db.rows : c <= tool.last /\ c \notin tool.batch}

\* A re-embedding that began with the first row leaves no chunk behind it in
\* the old space.  One that was resumed says nothing of what lies before.
DenseProgress ==
    /\ EveryChunkIsEmbedded
    /\ tool.job = "reembed" /\ tool.after = 0 => \A c \in PassedRows : db.dense[c] = config

\* The worker of a deployment with SQLite is stopped while a tool runs.
SqliteIsAlone == Kinds \ {"postgres"} \subseteq Alone

\* Nothing is stored, and no tool is about to store, what no live version has.
NothingStrays ==
    /\ Embedded(db) \subseteq LiveChunks
    /\ db.lexical \subseteq db.rows
    /\ Running /\ ~OnPostgres(db) => tool.batch \subseteq db.rows
    /\ tool.job = "lexical" => tool.staged \subseteq db.rows

\* The same as DenseProgress for the lexical index, which two tools rebuild.
LexicalProgress ==
    /\ LexicalIsExact
    /\ tool.job = "reembed" /\ tool.pc \in {"create", "empty"} => tool.last = 0
    /\ tool.job = "reembed" /\ tool.after = 0 => PassedRows \subseteq db.lexical
    /\ tool.job = "lexical" => PassedRows \subseteq db.lexical \cup tool.staged

-----------------------------------------------------------------------------
(* What the methods of the stores do to a database.                        *)

LEMMA ChunksTyped ==
    /\ Ids \subseteq Nat \ {0}
    /\ \A v \in Versions : ChunksOf(v) \subseteq Ids
    /\ \A v \in Versions : \A chunks \in Layouts[v] :
         chunks \subseteq ChunksOf(v) /\ IsFiniteSet(chunks)
    /\ \A d \in Documents : ChunksOfDocument(d) \subseteq Ids
<1>1. \A v \in Versions : ChunksOf(v) \subseteq Ids
  BY DEF Ids, ChunksOf
<1>2. \A v \in Versions : \A chunks \in Layouts[v] : chunks \subseteq ChunksOf(v)
  BY DEF ChunksOf
<1>3. \A d \in Documents : ChunksOfDocument(d) \subseteq Ids
  BY <1>1 DEF ChunksOfDocument, VersionsOf
<1> QED
  BY <1>1, <1>2, <1>3, LayoutAssumption

\* Two databases that differ at most in what the named columns hold.
SameBut(d, e, columns) ==
    /\ "kind" \notin columns => e.kind = d.kind
    /\ "rows" \notin columns => e.rows = d.rows
    /\ "analyzed" \notin columns => e.analyzed = d.analyzed
    /\ "dense" \notin columns => e.dense = d.dense
    /\ "lexical" \notin columns => e.lexical = d.lexical

LEMMA PointsWritten ==
    ASSUME NEW d \in Database, NEW cs, NEW m \in Models \cup {None}
    PROVE  /\ WithPoints(d, cs, m) \in Database
           /\ SameBut(d, WithPoints(d, cs, m), {"dense"})
           /\ \A c \in Ids :
                WithPoints(d, cs, m).dense[c] = IF c \in cs THEN m ELSE d.dense[c]
<1> DEFINE dense == [c \in Ids |-> IF c \in cs THEN m ELSE d.dense[c]]
<1>1. WithPoints(d, cs, m) = [d EXCEPT !.dense = dense]
  BY DEF WithPoints
<1>2. dense \in [Ids -> Models \cup {None}]
  BY DEF Database
<1> HIDE DEF dense
<1>3. /\ [d EXCEPT !.dense = dense] \in Database
      /\ SameBut(d, [d EXCEPT !.dense = dense], {"dense"})
      /\ [d EXCEPT !.dense = dense].dense = dense
  BY <1>2 DEF Database, SameBut
<1> QED
  BY <1>1, <1>3 DEF dense

LEMMA RowsRemoved ==
    ASSUME NEW d \in Database, NEW cs \in SUBSET Ids
    PROVE  /\ RemoveRows(d, cs) \in Database
           /\ RemoveRows(d, cs).kind = d.kind
           /\ RemoveRows(d, cs).rows = d.rows \ cs
           /\ RemoveRows(d, cs).lexical = IF OnPostgres(d) THEN d.lexical \ cs ELSE d.lexical
           /\ \A c \in Ids : RemoveRows(d, cs).dense[c] =
                 IF OnPostgres(d) /\ c \in cs THEN None ELSE d.dense[c]
<1> DEFINE bare == [d EXCEPT !.rows = @ \ cs, !.analyzed = @ \ cs]
           less == [bare EXCEPT !.lexical = @ \ cs]
<1>1. /\ bare \in Database /\ SameBut(d, bare, {"rows", "analyzed"})
      /\ bare.rows = d.rows \ cs
  BY DEF Database, SameBut
<1>2. /\ less \in Database /\ SameBut(bare, less, {"lexical"})
      /\ less.lexical = d.lexical \ cs
  BY DEF Database, SameBut
<1>3. RemoveRows(d, cs) = IF d.kind = "postgres" THEN WithPoints(less, cs, None) ELSE bare
  BY DEF RemoveRows, WithoutPoints
<1> HIDE DEF bare, less
<1>4. CASE OnPostgres(d)
  BY <1>1, <1>2, <1>3, <1>4, PointsWritten DEF OnPostgres, SameBut
<1>5. CASE ~OnPostgres(d)
  BY <1>1, <1>3, <1>5 DEF OnPostgres, SameBut
<1> QED
  BY <1>4, <1>5

LEMMA RowsReplaced ==
    ASSUME NEW d \in Database, NEW v \in Versions, NEW chunks \in Layouts[v]
    PROVE  /\ ReplaceChunks(d, v, chunks) \in Database
           /\ SameBut(RemoveRows(d, ChunksOf(v)), ReplaceChunks(d, v, chunks),
                      {"rows", "analyzed"})
           /\ ReplaceChunks(d, v, chunks).rows = (d.rows \ ChunksOf(v)) \cup chunks
<1> DEFINE bare == RemoveRows(d, ChunksOf(v))
           full == [bare EXCEPT !.rows = @ \cup chunks, !.analyzed = @ \cup chunks]
<1>1. /\ bare \in Database /\ bare.rows = d.rows \ ChunksOf(v)
      /\ chunks \subseteq Ids
  BY RowsRemoved, ChunksTyped
<1>2. full = ReplaceChunks(d, v, chunks)
  BY DEF ReplaceChunks
<1> HIDE DEF bare
<1>3. /\ full \in Database /\ SameBut(bare, full, {"rows", "analyzed"})
      /\ full.rows = bare.rows \cup chunks
  BY <1>1 DEF Database, SameBut
<1> QED
  BY <1>1, <1>2, <1>3 DEF bare

\* The dense half of the index.
LEMMA DenseStores ==
    ASSUME NEW d \in Database
    PROVE  /\ DropCollection(d) \in Database
           /\ SameBut(d, DropCollection(d), {"dense"})
           /\ \A c \in Ids : DropCollection(d).dense[c] = None
           /\ \A m \in Models :
                /\ EnsureCollection(d, m) \in Database
                /\ SameBut(d, EnsureCollection(d, m), {})
           /\ \A m \in Models, cs \in SUBSET Ids :
                /\ UpsertPoints(d, cs, m) \in Database
                /\ SameBut(d, UpsertPoints(d, cs, m), {"dense"})
                /\ \A c \in Ids : UpsertPoints(d, cs, m).dense[c] =
                      IF c \in cs /\ (OnPostgres(d) => c \in d.rows) THEN m
                                                                  ELSE d.dense[c]
           /\ \A vs :
                /\ DeletePointsOf(d, vs) \in Database
                /\ SameBut(d, DeletePointsOf(d, vs), {"dense"})
                /\ \A c \in Ids : DeletePointsOf(d, vs).dense[c] =
                      IF c \in UNION {ChunksOf(v) : v \in vs} THEN None ELSE d.dense[c]
           /\ \A doc :
                /\ DeleteDocumentPoints(d, doc) \in Database
                /\ SameBut(d, DeleteDocumentPoints(d, doc), {"dense"})
                /\ \A c \in Ids : DeleteDocumentPoints(d, doc).dense[c] =
                      IF c \in ChunksOfDocument(doc) THEN None ELSE d.dense[c]
<1>1. /\ DropCollection(d) \in Database
      /\ SameBut(d, DropCollection(d), {"dense"})
      /\ \A c \in Ids : DropCollection(d).dense[c] = None
  <2> DEFINE bare == WithPoints(d, Ids, None)
  <2>1. /\ bare \in Database /\ SameBut(d, bare, {"dense"})
        /\ \A c \in Ids : bare.dense[c] = None
    BY PointsWritten
  <2>2. DropCollection(d) = [bare EXCEPT !.dim = None]
    BY DEF DropCollection, PgDrop, VecDrop, WithoutPoints
  <2> HIDE DEF bare
  <2>3. /\ [bare EXCEPT !.dim = None] \in Database
        /\ SameBut(bare, [bare EXCEPT !.dim = None], {})
    BY <2>1 DEF Database, SameBut
  <2> QED
    BY <2>1, <2>2, <2>3 DEF SameBut
<1>2. ASSUME NEW m \in Models
      PROVE  /\ EnsureCollection(d, m) \in Database
             /\ SameBut(d, EnsureCollection(d, m), {})
  <2>1. EnsureCollection(d, m) = [d EXCEPT !.dim = Dim[m]]
    BY DEF EnsureCollection, PgEnsure, VecEnsure
  <2> QED
    BY <2>1 DEF Database, SameBut
<1>3. ASSUME NEW m \in Models, NEW cs \in SUBSET Ids
      PROVE  /\ UpsertPoints(d, cs, m) \in Database
             /\ SameBut(d, UpsertPoints(d, cs, m), {"dense"})
             /\ \A c \in Ids : UpsertPoints(d, cs, m).dense[c] =
                   IF c \in cs /\ (OnPostgres(d) => c \in d.rows) THEN m
                                                               ELSE d.dense[c]
  <2>1. UpsertPoints(d, cs, m) =
           IF OnPostgres(d) THEN WithPoints(d, cs \cap d.rows, m) ELSE WithPoints(d, cs, m)
    BY DEF UpsertPoints, PgUpsert, VecUpsert
  <2>2. CASE OnPostgres(d)
    <3> DEFINE some == cs \cap d.rows
    <3>1. UpsertPoints(d, cs, m) = WithPoints(d, some, m)
      BY <2>1, <2>2
    <3>2. \A c \in Ids : c \in some <=> c \in cs /\ c \in d.rows
      OBVIOUS
    <3> HIDE DEF some
    <3> QED
      BY <2>2, <3>1, <3>2, PointsWritten
  <2>3. CASE ~OnPostgres(d)
    BY <2>1, <2>3, PointsWritten
  <2> QED
    BY <2>2, <2>3
<1>4. ASSUME NEW vs
      PROVE  /\ DeletePointsOf(d, vs) \in Database
             /\ SameBut(d, DeletePointsOf(d, vs), {"dense"})
             /\ \A c \in Ids : DeletePointsOf(d, vs).dense[c] =
                   IF c \in UNION {ChunksOf(v) : v \in vs} THEN None ELSE d.dense[c]
  BY PointsWritten DEF DeletePointsOf, PgDeleteVersions, VecDeleteVersions, WithoutPoints
<1>5. ASSUME NEW doc
      PROVE  /\ DeleteDocumentPoints(d, doc) \in Database
             /\ SameBut(d, DeleteDocumentPoints(d, doc), {"dense"})
             /\ \A c \in Ids : DeleteDocumentPoints(d, doc).dense[c] =
                   IF c \in ChunksOfDocument(doc) THEN None ELSE d.dense[c]
  BY PointsWritten DEF DeleteDocumentPoints, PgDeleteDocument, VecDeleteDocument, WithoutPoints
<1> QED
  BY <1>1, <1>2, <1>3, <1>4, <1>5

\* The lexical half.
LEMMA LexicalStores ==
    ASSUME NEW d \in Database
    PROVE  /\ RecreateLexical(d) \in Database
           /\ SameBut(d, RecreateLexical(d), {"lexical"})
           /\ RecreateLexical(d).lexical = {}
           /\ \A cs \in SUBSET Ids :
                /\ UpsertLexical(d, cs) \in Database
                /\ SameBut(d, UpsertLexical(d, cs), {"lexical"})
                /\ UpsertLexical(d, cs).lexical =
                      d.lexical \cup (IF OnPostgres(d) THEN cs \cap d.rows ELSE cs)
           /\ \A vs :
                /\ DeleteLexicalOf(d, vs) \in Database
                /\ SameBut(d, DeleteLexicalOf(d, vs), {"lexical"})
                /\ DeleteLexicalOf(d, vs).lexical = d.lexical \ UNION {ChunksOf(v) : v \in vs}
           /\ \A doc :
                /\ DeleteDocumentLexical(d, doc) \in Database
                /\ SameBut(d, DeleteDocumentLexical(d, doc), {"lexical"})
                /\ DeleteDocumentLexical(d, doc).lexical = d.lexical \ ChunksOfDocument(doc)
<1>1. ASSUME NEW cs \in SUBSET Ids
      PROVE  /\ [d EXCEPT !.lexical = cs] \in Database
             /\ SameBut(d, [d EXCEPT !.lexical = cs], {"lexical"})
             /\ [d EXCEPT !.lexical = cs].lexical = cs
  BY DEF Database, SameBut
<1>2. RecreateLexical(d) = [d EXCEPT !.lexical = {}]
  BY DEF RecreateLexical, BodyRecreate, FtsRecreate
<1>3. \A cs \in SUBSET Ids : UpsertLexical(d, cs) =
         [d EXCEPT !.lexical = d.lexical \cup (IF OnPostgres(d) THEN cs \cap d.rows ELSE cs)]
  BY DEF UpsertLexical, BodyUpsert, FtsUpsert, Database
<1>4. \A vs : DeleteLexicalOf(d, vs) =
         [d EXCEPT !.lexical = d.lexical \ UNION {ChunksOf(v) : v \in vs}]
  BY DEF DeleteLexicalOf, BodyDeleteVersions, FtsDeleteVersions, Database
<1>5. \A doc : DeleteDocumentLexical(d, doc) =
         [d EXCEPT !.lexical = d.lexical \ ChunksOfDocument(doc)]
  BY DEF DeleteDocumentLexical, BodyDeleteDocument, FtsDeleteDocument, Database
<1>6. d.lexical \subseteq Ids
  BY DEF Database
<1>7. /\ \A cs \in SUBSET Ids : d.lexical \cup (IF OnPostgres(d) THEN cs \cap d.rows ELSE cs) \in SUBSET Ids
      /\ \A cs : d.lexical \ cs \in SUBSET Ids
  BY <1>6
<1>8. ASSUME NEW cs \in SUBSET Ids
      PROVE  /\ UpsertLexical(d, cs) \in Database
             /\ SameBut(d, UpsertLexical(d, cs), {"lexical"})
             /\ UpsertLexical(d, cs).lexical =
                   d.lexical \cup (IF OnPostgres(d) THEN cs \cap d.rows ELSE cs)
  <2> DEFINE new == d.lexical \cup (IF OnPostgres(d) THEN cs \cap d.rows ELSE cs)
  <2>1. UpsertLexical(d, cs) = [d EXCEPT !.lexical = new] /\ new \in SUBSET Ids
    BY <1>3, <1>7
  <2> QED
    BY <1>1, <2>1
<1>9. ASSUME NEW vs
      PROVE  /\ DeleteLexicalOf(d, vs) \in Database
             /\ SameBut(d, DeleteLexicalOf(d, vs), {"lexical"})
             /\ DeleteLexicalOf(d, vs).lexical = d.lexical \ UNION {ChunksOf(v) : v \in vs}
  <2> DEFINE new == d.lexical \ UNION {ChunksOf(v) : v \in vs}
  <2>1. DeleteLexicalOf(d, vs) = [d EXCEPT !.lexical = new] /\ new \in SUBSET Ids
    BY <1>4, <1>7
  <2> QED
    BY <1>1, <2>1
<1>10. ASSUME NEW doc
       PROVE  /\ DeleteDocumentLexical(d, doc) \in Database
              /\ SameBut(d, DeleteDocumentLexical(d, doc), {"lexical"})
              /\ DeleteDocumentLexical(d, doc).lexical = d.lexical \ ChunksOfDocument(doc)
  <2> DEFINE new == d.lexical \ ChunksOfDocument(doc)
  <2>1. DeleteDocumentLexical(d, doc) = [d EXCEPT !.lexical = new] /\ new \in SUBSET Ids
    BY <1>5, <1>7
  <2> QED
    BY <1>1, <2>1
<1>11. /\ RecreateLexical(d) \in Database
       /\ SameBut(d, RecreateLexical(d), {"lexical"})
       /\ RecreateLexical(d).lexical = {}
  BY <1>1, <1>2
<1> QED
  BY <1>8, <1>9, <1>10, <1>11

-----------------------------------------------------------------------------
(* What a job of the worker does to it.                                    *)

StaleChunks(v) == UNION {ChunksOf(w) : w \in Stale(v)}

\* A version brings its chunks into the table and both indexes and takes what
\* it had there before, and what the older versions had, out of them; only
\* the points of its own earlier cut stay, on SQLite.
LEMMA PublishedIs ==
    ASSUME TypeOK, NEW v \in Versions, NEW chunks \in Layouts[v]
    PROVE  /\ Published(v, chunks) \in Database
           /\ Published(v, chunks).kind = db.kind
           /\ Published(v, chunks).rows
                 = ((db.rows \ ChunksOf(v)) \ StaleChunks(v)) \cup chunks
           /\ Published(v, chunks).lexical
                 = ((db.lexical \ ChunksOf(v)) \ StaleChunks(v)) \cup chunks
           /\ \A c \in Ids : Published(v, chunks).dense[c] =
                 IF c \in StaleChunks(v) THEN None
                 ELSE IF c \in chunks THEN config
                 ELSE IF OnPostgres(db) /\ c \in ChunksOf(v) THEN None
                 ELSE db.dense[c]
<1> DEFINE rows    == ReplaceChunks(db, v, chunks)
           ensured == EnsureCollection(rows, config)
           dense   == UpsertPoints(ensured, chunks, config)
           less    == DeleteLexicalOf(dense, {v})
           both    == UpsertLexical(less, chunks)
           gone    == StaleChunks(v)
           retired == RemoveRows(both, gone)
           points  == DeletePointsOf(retired, Stale(v))
           new     == DeleteLexicalOf(points, Stale(v))
<1>1. /\ chunks \subseteq ChunksOf(v) /\ ChunksOf(v) \subseteq Ids
      /\ gone \subseteq Ids /\ gone \cap ChunksOf(v) = {}
      /\ UNION {ChunksOf(w) : w \in {v}} = ChunksOf(v)
      /\ db \in Database /\ config \in Models
  <2>1. \A w \in Stale(v) : w \in Versions /\ w # v
    BY DEF Stale, VersionsOf
  <2>2. gone \subseteq Ids /\ gone \cap ChunksOf(v) = {}
    BY <2>1, ChunksTyped, LayoutAssumption DEF StaleChunks
  <2> QED
    BY <2>2, ChunksTyped DEF TypeOK
<1>2. new = Published(v, chunks)
  BY DEF Published, StaleChunks
<1>3. /\ rows \in Database /\ rows.kind = db.kind
      /\ rows.rows = (db.rows \ ChunksOf(v)) \cup chunks
      /\ rows.lexical = IF OnPostgres(db) THEN db.lexical \ ChunksOf(v) ELSE db.lexical
      /\ \A c \in Ids : rows.dense[c] =
           IF OnPostgres(db) /\ c \in ChunksOf(v) THEN None ELSE db.dense[c]
  <2> DEFINE bare == RemoveRows(db, ChunksOf(v))
  <2>1. ChunksOf(v) \in SUBSET Ids
    BY <1>1
  <2>2. /\ bare.kind = db.kind
        /\ bare.lexical = IF OnPostgres(db) THEN db.lexical \ ChunksOf(v) ELSE db.lexical
        /\ \A c \in Ids : bare.dense[c] =
             IF OnPostgres(db) /\ c \in ChunksOf(v) THEN None ELSE db.dense[c]
    BY <1>1, <2>1, RowsRemoved
  <2>3. /\ rows \in Database /\ SameBut(bare, rows, {"rows", "analyzed"})
        /\ rows.rows = (db.rows \ ChunksOf(v)) \cup chunks
    BY <1>1, RowsReplaced
  <2> HIDE DEF bare, rows
  <2> QED
    BY <2>2, <2>3 DEF SameBut
<1> HIDE DEF rows
<1>4. ensured \in Database /\ SameBut(rows, ensured, {})
  BY <1>1, <1>3, DenseStores
<1> HIDE DEF ensured
<1>5. /\ dense \in Database /\ dense.kind = db.kind
      /\ dense.rows = rows.rows /\ dense.lexical = rows.lexical
      /\ \A c \in Ids : dense.dense[c] = IF c \in chunks THEN config ELSE rows.dense[c]
  <2>1. /\ dense \in Database /\ SameBut(ensured, dense, {"dense"})
        /\ \A c \in Ids : dense.dense[c] =
             IF c \in chunks /\ (OnPostgres(ensured) => c \in ensured.rows) THEN config
                                                              ELSE ensured.dense[c]
    BY <1>1, <1>4, DenseStores
  <2>2. chunks \subseteq ensured.rows
    BY <1>3, <1>4 DEF SameBut
  <2> QED
    BY <1>3, <1>4, <2>1, <2>2 DEF SameBut
<1> HIDE DEF dense
<1>6. /\ less \in Database /\ SameBut(dense, less, {"lexical"})
      /\ less.lexical = dense.lexical \ ChunksOf(v)
  BY <1>1, <1>5, LexicalStores
<1> HIDE DEF less
<1>7. /\ both \in Database /\ both.kind = db.kind
      /\ both.rows = rows.rows /\ both.dense = dense.dense
      /\ both.lexical = (db.lexical \ ChunksOf(v)) \cup chunks
  <2>1. /\ both \in Database /\ SameBut(less, both, {"lexical"})
        /\ both.lexical = less.lexical \cup
              (IF OnPostgres(less) THEN chunks \cap less.rows ELSE chunks)
    BY <1>1, <1>6, LexicalStores
  <2>2. chunks \subseteq less.rows /\ less.lexical = db.lexical \ ChunksOf(v)
    BY <1>3, <1>5, <1>6 DEF SameBut
  <2> QED
    BY <1>5, <1>6, <2>1, <2>2 DEF SameBut
<1> HIDE DEF both
<1>8. /\ retired \in Database /\ retired.kind = db.kind
      /\ retired.rows = both.rows \ gone
      /\ retired.lexical = IF OnPostgres(db) THEN both.lexical \ gone ELSE both.lexical
      /\ \A c \in Ids : retired.dense[c] =
           IF OnPostgres(db) /\ c \in gone THEN None ELSE both.dense[c]
  <2>1. gone \in SUBSET Ids
    BY <1>1
  <2> HIDE DEF gone
  <2>2. both \in Database /\ (OnPostgres(both) <=> OnPostgres(db)) /\ both.kind = db.kind
    BY <1>7 DEF OnPostgres
  <2>3. \A cs \in SUBSET Ids :
           /\ RemoveRows(both, cs) \in Database
           /\ RemoveRows(both, cs).kind = both.kind
           /\ RemoveRows(both, cs).rows = both.rows \ cs
           /\ RemoveRows(both, cs).lexical =
                 IF OnPostgres(both) THEN both.lexical \ cs ELSE both.lexical
           /\ \A c \in Ids : RemoveRows(both, cs).dense[c] =
                 IF OnPostgres(both) /\ c \in cs THEN None ELSE both.dense[c]
    BY <2>2, RowsRemoved, Zenon
  <2> QED
    BY <2>1, <2>2, <2>3
<1> HIDE DEF retired
<1>9. /\ points \in Database /\ SameBut(retired, points, {"dense"})
      /\ \A c \in Ids : points.dense[c] = IF c \in gone THEN None ELSE retired.dense[c]
  BY <1>8, DenseStores DEF StaleChunks
<1> HIDE DEF points
<1>10. /\ new \in Database /\ SameBut(points, new, {"lexical"})
       /\ new.lexical = points.lexical \ gone
  BY <1>9, LexicalStores DEF StaleChunks
<1> HIDE DEF new, gone
<1>11. /\ new \in Database /\ new.kind = db.kind
       /\ new.rows = ((db.rows \ ChunksOf(v)) \ gone) \cup chunks
       /\ new.lexical = ((db.lexical \ ChunksOf(v)) \ gone) \cup chunks
  BY <1>1, <1>3, <1>7, <1>8, <1>9, <1>10 DEF SameBut
<1>12. \A c \in Ids : new.dense[c] =
          IF c \in gone THEN None
          ELSE IF c \in chunks THEN config
          ELSE IF OnPostgres(db) /\ c \in ChunksOf(v) THEN None
          ELSE db.dense[c]
  <2>1. new.dense = points.dense /\ both.dense = dense.dense
    BY <1>7, <1>10 DEF SameBut
  <2> QED
    BY <1>3, <1>5, <1>8, <1>9, <2>1
<1> QED
  BY <1>2, <1>11, <1>12 DEF gone

\* A deletion takes what the live versions have out of the table, and what
\* any version of the document ever had out of both indexes.
Removed(d) ==
    DeleteDocumentLexical(DeleteDocumentPoints(
        RemoveRows(db, UNION {ChunksOf(v) : v \in live \cap VersionsOf(d)}), d), d)

LEMMA RemovedIs ==
    ASSUME TypeOK, NEW d \in Documents
    PROVE  /\ Removed(d) \in Database
           /\ Removed(d).kind = db.kind
           /\ Removed(d).rows =
                 db.rows \ UNION {ChunksOf(v) : v \in live \cap VersionsOf(d)}
           /\ Removed(d).lexical = db.lexical \ ChunksOfDocument(d)
           /\ \A c \in Ids : Removed(d).dense[c] =
                 IF c \in ChunksOfDocument(d) THEN None ELSE db.dense[c]
<1> DEFINE gone   == UNION {ChunksOf(v) : v \in live \cap VersionsOf(d)}
           bare   == RemoveRows(db, gone)
           points == DeleteDocumentPoints(bare, d)
           new    == DeleteDocumentLexical(points, d)
<1>1. gone \subseteq Ids /\ gone \subseteq ChunksOfDocument(d) /\ db \in Database
  BY ChunksTyped DEF TypeOK, ChunksOfDocument
<1>2. new = Removed(d)
  BY DEF Removed
<1>3. /\ bare \in Database /\ bare.kind = db.kind /\ bare.rows = db.rows \ gone
      /\ bare.lexical = IF OnPostgres(db) THEN db.lexical \ gone ELSE db.lexical
      /\ \A c \in Ids : bare.dense[c] =
           IF OnPostgres(db) /\ c \in gone THEN None ELSE db.dense[c]
  <2>1. gone \in SUBSET Ids
    BY <1>1
  <2> HIDE DEF gone
  <2> QED
    BY <1>1, <2>1, RowsRemoved
<1> HIDE DEF bare
<1>4. /\ points \in Database /\ SameBut(bare, points, {"dense"})
      /\ \A c \in Ids : points.dense[c] =
           IF c \in ChunksOfDocument(d) THEN None ELSE bare.dense[c]
  BY <1>3, DenseStores
<1> HIDE DEF points
<1>5. /\ new \in Database /\ SameBut(points, new, {"lexical"})
      /\ new.lexical = points.lexical \ ChunksOfDocument(d)
  BY <1>4, LexicalStores
<1> HIDE DEF new
<1>6. /\ new.rows = db.rows \ gone /\ new.kind = db.kind
      /\ new.lexical = db.lexical \ ChunksOfDocument(d)
  BY <1>1, <1>3, <1>4, <1>5 DEF SameBut
<1>7. \A c \in Ids : new.dense[c] = IF c \in ChunksOfDocument(d) THEN None ELSE db.dense[c]
  BY <1>1, <1>3, <1>4, <1>5 DEF SameBut
<1> QED
  BY <1>2, <1>5, <1>6, <1>7

-----------------------------------------------------------------------------
(* Keyset pagination.                                                      *)

\* A batch is a piece of the order of the ids with nothing left out of it,
\* and there is one as long as a wanted row lies ahead.
LEMMA BatchIs ==
    ASSUME NEW last \in Nat, NEW wanted \in SUBSET Ids, IsFiniteSet(wanted)
    PROVE  LET batch == NextBatch(last, wanted) IN
           /\ batch \subseteq wanted
           /\ batch # {} =>
                /\ Highest(batch) \in batch /\ Highest(batch) \in Nat
                /\ \A c \in wanted : last < c /\ c <= Highest(batch) => c \in batch
           /\ batch = {} => \A c \in wanted : c <= last
<1> DEFINE batch == NextBatch(last, wanted)
           Ahead(c) == {d \in wanted : last < d /\ d <= c}
<1>1. wanted \subseteq Nat /\ BatchSize \in Nat \ {0}
  BY ChunksTyped, ToolAssumption
<1>2. /\ batch \subseteq wanted
      /\ \A c \in batch : c > last /\ Cardinality(Ahead(c)) <= BatchSize
      /\ \A c \in wanted : c > last /\ Cardinality(Ahead(c)) <= BatchSize => c \in batch
  BY DEF NextBatch
<1>3. \A c \in wanted : IsFiniteSet(Ahead(c)) /\ Cardinality(Ahead(c)) \in Nat
  BY FS_Subset, FS_CardinalityType
<1> HIDE DEF batch
<1>4. ASSUME batch # {}
      PROVE  /\ Highest(batch) \in batch /\ Highest(batch) \in Nat
             /\ \A c \in wanted : last < c /\ c <= Highest(batch) => c \in batch
  <2>1. \E c \in batch : \A d \in batch : d <= c
    <3>1. batch \in SUBSET Nat /\ IsFiniteSet(batch)
      BY <1>1, <1>2, FS_Subset
    <3> QED
      BY <1>4, <3>1, Extremes
  <2>2. Highest(batch) \in batch
    BY <2>1 DEF Highest
  <2> DEFINE h == Highest(batch)
  <2> HIDE DEF h
  <2>3. h \in batch /\ h \in wanted /\ h \in Nat
    BY <1>1, <1>2, <2>2 DEF h
  <2>4. ASSUME NEW c \in wanted, last < c, c <= h PROVE c \in batch
    <3>1. Ahead(c) \subseteq Ahead(h)
      <4>1. \A d \in wanted : d <= c => d <= h
        BY <1>1, <2>3, <2>4
      <4> QED
        BY <4>1
    <3>2. Cardinality(Ahead(c)) <= Cardinality(Ahead(h))
      BY <1>3, <2>3, <3>1, FS_Subset
    <3>3. Cardinality(Ahead(c)) <= BatchSize
      BY <1>1, <1>2, <1>3, <2>3, <3>2
    <3>4. c > last
      BY <1>1, <2>4
    <3> QED
      BY <1>2, <3>3, <3>4
  <2> QED
    BY <2>3, <2>4 DEF h
<1>5. ASSUME NEW c \in wanted, ~(c <= last) PROVE batch # {}
  <2> DEFINE ahead == {d \in wanted : last < d}
  <2>1. ahead \in SUBSET Nat /\ c \in ahead
    <3>1. c \in Nat
      BY <1>1
    <3>2. last < c
      BY <1>5, <3>1
    <3> QED
      BY <1>1, <3>2
  <2>2. PICK first \in ahead : \A d \in ahead : first <= d
    BY <2>1, Extremes
  <2>3. Ahead(first) = {first}
    <3>1. \A d \in wanted : d \in Nat
      BY <1>1
    <3>2. \A d \in wanted : last < d /\ d <= first <=> d = first
      BY <2>2, <3>1
    <3> QED
      BY <2>2, <3>2
  <2>4. Cardinality(Ahead(first)) = 1
    BY <2>3, FS_Singleton
  <2>5. first \in wanted /\ first > last
    BY <1>1, <2>2
  <2>6. first \in batch
    BY <1>1, <1>2, <2>4, <2>5
  <2> QED
    BY <2>6
<1> QED
  BY <1>2, <1>4, <1>5 DEF batch

\* The runbook's way from a count of points back to a place in the order.
LEMMA ResumeTyped ==
    ASSUME Sound PROVE ResumeAfter \in Nat
<1>1. CASE reported = 0 /\ CountPoints(db) \in 1 .. Cardinality(db.rows)
  <2>1. db.rows \in SUBSET Nat
    BY ChunksTyped DEF Sound, TypeOK, Database
  <2>2. \E c \in db.rows : Cardinality({d \in db.rows : d <= c}) = CountPoints(db)
    BY <1>1, <2>1, PlacesOfIds DEF Sound, UpTo
  <2>3. NthChunk(CountPoints(db)) \in db.rows
    BY <2>2 DEF NthChunk
  <2> QED
    BY <1>1, <2>1, <2>3 DEF ResumeAfter
<1>2. CASE ~(reported = 0 /\ CountPoints(db) \in 1 .. Cardinality(db.rows))
  BY <1>2 DEF ResumeAfter, Sound, TypeOK
<1> QED
  BY <1>1, <1>2

-----------------------------------------------------------------------------
(* Type correctness.                                                       *)

LEMMA InitSound == Init => Sound
<1> SUFFICES ASSUME Init PROVE Sound
  OBVIOUS
<1>1. PICK kind \in Kinds, m \in Models, v \in Versions : \E chunks \in Layouts[v] :
         /\ db = [kind |-> kind, rows |-> chunks, analyzed |-> {}, dim |-> Dim[m],
                  dense |-> [c \in Ids |-> IF c \in chunks THEN m ELSE None],
                  lexical |-> chunks]
         /\ live = {v}
         /\ config = m
  BY DEF Init
<1>2. PICK chunks \in Layouts[v] :
         /\ db = [kind |-> kind, rows |-> chunks, analyzed |-> {}, dim |-> Dim[m],
                  dense |-> [c \in Ids |-> IF c \in chunks THEN m ELSE None],
                  lexical |-> chunks]
         /\ live = {v}
         /\ config = m
  BY <1>1
<1>3. chunks \subseteq Ids /\ IsFiniteSet(chunks) /\ kind \in {"sqlite", "postgres"}
  BY ChunksTyped, ToolAssumption
<1>4. db \in Database /\ IsFiniteSet(db.rows)
  BY <1>2, <1>3 DEF Database
<1> QED
  BY <1>1, <1>4 DEF Init, Sound, TypeOK, ToolState

LEMMA ToolTypes ==
    ASSUME tool \in ToolState
    PROVE  /\ tool.job \in {"none", "reembed", "lexical", "backfill"}
           /\ Running => tool.last \in Nat /\ tool.batch \in SUBSET Ids
           /\ tool.job = "reembed" =>
                tool \in [job : {"reembed"}, pc : {"create", "empty", "read", "write"},
                          last : Nat, batch : SUBSET Ids, after : Nat]
           /\ tool.job = "lexical" =>
                tool \in [job : {"lexical"}, pc : {"read", "write"}, last : Nat,
                          batch : SUBSET Ids, staged : SUBSET Ids]
           /\ tool.job = "backfill" =>
                tool \in [job : {"backfill"}, pc : {"read"}, last : Nat,
                          batch : SUBSET Ids]
  BY DEF ToolState, NoTool, Running

LEMMA WorkerSound ==
    ASSUME Sound,
           \/ \E v \in Versions : \E chunks \in Layouts[v] : Publish(v, chunks)
           \/ \E d \in Documents : Delete(d)
           \/ \E m \in Models : ChangeModel(m)
    PROVE  Sound'
<1>1. ASSUME NEW v \in Versions, NEW chunks \in Layouts[v], Publish(v, chunks)
      PROVE  Sound'
  <2>1. db' = Published(v, chunks) /\ Published(v, chunks) \in Database
    BY <1>1, PublishedIs DEF Publish, Sound
  <2>2. IsFiniteSet(db'.rows)
    <3>1. /\ IsFiniteSet((db.rows \ ChunksOf(v)) \ StaleChunks(v))
          /\ IsFiniteSet(chunks)
      BY FS_Subset, ChunksTyped DEF Sound
    <3>2. db'.rows = ((db.rows \ ChunksOf(v)) \ StaleChunks(v)) \cup chunks
      BY <2>1, PublishedIs DEF Sound
    <3> QED
      BY <3>1, <3>2, FS_Union
  <2>3. live' \subseteq Versions /\ publishes' \in Nat
    BY <1>1 DEF Publish, Sound, TypeOK
  <2> QED
    BY <1>1, <2>1, <2>2, <2>3 DEF Publish, Sound, TypeOK, Database
<1>2. ASSUME NEW d \in Documents, Delete(d) PROVE Sound'
  <2>1. db' = Removed(d) /\ Removed(d) \in Database
    BY <1>2, RemovedIs DEF Delete, Removed, Sound
  <2>2. IsFiniteSet(db'.rows)
    BY <2>1, RemovedIs, FS_Subset DEF Sound
  <2> QED
    BY <1>2, <2>1, <2>2 DEF Delete, Sound, TypeOK, Database
<1>3. ASSUME NEW m \in Models, ChangeModel(m) PROVE Sound'
  BY <1>3 DEF ChangeModel, Sound, TypeOK, Database
<1> QED
  BY <1>1, <1>2, <1>3

LEMMA FinishIs ==
    ASSUME tool \in ToolState, Finish
    PROVE  /\ tool.pc = "read" /\ tool' = NoTool
           /\ UNCHANGED <<live, config, publishes, starts>>
           /\ tool.job \in {"reembed", "lexical", "backfill"}
           /\ tool.job \in {"reembed", "lexical"} => NextBatch(tool.last, db.rows) = {}
           /\ tool.job = "reembed" =>
                /\ owed' = owed \ Discharged
                /\ changed' = (changed /\ tool.after # 0)
                /\ reported' \in {0, tool.last} /\ db' = db
           /\ tool.job = "lexical" =>
                /\ owed' = owed \ {"lexical"}
                /\ db' = UpsertLexical(db, tool.staged)
                /\ changed' = changed /\ reported' = reported
           /\ tool.job = "backfill" =>
                /\ owed' = owed \ {"analyzed"}
                /\ db' = db /\ changed' = changed /\ reported' = reported
<1>1. tool.job \in {"reembed", "lexical", "backfill"}
  BY ToolTypes DEF Finish, Running
<1>2. CASE tool.job = "reembed"
  BY <1>2 DEF Finish
<1>3. CASE tool.job = "lexical"
  BY <1>3 DEF Finish
<1>4. CASE tool.job = "backfill"
  BY <1>4 DEF Finish
<1> QED
  BY <1>1, <1>2, <1>3, <1>4

LEMMA ToolSound ==
    ASSUME Sound, Tool PROVE Sound'
<1>1. /\ db \in Database /\ IsFiniteSet(db.rows) /\ db.rows \in SUBSET Ids
      /\ tool \in ToolState /\ config \in Models /\ changed \in BOOLEAN
      /\ owed \subseteq {"dense", "lexical", "rest", "analyzed"}
      /\ reported \in Nat /\ publishes \in Nat /\ starts \in Nat
      /\ live \subseteq Versions
  BY DEF Sound, TypeOK, Database
<1>2. ASSUME NEW new \in Database, new.rows = db.rows, db' = new
      PROVE  db' \in Database /\ IsFiniteSet(db'.rows)
  BY <1>1, <1>2
<1>3. Ids \subseteq Nat
  BY ChunksTyped
<1>4. CASE StartReembed
  <2>1. db' \in Database /\ IsFiniteSet(db'.rows)
    BY <1>1, <1>4, DenseStores DEF StartReembed, SameBut
  <2>2. tool' \in ToolState
    BY <1>4 DEF StartReembed, Reembedding, ToolState
  <2> QED
    BY <1>1, <1>4, <2>1, <2>2 DEF StartReembed, Starting, Sound, TypeOK
<1>5. CASE CreateCollection
  <2>1. db' \in Database /\ IsFiniteSet(db'.rows)
    BY <1>1, <1>5, DenseStores DEF CreateCollection, SameBut
  <2>2. tool' \in ToolState
    BY <1>1, <1>5, ToolTypes DEF CreateCollection, ToolState
  <2> QED
    BY <1>1, <1>5, <2>1, <2>2 DEF CreateCollection, Sound, TypeOK
<1>6. CASE EmptyLexical
  <2>1. db' \in Database /\ IsFiniteSet(db'.rows)
    BY <1>1, <1>6, LexicalStores DEF EmptyLexical, SameBut
  <2>2. tool' \in ToolState
    BY <1>1, <1>6, ToolTypes DEF EmptyLexical, ToolState
  <2> QED
    BY <1>1, <1>6, <2>1, <2>2 DEF EmptyLexical, Sound, TypeOK
<1>7. ASSUME NEW after \in {0, ResumeAfter}, Resume(after) PROVE Sound'
  <2>1. db' \in Database /\ IsFiniteSet(db'.rows)
    BY <1>1, <1>7, DenseStores DEF Resume, SameBut
  <2>2. tool' \in ToolState
    BY <1>7, ResumeTyped DEF Resume, Reembedding, ToolState
  <2> QED
    BY <1>1, <1>7, <2>1, <2>2 DEF Resume, Starting, Sound, TypeOK
<1>8. CASE StartLexical
  <2>1. db' \in Database /\ IsFiniteSet(db'.rows)
    BY <1>1, <1>8, LexicalStores DEF StartLexical, SameBut
  <2>2. tool' \in ToolState
    BY <1>8 DEF StartLexical, ToolState
  <2> QED
    BY <1>1, <1>8, <2>1, <2>2 DEF StartLexical, Starting, Sound, TypeOK
<1>9. CASE StartBackfill
  <2>1. tool' \in ToolState
    BY <1>9 DEF StartBackfill, ToolState
  <2> QED
    BY <1>1, <1>9, <2>1 DEF StartBackfill, Starting, Sound, TypeOK
<1>10. CASE ReadBatch
  <2> DEFINE batch == NextBatch(tool.last, db.rows)
             h == Highest(batch)
  <2>1. /\ tool.job \in {"reembed", "lexical"}
        /\ tool' = [tool EXCEPT !.pc = "write", !.batch = batch, !.last = h]
        /\ batch # {} /\ reported' = reported
    BY <1>10 DEF ReadBatch
  <2>2. batch \in SUBSET Ids /\ h \in Nat
    <3>1. tool.last \in Nat
      BY <1>1, <2>1, ToolTypes DEF Running
    <3> QED
      BY <1>1, <2>1, <3>1, BatchIs
  <2> HIDE DEF batch, h
  <2>3. tool' \in ToolState
    <3>1. CASE tool.job = "reembed"
      BY <1>1, <2>1, <2>2, <3>1, ToolTypes DEF ToolState
    <3>2. CASE tool.job = "lexical"
      BY <1>1, <2>1, <2>2, <3>2, ToolTypes DEF ToolState
    <3> QED
      BY <2>1, <3>1, <3>2
  <2> QED
    BY <1>1, <1>10, <2>1, <2>3 DEF ReadBatch, Sound, TypeOK
<1>11. CASE WriteReembed
  <2>1. tool.last \in Nat /\ tool.batch \in SUBSET Ids
    BY <1>1, <1>11, ToolTypes DEF WriteReembed, Running
  <2>2. db' \in Database /\ IsFiniteSet(db'.rows)
    <3> DEFINE points == UpsertPoints(db, tool.batch, config)
    <3>1. points \in Database /\ SameBut(db, points, {"dense"})
      BY <1>1, <2>1, DenseStores
    <3> HIDE DEF points
    <3>2. /\ UpsertLexical(points, tool.batch) \in Database
          /\ SameBut(points, UpsertLexical(points, tool.batch), {"lexical"})
      BY <2>1, <3>1, LexicalStores
    <3>3. db' = UpsertLexical(points, tool.batch)
      BY <1>11 DEF WriteReembed, points
    <3> QED
      BY <1>1, <3>1, <3>2, <3>3 DEF SameBut
  <2>3. tool' \in ToolState
    BY <1>1, <1>11, ToolTypes DEF WriteReembed, ToolState
  <2> QED
    BY <1>1, <1>11, <2>1, <2>2, <2>3 DEF WriteReembed, Sound, TypeOK
<1>12. CASE WriteLexical
  <2> DEFINE some == IF OnPostgres(db) THEN tool.batch \cap db.rows ELSE tool.batch
  <2>1. tool \in [job : {"lexical"}, pc : {"read", "write"}, last : Nat,
                  batch : SUBSET Ids, staged : SUBSET Ids]
    BY <1>1, <1>12, ToolTypes DEF WriteLexical
  <2>2. /\ tool' = [tool EXCEPT !.pc = "read", !.batch = {}, !.staged = @ \cup some]
        /\ some \in SUBSET Ids
    BY <1>12, <2>1 DEF WriteLexical
  <2> HIDE DEF some
  <2>3. tool' \in ToolState
    BY <2>1, <2>2 DEF ToolState
  <2> QED
    BY <1>1, <1>12, <2>3 DEF WriteLexical, Sound, TypeOK
<1>13. CASE WriteBackfill
  <2> DEFINE batch == NextBatch(tool.last, Unanalyzed)
  <2>1. /\ tool.job = "backfill" /\ batch # {}
        /\ db' = [db EXCEPT !.analyzed = @ \cup batch]
        /\ tool' = [tool EXCEPT !.last = Highest(batch)]
    BY <1>13 DEF WriteBackfill
  <2>2. batch \in SUBSET Ids /\ Highest(batch) \in Nat
    <3>1. Unanalyzed \in SUBSET Ids /\ IsFiniteSet(Unanalyzed)
      BY <1>1, FS_Subset DEF Unanalyzed
    <3>2. tool.last \in Nat
      BY <1>1, <2>1, ToolTypes DEF Running
    <3> QED
      BY <2>1, <3>1, <3>2, BatchIs
  <2> HIDE DEF batch
  <2>3. db' \in Database /\ db'.rows = db.rows
    BY <1>1, <2>1, <2>2 DEF Database
  <2>4. tool' \in ToolState
    BY <1>1, <2>1, <2>2, ToolTypes DEF ToolState
  <2> QED
    BY <1>1, <1>13, <2>3, <2>4 DEF WriteBackfill, Sound, TypeOK
<1>14. CASE Finish
  <2>1. db' \in Database /\ IsFiniteSet(db'.rows)
    <3>1. ASSUME tool.job = "lexical" PROVE db' \in Database /\ db'.rows = db.rows
      <4>1. tool.staged \in SUBSET Ids
        BY <1>1, <3>1, ToolTypes
      <4>2. db' = UpsertLexical(db, tool.staged)
        BY <1>1, <1>14, <3>1, FinishIs
      <4> QED
        BY <1>1, <4>1, <4>2, LexicalStores DEF SameBut
    <3>2. tool.job \in {"reembed", "backfill"} => db' = db
      BY <1>1, <1>14, FinishIs
    <3> QED
      BY <1>1, <1>14, <3>1, <3>2, FinishIs
  <2>2. tool' \in ToolState
    <3>1. NoTool \in ToolState
      BY DEF ToolState
    <3> QED
      BY <1>1, <1>14, <3>1, FinishIs
  <2>3. owed' \subseteq owed /\ changed' \in BOOLEAN /\ reported' \in Nat
    <3>1. tool.job \in {"reembed", "lexical", "backfill"}
      BY <1>1, <1>14, FinishIs
    <3>2. CASE tool.job = "reembed"
      <4>1. tool.last \in Nat
        BY <1>1, <3>2, ToolTypes DEF Running
      <4> QED
        BY <1>1, <1>14, <3>2, <4>1, FinishIs
    <3>3. CASE tool.job = "lexical"
      BY <1>1, <1>14, <3>3, FinishIs
    <3>4. CASE tool.job = "backfill"
      BY <1>1, <1>14, <3>4, FinishIs
    <3> QED
      BY <3>1, <3>2, <3>3, <3>4
  <2> QED
    BY <1>1, <1>14, <2>1, <2>2, <2>3, FinishIs DEF Sound, TypeOK
<1>15. CASE Killed
  BY <1>1, <1>15 DEF Killed, Sound, TypeOK, ToolState
<1> QED
  BY <1>4, <1>5, <1>6, <1>7, <1>8, <1>9, <1>10, <1>11, <1>12, <1>13, <1>14, <1>15 DEF Tool

LEMMA SoundInvariant == Spec => []Sound
<1>1. Sound /\ [Next]_vars => Sound'
  <2>1. Sound /\ UNCHANGED vars => Sound'
    BY DEF Sound, TypeOK, Database, vars
  <2> QED
    BY <2>1, WorkerSound, ToolSound DEF Next
<1> QED
  BY <1>1, InitSound, PTL DEF Spec

\* Whatever the worker and the tools do to them, the stores and what is kept
\* about an unfinished run of a tool have the shape the tables give them.
THEOREM StoresTyped == Spec => []TypeOK
<1>1. Sound => TypeOK
  BY DEF Sound
<1> QED
  BY <1>1, SoundInvariant, PTL

-----------------------------------------------------------------------------
(* What a step leaves of the two indexes.                                  *)

\* A chunk is in the table with its point as it was, or in the new space ...
DenseKept ==
    \A c \in db'.rows : \/ db'.dense[c] = config
                        \/ c \in db.rows /\ db'.dense[c] = db.dense[c]

\* ... and is not missed in the lexical index that was not missed before.
LexicalKept ==
    \A c \in db'.rows : c \in db'.lexical \/ (c \in db.rows /\ c \notin db.lexical)

LEMMA WorkerKeeps ==
    ASSUME Sound, Orderly,
           \/ \E v \in Versions : \E chunks \in Layouts[v] : Publish(v, chunks)
           \/ \E d \in Documents : Delete(d)
    PROVE  /\ DenseKept /\ LexicalKept
           /\ Orderly'
           /\ UNCHANGED <<config, changed, tool, owed, reported>>
<1>1. ASSUME NEW v \in Versions, NEW chunks \in Layouts[v], Publish(v, chunks)
      PROVE  DenseKept /\ LexicalKept /\ db'.rows \subseteq LiveChunks' /\ db'.kind = db.kind
  <2>1. /\ db' = Published(v, chunks) /\ live' = (live \ Stale(v)) \cup {v}
        /\ db.rows \subseteq Ids /\ TypeOK
    BY <1>1 DEF Publish, Sound, TypeOK, Database
  <2>2. /\ db'.kind = db.kind
        /\ db'.rows = ((db.rows \ ChunksOf(v)) \ StaleChunks(v)) \cup chunks
        /\ db'.lexical = ((db.lexical \ ChunksOf(v)) \ StaleChunks(v)) \cup chunks
        /\ \A c \in Ids : db'.dense[c] =
              IF c \in StaleChunks(v) THEN None
              ELSE IF c \in chunks THEN config
              ELSE IF OnPostgres(db) /\ c \in ChunksOf(v) THEN None
              ELSE db.dense[c]
    BY <2>1, PublishedIs
  <2>3. /\ chunks \subseteq ChunksOf(v) /\ ChunksOf(v) \subseteq Ids
        /\ StaleChunks(v) \cap ChunksOf(v) = {}
    <3>1. \A w \in Stale(v) : w \in Versions /\ w # v
      BY DEF Stale, VersionsOf
    <3> QED
      BY <3>1, ChunksTyped, LayoutAssumption DEF StaleChunks
  <2>4. DenseKept
    BY <2>1, <2>2, <2>3 DEF DenseKept
  <2>5. LexicalKept
    BY <2>2 DEF LexicalKept
  <2>6. db'.rows \subseteq LiveChunks'
    <3>1. ASSUME NEW c \in db.rows, c \notin StaleChunks(v) PROVE c \in LiveChunks'
      <4>1. PICK w \in live : c \in ChunksOf(w)
        BY <3>1 DEF Orderly, LiveChunks
      <4>2. w \notin Stale(v)
        BY <3>1, <4>1 DEF StaleChunks
      <4> QED
        BY <2>1, <4>1, <4>2 DEF LiveChunks
    <3>2. chunks \subseteq LiveChunks'
      BY <2>1, <2>3 DEF LiveChunks
    <3> QED
      BY <2>2, <3>1, <3>2
  <2> QED
    BY <2>2, <2>4, <2>5, <2>6
<1>2. ASSUME NEW d \in Documents, Delete(d)
      PROVE  DenseKept /\ LexicalKept /\ db'.rows \subseteq LiveChunks' /\ db'.kind = db.kind
  <2> DEFINE gone == live \cap VersionsOf(d)
  <2>1. /\ db' = Removed(d) /\ live' = live \ gone /\ db.rows \subseteq Ids /\ TypeOK
    BY <1>2 DEF Delete, Removed, Sound, TypeOK, Database
  <2>2. /\ db'.kind = db.kind
        /\ db'.rows = db.rows \ UNION {ChunksOf(v) : v \in gone}
        /\ db'.lexical = db.lexical \ ChunksOfDocument(d)
        /\ \A c \in Ids : db'.dense[c] =
              IF c \in ChunksOfDocument(d) THEN None ELSE db.dense[c]
    BY <2>1, RemovedIs
  <2>3. ASSUME NEW c \in db'.rows
        PROVE  c \in db.rows /\ c \in LiveChunks' /\ c \notin ChunksOfDocument(d)
    <3>1. c \in db.rows /\ \A v \in gone : c \notin ChunksOf(v)
      BY <2>2, <2>3
    <3>2. PICK w \in live : c \in ChunksOf(w)
      BY <3>1 DEF Orderly, LiveChunks
    <3>3. w \in Versions /\ w \notin VersionsOf(d)
      BY <2>1, <3>1, <3>2 DEF TypeOK
    <3>4. c \notin ChunksOfDocument(d)
      <4>1. \A v \in VersionsOf(d) : v \in Versions /\ v # w
        BY <3>3 DEF VersionsOf
      <4>2. \A v \in VersionsOf(d) : c \notin ChunksOf(v)
        BY <3>2, <3>3, <4>1, LayoutAssumption
      <4> QED
        BY <4>2 DEF ChunksOfDocument
    <3> QED
      BY <2>1, <3>1, <3>2, <3>3, <3>4 DEF LiveChunks
  <2> QED
    BY <2>1, <2>2, <2>3 DEF DenseKept, LexicalKept
<1>3. UNCHANGED <<config, changed, tool, owed, reported>>
  BY DEF Publish, Delete
<1>4. BatchIsForWriting'
  BY <1>3 DEF Orderly, BatchIsForWriting, Running
<1> QED
  BY <1>1, <1>2, <1>3, <1>4 DEF Orderly

\* Both indexes of a batch are written at once.
LEMMA BatchWritten ==
    ASSUME Sound, WriteReembed
    PROVE  /\ db'.kind = db.kind /\ db'.rows = db.rows
           /\ \A c \in Ids : db'.dense[c] =
                 IF c \in tool.batch /\ (OnPostgres(db) => c \in db.rows) THEN config
                                                                       ELSE db.dense[c]
           /\ db'.lexical = db.lexical \cup
                 (IF OnPostgres(db) THEN tool.batch \cap db.rows ELSE tool.batch)
<1> DEFINE points == UpsertPoints(db, tool.batch, config)
<1>1. tool.batch \in SUBSET Ids /\ db \in Database /\ config \in Models
  BY ToolTypes DEF WriteReembed, Running, Sound, TypeOK
<1>2. /\ points \in Database /\ SameBut(db, points, {"dense"})
      /\ \A c \in Ids : points.dense[c] =
            IF c \in tool.batch /\ (OnPostgres(db) => c \in db.rows) THEN config
                                                                  ELSE db.dense[c]
  BY <1>1, DenseStores
<1>3. db' = UpsertLexical(points, tool.batch)
  BY DEF WriteReembed
<1> HIDE DEF points
<1>4. /\ SameBut(points, db', {"lexical"})
      /\ db'.lexical = points.lexical \cup
            (IF OnPostgres(points) THEN tool.batch \cap points.rows ELSE tool.batch)
  BY <1>1, <1>2, <1>3, LexicalStores
<1>5. /\ points.kind = db.kind /\ points.rows = db.rows /\ points.lexical = db.lexical
      /\ db'.kind = db.kind /\ db'.rows = db.rows /\ db'.dense = points.dense
      /\ OnPostgres(points) <=> OnPostgres(db)
  BY <1>2, <1>4 DEF SameBut, OnPostgres
<1> QED
  BY <1>2, <1>4, <1>5

\* Every tool leaves the chunk table alone; only the start of a re-embedding
\* takes points away, and only the two that empty the lexical index its rows.
LEMMA ToolKeeps ==
    ASSUME Sound, Tool
    PROVE  /\ db'.kind = db.kind /\ db'.rows = db.rows
           /\ UNCHANGED <<live, config>>
           /\ StartReembed \/ db'.dense = db.dense \/ WriteReembed
           /\ StartReembed \/ DenseKept
           /\ \/ EmptyLexical \/ StartLexical
              \/ db.lexical \subseteq db'.lexical /\ LexicalKept
           /\ db'.lexical \subseteq db.lexical \/ WriteReembed \/ Finish
<1>1. db \in Database /\ db.rows \subseteq Ids /\ tool \in ToolState /\ config \in Models
  BY DEF Sound, TypeOK, Database
<1> DEFINE Stays == /\ db'.kind = db.kind /\ db'.rows = db.rows
                    /\ db'.dense = db.dense /\ db.lexical \subseteq db'.lexical
                    /\ db'.lexical \subseteq db.lexical \/ Finish
<1>2. Stays => /\ db'.kind = db.kind /\ db'.rows = db.rows /\ db'.dense = db.dense
               /\ DenseKept /\ db.lexical \subseteq db'.lexical /\ LexicalKept
               /\ db'.lexical \subseteq db.lexical \/ Finish
  BY DEF DenseKept, LexicalKept
<1>3. CASE StartReembed
  <2>1. SameBut(db, db', {"dense"})
    BY <1>1, <1>3, DenseStores DEF StartReembed
  <2> QED
    BY <1>3, <2>1 DEF StartReembed, SameBut, LexicalKept
<1> DEFINE Resumes == \E after \in {0, ResumeAfter} : Resume(after)
<1>4. CASE CreateCollection \/ Resumes
  <2>1. SameBut(db, db', {})
    BY <1>1, <1>4, DenseStores DEF CreateCollection, Resume
  <2>2. Stays
    BY <2>1 DEF SameBut
  <2> QED
    BY <1>2, <1>4, <2>2 DEF CreateCollection, Resume
<1>5. CASE EmptyLexical \/ StartLexical
  <2>1. SameBut(db, db', {"lexical"}) /\ db'.lexical = {}
    BY <1>1, <1>5, LexicalStores DEF EmptyLexical, StartLexical
  <2> QED
    BY <1>5, <2>1 DEF EmptyLexical, StartLexical, SameBut, DenseKept
<1>6. CASE StartBackfill \/ ReadBatch \/ WriteLexical \/ Killed
  <2>1. UNCHANGED <<db, live, config>>
    BY <1>6 DEF StartBackfill, ReadBatch, WriteLexical, Killed
  <2> QED
    BY <1>2, <2>1
<1>7. CASE WriteReembed
  <2>1. DenseKept /\ LexicalKept /\ db.lexical \subseteq db'.lexical
    BY <1>1, <1>7, BatchWritten DEF DenseKept, LexicalKept
  <2> QED
    BY <1>7, <2>1, BatchWritten DEF WriteReembed
<1>8. CASE WriteBackfill
  <2>1. PICK batch : db' = [db EXCEPT !.analyzed = @ \cup batch]
    BY <1>8 DEF WriteBackfill
  <2>2. Stays
    BY <1>1, <2>1 DEF Database
  <2> QED
    BY <1>2, <1>8, <2>2 DEF WriteBackfill
<1>9. CASE Finish
  <2>1. CASE tool.job = "lexical"
    <3>1. tool.staged \in SUBSET Ids /\ db' = UpsertLexical(db, tool.staged)
      BY <1>1, <1>9, <2>1, ToolTypes, FinishIs
    <3>2. /\ SameBut(db, db', {"lexical"})
          /\ db'.lexical = db.lexical \cup
                (IF OnPostgres(db) THEN tool.staged \cap db.rows ELSE tool.staged)
      BY <1>1, <3>1, LexicalStores
    <3>3. Stays
      BY <1>9, <3>2 DEF SameBut
    <3> QED
      BY <1>1, <1>2, <1>9, <3>3, FinishIs
  <2>2. CASE tool.job \in {"reembed", "backfill"}
    <3>1. db' = db
      BY <1>1, <1>9, <2>2, FinishIs
    <3> QED
      BY <1>1, <1>2, <1>9, <3>1, FinishIs
  <2> QED
    BY <1>1, <1>9, <2>1, <2>2, FinishIs
<1> QED
  BY <1>3, <1>4, <1>5, <1>6, <1>7, <1>8, <1>9 DEF Tool

LEMMA ToolOrderly ==
    ASSUME Sound, Orderly, Tool PROVE Orderly'
<1>1. /\ db'.kind = db.kind /\ db'.rows = db.rows /\ live' = live
      /\ tool \in ToolState
  BY ToolKeeps DEF Sound, TypeOK
<1>2. LiveChunks' = LiveChunks
  BY <1>1 DEF LiveChunks
<1>3. BatchIsForWriting'
  <2>1. CASE \/ StartReembed \/ StartLexical \/ StartBackfill
              \/ \E after \in {0, ResumeAfter} : Resume(after)
    BY <2>1 DEF StartReembed, Resume, Reembedding, StartLexical, StartBackfill,
                BatchIsForWriting
  <2>2. CASE CreateCollection \/ EmptyLexical
    <3>1. tool.job = "reembed" /\ tool.pc # "write" /\ tool.batch = {}
      BY <2>2 DEF CreateCollection, EmptyLexical, Orderly, BatchIsForWriting, Running
    <3> QED
      BY <1>1, <2>2, <3>1, ToolTypes DEF CreateCollection, EmptyLexical, BatchIsForWriting
  <2>3. CASE ReadBatch \/ WriteReembed \/ WriteLexical
    <3>1. tool'.pc = "write" \/ tool'.batch = {}
      BY <1>1, <2>3, ToolTypes DEF ReadBatch, WriteReembed, WriteLexical
    <3> QED
      BY <3>1 DEF BatchIsForWriting
  <2>4. CASE WriteBackfill
    <3>1. tool.pc = "read" /\ tool.batch = {}
      BY <1>1, <2>4, ToolTypes DEF WriteBackfill, Orderly, BatchIsForWriting, Running
    <3> QED
      BY <1>1, <2>4, <3>1, ToolTypes DEF WriteBackfill, BatchIsForWriting
  <2>5. CASE Finish \/ Killed
    <3>1. tool' = NoTool
      BY <1>1, <2>5, FinishIs DEF Killed
    <3> QED
      BY <3>1 DEF BatchIsForWriting, Running, NoTool
  <2> QED
    BY <2>1, <2>2, <2>3, <2>4, <2>5 DEF Tool
<1> QED
  BY <1>1, <1>2, <1>3 DEF Orderly

LEMMA OrderlyInvariant == Spec => []Orderly
<1>1. Init => Orderly
  <2> SUFFICES ASSUME Init PROVE Orderly
    OBVIOUS
  <2>1. \E kind \in Kinds, v \in Versions : \E chunks \in Layouts[v] :
           db.kind = kind /\ db.rows = chunks /\ live = {v}
    BY DEF Init
  <2>2. db.kind \in Kinds /\ db.rows \subseteq LiveChunks
    BY <2>1, ChunksTyped DEF LiveChunks
  <2> QED
    BY <2>2 DEF Init, Orderly, BatchIsForWriting, Running, NoTool
<1>2. Sound /\ Orderly /\ [Next]_vars => Orderly'
  <2>1. ASSUME Orderly, UNCHANGED vars \/ (\E m \in Models : ChangeModel(m)) PROVE Orderly'
    BY <2>1 DEF Orderly, vars, ChangeModel, LiveChunks, BatchIsForWriting, Running
  <2> QED
    BY <2>1, WorkerKeeps, ToolOrderly DEF Next
<1> QED
  BY <1>1, <1>2, SoundInvariant, PTL DEF Spec

-----------------------------------------------------------------------------
(* No chunk is left in the old space.                                      *)

\* Without a tool's own reading of what it has passed.
LEMMA DenseCarried ==
    ASSUME DenseProgress, DenseKept, config' = config, config \in Models,
           db'.rows \subseteq Ids
    PROVE  /\ "dense" \notin owed =>
                /\ db'.rows \subseteq Embedded(db')
                /\ ~changed => \A c \in db'.rows : db'.dense[c] = config
           /\ tool.job = "reembed" /\ tool.after = 0 =>
                \A c \in db'.rows : c <= tool.last /\ c \notin tool.batch
                                      => db'.dense[c] = config
<1>1. config # None
  BY LayoutAssumption
<1>2. /\ "dense" \notin owed => \A c \in db.rows : db.dense[c] # None
      /\ "dense" \notin owed /\ ~changed => \A c \in db.rows : db.dense[c] = config
      /\ tool.job = "reembed" /\ tool.after = 0 =>
           \A c \in db.rows : c <= tool.last /\ c \notin tool.batch => db.dense[c] = config
  BY DEF DenseProgress, EveryChunkIsEmbedded, Embedded, PassedRows
<1>3. \A c \in db'.rows : \/ db'.dense[c] = config
                          \/ c \in db.rows /\ db'.dense[c] = db.dense[c]
  BY DEF DenseKept
<1>4. "dense" \notin owed => \A c \in db'.rows : db'.dense[c] # None
  BY <1>1, <1>2, <1>3
<1>5. "dense" \notin owed => db'.rows \subseteq Embedded(db')
  BY <1>4 DEF Embedded
<1> QED
  BY <1>2, <1>3, <1>5

LEMMA WorkerDense ==
    ASSUME Sound, Sound', Orderly, DenseProgress,
           \/ \E v \in Versions : \E chunks \in Layouts[v] : Publish(v, chunks)
           \/ \E d \in Documents : Delete(d)
    PROVE  DenseProgress'
<1>1. DenseKept /\ UNCHANGED <<config, changed, tool, owed, reported>>
  BY WorkerKeeps
<1>2. config \in Models /\ db'.rows \subseteq Ids
  BY DEF Sound, TypeOK, Database
<1> QED
  BY <1>1, <1>2, DenseCarried DEF DenseProgress, EveryChunkIsEmbedded, PassedRows

LEMMA ToolDense ==
    ASSUME Sound, Sound', Orderly, DenseProgress, Tool
    PROVE  DenseProgress'
<1>1. /\ config' = config /\ config \in Models /\ db'.rows = db.rows
      /\ db'.rows \subseteq Ids /\ tool \in ToolState /\ Ids \subseteq Nat \ {0}
      /\ StartReembed \/ DenseKept
  BY ToolKeeps, ChunksTyped DEF Sound, TypeOK, Database
<1>0. \A c \in db'.rows : ~(c <= 0)
  <2>1. \A c \in Ids : ~(c <= 0)
    BY <1>1
  <2> QED
    BY <1>1, <2>1
<1>2. CASE StartReembed
  BY <1>0, <1>2 DEF StartReembed, Reembedding, DenseProgress, EveryChunkIsEmbedded, PassedRows
<1> DEFINE Carried ==
             /\ "dense" \notin owed =>
                  /\ db'.rows \subseteq Embedded(db')
                  /\ ~changed => \A c \in db'.rows : db'.dense[c] = config
             /\ tool.job = "reembed" /\ tool.after = 0 =>
                  \A c \in db'.rows : c <= tool.last /\ c \notin tool.batch
                                        => db'.dense[c] = config
<1>3. StartReembed \/ Carried
  BY <1>1, DenseCarried
<1>4. CASE CreateCollection \/ EmptyLexical
  <2>1. /\ Carried /\ tool.job = "reembed"
        /\ "dense" \in owed' <=> "dense" \in owed
        /\ UNCHANGED changed /\ tool'.after = tool.after
        /\ tool'.last = tool.last /\ tool'.batch = tool.batch
    BY <1>1, <1>3, <1>4, ToolTypes DEF CreateCollection, EmptyLexical, StartReembed, Starting, Running
  <2> QED
    BY <1>1, <2>1 DEF DenseProgress, EveryChunkIsEmbedded, PassedRows
<1>5. ASSUME NEW after \in {0, ResumeAfter}, Resume(after) PROVE DenseProgress'
  <2>1. /\ Carried /\ UNCHANGED <<changed, owed>>
        /\ tool'.job = "reembed" /\ tool'.last = after /\ tool'.after = after
    BY <1>3, <1>5 DEF Resume, Reembedding, StartReembed
  <2> QED
    BY <1>0, <1>1, <2>1 DEF DenseProgress, EveryChunkIsEmbedded, PassedRows
<1>6. CASE StartLexical \/ StartBackfill \/ WriteLexical \/ WriteBackfill \/ Killed
  <2>1. Carried
    BY <1>3, <1>6
       DEF StartLexical, StartBackfill, WriteLexical, WriteBackfill, Killed, StartReembed,
           Starting, Running
  <2>2. /\ "dense" \in owed' <=> "dense" \in owed
        /\ UNCHANGED changed
    BY <1>6 DEF StartLexical, StartBackfill, WriteLexical, WriteBackfill, Killed
  <2>3. tool'.job # "reembed"
    <3>1. CASE StartLexical \/ StartBackfill \/ Killed
      BY <3>1 DEF StartLexical, StartBackfill, Killed, NoTool
    <3>2. CASE WriteLexical
      BY <1>1, <3>2, ToolTypes DEF WriteLexical
    <3>3. CASE WriteBackfill
      BY <1>1, <3>3, ToolTypes DEF WriteBackfill
    <3> QED
      BY <1>6, <3>1, <3>2, <3>3
  <2> QED
    BY <1>1, <2>1, <2>2, <2>3 DEF DenseProgress, EveryChunkIsEmbedded
<1>7. CASE ReadBatch
  <2> DEFINE batch == NextBatch(tool.last, db.rows)
             h == Highest(batch)
  <2>1. /\ Carried /\ UNCHANGED <<db, changed, owed>>
        /\ tool.job \in {"reembed", "lexical"} /\ tool.pc = "read" /\ batch # {}
        /\ tool' = [tool EXCEPT !.pc = "write", !.batch = batch, !.last = h]
    BY <1>3, <1>7 DEF ReadBatch, StartReembed, Starting, Running
  <2>2. tool.last \in Nat /\ tool.batch = {}
    BY <1>1, <2>1, ToolTypes DEF Running, Orderly, BatchIsForWriting
  <2>3. h \in Nat /\ \A c \in db.rows : tool.last < c /\ c <= h => c \in batch
    BY <1>1, <2>1, <2>2, BatchIs DEF Sound
  <2> HIDE DEF batch, h
  <2>4. /\ tool'.job = tool.job /\ tool'.last = h /\ tool'.batch = batch
        /\ tool.job = "reembed" => tool'.after = tool.after
    BY <1>1, <2>1, ToolTypes
  <2>5. ASSUME tool.job = "reembed", tool.after = 0, NEW c \in db'.rows, c <= h, c \notin batch
        PROVE  db'.dense[c] = config
    <3>1. c \in Nat /\ ~(tool.last < c)
      BY <1>1, <2>3, <2>5
    <3>2. c <= tool.last
      BY <2>2, <3>1
    <3> QED
      BY <2>1, <2>2, <2>5, <3>2
  <2> QED
    BY <1>1, <2>1, <2>4, <2>5 DEF DenseProgress, EveryChunkIsEmbedded, PassedRows
<1>8. CASE WriteReembed
  <2>1. /\ Carried /\ tool.job = "reembed" /\ UNCHANGED <<changed, owed>>
        /\ tool' = [tool EXCEPT !.pc = "read", !.batch = {}]
    BY <1>3, <1>8 DEF WriteReembed, StartReembed, Starting, Running
  <2>2. tool'.last = tool.last /\ tool'.batch = {} /\ tool'.after = tool.after
    BY <1>1, <2>1, ToolTypes
  <2>3. ASSUME tool.after = 0, NEW c \in db'.rows, c <= tool.last PROVE db'.dense[c] = config
    <3>1. CASE c \in tool.batch
      BY <1>1, <1>8, <3>1, BatchWritten
    <3>2. CASE c \notin tool.batch
      BY <2>1, <2>3, <3>2
    <3> QED
      BY <3>1, <3>2
  <2> QED
    BY <1>1, <2>1, <2>2, <2>3 DEF DenseProgress, EveryChunkIsEmbedded, PassedRows
<1>9. CASE Finish
  <2>1. tool'.job = "none" /\ Carried
    BY <1>1, <1>3, <1>9, FinishIs DEF StartReembed, Starting, Running, NoTool
  <2>2. CASE tool.job = "reembed" /\ tool.after = 0
    <3>1. NextBatch(tool.last, db.rows) = {} /\ tool.pc = "read" /\ db' = db
      BY <1>1, <1>9, <2>2, FinishIs
    <3>2. tool.last \in Nat /\ tool.batch = {}
      BY <1>1, <2>2, <3>1, ToolTypes DEF Running, Orderly, BatchIsForWriting
    <3>3. \A c \in db.rows : c <= tool.last
      BY <1>1, <3>1, <3>2, BatchIs DEF Sound
    <3>4. \A c \in db'.rows : db'.dense[c] = config
      BY <1>1, <2>1, <2>2, <3>2, <3>3
    <3>5. db'.rows \subseteq Embedded(db')
      BY <1>1, <3>4, LayoutAssumption DEF Embedded
    <3> QED
      BY <1>1, <2>1, <3>4, <3>5 DEF DenseProgress, EveryChunkIsEmbedded
  <2>4. CASE tool.job = "reembed" /\ tool.after # 0
    <3>1. owed' = owed \ {"rest"} /\ UNCHANGED changed
      BY <1>1, <1>9, <2>4, FinishIs DEF Discharged, Sound, TypeOK
    <3> QED
      BY <1>1, <2>1, <3>1 DEF DenseProgress, EveryChunkIsEmbedded
  <2>3. CASE tool.job \in {"lexical", "backfill"}
    <3>1. /\ "dense" \in owed' <=> "dense" \in owed
          /\ UNCHANGED changed
      BY <1>1, <1>9, <2>3, FinishIs
    <3> QED
      BY <1>1, <2>1, <3>1 DEF DenseProgress, EveryChunkIsEmbedded
  <2> QED
    BY <1>1, <1>9, <2>2, <2>3, <2>4, FinishIs
<1> QED
  BY <1>2, <1>4, <1>5, <1>6, <1>7, <1>8, <1>9 DEF Tool

LEMMA ModelDense ==
    ASSUME Sound, DenseProgress, NEW m \in Models, ChangeModel(m)
    PROVE  DenseProgress'
  BY DEF ChangeModel, DenseProgress, EveryChunkIsEmbedded, Embedded, PassedRows, Running

\* reembed_tenant: whatever was published, deleted, killed and resumed in
\* between, in any order and with any batch size, a run that began with the
\* first row and came to its end leaves every row a vector of the configured
\* model.  A run resumed at an id worked out from the number of points need
\* not, and gives back nothing here.
THEOREM ReembedCoversAll == Spec => []EveryChunkIsEmbedded
<1>1. Init => DenseProgress
  <2> SUFFICES ASSUME Init PROVE DenseProgress
    OBVIOUS
  <2>1. PICK m \in Models, v \in Versions : \E chunks \in Layouts[v] :
           /\ config = m /\ db.rows = chunks
           /\ db.dense = [c \in Ids |-> IF c \in chunks THEN m ELSE None]
    BY DEF Init
  <2>2. db.rows \subseteq Ids
    BY InitSound DEF Sound, TypeOK, Database
  <2>3. config = m /\ \A c \in db.rows : db.dense[c] = m
    BY <2>1, <2>2
  <2>4. db.rows \subseteq Embedded(db)
    BY <2>2, <2>3, LayoutAssumption DEF Embedded
  <2> QED
    BY <2>3, <2>4 DEF Init, DenseProgress, EveryChunkIsEmbedded, NoTool
<1>2. Sound /\ Sound' /\ Orderly /\ DenseProgress /\ [Next]_vars => DenseProgress'
  <2>1. DenseProgress /\ UNCHANGED vars => DenseProgress'
    BY DEF DenseProgress, EveryChunkIsEmbedded, Embedded, PassedRows, vars
  <2> QED
    BY <2>1, WorkerDense, ToolDense, ModelDense DEF Next
<1>3. DenseProgress => EveryChunkIsEmbedded
  BY DEF DenseProgress
<1> QED
  BY <1>1, <1>2, <1>3, SoundInvariant, OrderlyInvariant, PTL DEF Spec

-----------------------------------------------------------------------------
(* Nothing of a version that is not live is stored.                        *)

LEMMA WorkerStrays ==
    ASSUME SqliteIsAlone, Sound, Sound', Orderly, NothingStrays,
           \/ \E v \in Versions : \E chunks \in Layouts[v] : Publish(v, chunks)
           \/ \E d \in Documents : Delete(d)
    PROVE  NothingStrays'
<1>1. /\ UNCHANGED tool
      /\ Embedded(db) \subseteq LiveChunks /\ db.lexical \subseteq db.rows
      /\ tool.job = "lexical" => tool.staged \subseteq db.rows
  BY DEF Publish, Delete, NothingStrays
<1>2. Running => db.kind = "postgres" \/ db.kind \in Alone
  BY DEF SqliteIsAlone, Orderly
<1>3. ASSUME NEW v \in Versions, NEW chunks \in Layouts[v], Publish(v, chunks)
      PROVE  NothingStrays'
  <2>1. /\ db' = Published(v, chunks) /\ live' = (live \ Stale(v)) \cup {v} /\ TypeOK
        /\ MayWrite(ChunksOf(v) \cup StaleChunks(v))
    BY <1>3 DEF Publish, Sound, StaleChunks
  <2>2. /\ db'.kind = db.kind
        /\ db'.rows = ((db.rows \ ChunksOf(v)) \ StaleChunks(v)) \cup chunks
        /\ db'.lexical = ((db.lexical \ ChunksOf(v)) \ StaleChunks(v)) \cup chunks
        /\ \A c \in Ids : db'.dense[c] =
              IF c \in StaleChunks(v) THEN None
              ELSE IF c \in chunks THEN config
              ELSE IF OnPostgres(db) /\ c \in ChunksOf(v) THEN None
              ELSE db.dense[c]
    BY <2>1, PublishedIs
  <2>3. Embedded(db') \subseteq LiveChunks'
    <3> SUFFICES ASSUME NEW c \in Embedded(db') PROVE c \in LiveChunks'
      OBVIOUS
    <3>1. c \in Ids /\ c \notin StaleChunks(v) /\ (c \in chunks \/ db.dense[c] # None)
      BY <2>2 DEF Embedded
    <3>2. CASE c \in chunks
      BY <2>1, <3>2, ChunksTyped DEF LiveChunks
    <3>3. CASE db.dense[c] # None
      <4>1. c \in Embedded(db)
        BY <3>1, <3>3 DEF Embedded
      <4>2. PICK w \in live : c \in ChunksOf(w)
        BY <1>1, <4>1 DEF LiveChunks
      <4>3. w \notin Stale(v)
        BY <3>1, <4>2 DEF StaleChunks
      <4> QED
        BY <2>1, <4>2, <4>3 DEF LiveChunks
    <3> QED
      BY <3>1, <3>2, <3>3
  <2>4. db'.lexical \subseteq db'.rows
    BY <1>1, <2>2
  <2>5. /\ ~(Running /\ ~OnPostgres(db))
        /\ tool.job = "lexical" => tool.staged \cap (ChunksOf(v) \cup StaleChunks(v)) = {}
    BY <1>2, <2>1 DEF MayWrite, OnPostgres, Running, Staged
  <2>6. tool.job = "lexical" => tool.staged \subseteq db'.rows
    BY <1>1, <2>2, <2>5
  <2> QED
    BY <1>1, <2>2, <2>3, <2>4, <2>5, <2>6 DEF NothingStrays, OnPostgres, Running
<1>4. ASSUME NEW d \in Documents, Delete(d) PROVE NothingStrays'
  <2> DEFINE gone == UNION {ChunksOf(v) : v \in live \cap VersionsOf(d)}
  <2>1. /\ db' = Removed(d) /\ live' = live \ (live \cap VersionsOf(d)) /\ TypeOK
        /\ MayWrite(gone)
    BY <1>4 DEF Delete, Removed, Sound
  <2>2. /\ db'.kind = db.kind
        /\ db'.rows = db.rows \ gone
        /\ db'.lexical = db.lexical \ ChunksOfDocument(d)
        /\ \A c \in Ids : db'.dense[c] =
              IF c \in ChunksOfDocument(d) THEN None ELSE db.dense[c]
    BY <2>1, RemovedIs
  <2>3. gone \subseteq ChunksOfDocument(d)
    BY DEF ChunksOfDocument
  <2>4. Embedded(db') \subseteq LiveChunks'
    <3> SUFFICES ASSUME NEW c \in Embedded(db') PROVE c \in LiveChunks'
      OBVIOUS
    <3>1. c \in Embedded(db) /\ c \notin ChunksOfDocument(d)
      BY <2>2 DEF Embedded
    <3>2. PICK w \in live : c \in ChunksOf(w)
      BY <1>1, <3>1 DEF LiveChunks
    <3>3. w \notin VersionsOf(d)
      BY <3>1, <3>2 DEF ChunksOfDocument
    <3> QED
      BY <2>1, <3>2, <3>3 DEF LiveChunks
  <2> HIDE DEF gone
  <2>5. db'.lexical \subseteq db'.rows
    BY <1>1, <2>2, <2>3
  <2>6. /\ ~(Running /\ ~OnPostgres(db))
        /\ tool.job = "lexical" => tool.staged \cap gone = {}
    BY <1>2, <2>1 DEF MayWrite, OnPostgres, Running, Staged
  <2>7. tool.job = "lexical" => tool.staged \subseteq db'.rows
    BY <1>1, <2>2, <2>6
  <2> QED
    BY <1>1, <2>2, <2>4, <2>5, <2>6, <2>7 DEF NothingStrays, OnPostgres, Running
<1> QED
  BY <1>3, <1>4

LEMMA ToolStrays ==
    ASSUME Sound, Orderly, NothingStrays, Tool PROVE NothingStrays'
<1>1. /\ db'.kind = db.kind /\ db'.rows = db.rows /\ live' = live
      /\ StartReembed \/ db'.dense = db.dense \/ WriteReembed
      /\ db'.lexical \subseteq db.lexical \/ WriteReembed \/ Finish
      /\ db \in Database /\ tool \in ToolState
      /\ db.rows \subseteq Ids /\ db.rows \subseteq LiveChunks
  BY ToolKeeps DEF Sound, TypeOK, Database, Orderly
<1>2. /\ Embedded(db) \subseteq LiveChunks /\ db.lexical \subseteq db.rows
      /\ Running /\ ~OnPostgres(db) => tool.batch \subseteq db.rows
      /\ tool.job = "lexical" => tool.staged \subseteq db.rows
  BY DEF NothingStrays
<1>3. LiveChunks' = LiveChunks /\ (OnPostgres(db)' <=> OnPostgres(db))
  BY <1>1 DEF LiveChunks, OnPostgres
<1>4. Embedded(db') \subseteq LiveChunks
  <2>1. CASE StartReembed
    BY <1>1, <2>1, DenseStores DEF StartReembed, Embedded
  <2>2. CASE db'.dense = db.dense
    BY <1>2, <2>2 DEF Embedded
  <2>3. CASE WriteReembed
    <3>1. ASSUME NEW c \in Embedded(db') PROVE c \in LiveChunks
      <4>1. c \in Ids /\ (c \in db.rows \/ db.dense[c] # None)
        BY <1>2, <2>3, BatchWritten DEF Embedded, WriteReembed, Running
      <4> QED
        BY <1>1, <1>2, <4>1 DEF Embedded
    <3> QED
      BY <3>1
  <2> QED
    BY <1>1, <2>1, <2>2, <2>3
<1>5. db'.lexical \subseteq db.rows
  <2>1. CASE db'.lexical \subseteq db.lexical
    BY <1>2, <2>1
  <2>2. CASE WriteReembed
    BY <1>2, <2>2, BatchWritten DEF WriteReembed, Running
  <2>3. CASE Finish /\ tool.job = "lexical"
    <3>1. tool.staged \in SUBSET Ids /\ db' = UpsertLexical(db, tool.staged)
      BY <1>1, <2>3, ToolTypes, FinishIs
    <3>2. db'.lexical = db.lexical \cup
             (IF OnPostgres(db) THEN tool.staged \cap db.rows ELSE tool.staged)
      BY <1>1, <3>1, LexicalStores
    <3> QED
      BY <1>2, <2>3, <3>2
  <2>4. CASE Finish /\ tool.job # "lexical"
    <3>1. db' = db
      BY <1>1, <2>4, FinishIs
    <3> QED
      BY <1>2, <3>1
  <2> QED
    BY <1>1, <2>1, <2>2, <2>3, <2>4
<1>6. /\ Running' /\ ~OnPostgres(db) => tool'.batch \subseteq db.rows
      /\ tool'.job = "lexical" => tool'.staged \subseteq db.rows
  <2>1. CASE \/ StartReembed \/ StartLexical \/ StartBackfill
              \/ \E after \in {0, ResumeAfter} : Resume(after)
    BY <2>1 DEF StartReembed, Resume, Reembedding, StartLexical, StartBackfill
  <2>2. CASE CreateCollection \/ EmptyLexical
    BY <1>1, <1>2, <2>2, ToolTypes DEF CreateCollection, EmptyLexical, Running
  <2>3. CASE ReadBatch
    <3>1. NextBatch(tool.last, db.rows) \subseteq db.rows
      BY DEF NextBatch
    <3> QED
      BY <1>1, <1>2, <2>3, <3>1, ToolTypes DEF ReadBatch
  <2>4. CASE WriteReembed
    BY <1>1, <2>4, ToolTypes DEF WriteReembed
  <2>5. CASE WriteLexical
    <3> DEFINE some == IF OnPostgres(db) THEN tool.batch \cap db.rows ELSE tool.batch
    <3>1. some \subseteq db.rows
      BY <1>2, <2>5 DEF WriteLexical, Running
    <3>2. tool' = [tool EXCEPT !.pc = "read", !.batch = {}, !.staged = @ \cup some]
      BY <2>5 DEF WriteLexical
    <3> HIDE DEF some
    <3>3. tool'.batch = {} /\ tool'.staged = tool.staged \cup some
      BY <1>1, <2>5, <3>2, ToolTypes DEF WriteLexical
    <3> QED
      BY <1>2, <2>5, <3>1, <3>3 DEF WriteLexical
  <2>6. CASE WriteBackfill
    BY <1>1, <1>2, <2>6, ToolTypes DEF WriteBackfill, Running
  <2>7. CASE Finish \/ Killed
    <3>1. tool' = NoTool
      BY <1>1, <2>7, FinishIs DEF Killed
    <3> QED
      BY <3>1 DEF Running, NoTool
  <2> QED
    BY <2>1, <2>2, <2>3, <2>4, <2>5, <2>6, <2>7 DEF Tool
<1> QED
  BY <1>1, <1>3, <1>4, <1>5, <1>6 DEF NothingStrays

LEMMA StraysInvariant == ASSUME SqliteIsAlone PROVE Spec => []NothingStrays
<1>1. Init => NothingStrays
  <2> SUFFICES ASSUME Init PROVE NothingStrays
    OBVIOUS
  <2>1. PICK m \in Models, v \in Versions : \E chunks \in Layouts[v] :
           /\ live = {v} /\ db.rows = chunks /\ db.lexical = chunks
           /\ db.dense = [c \in Ids |-> IF c \in chunks THEN m ELSE None]
    BY DEF Init
  <2>2. /\ Embedded(db) \subseteq db.rows /\ db.rows \subseteq LiveChunks
        /\ db.lexical = db.rows
    BY <2>1, ChunksTyped DEF Embedded, LiveChunks
  <2> QED
    BY <2>2 DEF Init, NothingStrays, Running, NoTool
<1>2. Sound /\ Sound' /\ Orderly /\ NothingStrays /\ [Next]_vars => NothingStrays'
  <2>1. ASSUME NothingStrays, UNCHANGED vars \/ (\E m \in Models : ChangeModel(m))
        PROVE  NothingStrays'
    BY <2>1 DEF NothingStrays, vars, ChangeModel, LiveChunks, Running, Embedded, OnPostgres
  <2> QED
    BY <2>1, WorkerStrays, ToolStrays DEF Next
<1> QED
  BY <1>1, <1>2, SoundInvariant, OrderlyInvariant, PTL DEF Spec

\* A tool that computes from a batch it read before, and writes it after the
\* documents of it were deleted, brings nothing of them back: on PostgreSQL
\* because points and lexical rows are columns of rows that are gone, on
\* SQLite because the worker is stopped meanwhile.
THEOREM DeletedStaysGone == ASSUME SqliteIsAlone PROVE Spec => []GoneIsGone
<1>1. Sound /\ Orderly /\ NothingStrays => GoneIsGone
  <2> SUFFICES ASSUME Sound, Orderly, NothingStrays,
                      NEW d \in Documents, live \cap VersionsOf(d) = {},
                      NEW c \in ChunksOfDocument(d), c \in db.lexical \cup Embedded(db)
               PROVE  FALSE
    BY DEF GoneIsGone
  <2>1. c \in LiveChunks
    BY DEF Orderly, NothingStrays
  <2>2. PICK w \in live : c \in ChunksOf(w)
    BY <2>1 DEF LiveChunks
  <2>3. PICK v \in VersionsOf(d) : c \in ChunksOf(v)
    BY DEF ChunksOfDocument
  <2>4. v \in Versions /\ w \in Versions /\ v # w
    BY <2>2, <2>3 DEF Sound, TypeOK, VersionsOf
  <2> QED
    BY <2>2, <2>3, <2>4, LayoutAssumption
<1> QED
  BY <1>1, SoundInvariant, OrderlyInvariant, StraysInvariant, PTL

-----------------------------------------------------------------------------
(* The lexical index is the chunk table's.                                 *)

LEMMA LexicalCarried ==
    ASSUME LexicalProgress, LexicalKept, NothingStrays'
    PROVE  /\ "lexical" \notin owed => db'.lexical = db'.rows
           /\ tool.job = "reembed" /\ tool.after = 0 =>
                \A c \in db'.rows : c <= tool.last /\ c \notin tool.batch
                                      => c \in db'.lexical
           /\ tool.job = "lexical" =>
                \A c \in db'.rows : c <= tool.last /\ c \notin tool.batch
                                      => c \in db'.lexical \cup tool.staged
<1>1. /\ db'.lexical \subseteq db'.rows
      /\ \A c \in db'.rows : c \notin db'.lexical => c \in db.rows /\ c \notin db.lexical
  BY DEF NothingStrays, LexicalKept
<1> QED
  BY <1>1 DEF LexicalProgress, LexicalIsExact, PassedRows

LEMMA WorkerLexical ==
    ASSUME Sound, Orderly, LexicalProgress, NothingStrays',
           \/ \E v \in Versions : \E chunks \in Layouts[v] : Publish(v, chunks)
           \/ \E d \in Documents : Delete(d)
    PROVE  LexicalProgress'
<1>1. LexicalKept /\ UNCHANGED <<tool, owed, reported>>
  BY WorkerKeeps
<1>2. tool.job = "reembed" /\ tool.pc \in {"create", "empty"} => tool.last = 0
  BY DEF LexicalProgress
<1> QED
  BY <1>1, <1>2, LexicalCarried DEF LexicalProgress, LexicalIsExact, PassedRows

LEMMA ToolLexical ==
    ASSUME Sound, Orderly, LexicalProgress, NothingStrays, NothingStrays', Tool
    PROVE  LexicalProgress'
<1>1. /\ db'.rows = db.rows /\ db.rows \subseteq Ids /\ db \in Database
      /\ tool \in ToolState /\ Ids \subseteq Nat \ {0}
      /\ EmptyLexical \/ StartLexical \/ LexicalKept
      /\ db'.lexical \subseteq db'.rows
  BY ToolKeeps, ChunksTyped DEF Sound, TypeOK, Database, NothingStrays
<1>2. \A c \in db'.rows : ~(c <= 0)
  <2>1. \A c \in Ids : ~(c <= 0)
    BY <1>1
  <2> QED
    BY <1>1, <2>1
<1> DEFINE Carried ==
             /\ "lexical" \notin owed => db'.lexical = db'.rows
             /\ tool.job = "reembed" /\ tool.after = 0 =>
                  \A c \in db'.rows : c <= tool.last /\ c \notin tool.batch
                                        => c \in db'.lexical
             /\ tool.job = "lexical" =>
                  \A c \in db'.rows : c <= tool.last /\ c \notin tool.batch
                                        => c \in db'.lexical \cup tool.staged
<1>3. EmptyLexical \/ StartLexical \/ Carried
  BY <1>1, LexicalCarried
<1>4. tool.job = "reembed" /\ tool.pc \in {"create", "empty"} => tool.last = 0
  BY DEF LexicalProgress
<1>5. CASE StartReembed
  <2>1. /\ Carried /\ owed' = owed \cup {"dense", "rest"}
        /\ tool'.job = "reembed" /\ tool'.last = 0
    BY <1>3, <1>5 DEF StartReembed, Reembedding, Starting, EmptyLexical, StartLexical, Running
  <2> QED
    BY <1>2, <2>1 DEF LexicalProgress, LexicalIsExact, PassedRows
<1>6. CASE CreateCollection
  <2>1. /\ Carried /\ UNCHANGED owed /\ tool.job = "reembed"
        /\ tool.pc = "create" /\ tool' = [tool EXCEPT !.pc = "empty"]
    BY <1>3, <1>6 DEF CreateCollection, EmptyLexical, StartLexical, Starting, Running
  <2>2. /\ tool'.job = "reembed" /\ tool'.last = tool.last /\ tool'.batch = tool.batch
        /\ tool'.after = tool.after
    BY <1>1, <2>1, ToolTypes
  <2> QED
    BY <1>4, <2>1, <2>2 DEF LexicalProgress, LexicalIsExact, PassedRows
<1>7. CASE EmptyLexical
  <2>1. /\ tool.job = "reembed" /\ tool.pc = "empty"
        /\ "lexical" \in owed' /\ tool' = [tool EXCEPT !.pc = "read"]
    BY <1>7 DEF EmptyLexical
  <2>2. tool'.job = "reembed" /\ tool'.last = tool.last /\ tool'.pc = "read"
    BY <1>1, <2>1, ToolTypes
  <2> QED
    BY <1>2, <1>4, <2>1, <2>2 DEF LexicalProgress, LexicalIsExact, PassedRows
<1>8. ASSUME NEW after \in {0, ResumeAfter}, Resume(after) PROVE LexicalProgress'
  <2>1. /\ Carried /\ UNCHANGED owed /\ tool'.job = "reembed" /\ tool'.pc = "read"
        /\ tool'.last = after /\ tool'.after = after
    BY <1>3, <1>8 DEF Resume, Reembedding, EmptyLexical, StartLexical, Starting, Running
  <2> QED
    BY <1>2, <2>1 DEF LexicalProgress, LexicalIsExact, PassedRows
<1>9. CASE StartLexical
  <2>1. /\ "lexical" \in owed'
        /\ tool' = [job |-> "lexical", pc |-> "read", last |-> 0, batch |-> {},
                    staged |-> {}]
    BY <1>9 DEF StartLexical
  <2> QED
    BY <1>2, <2>1 DEF LexicalProgress, LexicalIsExact, PassedRows
<1>10. CASE StartBackfill \/ WriteBackfill \/ Killed
  <2>1. Carried /\ UNCHANGED owed
    <3>1. CASE StartBackfill \/ Killed
      <4>1. LexicalKept /\ UNCHANGED owed
        BY <3>1 DEF StartBackfill, Killed, LexicalKept
      <4> QED
        BY <4>1, LexicalCarried
    <3>2. CASE WriteBackfill
      BY <1>3, <3>2 DEF WriteBackfill, EmptyLexical, StartLexical, Starting, Running
    <3> QED
      BY <1>10, <3>1, <3>2
  <2>2. tool'.job \in {"backfill", "none"}
    <3>1. CASE StartBackfill \/ Killed
      BY <3>1 DEF StartBackfill, Killed, NoTool
    <3>2. CASE WriteBackfill
      BY <1>1, <3>2, ToolTypes DEF WriteBackfill
    <3> QED
      BY <1>10, <3>1, <3>2
  <2> QED
    BY <2>1, <2>2 DEF LexicalProgress, LexicalIsExact
<1>11. CASE ReadBatch
  <2> DEFINE batch == NextBatch(tool.last, db.rows)
             h == Highest(batch)
  <2>1. /\ Carried /\ UNCHANGED <<db, owed>>
        /\ tool.job \in {"reembed", "lexical"} /\ tool.pc = "read" /\ batch # {}
        /\ tool' = [tool EXCEPT !.pc = "write", !.batch = batch, !.last = h]
    BY <1>3, <1>11
       DEF ReadBatch, EmptyLexical, StartLexical, Starting, Running
  <2>2. tool.last \in Nat /\ tool.batch = {}
    BY <1>1, <2>1, ToolTypes DEF Running, Orderly, BatchIsForWriting
  <2>3. h \in Nat /\ \A c \in db.rows : tool.last < c /\ c <= h => c \in batch
    BY <1>1, <2>1, <2>2, BatchIs DEF Sound
  <2> HIDE DEF batch, h
  <2>4. /\ tool'.job = tool.job /\ tool'.last = h /\ tool'.batch = batch
        /\ tool'.pc = "write" /\ (tool.job = "reembed" => tool'.after = tool.after)
        /\ tool.job = "lexical" => tool'.staged = tool.staged
    BY <1>1, <2>1, ToolTypes
  <2>5. \A c \in db'.rows : c <= h /\ c \notin batch
                              => c <= tool.last /\ c \notin tool.batch
    <3> SUFFICES ASSUME NEW c \in db.rows, c <= h, c \notin batch PROVE c <= tool.last
      BY <1>1, <2>2
    <3>1. c \in Nat /\ ~(tool.last < c)
      BY <1>1, <2>3
    <3> QED
      BY <2>2, <3>1
  <2> QED
    BY <2>1, <2>4, <2>5 DEF LexicalProgress, LexicalIsExact, PassedRows
<1>12. CASE WriteReembed
  <2>1. /\ Carried /\ UNCHANGED owed /\ tool.job = "reembed"
        /\ tool' = [tool EXCEPT !.pc = "read", !.batch = {}]
    BY <1>3, <1>12 DEF WriteReembed, EmptyLexical, StartLexical, Starting, Running
  <2>2. /\ tool'.job = "reembed" /\ tool'.pc = "read"
        /\ tool'.last = tool.last /\ tool'.batch = {} /\ tool'.after = tool.after
    BY <1>1, <2>1, ToolTypes
  <2>3. tool.after = 0 => \A c \in db'.rows : c <= tool.last => c \in db'.lexical
    <3>1. \A c \in db'.rows : c \in tool.batch => c \in db'.lexical
      BY <1>1, <1>12, BatchWritten
    <3> QED
      BY <2>1, <3>1
  <2> QED
    BY <2>1, <2>2, <2>3 DEF LexicalProgress, LexicalIsExact, PassedRows
<1>13. CASE WriteLexical
  <2> DEFINE some == IF OnPostgres(db) THEN tool.batch \cap db.rows ELSE tool.batch
  <2>1. /\ Carried /\ UNCHANGED <<db, owed>> /\ tool.job = "lexical"
        /\ tool' = [tool EXCEPT !.pc = "read", !.batch = {}, !.staged = @ \cup some]
    BY <1>3, <1>13 DEF WriteLexical, EmptyLexical, StartLexical, Starting, Running
  <2>2. \A c \in db.rows : c \in tool.batch => c \in some
    OBVIOUS
  <2> HIDE DEF some
  <2>3. /\ tool'.job = "lexical" /\ tool'.last = tool.last /\ tool'.batch = {}
        /\ tool'.staged = tool.staged \cup some
    BY <1>1, <2>1, ToolTypes
  <2>4. \A c \in db'.rows : c <= tool.last => c \in db'.lexical \cup tool'.staged
    BY <1>1, <2>1, <2>2, <2>3
  <2> QED
    BY <2>1, <2>3, <2>4 DEF LexicalProgress, LexicalIsExact, PassedRows
<1>14. CASE Finish
  <2>1. tool'.job = "none" /\ Carried
    BY <1>1, <1>3, <1>14, FinishIs
       DEF EmptyLexical, StartLexical, Starting, Running, NoTool
  <2>2. CASE tool.job \in {"reembed", "lexical"}
    <3>1. NextBatch(tool.last, db.rows) = {} /\ tool.pc = "read"
      BY <1>1, <1>14, <2>2, FinishIs
    <3>2. tool.last \in Nat /\ tool.batch = {}
      BY <1>1, <2>2, <3>1, ToolTypes DEF Running, Orderly, BatchIsForWriting
    <3>3. \A c \in db'.rows : c <= tool.last /\ c \notin tool.batch
      BY <1>1, <3>1, <3>2, BatchIs DEF Sound
    <3>4. CASE tool.job = "reembed" /\ tool.after = 0
      <4>1. db'.lexical = db'.rows
        BY <1>1, <2>1, <3>3, <3>4
      <4> QED
        BY <2>1, <4>1 DEF LexicalProgress, LexicalIsExact
    <3>6. CASE tool.job = "reembed" /\ tool.after # 0
      <4>1. owed' = owed \ {"rest"}
        BY <1>1, <1>14, <3>6, FinishIs DEF Discharged
      <4> QED
        BY <2>1, <4>1 DEF LexicalProgress, LexicalIsExact
    <3>5. CASE tool.job = "lexical"
      <4>1. db' = UpsertLexical(db, tool.staged) /\ tool.staged \in SUBSET Ids
        BY <1>1, <1>14, <3>5, FinishIs, ToolTypes
      <4>2. db'.lexical = db.lexical \cup
               (IF OnPostgres(db) THEN tool.staged \cap db.rows ELSE tool.staged)
        BY <1>1, <4>1, LexicalStores
      <4>3. db'.rows \subseteq db'.lexical
        BY <1>1, <2>1, <3>3, <3>5, <4>2
      <4> QED
        BY <1>1, <2>1, <4>3 DEF LexicalProgress, LexicalIsExact
    <3> QED
      BY <2>2, <3>4, <3>5, <3>6
  <2>3. CASE tool.job = "backfill"
    <3>1. owed' = owed \ {"analyzed"}
      BY <1>1, <1>14, <2>3, FinishIs
    <3> QED
      BY <2>1, <3>1 DEF LexicalProgress, LexicalIsExact
  <2> QED
    BY <1>1, <1>14, <2>2, <2>3, FinishIs
<1> QED
  BY <1>5, <1>6, <1>7, <1>8, <1>9, <1>10, <1>11, <1>12, <1>13, <1>14 DEF Tool

LEMMA ModelLexical ==
    ASSUME Sound, LexicalProgress, NEW m \in Models, ChangeModel(m)
    PROVE  LexicalProgress'
  BY DEF ChangeModel, LexicalProgress, LexicalIsExact, PassedRows, Running

\* rebuild_lexical and the second half of a re-embedding: once one of them
\* has gone over the whole table since the lexical index was last emptied, the
\* index has exactly the rows of the table, although either tool may be killed
\* half way, a re-embedding be resumed anywhere, and the worker writes to both
\* all the while.
THEOREM LexicalMatchesTable == ASSUME SqliteIsAlone PROVE Spec => []LexicalIsExact
<1>1. Init => LexicalProgress
  <2> SUFFICES ASSUME Init PROVE LexicalProgress
    OBVIOUS
  <2>1. db.lexical = db.rows
    BY DEF Init
  <2> QED
    BY <2>1 DEF Init, LexicalProgress, LexicalIsExact, NoTool
<1>2. /\ Sound /\ Orderly /\ NothingStrays /\ NothingStrays' /\ LexicalProgress
      /\ [Next]_vars
      => LexicalProgress'
  <2>1. LexicalProgress /\ UNCHANGED vars => LexicalProgress'
    BY DEF LexicalProgress, LexicalIsExact, PassedRows, vars
  <2> QED
    BY <2>1, WorkerLexical, ToolLexical, ModelLexical DEF Next
<1>3. LexicalProgress => LexicalIsExact
  BY DEF LexicalProgress
<1> QED
  BY <1>1, <1>2, <1>3, SoundInvariant, OrderlyInvariant, StraysInvariant, PTL DEF Spec
=============================================================================
