--------------------------- MODULE SearchPipeline ---------------------------
(***************************************************************************)
(* RetrievalService.search of kbsvc/retrieval: the dense retriever, the    *)
(* lexical one, the fusion of their two rankings, the lookup of the stored *)
(* tokens and the reranking, each reading the database at a moment of its  *)
(* own, while documents are published, replaced and deleted.               *)
(*                                                                         *)
(* A version stands for its one chunk.  A query is what the retrievers and *)
(* rerankers make of it: how near it and its rewritten variants are to     *)
(* each chunk, and how well each chunk matches its terms.                  *)
(***************************************************************************)
EXTENDS Lists

CONSTANTS
    Chunks,       \* the ids of the chunks, one per version
    DocOf,        \* the document of each chunk
    Acl,          \* the tags of each chunk's document
    Words,        \* the words unicode61 makes of a tag ...
    AclWords,     \* ... and of the tags of a chunk, joined by blanks
    Heading,      \* the chunks under the heading a request may ask for
    Requests,     \* the requests callers make
    Kinds,        \* the deployments: "sqlite", "postgres"
    Overfetch, RrfK, Weights,  \* retrieval_overfetch, rrf_k, *_weight
    Scale,        \* of the fused scores: they are whole numbers
    Configured,   \* the rerankers settings may name
    MaxVariants,
    MaxWrites     \* bound: publishes and deletes in one behaviour

ASSUME SearchAssumption ==
    /\ Chunks \in SUBSET Nat /\ IsFiniteSet(Chunks)
    /\ Kinds \subseteq {"sqlite", "postgres"}
    /\ Overfetch \in Nat /\ RrfK \in Nat /\ MaxVariants \in Nat \ {0}
    /\ Weights \in [{"dense", "sparse"} -> Nat]
    /\ Configured \subseteq {"none", "lexical", "cross-encoder"}
    /\ MaxWrites \in Nat

\* 1 / (k + rank) is a multiple of 1 / Scale, whatever the rank.
ASSUME ScaleAssumption ==
    /\ Scale \in Nat \ {0}
    /\ \A rank \in 1 .. Cardinality(Chunks) : Scale % (RrfK + rank) = 0

\* words stands in column, one word right behind the other.
IsPhraseIn(words, column) ==
    /\ words # <<>>
    /\ \E k \in 0 .. Len(column) :
          \A i \in DOMAIN words : k + i \in DOMAIN column /\ column[k + i] = words[i]

\* A tag has a word, and its words stand together where the tags are joined.
ASSUME TagAssumption ==
    \A c \in Chunks : \A tag \in Acl[c] : IsPhraseIn(Words[tag], AclWords[c])

ASSUME RequestAssumption ==
    \A req \in Requests :
        /\ req.query.near \in Seq([Chunks -> Int])
        /\ \A scores \in {req.query.bm25, req.query.cover, req.query.sem} :
              scores \in [Chunks -> Int]
        /\ req.mode \in {"hybrid", "dense", "sparse"}
        /\ req.topK \in Nat \ {0}

VARIABLES
    kind,       \* the deployment
    live,       \* the chunks of the current versions, in all three tables
    config,     \* the configured reranker
    loaded,     \* the reranker of the process, once one is loaded
    search,     \* the search that is running
    always,     \* the chunks that have been in the index since it began ...
    ever,       \* ... and those that were at some moment since
    writes

vars == <<kind, live, config, loaded, search, always, ever, writes>>

Documents == {DocOf[c] : c \in Chunks}

Idle == [at |-> "idle"]

-----------------------------------------------------------------------------
(* Rankings.                                                               *)

\* sorted(hits, key = -score): equal scores keep their places.
ByScore(hits, score) == Arranged(hits, DOMAIN hits, score)

PositionIn(hits, id) == CHOOSE i \in DOMAIN hits : hits[i].id = id

Found(hits) == {hits[i].id : i \in DOMAIN hits}

-----------------------------------------------------------------------------
(* The request and its filter.                                             *)

\* rewrite: the query first, then what is left without its framing.
Variants(req) ==
    IF req.rewrite THEN Taken(req.query.near, MaxVariants)
                   ELSE Taken(req.query.near, 1)

Limit(req) == LET wide == req.topK * Overfetch IN
              IF wide > req.topK THEN wide ELSE req.topK

\* The conditions both stores evaluate themselves: tenant, document, source, kind.
InScope(req, c) == req.docs = {} \/ DocOf[c] \in req.docs

Readable(req, tags) == req.acl = {} \/ tags \cap req.acl # {}

\* Fts5LexicalStore has the tags of a chunk in one column of words, where a
\* tag of the request is looked for as a phrase.
FtsReadable(req, c) ==
    req.acl = {} \/ \E tag \in req.acl : IsPhraseIn(Words[tag], AclWords[c])

\* needs_exact_scan: any other dense query of PgVectorStore is left to the
\* HNSW index.
NeedsExactScan(req) == req.acl # {} \/ Cardinality(req.docs) > 1

\* SearchHit; payload is empty when the store had none to give.
Hit(c, score, payload) == [id |-> c, score |-> score, payload |-> payload]

-----------------------------------------------------------------------------
(* The four stores' search methods.                                        *)

Scored(S, score, n) ==
    LET ranked == Ranking(S, score) IN
    Taken([i \in DOMAIN ranked |-> Hit(ranked[i], score[ranked[i]], TRUE)], n)

\* SqliteVecStore.search_dense, the KNN statement: no tags in vec0.
VecNearest(db, req, near) ==
    Scored({c \in db : InScope(req, c)}, near, Limit(req))

\* ... and the payload statement, which sees a later database: a payload that
\* is gone is empty, and its tags default to public.
VecHits(db, req, nearest) ==
    LET Tags(h) == IF h.id \in db THEN Acl[h.id] ELSE {"public"}
        kept    == Those(nearest, {i \in DOMAIN nearest : Readable(req, Tags(nearest[i]))})
    IN [i \in DOMAIN kept |-> [kept[i] EXCEPT !.payload = kept[i].id \in db]]

\* PgVectorStore.search_dense, one statement, of which the index has seen these
\* chunks: it stops after ef_search candidates, and the WHERE comes after it.
PgNearest(seen, req, near) ==
    Scored({c \in seen : InScope(req, c) /\ Readable(req, Acl[c])}, near, Limit(req))

\* Mutant: no tags in the MATCH.
FtsHits_AnyTags(db, req) ==
    Scored({c \in db : InScope(req, c) /\ req.query.bm25[c] > 0},
           req.query.bm25, Limit(req))

\* Fts5LexicalStore.search: build_match puts every filter into the MATCH.
FtsHits(db, req) ==
    Scored({c \in db : /\ InScope(req, c) /\ FtsReadable(req, c)
                       /\ req.query.bm25[c] > 0}, req.query.bm25, Limit(req))

\* PgSearchLexicalStore.search: build_query does, too.
BodyHits(db, req) ==
    Scored({c \in db : /\ InScope(req, c) /\ Readable(req, Acl[c])
                       /\ req.query.bm25[c] > 0}, req.query.bm25, Limit(req))

-----------------------------------------------------------------------------
(* Merging, fusing, reranking.                                             *)

\* Mutant: the hits of the variants are put one behind the other.
BestOf_Appended(hits, more) == hits \o more

\* hits[hit.id] = hit, when the id is new or the score is better.
BestOf(hits, more) ==
    LET Better(h) ==
          LET again == more[PositionIn(more, h.id)] IN
          IF h.id \in Found(more) /\ again.score > h.score THEN again ELSE h
        new == {i \in DOMAIN more : more[i].id \notin Found(hits)}
    IN [i \in DOMAIN hits |-> Better(hits[i])] \o Those(more, new)

Dense(s) ==
    Taken(ByScore(s.dense, [i \in DOMAIN s.dense |-> s.dense[i].score]), Limit(s.req))

\* The weight of a retriever that is not asked is 0.
Weight(req, retriever) ==
    IF req.mode \in {"hybrid", retriever} THEN Weights[retriever] ELSE 0

\* Mutant: the farther down, the more.
Share_Rank(weight, hits, c) ==
    IF c \in Found(hits) THEN weight * (RrfK + PositionIn(hits, c)) ELSE 0

Share(weight, hits, c) ==
    IF c \in Found(hits) THEN weight * (Scale \div (RrfK + PositionIn(hits, c)))
                         ELSE 0

HasPayload(hits, c) == c \in Found(hits) /\ hits[PositionIn(hits, c)].payload

\* reciprocal_rank_fusion; equal scores are ordered by id.
Fused(req, dense, sparse) ==
    LET ds == IF Weight(req, "dense") = 0 THEN <<>> ELSE dense
        ss == IF Weight(req, "sparse") = 0 THEN <<>> ELSE sparse
        both   == Found(ds) \cup Found(ss)
        score  == [c \in both |-> Share(Weight(req, "dense"), ds, c)
                                     + Share(Weight(req, "sparse"), ss, c)]
        ranked == Ranking(both, score)
    IN Taken([i \in DOMAIN ranked |->
                 Hit(ranked[i], score[ranked[i]],
                     HasPayload(ds, ranked[i]) \/ HasPayload(ss, ranked[i]))],
             Limit(req))

\* _apply_heading_filter reads the payload of what is left after the fusion.
UnderHeading(req, hits) ==
    Those(hits, {i \in DOMAIN hits :
                    ~req.heading \/ (hits[i].payload /\ hits[i].id \in Heading)})

\* LexicalReranker.score: the stored tokens of a chunk are those of its text,
\* so they only matter where there is no text.
Lexical(req, tokens, h) ==
    IF h.payload \/ h.id \in tokens THEN req.query.cover[h.id] ELSE 0

\* What the three rerankers give a candidate.
RerankScore(reranker, req, tokens, h) ==
    CASE reranker = "none"          -> 0
      [] reranker = "lexical"       -> Lexical(req, tokens, h)
      [] reranker = "cross-encoder" -> IF h.payload THEN req.query.sem[h.id] ELSE 0

\* _rank_and_cite: by the reranker's score, then by the fusion's.
Ranked(s) ==
    LET wide  == 1 + Scale * (Weights["dense"] + Weights["sparse"])
        score == [i \in DOMAIN s.found |->
                    RerankScore(loaded, s.req, s.tokens, s.found[i]) * wide
                        + s.found[i].score]
    IN Taken(IF s.req.rerank THEN ByScore(s.found, score) ELSE s.found, s.req.topK)

-----------------------------------------------------------------------------
(* The search.                                                             *)

Init ==
    /\ kind \in Kinds
    /\ live \in SUBSET Chunks
    /\ \A c, d \in live : DocOf[c] = DocOf[d] => c = d
    /\ config \in Configured
    /\ loaded = "unset"
    /\ search = Idle
    /\ always = {} /\ ever = {}
    /\ writes = 0

\* What a step of the search leaves alone.
Outside == <<kind, live, config, always, ever, writes>>

AfterDense(s) == IF s.req.mode = "dense" THEN "fuse" ELSE "sparse"

\* search: a blank query is answered at once.
Begin(req) ==
    /\ search.at = "idle"
    /\ search' = [at |-> IF req.query.near = <<>> THEN "answered"
                         ELSE IF req.mode = "sparse" THEN "sparse" ELSE "dense",
                  req |-> req, variant |-> 1, nearest |-> <<>>, dense |-> <<>>,
                  sparse |-> <<>>, found |-> <<>>, tokens |-> {}, results |-> <<>>]
    /\ always' = live /\ ever' = live
    /\ UNCHANGED <<kind, live, config, loaded, writes>>

\* The dense search is done with one variant.
Merge(hits) ==
    LET s == [search EXCEPT !.dense = BestOf(@, hits), !.nearest = <<>>] IN
    search' = IF s.variant < Len(Variants(s.req))
                THEN [s EXCEPT !.variant = @ + 1, !.at = "dense"]
                ELSE [s EXCEPT !.at = AfterDense(s)]

\* One variant on PostgreSQL, and the first statement of one on SQLite.
SearchDense ==
    /\ search.at = "dense"
    /\ LET near == Variants(search.req)[search.variant] IN
       IF kind = "postgres"
         THEN \E seen \in SUBSET live :
                /\ NeedsExactScan(search.req) => seen = live
                /\ Merge(PgNearest(seen, search.req, near))
         ELSE search' = [search EXCEPT !.at = "payload",
                                       !.nearest = VecNearest(live, search.req, near)]
    /\ UNCHANGED <<Outside, loaded>>

\* The second: a connection in autocommit gives it a snapshot of its own.
ReadPayloads ==
    /\ search.at = "payload"
    /\ Merge(VecHits(live, search.req, search.nearest))
    /\ UNCHANGED <<Outside, loaded>>

SearchSparse ==
    /\ search.at = "sparse"
    /\ search' = [search EXCEPT
            !.at = "fuse",
            !.sparse = IF kind = "postgres" THEN BodyHits(live, search.req)
                                            ELSE FtsHits(live, search.req)]
    /\ UNCHANGED <<Outside, loaded>>

\* get_reranker: a cross-encoder that cannot be loaded is a lexical one from then on.
MayLoad ==
    IF loaded # "unset" THEN {loaded}
    ELSE IF config = "cross-encoder" THEN {"cross-encoder", "lexical"}
    ELSE {config}

\* Fusion and the heading filter, up to the moment the reranker is there.
Fuse ==
    /\ search.at = "fuse"
    /\ LET req   == search.req
           found == UnderHeading(req, Fused(req, Dense(search), search.sparse))
           asked == req.rerank /\ found # <<>>
       IN /\ loaded' \in IF asked THEN MayLoad ELSE {loaded}
          /\ search' = [search EXCEPT
                !.found = found,
                !.at = IF asked /\ loaded' = "lexical" THEN "tokens" ELSE "rank"]
    /\ UNCHANGED Outside

\* _stored_tokens: a failed lookup is no failed search.
LookUpTokens ==
    /\ search.at = "tokens"
    /\ \E fails \in BOOLEAN :
         search' = [search EXCEPT
            !.at = "rank",
            !.tokens = IF fails THEN {} ELSE Found(search.found) \cap live]
    /\ UNCHANGED <<Outside, loaded>>

RankAndCite ==
    /\ search.at = "rank"
    /\ search' = [search EXCEPT !.at = "answered", !.results = Ranked(search)]
    /\ UNCHANGED <<Outside, loaded>>

\* Mutant: a retriever that fails counts as one that found nothing.
RetrieverFails_Swallowed ==
    /\ search.at \in {"dense", "payload", "sparse"}
    /\ search' = [search EXCEPT !.at = IF @ = "sparse" THEN "fuse"
                                       ELSE AfterDense(search)]
    /\ UNCHANGED <<Outside, loaded>>

\* An embedder or a store that raises ends the whole search.
RetrieverFails ==
    /\ search.at \in {"dense", "payload", "sparse"}
    /\ search' = [search EXCEPT !.at = "failed"]
    /\ UNCHANGED <<Outside, loaded>>

\* The caller has its answer, or the error; the process keeps its reranker.
Return ==
    /\ search.at \in {"answered", "failed"}
    /\ search' = Idle
    /\ always' = {} /\ ever' = {}
    /\ UNCHANGED <<kind, live, config, loaded, writes>>

-----------------------------------------------------------------------------
(* The ingest worker writes all three tables in one transaction.           *)

Written(now) ==
    /\ writes < MaxWrites
    /\ live' = now
    /\ always' = always \cap now
    /\ ever' = IF search = Idle THEN ever ELSE ever \cup now
    /\ writes' = writes + 1
    /\ UNCHANGED <<kind, config, loaded, search>>

Publish(c) ==
    /\ c \notin live
    /\ Written({d \in live : DocOf[d] # DocOf[c]} \cup {c})

Delete(d) ==
    /\ \E c \in live : DocOf[c] = d
    /\ Written({c \in live : DocOf[c] # d})

Next ==
    \/ \E req \in Requests : Begin(req)
    \/ SearchDense \/ ReadPayloads \/ SearchSparse
    \/ Fuse \/ LookUpTokens \/ RankAndCite
    \/ RetrieverFails \/ Return
    \/ \E c \in Chunks : Publish(c)
    \/ \E d \in Documents : Delete(d)

Spec == Init /\ [][Next]_vars

-----------------------------------------------------------------------------
Answered == search.at = "answered"

Results == Found(search.results)

\* What the request allows, whatever the index holds.
Allowed(c) == InScope(search.req, c) /\ Readable(search.req, Acl[c])

\* The text of a chunk a retriever gives out: on SQLite the lexical one goes
\* by the words of the tags.
MayShow(c) ==
    /\ InScope(search.req, c)
    /\ IF kind = "sqlite" /\ search.req.mode # "dense"
         THEN FtsReadable(search.req, c) ELSE Readable(search.req, Acl[c])

\* The dense search misses no chunk before its limit: it scans exactly, and
\* where it drops chunks after the limit, the limit has room for all of them.
DenseSeesAll ==
    IF kind = "postgres" THEN NeedsExactScan(search.req)
    ELSE \/ search.req.acl = {}
         \/ Cardinality({c \in ever : InScope(search.req, c)}) <= Limit(search.req)

\* What the retrievers that are asked do find, up to their limits.
Findable(c) ==
    \/ Weight(search.req, "dense") > 0 /\ DenseSeesAll
    \/ Weight(search.req, "sparse") > 0 /\ search.req.query.bm25[c] > 0

\* The allowed chunks that an answer with room for them has.
Wanted == {c \in always : Allowed(c) /\ Findable(c)}

HitSet == [id : Chunks, score : Int, payload : BOOLEAN]

Searches ==
    [at : {"dense", "payload", "sparse", "fuse", "tokens", "rank", "answered", "failed"},
     req : Requests, variant : Nat \ {0}, nearest : Seq(HitSet), dense : Seq(HitSet),
     sparse : Seq(HitSet), found : Seq(HitSet), tokens : SUBSET Chunks,
     results : Seq(HitSet)]

\* A list of hits has no chunk twice.
IsRanking(hits) ==
    /\ hits \in Seq(HitSet)
    /\ \A i, j \in DOMAIN hits : hits[i].id = hits[j].id => i = j

\* Every variable has its type, and a ranking has no chunk twice.
TypeOK ==
    /\ kind \in Kinds /\ live \subseteq Chunks /\ config \in Configured
    /\ loaded \in {"unset", "none", "lexical", "cross-encoder"}
    /\ always \subseteq live \cap ever /\ ever \subseteq Chunks
    /\ writes \in 0 .. MaxWrites
    /\ search \in {Idle} \cup Searches
    /\ search # Idle =>
         \A hits \in {search.nearest, search.dense, search.sparse, search.found,
                     search.results} : IsRanking(hits)

\* An answer shows only chunks that were in the index at some moment of the
\* search.  One that is shown with its text passes the filter of a store that
\* was asked, and only one that left the index during the search is shown
\* without it, though the retrievers, the payloads and the tokens were read at
\* different moments.
ResultsAreOfTheIndex ==
    Answered =>
        \A i \in DOMAIN search.results :
            LET r == search.results[i] IN
            /\ r.id \in ever
            /\ IF r.payload THEN MayShow(r.id) ELSE r.id \notin always

\* An answer has as many chunks as were asked for, or each allowed one that was
\* in the index throughout and that a retriever finds: no limit of a store or
\* of the fusion, filter behind it, failed retriever or late write leaves a
\* place empty.  The heading filter follows the fusion's limit, so it is left
\* out; so is a search by the HNSW index, and one by sqlite-vec with tags where
\* the limit has no room for what the tags then drop.
FullOrComplete ==
    (Answered /\ search.req.query.near # <<>> /\ ~search.req.heading)
      => Len(search.results) = search.req.topK \/ Wanted \subseteq Results

\* Two chunks that were in the index throughout, of which the one the caller
\* may see is nearer to the query in every variant and in the terms: without
\* reranking it is not shown behind the other, although each retriever ranks
\* on a scale of its own.  The HNSW index may miss either.
AgreedOrderIsKept ==
    (Answered /\ search.req.query.near # <<>> /\ ~search.req.rerank
       /\ (kind = "sqlite" \/ search.req.mode = "sparse" \/ NeedsExactScan(search.req))) =>
        \A i, j \in DOMAIN search.results :
            LET c == search.results[i].id
                d == search.results[j].id
                near == Variants(search.req)
            IN ({c, d} \subseteq always /\ Allowed(c)
                  /\ search.req.query.bm25[c] > search.req.query.bm25[d]
                  /\ \A v, w \in DOMAIN near : near[v][c] > near[w][d])
                => i < j

\* docs/01-architecture.md:70: tags are a filter of the indexes, never applied
\* afterwards, so that top_k is not eaten up.  Fails on SQLite, where the dense
\* search takes the nearest chunks first.
TagsAreNoPostFilter ==
    (Answered /\ search.req.query.near # <<>> /\ ~search.req.heading
       /\ kind = "sqlite" /\ Weight(search.req, "dense") > 0)
      => \/ Len(search.results) = search.req.topK
         \/ {c \in always : Allowed(c)} \subseteq Results

\* lexical/fts5_store.py:38-40: a phrase of a value's words is what equality
\* with it means.  Fails for tags, of which the column holds several: the words
\* of one may be part of another's.
TagsAreMatchedExactly ==
    Answered =>
        \A i \in DOMAIN search.results :
            search.results[i].payload => Allowed(search.results[i].id)

\* docs/03-api.md:241: each result names its document and its place.  Fails on
\* SQLite for a chunk replaced between the two statements of the dense search.
EveryResultIsCited ==
    Answered => \A i \in DOMAIN search.results : search.results[i].payload
=============================================================================
