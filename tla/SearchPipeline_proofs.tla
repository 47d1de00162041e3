------------------------ MODULE SearchPipeline_proofs ------------------------
(***************************************************************************)
(* Theorems about SearchPipeline for every set of chunks and requests, all *)
(* weights and limits, and any number of writes between the steps of a     *)
(* search: what an answer may show, what it may not leave out, and the     *)
(* order it keeps.                                                         *)
(***************************************************************************)
EXTENDS SearchPipeline, OrderedIds_proofs

-----------------------------------------------------------------------------
(* The inductive invariants.                                               *)

Underway == search.at # "idle"

\* A search is where its request and its deployment can have brought it.
Staged ==
    Underway =>
        /\ live \subseteq ever
        /\ search.at \in {"dense", "payload"} =>
             /\ search.req.mode # "sparse"
             /\ search.variant \in 1 .. Len(Variants(search.req))
        /\ search.at = "payload" => kind # "postgres"
        /\ search.at = "sparse" => search.req.mode # "dense"
        /\ search.at \in {"tokens", "rank"} /\ search.req.rerank /\ search.found # <<>> =>
             loaded # "unset"

\* A hit is of the index and of the request, whichever store it is from and
\* whatever has been written since.
IsSound(h) ==
    /\ h.id \in ever
    /\ InScope(search.req, h.id)
    /\ IF h.payload THEN MayShow(h.id) ELSE h.id \notin always

AllSound(hits) == \A i \in DOMAIN hits : IsSound(hits[i])

\* The nearest chunks on SQLite, before their payloads are read.
AllInScope(hits) ==
    \A i \in DOMAIN hits : hits[i].id \in ever /\ InScope(search.req, hits[i].id)

HitsAreSound ==
    Underway =>
        /\ AllInScope(search.nearest)
        /\ AllSound(search.dense) /\ AllSound(search.sparse)
        /\ AllSound(search.found) /\ AllSound(search.results)

\* A search with a query, and without a filter behind the fusion.
Unfiltered ==
    Underway /\ search.req.query.near # <<>> /\ ~search.req.heading

\* A list has n places, or has all chunks of a set.
FullOr(hits, n, S) == Len(hits) >= n \/ S \subseteq Found(hits)

\* The dense search is done with one variant at least.
DenseIsSearched ==
    /\ search.req.mode # "sparse"
    /\ search.at \in {"dense", "payload", "sparse", "fuse"}
    /\ search.at \in {"dense", "payload"} => search.variant > 1

\* The chunks in the index throughout, those of the request, and those that match.
Lasting == {c \in always : InScope(search.req, c)}

Kept == {c \in always : Allowed(c)}

Matching == {c \in Kept : search.req.query.bm25[c] > 0}

\* No stage has lost one of them for less than a full list.
NoneIsLost ==
    Unfiltered =>
        /\ search.at = "payload" => FullOr(search.nearest, Limit(search.req), Lasting)
        /\ DenseSeesAll /\ DenseIsSearched => FullOr(search.dense, Limit(search.req), Kept)
        /\ search.req.mode # "dense" /\ search.at = "fuse" =>
             FullOr(search.sparse, Limit(search.req), Matching)
        /\ search.at \in {"tokens", "rank"} =>
             FullOr(search.found, Limit(search.req), Wanted)
        /\ Answered => /\ FullOr(search.results, search.req.topK, Wanted)
                       /\ Len(search.results) <= search.req.topK

\* c is nearer to the query than d, whichever variants are compared.
Nearer(c, d) ==
    \A v, w \in DOMAIN Variants(search.req) :
        Variants(search.req)[v][c] > Variants(search.req)[w][d]

Agreed(c, d) == search.req.query.bm25[c] > search.req.query.bm25[d] /\ Nearer(c, d)

\* c is in a list of hits when d is, and in front of it.
Before(hits, c, d) ==
    \A j \in DOMAIN hits : hits[j].id = d => \E i \in 1 .. j - 1 : hits[i].id = c

Together(hits, c, d) == d \in Found(hits) => c \in Found(hits)

\* The nearest chunks have the scores of their variant, and the nearer of two.
NearestAgree(hits, variant) ==
    /\ \A i \in DOMAIN hits : hits[i].score = Variants(search.req)[variant][hits[i].id]
    /\ \A c, d \in always : InScope(search.req, c) /\ Nearer(c, d) => Together(hits, c, d)

\* Each retriever that is asked ranks all it is asked for.
ListsDecide ==
    kind = "sqlite" \/ search.req.mode = "sparse" \/ NeedsExactScan(search.req)

\* A merged hit has the score of some variant, and the nearer of two chunks is
\* there when the other is, if it is wanted.
MergedAgree(hits) ==
    /\ \A i \in DOMAIN hits : \E v \in DOMAIN Variants(search.req) :
         hits[i].score = Variants(search.req)[v][hits[i].id]
    /\ ListsDecide => \A c \in Kept, d \in always : Nearer(c, d) => Together(hits, c, d)

\* The better match of two chunks is in front, if it is wanted.
MatchesAgree(hits) ==
    \A c \in Kept, d \in always :
        search.req.query.bm25[c] > search.req.query.bm25[d] => Before(hits, c, d)

\* Of two chunks of one list on which the retrievers agree, the better is first.
KeepsAgreed(hits) ==
    ListsDecide =>
        \A i, j \in DOMAIN hits :
            (hits[i].id \in Kept /\ hits[j].id \in always
               /\ Agreed(hits[i].id, hits[j].id)) => i < j

\* Each list has the better one of two chunks in front, or has it at least
\* where the scores still decide.
AllAgree ==
    Underway =>
        /\ search.at = "payload" => NearestAgree(search.nearest, search.variant)
        /\ MergedAgree(search.dense)
        /\ MatchesAgree(search.sparse)
        /\ KeepsAgreed(search.found)
        /\ search.req.rerank \/ KeepsAgreed(search.results)

-----------------------------------------------------------------------------
(* Rankings.                                                               *)

\* A ranking is a sequence of hits.
LEMMA RankingIsSeq ==
    ASSUME NEW hits, IsRanking(hits)
    PROVE  /\ hits \in Seq(HitSet)
           /\ Len(hits) \in Nat /\ DOMAIN hits = 1 .. Len(hits)
           /\ \A i \in DOMAIN hits : hits[i] \in HitSet
<1>1. hits \in Seq(HitSet)
  BY DEF IsRanking
<1>2. Len(hits) \in Nat /\ DOMAIN hits = 1 .. Len(hits)
  BY <1>1, LenProperties
<1>3. \A i \in 1 .. Len(hits) : hits[i] \in HitSet
  BY <1>1, ElementOfSeq
<1> QED
  BY <1>1, <1>2, <1>3

\* A ranking has as many places as chunks.
LEMMA LenIsCount ==
    ASSUME NEW hits, IsRanking(hits)
    PROVE  /\ Len(hits) \in Nat /\ DOMAIN hits = 1 .. Len(hits)
           /\ Found(hits) \subseteq Chunks
           /\ IsFiniteSet(Found(hits)) /\ Cardinality(Found(hits)) = Len(hits)
<1> DEFINE f == [i \in 1 .. Len(hits) |-> hits[i].id]
<1>1. /\ Len(hits) \in Nat /\ DOMAIN hits = 1 .. Len(hits)
      /\ \A i \in 1 .. Len(hits) : hits[i] \in HitSet
  BY RankingIsSeq
<1>2. Found(hits) \subseteq Chunks
  BY <1>1 DEF Found, HitSet
<1>3. f \in Bijection(1 .. Len(hits), Found(hits))
  <2>1. f \in [1 .. Len(hits) -> Found(hits)]
    BY <1>1 DEF Found
  <2>2. \A i, j \in 1 .. Len(hits) : f[i] = f[j] => i = j
    BY <1>1 DEF IsRanking
  <2>3. \A c \in Found(hits) : \E i \in 1 .. Len(hits) : f[i] = c
    BY <1>1 DEF Found
  <2> HIDE DEF f
  <2>4. f \in Injection(1 .. Len(hits), Found(hits))
    BY <2>1, <2>2 DEF Injection, IsInjective
  <2>5. f \in Surjection(1 .. Len(hits), Found(hits))
    BY <2>1, <2>3 DEF Surjection
  <2> QED
    BY <2>4, <2>5 DEF Bijection
<1>4. IsFiniteSet(1 .. Len(hits)) /\ Cardinality(1 .. Len(hits)) = Len(hits)
  BY <1>1, FS_Interval
<1>5. IsFiniteSet(Found(hits)) /\ Cardinality(Found(hits)) = Len(hits)
  BY <1>3, <1>4, FS_Bijection DEF ExistsBijection
<1> QED
  BY <1>1, <1>2, <1>5

\* A list that is full, or has all that one has which is full or has a set.
LEMMA FullOrOn ==
    ASSUME NEW hits, IsRanking(hits), NEW more, IsRanking(more), NEW n \in Nat, NEW m \in Nat,
           m <= n, NEW S, FullOr(hits, n, S), FullOr(more, m, Found(hits))
    PROVE  FullOr(more, m, S)
<1>1. /\ Len(hits) \in Nat /\ Len(more) \in Nat
      /\ IsFiniteSet(Found(more))
      /\ Cardinality(Found(hits)) = Len(hits) /\ Cardinality(Found(more)) = Len(more)
  BY LenIsCount
<1>2. CASE Len(more) >= m
  BY <1>2 DEF FullOr
<1>3. CASE Found(hits) \subseteq Found(more)
  <2>1. Len(hits) <= Len(more)
    BY <1>1, <1>3, FS_Subset
  <2> QED
    BY <1>1, <1>3, <2>1 DEF FullOr
<1> QED
  BY <1>2, <1>3 DEF FullOr

\* Places of the hits put in some order: the same hits, each once, and a place
\* that precedes another is still in front of it.
LEMMA ArrangedKeeps ==
    ASSUME NEW hits, IsRanking(hits), NEW places \in SUBSET DOMAIN hits,
           NEW score, \A i \in places : score[i] \in Int
    PROVE  LET a == Arranged(hits, places, score) IN
           /\ IsRanking(a)
           /\ \A i \in DOMAIN a : \E k \in places : a[i] = hits[k]
           /\ \A k \in places : \E i \in DOMAIN a : a[i] = hits[k]
           /\ \A i, j \in DOMAIN a, k, l \in places :
                 (a[i].id = hits[k].id /\ a[j].id = hits[l].id /\ Precedes(score, k, l)) => i < j
<1> DEFINE a == Arranged(hits, places, score)
           n == Cardinality(places)
           R == Ranking(places, score)
<1>1. /\ Len(hits) \in Nat /\ DOMAIN hits = 1 .. Len(hits)
      /\ \A i \in DOMAIN hits : hits[i] \in HitSet
  BY RankingIsSeq
<1>2. places \in SUBSET Int /\ IsFiniteSet(places)
  <2>1. IsFiniteSet(DOMAIN hits) /\ DOMAIN hits \subseteq Int
    BY <1>1, FS_Interval
  <2> QED
    BY <2>1, FS_Subset
<1>3. /\ n \in Nat
      /\ R \in [1 .. n -> places]
      /\ \A x \in places : \E i \in 1 .. n : R[i] = x
      /\ \A i, j \in 1 .. n : i < j => Precedes(score, R[i], R[j])
  BY <1>2, RankingOrders
<1>4. a = [i \in 1 .. n |-> hits[R[i]]]
  <2>1. DOMAIN R = 1 .. n
    BY <1>3
  <2>2. a = [i \in DOMAIN R |-> hits[R[i]]]
    BY DEF Arranged
  <2> HIDE DEF a, R, n
  <2> QED
    BY <2>1, <2>2
<1> HIDE DEF a, n, R
<1>5. a \in [1 .. n -> HitSet] /\ \A i \in 1 .. n : a[i] = hits[R[i]] /\ R[i] \in DOMAIN hits
  BY <1>1, <1>3, <1>4
<1>6. a \in Seq(HitSet) /\ DOMAIN a = 1 .. n
  BY <1>3, <1>5, FunctionIsSeq
<1>7. \A i, j \in 1 .. n : R[i] = R[j] => i = j
  <2> SUFFICES ASSUME NEW i \in 1 .. n, NEW j \in 1 .. n, i < j PROVE R[i] # R[j]
    <3>1. \A i, j \in 1 .. n : i # j => i < j \/ j < i
      BY <1>3
    <3> QED
      BY <3>1
  <2>1. Precedes(score, R[i], R[j]) /\ R[j] \in places
    BY <1>3
  <2> QED
    BY <1>2, <2>1, PrecedesIsTotal
<1>8. \A k, l \in DOMAIN hits : hits[k].id = hits[l].id => k = l
  BY DEF IsRanking
<1>9. IsRanking(a)
  <2>1. \A i, j \in DOMAIN a : a[i].id = a[j].id => i = j
    BY <1>5, <1>6, <1>7, <1>8
  <2> QED
    BY <1>6, <2>1 DEF IsRanking
<1>10. \A i, j \in DOMAIN a, k, l \in places :
          (a[i].id = hits[k].id /\ a[j].id = hits[l].id /\ Precedes(score, k, l)) => i < j
  <2> SUFFICES ASSUME NEW i \in 1 .. n, NEW j \in 1 .. n, NEW k \in places, NEW l \in places,
                      a[i].id = hits[k].id, a[j].id = hits[l].id, Precedes(score, k, l)
               PROVE  i < j
    BY <1>6
  <2>1. R[i] = k /\ R[j] = l
    BY <1>5, <1>8
  <2>2. ~Precedes(score, l, k) /\ k # l
    BY <1>2, PrecedesIsTotal
  <2>3. i # j /\ ~(j < i)
    BY <1>3, <2>1, <2>2
  <2> QED
    BY <1>3, <2>3
<1> QED
  BY <1>3, <1>5, <1>6, <1>9, <1>10 DEF a

\* The front of a ranking is one.
LEMMA FrontOfRanking ==
    ASSUME NEW hits, IsRanking(hits), NEW n \in Nat
    PROVE  LET t == Taken(hits, n) IN
           /\ IsRanking(t)
           /\ \A i \in DOMAIN t : i \in DOMAIN hits /\ t[i] = hits[i]
           /\ FullOr(t, n, Found(hits)) /\ Len(t) <= n
           /\ \A c, d : Before(hits, c, d) => Before(t, c, d)
<1> DEFINE t == Taken(hits, n)
<1>1. /\ hits \in Seq(HitSet) /\ Len(hits) \in Nat
      /\ Len(hits) = Cardinality(Found(hits)) /\ DOMAIN hits = 1 .. Len(hits)
  BY RankingIsSeq, LenIsCount
<1>2. /\ t \in Seq(HitSet)
      /\ \A i \in DOMAIN t : i \in DOMAIN hits /\ t[i] = hits[i]
      /\ Len(hits) <= n => t = hits
      /\ Len(t) = IF n < Len(hits) THEN n ELSE Len(hits)
      /\ \A j \in DOMAIN t, i \in DOMAIN hits : i < j => i \in DOMAIN t
  BY <1>1, TakenIsFront
<1> HIDE DEF t
<1>3. IsRanking(t)
  BY <1>2 DEF IsRanking
<1>4. \A c, d : Before(hits, c, d) => Before(t, c, d)
  <2> SUFFICES ASSUME NEW c, NEW d, Before(hits, c, d),
                      NEW j \in DOMAIN t, t[j].id = d
               PROVE  \E i \in 1 .. j - 1 : t[i].id = c
    BY DEF Before
  <2>1. PICK i \in 1 .. j - 1 : hits[i].id = c
    BY <1>2 DEF Before
  <2>2. i < j /\ i \in DOMAIN hits
    BY <1>1, <1>2
  <2> QED
    BY <1>2, <2>1, <2>2
<1>5. FullOr(t, n, Found(hits)) /\ Len(t) <= n
  <2>1. CASE n < Len(hits)
    BY <1>1, <1>2, <2>1 DEF FullOr
  <2>2. CASE ~(n < Len(hits))
    BY <1>1, <1>2, <2>2 DEF FullOr
  <2> QED
    BY <2>1, <2>2
<1> QED
  BY <1>2, <1>3, <1>4, <1>5 DEF t

\* Hits selected by their places keep their order.
LEMMA ThoseKeep ==
    ASSUME NEW hits, IsRanking(hits), NEW places \in SUBSET DOMAIN hits
    PROVE  LET a == Those(hits, places) IN
           /\ IsRanking(a)
           /\ \A i \in DOMAIN a : \E k \in places : a[i] = hits[k]
           /\ \A k \in places : \E i \in DOMAIN a : a[i] = hits[k]
           /\ \A i, j \in DOMAIN a, k, l \in places :
                 (a[i].id = hits[k].id /\ a[j].id = hits[l].id /\ k < l) => i < j
<1> DEFINE a == Those(hits, places)
<1>1. /\ hits \in Seq(HitSet) /\ DOMAIN hits = 1 .. Len(hits)
      /\ \A k, l \in DOMAIN hits : hits[k].id = hits[l].id => k = l
  BY RankingIsSeq DEF IsRanking
<1>2. a \in Seq(HitSet)
  BY <1>1, ThoseAre
<1>3. PICK at \in [DOMAIN a -> places] :
         /\ \A k \in DOMAIN a : a[k] = hits[at[k]]
         /\ \A i \in places : \E k \in DOMAIN a : at[k] = i
         /\ \A k, l \in DOMAIN a : k < l => at[k] < at[l]
  BY <1>1, ThoseAre
<1> HIDE DEF a
<1>4. /\ \A i \in DOMAIN a : at[i] \in places /\ at[i] \in DOMAIN hits /\ at[i] \in Nat /\ i \in Nat
      /\ \A i \in places : i \in DOMAIN hits
  BY <1>1, <1>2, <1>3, LenProperties
<1>5. ASSUME NEW i \in DOMAIN a, NEW j \in DOMAIN a, i # j PROVE at[i] # at[j]
  <2>1. i < j \/ j < i
    BY <1>4, <1>5
  <2> QED
    BY <1>3, <1>4, <2>1
<1>6. IsRanking(a)
  <2>1. ASSUME NEW i \in DOMAIN a, NEW j \in DOMAIN a, a[i].id = a[j].id PROVE i = j
    BY <1>1, <1>3, <1>4, <1>5, <2>1
  <2> QED
    BY <1>2, <2>1 DEF IsRanking
<1>7. \A i \in DOMAIN a : \E k \in places : a[i] = hits[k]
  BY <1>3, <1>4
<1>8. \A k \in places : \E i \in DOMAIN a : a[i] = hits[k]
  BY <1>3
<1>9. ASSUME NEW i \in DOMAIN a, NEW j \in DOMAIN a, NEW k \in places, NEW l \in places,
             a[i].id = hits[k].id, a[j].id = hits[l].id, k < l
      PROVE  i < j
  <2>1. at[i] = k /\ at[j] = l
    BY <1>1, <1>3, <1>4, <1>9
  <2>2. i # j /\ ~(j < i)
    BY <1>3, <1>4, <1>9, <2>1
  <2> QED
    BY <1>4, <2>2
<1>10. \A i, j \in DOMAIN a, k, l \in places :
          (a[i].id = hits[k].id /\ a[j].id = hits[l].id /\ k < l) => i < j
  BY <1>9
<1> QED
  BY <1>6, <1>7, <1>8, <1>10 DEF a

-----------------------------------------------------------------------------
(* What the stores answer.                                                 *)

\* A store answers with the best of the chunks its filter lets through: as
\* many as the limit allows, or all of them.
LEMMA ScoredHits ==
    ASSUME NEW S \in SUBSET Chunks, NEW score \in [Chunks -> Int], NEW n \in Nat
    PROVE  LET h == Scored(S, score, n) IN
           /\ IsRanking(h)
           /\ \A i \in DOMAIN h : /\ h[i].id \in S /\ h[i].payload = TRUE
                                  /\ h[i].score = score[h[i].id]
           /\ FullOr(h, n, S)
           /\ \A c, d \in S : score[c] > score[d] => Before(h, c, d)
<1> DEFINE R == Ranking(S, score)
           N == Cardinality(S)
           all == [i \in DOMAIN R |-> Hit(R[i], score[R[i]], TRUE)]
<1>0. Chunks \in SUBSET Int /\ IsFiniteSet(Chunks)
  BY SearchAssumption
<1>1. S \in SUBSET Int /\ IsFiniteSet(S) /\ \A x \in S : score[x] \in Int
  <2>1. IsFiniteSet(S)
    BY <1>0, FS_Subset
  <2> QED
    BY <1>0, <2>1
<1>2. /\ N \in Nat
      /\ R \in [1 .. N -> S]
      /\ \A x \in S : \E i \in 1 .. N : R[i] = x
      /\ \A i, j \in 1 .. N : i < j => Precedes(score, R[i], R[j])
  BY <1>1, RankingOrders
<1>3. DOMAIN R = 1 .. N
  BY <1>2
<1>4. Scored(S, score, n) = Taken(all, n)
  BY DEF Scored
<1> HIDE DEF R, N
<1>5. /\ all \in [1 .. N -> HitSet]
      /\ \A i \in 1 .. N : /\ all[i].id = R[i] /\ all[i].payload = TRUE
                           /\ all[i].score = score[R[i]]
  BY <1>1, <1>2, <1>3 DEF Hit, HitSet
<1> HIDE DEF all
<1>6. all \in Seq(HitSet) /\ DOMAIN all = 1 .. N
  BY <1>2, <1>5, FunctionIsSeq
<1>7. \A i, j \in 1 .. N : R[i] = R[j] => i = j
  <2>1. \A i, j \in 1 .. N : i < j => R[i] # R[j]
    BY <1>1, <1>2, PrecedesIsTotal
  <2>2. \A i, j \in 1 .. N : i # j => i < j \/ j < i
    BY <1>2
  <2> QED
    BY <2>1, <2>2
<1>8. IsRanking(all)
  BY <1>5, <1>6, <1>7 DEF IsRanking
<1>9. Found(all) = S
  BY <1>2, <1>5, <1>6 DEF Found
<1>10. ASSUME NEW c \in S, NEW d \in S, score[c] > score[d]
       PROVE  Before(all, c, d)
  <2> SUFFICES ASSUME NEW j \in 1 .. N, R[j] = d
               PROVE  \E i \in 1 .. j - 1 : all[i].id = c
    BY <1>5, <1>6 DEF Before
  <2>1. PICK i \in 1 .. N : R[i] = c
    BY <1>2
  <2>2. Precedes(score, c, d) /\ c # d
    BY <1>1, <1>10 DEF Precedes
  <2>3. ~Precedes(score, d, c)
    BY <1>1, <2>2, PrecedesIsTotal
  <2>4. i # j /\ ~(j < i)
    BY <1>2, <2>1, <2>2, <2>3
  <2>5. i \in 1 .. j - 1
    BY <1>2, <2>4
  <2> QED
    BY <1>5, <2>1, <2>5
<1>11. FullOr(Taken(all, n), n, S)
  BY <1>8, <1>9, FrontOfRanking
<1>12. /\ IsRanking(Taken(all, n))
       /\ \A i \in DOMAIN Taken(all, n) : i \in 1 .. N /\ Taken(all, n)[i] = all[i]
       /\ \A c, d : Before(all, c, d) => Before(Taken(all, n), c, d)
  BY <1>6, <1>8, FrontOfRanking
<1>13. \A i \in 1 .. N : R[i] \in S
  BY <1>2
<1> QED
  BY <1>4, <1>5, <1>10, <1>11, <1>12, <1>13

\* The second statement of SQLite's dense search drops what it finds
\* unreadable, and marks what it finds gone.
LEMMA PayloadsOf ==
    ASSUME NEW nearest, IsRanking(nearest), NEW db, NEW req
    PROVE  LET v == VecHits(db, req, nearest) IN
           /\ IsRanking(v)
           /\ \A i \in DOMAIN v :
                 /\ \E k \in DOMAIN nearest : v[i].id = nearest[k].id /\ v[i].score = nearest[k].score
                 /\ v[i].payload <=> v[i].id \in db
                 /\ v[i].id \in db => Readable(req, Acl[v[i].id])
           /\ \A k \in DOMAIN nearest :
                 (nearest[k].id \in db /\ Readable(req, Acl[nearest[k].id])) =>
                     nearest[k].id \in Found(v)
           /\ req.acl = {} => Found(nearest) \subseteq Found(v)
<1> DEFINE Tags(h) == IF h.id \in db THEN Acl[h.id] ELSE {"public"}
           places == {i \in DOMAIN nearest : Readable(req, Tags(nearest[i]))}
           kept == Those(nearest, places)
           v == VecHits(db, req, nearest)
<1>1. /\ IsRanking(kept)
      /\ \A i \in DOMAIN kept : \E k \in places : kept[i] = nearest[k]
      /\ \A k \in places : \E i \in DOMAIN kept : kept[i] = nearest[k]
  <2>1. places \in SUBSET DOMAIN nearest
    OBVIOUS
  <2> HIDE DEF places
  <2> QED
    BY <2>1, ThoseKeep
<1>2. v = [i \in DOMAIN kept |-> [kept[i] EXCEPT !.payload = kept[i].id \in db]]
  BY DEF VecHits
<1> HIDE DEF kept, v
<1>3. /\ Len(kept) \in Nat /\ DOMAIN kept = 1 .. Len(kept)
      /\ \A i \in DOMAIN kept : kept[i] \in HitSet
  BY <1>1, RankingIsSeq
<1>4. /\ v \in [1 .. Len(kept) -> HitSet]
      /\ \A i \in 1 .. Len(kept) :
            /\ v[i].id = kept[i].id /\ v[i].score = kept[i].score
            /\ v[i].payload <=> kept[i].id \in db
  <2>1. \A h \in HitSet, p \in BOOLEAN :
           /\ [h EXCEPT !.payload = p] \in HitSet
           /\ [h EXCEPT !.payload = p].id = h.id
           /\ [h EXCEPT !.payload = p].score = h.score
           /\ [h EXCEPT !.payload = p].payload = p
    BY DEF HitSet
  <2>2. /\ DOMAIN v = 1 .. Len(kept)
        /\ \A i \in 1 .. Len(kept) : v[i] = [kept[i] EXCEPT !.payload = kept[i].id \in db]
    BY <1>2, <1>3
  <2>3. \A i \in 1 .. Len(kept) :
           \E p \in BOOLEAN : /\ v[i] = [kept[i] EXCEPT !.payload = p]
                              /\ p <=> kept[i].id \in db
    <3> SUFFICES ASSUME NEW i \in 1 .. Len(kept)
                 PROVE  \E p \in BOOLEAN : /\ v[i] = [kept[i] EXCEPT !.payload = p]
                                           /\ p <=> kept[i].id \in db
      OBVIOUS
    <3>1. (kept[i].id \in db) \in BOOLEAN
      OBVIOUS
    <3>2. v[i] = [kept[i] EXCEPT !.payload = kept[i].id \in db]
      BY <2>2
    <3> QED
      BY <3>1, <3>2, Zenon
  <2>4. \A i \in 1 .. Len(kept) :
           /\ v[i] \in HitSet
           /\ v[i].id = kept[i].id /\ v[i].score = kept[i].score
           /\ v[i].payload <=> kept[i].id \in db
    <3> SUFFICES ASSUME NEW i \in 1 .. Len(kept)
                 PROVE  /\ v[i] \in HitSet
                        /\ v[i].id = kept[i].id /\ v[i].score = kept[i].score
                        /\ v[i].payload <=> kept[i].id \in db
      OBVIOUS
    <3>1. PICK p \in BOOLEAN : /\ v[i] = [kept[i] EXCEPT !.payload = p]
                               /\ p <=> kept[i].id \in db
      BY <2>3
    <3>2. kept[i] \in HitSet
      BY <1>3
    <3>3. v[i].payload = p
      BY <2>1, <3>1, <3>2
    <3> QED
      BY <2>1, <3>1, <3>2, <3>3
  <2>5. v \in [1 .. Len(kept) -> HitSet]
    <3>1. v = [i \in 1 .. Len(kept) |-> v[i]]
      BY <1>2, <2>2
    <3> QED
      BY <2>4, <3>1
  <2> QED
    BY <2>4, <2>5
<1>5. v \in Seq(HitSet) /\ DOMAIN v = 1 .. Len(kept)
  BY <1>3, <1>4, FunctionIsSeq
<1>6. IsRanking(v)
  BY <1>1, <1>3, <1>4, <1>5 DEF IsRanking
<1>7. \A i \in DOMAIN v :
        /\ \E k \in DOMAIN nearest : v[i].id = nearest[k].id /\ v[i].score = nearest[k].score
        /\ v[i].payload <=> v[i].id \in db
        /\ v[i].id \in db => Readable(req, Acl[v[i].id])
  BY <1>1, <1>3, <1>4, <1>5
<1>8. \A k \in DOMAIN nearest :
        (nearest[k].id \in db /\ Readable(req, Acl[nearest[k].id])) => nearest[k].id \in Found(v)
  <2> SUFFICES ASSUME NEW k \in DOMAIN nearest, nearest[k].id \in db,
                      Readable(req, Acl[nearest[k].id])
               PROVE  nearest[k].id \in Found(v)
    OBVIOUS
  <2>1. k \in places
    OBVIOUS
  <2>2. PICK i \in DOMAIN kept : kept[i] = nearest[k]
    BY <1>1, <2>1
  <2> QED
    BY <1>3, <1>4, <1>5, <2>2 DEF Found
<1>9. ASSUME req.acl = {} PROVE Found(nearest) \subseteq Found(v)
  <2>1. places = DOMAIN nearest
    BY <1>9 DEF Readable
  <2>2. \A k \in DOMAIN nearest : \E i \in DOMAIN v : v[i].id = nearest[k].id
    BY <1>1, <1>3, <1>4, <1>5, <2>1
  <2> QED
    BY <2>2 DEF Found
<1> QED
  BY <1>6, <1>7, <1>8, <1>9 DEF v

-----------------------------------------------------------------------------
(* Merging and fusing.                                                     *)

\* A chunk of a ranking has one place in it.
LEMMA PositionIsUnique ==
    ASSUME NEW hits, IsRanking(hits), NEW c \in Found(hits)
    PROVE  /\ PositionIn(hits, c) \in DOMAIN hits
           /\ hits[PositionIn(hits, c)].id = c
           /\ \A i \in DOMAIN hits : hits[i].id = c => i = PositionIn(hits, c)
<1>1. \E i \in DOMAIN hits : hits[i].id = c
  BY DEF Found
<1>2. PositionIn(hits, c) \in DOMAIN hits /\ hits[PositionIn(hits, c)].id = c
  BY <1>1 DEF PositionIn
<1> QED
  BY <1>2 DEF IsRanking

\* A variant's hits are merged into those before: each chunk once, with a
\* score it has in one of them.
LEMMA BestOfBoth ==
    ASSUME NEW hits, IsRanking(hits), NEW more, IsRanking(more)
    PROVE  LET b == BestOf(hits, more) IN
           /\ IsRanking(b)
           /\ \A i \in DOMAIN b : \/ \E k \in DOMAIN hits : b[i] = hits[k]
                                  \/ \E k \in DOMAIN more : b[i] = more[k]
           /\ Found(b) = Found(hits) \cup Found(more)
<1> DEFINE Better(h) ==
               LET again == more[PositionIn(more, h.id)] IN
               IF h.id \in Found(more) /\ again.score > h.score THEN again ELSE h
           new == {i \in DOMAIN more : more[i].id \notin Found(hits)}
           kept == [i \in DOMAIN hits |-> Better(hits[i])]
           rest == Those(more, new)
           b == BestOf(hits, more)
<1>1. b = kept \o rest
  BY DEF BestOf
<1>2. /\ Len(hits) \in Nat /\ DOMAIN hits = 1 .. Len(hits)
      /\ \A i \in DOMAIN hits : hits[i] \in HitSet
      /\ \A i \in DOMAIN more : more[i] \in HitSet
  BY RankingIsSeq
<1>3. \A i \in DOMAIN hits :
         /\ kept[i] \in HitSet /\ kept[i].id = hits[i].id
         /\ kept[i] = hits[i] \/ \E k \in DOMAIN more : kept[i] = more[k]
  <2> SUFFICES ASSUME NEW i \in DOMAIN hits
               PROVE  /\ kept[i] \in HitSet /\ kept[i].id = hits[i].id
                      /\ kept[i] = hits[i] \/ \E k \in DOMAIN more : kept[i] = more[k]
    OBVIOUS
  <2>1. hits[i].id \in Found(more) =>
          /\ PositionIn(more, hits[i].id) \in DOMAIN more
          /\ more[PositionIn(more, hits[i].id)].id = hits[i].id
    BY PositionIsUnique
  <2>2. \/ kept[i] = hits[i]
        \/ /\ hits[i].id \in Found(more)
           /\ kept[i] = more[PositionIn(more, hits[i].id)]
    OBVIOUS
  <2> HIDE DEF kept
  <2> QED
    BY <1>2, <2>1, <2>2
<1>4. /\ IsRanking(rest)
      /\ \A i \in DOMAIN rest : \E k \in new : rest[i] = more[k]
      /\ \A k \in new : \E i \in DOMAIN rest : rest[i] = more[k]
  <2>1. new \in SUBSET DOMAIN more
    OBVIOUS
  <2> HIDE DEF new
  <2> QED
    BY <2>1, ThoseKeep
<1>5. kept \in [1 .. Len(hits) -> HitSet]
  <2>1. kept = [i \in 1 .. Len(hits) |-> kept[i]]
    BY <1>2
  <2> HIDE DEF kept
  <2> QED
    BY <1>2, <1>3, <2>1
<1>6. \A k \in new : k \in DOMAIN more /\ more[k].id \notin Found(hits)
  OBVIOUS
<1>7. \A k \in DOMAIN more : more[k].id \in Found(hits) \/ k \in new
  OBVIOUS
<1> HIDE DEF b, kept, rest, new
<1>8. kept \in Seq(HitSet) /\ Len(kept) = Len(hits) /\ DOMAIN kept = 1 .. Len(hits)
  BY <1>2, <1>5, FunctionIsSeq
<1>9. /\ rest \in Seq(HitSet) /\ Len(rest) \in Nat /\ DOMAIN rest = 1 .. Len(rest)
  BY <1>4, RankingIsSeq
<1>10. /\ b \in Seq(HitSet) /\ DOMAIN b = 1 .. Len(hits) + Len(rest)
       /\ \A i \in 1 .. Len(hits) + Len(rest) :
             b[i] = IF i <= Len(hits) THEN kept[i] ELSE rest[i - Len(hits)]
  <2>1. /\ kept \o rest \in Seq(HitSet) /\ Len(kept \o rest) = Len(hits) + Len(rest)
        /\ \A i \in 1 .. Len(hits) + Len(rest) :
              (kept \o rest)[i] = IF i <= Len(hits) THEN kept[i] ELSE rest[i - Len(hits)]
    <3>1. /\ kept \o rest \in Seq(HitSet) /\ Len(kept \o rest) = Len(kept) + Len(rest)
          /\ \A i \in 1 .. Len(kept) + Len(rest) :
                (kept \o rest)[i] = IF i <= Len(kept) THEN kept[i] ELSE rest[i - Len(kept)]
      BY ONLY <1>8, <1>9, ConcatProperties
    <3>2. Len(kept) = Len(hits)
      BY <1>8
    <3> QED
      BY ONLY <3>1, <3>2
  <2> QED
    BY <1>1, <2>1, LenProperties
<1>11. \A i \in DOMAIN hits : i \in DOMAIN b /\ b[i] = kept[i]
  BY <1>2, <1>9, <1>10
<1>12. \A i \in DOMAIN rest : i + Len(hits) \in DOMAIN b /\ b[i + Len(hits)] = rest[i]
  <2> SUFFICES ASSUME NEW i \in 1 .. Len(rest)
               PROVE  i + Len(hits) \in DOMAIN b /\ b[i + Len(hits)] = rest[i]
    BY <1>9
  <2>1. /\ i + Len(hits) \in 1 .. Len(hits) + Len(rest)
        /\ ~(i + Len(hits) <= Len(hits)) /\ i + Len(hits) - Len(hits) = i
    BY <1>2, <1>9
  <2> QED
    BY <1>10, <2>1
<1>13. \A j \in DOMAIN b : \/ j \in DOMAIN hits /\ b[j] = kept[j]
                           \/ /\ j - Len(hits) \in DOMAIN rest
                              /\ b[j] = rest[j - Len(hits)] /\ j \notin DOMAIN hits
  <2> SUFFICES ASSUME NEW j \in 1 .. Len(hits) + Len(rest)
               PROVE  \/ j \in DOMAIN hits /\ b[j] = kept[j]
                      \/ /\ j - Len(hits) \in DOMAIN rest
                         /\ b[j] = rest[j - Len(hits)] /\ j \notin DOMAIN hits
    BY <1>10
  <2>1. CASE j <= Len(hits)
    BY <1>2, <1>9, <1>10, <2>1
  <2>2. CASE ~(j <= Len(hits))
    <3>1. j - Len(hits) \in 1 .. Len(rest) /\ j \notin 1 .. Len(hits)
      BY <1>2, <1>9, <2>2
    <3> QED
      BY <1>2, <1>9, <1>10, <2>2, <3>1
  <2> QED
    BY <2>1, <2>2
<1>14. \A i \in DOMAIN b : \/ \E k \in DOMAIN hits : b[i] = hits[k]
                           \/ \E k \in DOMAIN more : b[i] = more[k]
  BY <1>3, <1>4, <1>6, <1>13
<1>15. \A i \in DOMAIN rest : rest[i].id \notin Found(hits)
  BY <1>4, <1>6
<1>16. \A i, j \in DOMAIN b : b[i].id = b[j].id => i = j
  <2> SUFFICES ASSUME NEW i \in DOMAIN b, NEW j \in DOMAIN b, b[i].id = b[j].id
               PROVE  i = j
    OBVIOUS
  <2>1. CASE i \in DOMAIN hits /\ j \in DOMAIN hits
    <3>1. hits[i].id = hits[j].id
      BY <1>3, <1>11, <2>1
    <3>2. \A k, l \in DOMAIN hits : hits[k].id = hits[l].id => k = l
      BY DEF IsRanking
    <3> QED
      BY <2>1, <3>1, <3>2
  <2>2. CASE i \in DOMAIN hits /\ j \notin DOMAIN hits
    BY <1>3, <1>13, <1>15, <2>2 DEF Found
  <2>3. CASE i \notin DOMAIN hits /\ j \in DOMAIN hits
    BY <1>3, <1>13, <1>15, <2>3 DEF Found
  <2>4. CASE i \notin DOMAIN hits /\ j \notin DOMAIN hits
    <3>1. /\ i - Len(hits) \in DOMAIN rest /\ b[i] = rest[i - Len(hits)]
          /\ j - Len(hits) \in DOMAIN rest /\ b[j] = rest[j - Len(hits)]
      BY <1>13, <2>4
    <3>2. i - Len(hits) = j - Len(hits)
      BY <1>4, <3>1 DEF IsRanking
    <3> QED
      BY <1>2, <1>9, <1>10, <3>2
  <2> QED
    BY <2>1, <2>2, <2>3, <2>4
<1>17. Found(b) = Found(hits) \cup Found(more)
  <2>1. Found(b) \subseteq Found(hits) \cup Found(more)
    BY <1>14 DEF Found
  <2>2. Found(hits) \subseteq Found(b)
    BY <1>3, <1>11 DEF Found
  <2>3. \A k \in new : more[k].id \in Found(b)
    BY <1>4, <1>12 DEF Found
  <2>4. Found(more) \subseteq Found(b)
    BY <1>7, <2>2, <2>3 DEF Found
  <2> QED
    BY <2>1, <2>2, <2>4
<1>18. IsRanking(b)
  BY <1>10, <1>16 DEF IsRanking
<1> QED
  BY <1>14, <1>17, <1>18 DEF b

\* A search looks at as many chunks as it will show, or more.
LEMMA LimitIsEnough ==
    ASSUME NEW req \in Requests
    PROVE  Limit(req) \in Nat /\ req.topK <= Limit(req) /\ req.topK \in Nat
<1>1. req.topK \in Nat /\ Overfetch \in Nat
  BY RequestAssumption, SearchAssumption
<1>2. req.topK * Overfetch \in Nat
  BY <1>1
<1> QED
  BY <1>1, <1>2 DEF Limit

\* The dense retriever's answer: what the variants have found, the better
\* score in front.
LEMMA DenseList ==
    ASSUME NEW s, s.req \in Requests, IsRanking(s.dense)
    PROVE  /\ IsRanking(Dense(s))
           /\ \A i \in DOMAIN Dense(s) : \E k \in DOMAIN s.dense : Dense(s)[i] = s.dense[k]
           /\ FullOr(Dense(s), Limit(s.req), Found(s.dense))
           /\ \A k, l \in DOMAIN s.dense : s.dense[k].score > s.dense[l].score =>
                 Before(Dense(s), s.dense[k].id, s.dense[l].id)
<1> DEFINE hits == s.dense
           score == [i \in DOMAIN hits |-> hits[i].score]
           a == Arranged(hits, DOMAIN hits, score)
<1>1. /\ Len(hits) \in Nat /\ DOMAIN hits = 1 .. Len(hits)
      /\ \A i \in DOMAIN hits : hits[i] \in HitSet
  BY RankingIsSeq
<1>2. \A i \in DOMAIN hits : score[i] \in Int
  BY <1>1 DEF HitSet
<1>3. Dense(s) = Taken(a, Limit(s.req))
  BY DEF Dense, ByScore
<1>4. \A k, l \in DOMAIN hits : hits[k].score > hits[l].score => Precedes(score, k, l)
  BY DEF Precedes
<1> HIDE DEF score
<1>5. /\ IsRanking(a)
      /\ \A i \in DOMAIN a : \E k \in DOMAIN hits : a[i] = hits[k]
      /\ \A k \in DOMAIN hits : \E i \in DOMAIN a : a[i] = hits[k]
      /\ \A i, j \in DOMAIN a, k, l \in DOMAIN hits :
            (a[i].id = hits[k].id /\ a[j].id = hits[l].id /\ Precedes(score, k, l)) => i < j
  BY <1>2, ArrangedKeeps
<1> HIDE DEF a, hits
<1>6. Found(a) = Found(hits)
  BY <1>5 DEF Found
<1>7. Limit(s.req) \in Nat
  BY LimitIsEnough
<1>8. ASSUME NEW k \in DOMAIN hits, NEW l \in DOMAIN hits, hits[k].score > hits[l].score
      PROVE  Before(a, hits[k].id, hits[l].id)
  <2> SUFFICES ASSUME NEW j \in DOMAIN a, a[j].id = hits[l].id
               PROVE  \E i \in 1 .. j - 1 : a[i].id = hits[k].id
    BY DEF Before
  <2>1. PICK i \in DOMAIN a : a[i] = hits[k]
    BY <1>5
  <2>2. i < j
    BY <1>4, <1>5, <1>8, <2>1
  <2>3. DOMAIN a = 1 .. Len(a) /\ Len(a) \in Nat
    BY <1>5, RankingIsSeq
  <2>4. i \in 1 .. j - 1
    BY <2>2, <2>3
  <2> QED
    BY <2>1, <2>4
<1>9. LET t == Taken(a, Limit(s.req)) IN
      /\ IsRanking(t)
      /\ \A i \in DOMAIN t : i \in DOMAIN a /\ t[i] = a[i]
      /\ FullOr(t, Limit(s.req), Found(a))
      /\ \A c, d : Before(a, c, d) => Before(t, c, d)
  BY <1>5, <1>7, FrontOfRanking
<1> QED
  BY <1>3, <1>5, <1>6, <1>8, <1>9 DEF hits

\* Of two ranks the better one has the greater share of Scale.
LEMMA SharesDecrease ==
    ASSUME NEW p \in 1 .. Cardinality(Chunks), NEW q \in 1 .. Cardinality(Chunks), p < q
    PROVE  Scale \div (RrfK + p) > Scale \div (RrfK + q)
<1> DEFINE m == RrfK + p
           n == RrfK + q
           a == Scale \div m
           b == Scale \div n
<1>1. Cardinality(Chunks) \in Nat
  BY SearchAssumption, FS_CardinalityType
<1>2. m \in Nat \ {0} /\ n \in Nat \ {0} /\ m < n
  BY <1>1, SearchAssumption
<1>3. Scale \in Nat \ {0} /\ Scale % m = 0 /\ Scale % n = 0
  BY ScaleAssumption
<1> HIDE DEF m, n
<1>4. \A x \in Nat \ {0} : Scale % x = 0 =>
         Scale \div x \in Nat /\ x * (Scale \div x) = Scale
  <2> SUFFICES ASSUME NEW x \in Nat \ {0}, Scale % x = 0
               PROVE  Scale \div x \in Nat /\ x * (Scale \div x) = Scale
    OBVIOUS
  <2>1. Scale = x * (Scale \div x) + (Scale % x) /\ Scale \div x \in Nat
    BY <1>3
  <2> QED
    BY <1>3, <2>1
<1>5. /\ a \in Nat /\ m * a = Scale
      /\ b \in Nat /\ n * b = Scale
  BY <1>2, <1>3, <1>4
<1> HIDE DEF a, b
<1>6. b # 0
  BY <1>2, <1>3, <1>5
<1>7. ~(a <= b)
  <2> SUFFICES ASSUME a <= b PROVE FALSE
    OBVIOUS
  <2>1. m * a <= m * b
    BY <1>2, <1>5
  <2>2. m * b < n * b
    <3>1. n * b = m * b + (n - m) * b /\ (n - m) * b >= 1
      BY <1>2, <1>5, <1>6
    <3> QED
      BY <1>2, <1>5, <3>1
  <2> QED
    BY <1>2, <1>5, <2>1, <2>2
<1> QED
  BY <1>5, <1>7 DEF a, b, m, n

\* What a ranking adds to the score of a chunk: more to one in front of another.
LEMMA SharesOf ==
    ASSUME NEW weight \in Nat, NEW hits, IsRanking(hits)
    PROVE  /\ \A c : Share(weight, hits, c) \in Nat
           /\ \A c, d : Before(hits, c, d) =>
                 /\ Share(weight, hits, c) >= Share(weight, hits, d)
                 /\ weight > 0 /\ d \in Found(hits) =>
                      Share(weight, hits, c) > Share(weight, hits, d)
<1>1. /\ Len(hits) \in Nat /\ DOMAIN hits = 1 .. Len(hits)
      /\ Cardinality(Chunks) \in Nat /\ Len(hits) <= Cardinality(Chunks)
  <2>1. /\ Len(hits) \in Nat /\ DOMAIN hits = 1 .. Len(hits)
        /\ Found(hits) \in SUBSET Chunks /\ Cardinality(Found(hits)) = Len(hits)
    BY LenIsCount
  <2>2. IsFiniteSet(Chunks)
    BY SearchAssumption
  <2>3. Cardinality(Found(hits)) <= Cardinality(Chunks) /\ Cardinality(Chunks) \in Nat
    BY <2>1, <2>2, FS_Subset, FS_CardinalityType
  <2> QED
    BY <2>1, <2>3
<1>2. RrfK \in Nat /\ Scale \in Nat
  BY SearchAssumption, ScaleAssumption
<1>3. \A i \in DOMAIN hits : i \in 1 .. Cardinality(Chunks) /\ Scale \div (RrfK + i) \in Nat
  <2> SUFFICES ASSUME NEW i \in 1 .. Len(hits)
               PROVE  i \in 1 .. Cardinality(Chunks) /\ Scale \div (RrfK + i) \in Nat
    BY <1>1
  <2>1. i \in 1 .. Cardinality(Chunks) /\ RrfK + i \in Nat \ {0}
    BY <1>1, <1>2
  <2>2. \A x \in Nat \ {0} : Scale \div x \in Nat
    BY <1>2
  <2> QED
    BY <2>1, <2>2
<1>4. \A c \in Found(hits) : PositionIn(hits, c) \in DOMAIN hits
  BY PositionIsUnique
<1>5. ASSUME NEW c PROVE Share(weight, hits, c) \in Nat
  <2>1. CASE c \in Found(hits)
    <3>1. Scale \div (RrfK + PositionIn(hits, c)) \in Nat
      BY <1>3, <1>4, <2>1
    <3>2. \A x \in Nat : weight * x \in Nat
      OBVIOUS
    <3> QED
      BY <2>1, <3>1, <3>2 DEF Share
  <2>2. CASE c \notin Found(hits)
    BY <2>2 DEF Share
  <2> QED
    BY <2>1, <2>2
<1>6. ASSUME NEW c, NEW d, Before(hits, c, d), d \in Found(hits)
      PROVE  /\ Share(weight, hits, c) >= Share(weight, hits, d)
             /\ weight > 0 => Share(weight, hits, c) > Share(weight, hits, d)
  <2> DEFINE q == PositionIn(hits, d)
  <2>1. q \in DOMAIN hits /\ hits[q].id = d
    BY <1>6, PositionIsUnique
  <2>2. PICK p \in 1 .. q - 1 : hits[p].id = c
    BY <1>6, <2>1 DEF Before
  <2>3. p \in DOMAIN hits /\ p < q
    BY <1>1, <2>1, <2>2
  <2>4. c \in Found(hits) /\ p = PositionIn(hits, c)
    <3>1. c \in Found(hits)
      BY <2>2, <2>3 DEF Found
    <3> QED
      BY <2>2, <2>3, <3>1, PositionIsUnique
  <2> DEFINE a == Scale \div (RrfK + p)
             b == Scale \div (RrfK + q)
  <2>5. a \in Nat /\ b \in Nat /\ a > b
    BY <1>3, <2>1, <2>3, SharesDecrease
  <2>6. Share(weight, hits, c) = weight * a /\ Share(weight, hits, d) = weight * b
    BY <1>6, <2>4 DEF Share
  <2> HIDE DEF a, b, q
  <2>7. weight * a >= weight * b /\ (weight > 0 => weight * a > weight * b)
    <3>1. weight * a = weight * b + weight * (a - b)
      BY <2>5
    <3>2. weight * (a - b) >= 0 /\ (weight > 0 => weight * (a - b) > 0)
      BY <2>5
    <3>3. weight * a \in Int /\ weight * b \in Int /\ weight * (a - b) \in Int
      BY <2>5
    <3> QED
      BY <3>1, <3>2, <3>3
  <2> QED
    BY <2>6, <2>7
<1>7. ASSUME NEW c, NEW d, d \notin Found(hits)
      PROVE  Share(weight, hits, c) >= Share(weight, hits, d)
  BY <1>5, <1>7 DEF Share
<1> QED
  BY <1>5, <1>6, <1>7

\* Two hits of one chunk, both with a payload or both without.
SameChunk(h, g) == h.id = g.id /\ (h.payload <=> g.payload)

\* A hit of the fused list is one of a retriever's, payload included, none is
\* left out that there is room for, and what all retrievers agree on stays.
LEMMA FusedHits ==
    ASSUME NEW req \in Requests, NEW dense, IsRanking(dense), NEW sparse, IsRanking(sparse)
    PROVE  LET f == Fused(req, dense, sparse) IN
           /\ IsRanking(f)
           /\ \A i \in DOMAIN f : \/ \E k \in DOMAIN dense : SameChunk(f[i], dense[k])
                                  \/ \E k \in DOMAIN sparse : SameChunk(f[i], sparse[k])
           /\ Weight(req, "dense") > 0 => FullOr(f, Limit(req), Found(dense))
           /\ Weight(req, "sparse") > 0 => FullOr(f, Limit(req), Found(sparse))
           /\ \A c, d : Before(dense, c, d) /\ Before(sparse, c, d) => Before(f, c, d)
<1> DEFINE dw == Weight(req, "dense")
           sw == Weight(req, "sparse")
           ds == IF dw = 0 THEN <<>> ELSE dense
           ss == IF sw = 0 THEN <<>> ELSE sparse
           both == Found(ds) \cup Found(ss)
           score == [c \in both |-> Share(dw, ds, c) + Share(sw, ss, c)]
           R == Ranking(both, score)
           N == Cardinality(both)
           all == [i \in DOMAIN R |->
                     Hit(R[i], score[R[i]], HasPayload(ds, R[i]) \/ HasPayload(ss, R[i]))]
<1>1. dw \in Nat /\ sw \in Nat
  BY SearchAssumption DEF Weight
<1>2. IsRanking(<<>>) /\ Found(<<>>) = {} /\ DOMAIN <<>> = {}
  BY EmptySeq, LenProperties DEF IsRanking, Found
<1>3. IsRanking(ds) /\ IsRanking(ss)
  BY <1>2
<1>4. /\ Found(ds) \subseteq Found(dense) /\ Found(ss) \subseteq Found(sparse)
      /\ dw > 0 => Found(ds) = Found(dense)
      /\ sw > 0 => Found(ss) = Found(sparse)
      /\ \A i \in DOMAIN ds : ds = dense
      /\ \A i \in DOMAIN ss : ss = sparse
      /\ \A c, d : Before(dense, c, d) => Before(ds, c, d)
      /\ \A c, d : Before(sparse, c, d) => Before(ss, c, d)
  <2>1. \A c, d : Before(<<>>, c, d)
    BY <1>2 DEF Before
  <2> QED
    BY <1>1, <1>2, <2>1
<1>5. Found(ds) # {} => dw > 0
  BY <1>1, <1>2
<1>6. Found(ss) # {} => sw > 0
  BY <1>1, <1>2
<1>7. Fused(req, dense, sparse) = Taken(all, Limit(req))
  BY DEF Fused
<1> HIDE DEF dw, sw, ds, ss
<1>8. both \in SUBSET Int /\ both \subseteq Chunks /\ IsFiniteSet(both)
  <2>1. Chunks \subseteq Int
    BY SearchAssumption
  <2>2. /\ Found(ds) \subseteq Chunks /\ Found(ss) \subseteq Chunks
        /\ IsFiniteSet(Found(ds)) /\ IsFiniteSet(Found(ss))
    BY <1>3, LenIsCount
  <2>3. IsFiniteSet(both)
    BY <2>2, FS_Union
  <2> QED
    BY <2>1, <2>2, <2>3
<1>9. /\ \A c : Share(dw, ds, c) \in Nat
      /\ \A c : Share(sw, ss, c) \in Nat
  BY <1>1, <1>3, SharesOf
<1>10. \A c \in both : score[c] \in Int /\ score[c] = Share(dw, ds, c) + Share(sw, ss, c)
  BY <1>9
<1> HIDE DEF score
<1>11. /\ N \in Nat
       /\ R \in [1 .. N -> both]
       /\ \A x \in both : \E i \in 1 .. N : R[i] = x
       /\ \A i, j \in 1 .. N : i < j => Precedes(score, R[i], R[j])
  BY <1>8, <1>10, RankingOrders
<1>12. DOMAIN R = 1 .. N /\ \A i \in 1 .. N : R[i] \in both
  BY <1>11
<1> HIDE DEF R, N
<1>13. \A i \in 1 .. N :
          \E p \in BOOLEAN : /\ all[i] = Hit(R[i], score[R[i]], p)
                             /\ p <=> HasPayload(ds, R[i]) \/ HasPayload(ss, R[i])
  <2> SUFFICES ASSUME NEW i \in 1 .. N
               PROVE  \E p \in BOOLEAN : /\ all[i] = Hit(R[i], score[R[i]], p)
                                         /\ p <=> HasPayload(ds, R[i]) \/ HasPayload(ss, R[i])
    OBVIOUS
  <2>1. (HasPayload(ds, R[i]) \/ HasPayload(ss, R[i])) \in BOOLEAN
    OBVIOUS
  <2>2. all[i] = Hit(R[i], score[R[i]], HasPayload(ds, R[i]) \/ HasPayload(ss, R[i]))
    BY <1>12
  <2> HIDE DEF all
  <2> QED
    BY <2>1, <2>2, Zenon
<1>14. \A i \in 1 .. N :
          /\ all[i] \in HitSet /\ all[i].id = R[i]
          /\ all[i].payload <=> HasPayload(ds, R[i]) \/ HasPayload(ss, R[i])
  <2> SUFFICES ASSUME NEW i \in 1 .. N
               PROVE  /\ all[i] \in HitSet /\ all[i].id = R[i]
                      /\ all[i].payload <=> HasPayload(ds, R[i]) \/ HasPayload(ss, R[i])
    OBVIOUS
  <2>1. PICK p \in BOOLEAN : /\ all[i] = Hit(R[i], score[R[i]], p)
                             /\ p <=> HasPayload(ds, R[i]) \/ HasPayload(ss, R[i])
    BY <1>13
  <2>2. R[i] \in Chunks /\ score[R[i]] \in Int
    BY <1>8, <1>10, <1>12
  <2> HIDE DEF all
  <2>3. all[i] \in HitSet /\ all[i].id = R[i] /\ all[i].payload = p
    BY <2>1, <2>2 DEF Hit, HitSet
  <2> QED
    BY <2>1, <2>3
<1>15. all \in [1 .. N -> HitSet]
  <2>1. all = [i \in 1 .. N |-> all[i]]
    BY <1>12
  <2> HIDE DEF all
  <2> QED
    BY <1>14, <2>1
<1> HIDE DEF all
<1>16. all \in Seq(HitSet) /\ DOMAIN all = 1 .. N
  BY <1>11, <1>15, FunctionIsSeq
<1>17. \A i, j \in 1 .. N : R[i] = R[j] => i = j
  <2>1. \A i, j \in 1 .. N : i < j => R[i] # R[j]
    BY <1>8, <1>10, <1>11, <1>12, PrecedesIsTotal
  <2>2. \A i, j \in 1 .. N : i # j => i < j \/ j < i
    BY <1>11
  <2> QED
    BY <2>1, <2>2
<1>18. IsRanking(all)
  <2>1. \A i \in 1 .. N : all[i].id = R[i]
    BY <1>14
  <2>2. \A i, j \in DOMAIN all : all[i].id = all[j].id => i = j
    BY <1>16, <1>17, <2>1
  <2> QED
    BY <1>16, <2>2 DEF IsRanking
<1>19. Found(all) = both
  <2>1. \A i \in 1 .. N : all[i].id = R[i]
    BY <1>14
  <2> QED
    <3> HIDE DEF both
    <3> QED
      BY <1>11, <1>12, <1>16, <2>1 DEF Found
<1>20. ASSUME NEW c, NEW d, Before(dense, c, d), Before(sparse, c, d)
       PROVE  Before(all, c, d)
  <2> SUFFICES ASSUME NEW j \in 1 .. N, R[j] = d
               PROVE  \E i \in 1 .. j - 1 : all[i].id = c
    BY <1>14, <1>16 DEF Before
  <2>1. d \in both
    BY <1>12
  <2>2. Before(ds, c, d) /\ Before(ss, c, d)
    BY <1>4, <1>20
  <2>3. c \in both
    <3>1. \A hits : IsRanking(hits) /\ Before(hits, c, d) /\ d \in Found(hits) => c \in Found(hits)
      <4> SUFFICES ASSUME NEW hits, IsRanking(hits), Before(hits, c, d), d \in Found(hits)
                   PROVE  c \in Found(hits)
        OBVIOUS
      <4>1. PICK k \in DOMAIN hits : hits[k].id = d
        BY DEF Found
      <4>2. PICK i \in 1 .. k - 1 : hits[i].id = c
        BY <4>1 DEF Before
      <4>3. DOMAIN hits = 1 .. Len(hits) /\ Len(hits) \in Nat
        BY RankingIsSeq
      <4>4. i \in DOMAIN hits
        BY <4>1, <4>2, <4>3
      <4> QED
        BY <4>2, <4>4 DEF Found
    <3> QED
      BY <1>3, <2>1, <2>2, <3>1
  <2>4. score[c] > score[d]
    <3>1. /\ Share(dw, ds, c) >= Share(dw, ds, d)
          /\ dw > 0 /\ d \in Found(ds) => Share(dw, ds, c) > Share(dw, ds, d)
      BY <1>1, <1>3, <2>2, SharesOf
    <3>2. /\ Share(sw, ss, c) >= Share(sw, ss, d)
          /\ sw > 0 /\ d \in Found(ss) => Share(sw, ss, c) > Share(sw, ss, d)
      BY <1>1, <1>3, <2>2, SharesOf
    <3>3. Share(dw, ds, c) > Share(dw, ds, d) \/ Share(sw, ss, c) > Share(sw, ss, d)
      BY <1>5, <1>6, <2>1, <3>1, <3>2
    <3>4. \A k, l, m, n \in Nat : k >= l /\ m >= n /\ (k > l \/ m > n) => k + m > l + n
      OBVIOUS
    <3> QED
      BY <1>9, <1>10, <2>1, <2>3, <3>1, <3>2, <3>3, <3>4
  <2>5. PICK i \in 1 .. N : R[i] = c
    BY <1>11, <2>3
  <2>6. Precedes(score, c, d) /\ c # d
    BY <1>10, <2>1, <2>3, <2>4 DEF Precedes
  <2>7. ~Precedes(score, d, c)
    BY <1>8, <1>10, <2>1, <2>3, <2>6, PrecedesIsTotal
  <2>8. i # j /\ ~(j < i)
    BY <1>11, <2>5, <2>6, <2>7
  <2>9. i \in 1 .. j - 1
    BY <1>11, <2>8
  <2> QED
    BY <1>14, <2>5, <2>9
<1>21. ASSUME NEW i \in 1 .. N
       PROVE  \/ \E k \in DOMAIN dense : SameChunk(all[i], dense[k])
              \/ \E k \in DOMAIN sparse : SameChunk(all[i], sparse[k])
  <2>1. R[i] \in both /\ all[i].id = R[i] /\ all[i].payload \in BOOLEAN
    BY <1>12, <1>14 DEF HitSet
  <2>2. \A hits : IsRanking(hits) /\ R[i] \in Found(hits) =>
           \E k \in DOMAIN hits : /\ hits[k].id = R[i] /\ hits[k].payload \in BOOLEAN
                                  /\ hits[k].payload <=> HasPayload(hits, R[i])
    <3> SUFFICES ASSUME NEW hits, IsRanking(hits), R[i] \in Found(hits)
                 PROVE  \E k \in DOMAIN hits : /\ hits[k].id = R[i] /\ hits[k].payload \in BOOLEAN
                                               /\ hits[k].payload <=> HasPayload(hits, R[i])
      OBVIOUS
    <3>1. /\ PositionIn(hits, R[i]) \in DOMAIN hits
          /\ hits[PositionIn(hits, R[i])].id = R[i]
      BY PositionIsUnique
    <3>2. hits[PositionIn(hits, R[i])] \in HitSet
      BY <3>1, RankingIsSeq
    <3>3. hits[PositionIn(hits, R[i])].payload <=> HasPayload(hits, R[i])
      BY DEF HasPayload
    <3> QED
      BY <3>1, <3>2, <3>3 DEF HitSet
  <2>3. \A hits : HasPayload(hits, R[i]) => R[i] \in Found(hits)
    BY DEF HasPayload
  <2>4. all[i].payload <=> HasPayload(ds, R[i]) \/ HasPayload(ss, R[i])
    BY <1>14
  <2>5. \/ R[i] \in Found(ds) /\ (all[i].payload <=> HasPayload(ds, R[i]))
        \/ R[i] \in Found(ss) /\ (all[i].payload <=> HasPayload(ss, R[i]))
    BY <2>1, <2>3, <2>4
  <2> QED
    BY <1>3, <1>4, <2>1, <2>2, <2>5 DEF SameChunk
<1>22. Limit(req) \in Nat
  BY LimitIsEnough
<1>24. LET t == Taken(all, Limit(req)) IN
       /\ IsRanking(t)
       /\ \A i \in DOMAIN t : i \in DOMAIN all /\ t[i] = all[i]
       /\ FullOr(t, Limit(req), Found(all))
       /\ \A c, d : Before(all, c, d) => Before(t, c, d)
  BY <1>18, <1>22, FrontOfRanking
<1> DEFINE f == Fused(req, dense, sparse)
<1>25. f = Taken(all, Limit(req))
  BY <1>7
<1>26. FullOr(f, Limit(req), both)
  BY <1>19, <1>24, <1>25
<1>27. /\ Weight(req, "dense") > 0 => Found(dense) \subseteq both
       /\ Weight(req, "sparse") > 0 => Found(sparse) \subseteq both
  BY <1>4 DEF dw, sw
<1> HIDE DEF f
<1>28. /\ IsRanking(f)
       /\ \A i \in DOMAIN f : i \in 1 .. N /\ f[i] = all[i]
       /\ \A c, d : Before(all, c, d) => Before(f, c, d)
  BY <1>16, <1>24, <1>25
<1> HIDE DEF both
<1>29. /\ Weight(req, "dense") > 0 => FullOr(f, Limit(req), Found(dense))
       /\ Weight(req, "sparse") > 0 => FullOr(f, Limit(req), Found(sparse))
  BY <1>26, <1>27 DEF FullOr
<1> QED
  BY <1>20, <1>21, <1>28, <1>29 DEF f

\* The heading filter drops hits and keeps the order of the others.
LEMMA HeadingFilter ==
    ASSUME NEW req, NEW hits, IsRanking(hits)
    PROVE  LET u == UnderHeading(req, hits) IN
           /\ IsRanking(u)
           /\ \A i \in DOMAIN u : \E k \in DOMAIN hits : u[i] = hits[k]
           /\ ~req.heading => Found(hits) \subseteq Found(u)
           /\ \A i, j \in DOMAIN u : Before(hits, u[i].id, u[j].id) => i < j
<1> DEFINE places == {i \in DOMAIN hits :
                        ~req.heading \/ (hits[i].payload /\ hits[i].id \in Heading)}
           u == UnderHeading(req, hits)
<1>1. u = Those(hits, places)
  BY DEF UnderHeading
<1>2. places \in SUBSET DOMAIN hits /\ (~req.heading => places = DOMAIN hits)
  OBVIOUS
<1> HIDE DEF places, u
<1>3. /\ IsRanking(u)
      /\ \A i \in DOMAIN u : \E k \in places : u[i] = hits[k]
      /\ \A k \in places : \E i \in DOMAIN u : u[i] = hits[k]
      /\ \A i, j \in DOMAIN u, k, l \in places :
            (u[i].id = hits[k].id /\ u[j].id = hits[l].id /\ k < l) => i < j
  BY <1>1, <1>2, ThoseKeep
<1>4. ~req.heading => Found(hits) \subseteq Found(u)
  BY <1>2, <1>3 DEF Found
<1>5. ASSUME NEW i \in DOMAIN u, NEW j \in DOMAIN u, Before(hits, u[i].id, u[j].id)
      PROVE  i < j
  <2>1. PICK k \in places, l \in places : u[i] = hits[k] /\ u[j] = hits[l]
    BY <1>3
  <2>2. DOMAIN hits = 1 .. Len(hits) /\ Len(hits) \in Nat
    BY RankingIsSeq
  <2>3. PICK m \in 1 .. l - 1 : hits[m].id = hits[k].id
    BY <1>2, <1>5, <2>1 DEF Before
  <2>4. m \in DOMAIN hits /\ m < l
    BY <1>2, <2>2
  <2>5. m = k
    BY <1>2, <2>3, <2>4 DEF IsRanking
  <2> QED
    BY <1>3, <2>1, <2>4, <2>5
<1> QED
  BY <1>2, <1>3, <1>4, <1>5 DEF u

\* The answer has hits of the list it is ranked from, all if there is room;
\* without reranking it is the front of that list.
LEMMA RankedHits ==
    ASSUME NEW s, s.req \in Requests, IsRanking(s.found),
           s.req.rerank /\ s.found # <<>> => loaded \in {"none", "lexical", "cross-encoder"}
    PROVE  /\ IsRanking(Ranked(s))
           /\ \A i \in DOMAIN Ranked(s) : \E k \in DOMAIN s.found : Ranked(s)[i] = s.found[k]
           /\ FullOr(Ranked(s), s.req.topK, Found(s.found)) /\ Len(Ranked(s)) <= s.req.topK
           /\ ~s.req.rerank => \A i \in DOMAIN Ranked(s) :
                 i \in DOMAIN s.found /\ Ranked(s)[i] = s.found[i]
<1> DEFINE wide == 1 + Scale * (Weights["dense"] + Weights["sparse"])
           given(i) == RerankScore(loaded, s.req, s.tokens, s.found[i])
           score == [i \in DOMAIN s.found |-> given(i) * wide + s.found[i].score]
           a == Arranged(s.found, DOMAIN s.found, score)
           hits == IF s.req.rerank THEN a ELSE s.found
<1>1. Ranked(s) = Taken(hits, s.req.topK)
  BY DEF Ranked, ByScore
<1>2. s.req.topK \in Nat
  BY RequestAssumption
<1>3. ASSUME s.req.rerank
      PROVE  /\ IsRanking(a)
             /\ \A i \in DOMAIN a : \E k \in DOMAIN s.found : a[i] = s.found[k]
             /\ \A k \in DOMAIN s.found : \E i \in DOMAIN a : a[i] = s.found[k]
  <2>1. \A i \in DOMAIN s.found : score[i] \in Int
    <3> SUFFICES ASSUME NEW i \in DOMAIN s.found PROVE score[i] \in Int
      OBVIOUS
    <3>1. s.found[i] \in HitSet
      BY RankingIsSeq
    <3>2. loaded \in {"none", "lexical", "cross-encoder"}
      BY <1>3
    <3>3. given(i) \in Int
      BY <3>1, <3>2, RequestAssumption DEF RerankScore, Lexical, HitSet
    <3>4. wide \in Int
      <4>1. Scale \in Int /\ Weights["dense"] \in Int /\ Weights["sparse"] \in Int
        BY ScaleAssumption, SearchAssumption
      <4>2. \A k, l, m \in Int : 1 + k * (l + m) \in Int
        OBVIOUS
      <4> QED
        BY <4>1, <4>2
    <3>5. s.found[i].score \in Int
      BY <3>1 DEF HitSet
    <3> HIDE DEF given, wide
    <3>6. \A k, l, m \in Int : k * l + m \in Int
      OBVIOUS
    <3> QED
      BY <3>3, <3>4, <3>5, <3>6
  <2> HIDE DEF score
  <2>2. /\ IsRanking(a)
        /\ \A i \in DOMAIN a : \E k \in DOMAIN s.found : a[i] = s.found[k]
        /\ \A k \in DOMAIN s.found : \E i \in DOMAIN a : a[i] = s.found[k]
        /\ \A i, j \in DOMAIN a, k, l \in DOMAIN s.found :
              (a[i].id = s.found[k].id /\ a[j].id = s.found[l].id /\ Precedes(score, k, l)) =>
                  i < j
    BY <2>1, ArrangedKeeps
  <2> QED
    BY <2>2
<1> HIDE DEF a
<1>4. /\ IsRanking(hits)
      /\ \A i \in DOMAIN hits : \E k \in DOMAIN s.found : hits[i] = s.found[k]
      /\ \A k \in DOMAIN s.found : \E i \in DOMAIN hits : hits[i] = s.found[k]
      /\ ~s.req.rerank => hits = s.found
  BY <1>3
<1> HIDE DEF hits
<1>5. Found(hits) = Found(s.found)
  BY <1>4 DEF Found
<1>6. LET t == Taken(hits, s.req.topK) IN
      /\ IsRanking(t)
      /\ \A i \in DOMAIN t : i \in DOMAIN hits /\ t[i] = hits[i]
      /\ FullOr(t, s.req.topK, Found(hits)) /\ Len(t) <= s.req.topK
  BY <1>2, <1>4, FrontOfRanking
<1> QED
  BY <1>1, <1>4, <1>5, <1>6

\* A query that is not blank has a variant, and each has a score for each chunk.
LEMMA VariantsOf ==
    ASSUME NEW req \in Requests
    PROVE  /\ Len(Variants(req)) \in Nat /\ DOMAIN Variants(req) = 1 .. Len(Variants(req))
           /\ \A v \in 1 .. Len(Variants(req)) : Variants(req)[v] \in [Chunks -> Int]
           /\ req.query.near # <<>> => 1 \in 1 .. Len(Variants(req))
<1> DEFINE T == [Chunks -> Int]
<1>1. req.query.near \in Seq(T) /\ MaxVariants \in Nat \ {0}
  BY RequestAssumption, SearchAssumption
<1>2. PICK n \in Nat \ {0} : Variants(req) = Taken(req.query.near, n)
  BY <1>1 DEF Variants
<1> HIDE DEF T
<1>3. /\ Variants(req) \in Seq(T)
      /\ Len(Variants(req)) = IF n < Len(req.query.near) THEN n ELSE Len(req.query.near)
  BY <1>1, <1>2, TakenIsFront
<1>4. /\ Len(Variants(req)) \in Nat /\ DOMAIN Variants(req) = 1 .. Len(Variants(req))
      /\ \A v \in 1 .. Len(Variants(req)) : Variants(req)[v] \in T
  BY <1>3, LenProperties, ElementOfSeq
<1>5. req.query.near # <<>> => Len(req.query.near) \in Nat \ {0}
  BY <1>1, EmptySeq
<1>6. req.query.near # <<>> => Len(Variants(req)) >= 1
  BY <1>3, <1>5
<1> QED
  BY <1>4, <1>6 DEF T

-----------------------------------------------------------------------------
(* What the steps do, field by field.                                      *)

\* A search that is under way has all its fields.
LEMMA SearchIsTyped ==
    ASSUME TypeOK
    PROVE  /\ Underway <=> search # Idle
           /\ Underway => /\ search \in Searches /\ search.req \in Requests
                          /\ IsRanking(search.nearest) /\ IsRanking(search.dense)
                          /\ IsRanking(search.sparse) /\ IsRanking(search.found)
                          /\ IsRanking(search.results)
<1>1. Idle.at = "idle" /\ search \in {Idle} \cup Searches
  BY DEF TypeOK, Idle
<1>2. \A s \in Searches : s.at # "idle" /\ s.req \in Requests
  BY DEF Searches
<1> QED
  BY <1>1, <1>2 DEF Underway, TypeOK

NoHitsYet ==
    /\ search.nearest = <<>> /\ search.dense = <<>> /\ search.sparse = <<>>
    /\ search.found = <<>> /\ search.results = <<>>

\* A search starts with a request and without hits.
LEMMA BeginFields ==
    ASSUME NEW req \in Requests, Begin(req)
    PROVE  /\ search.at = "idle"
           /\ search' \in Searches /\ search'.req = req /\ search'.variant = 1
           /\ NoHitsYet'
           /\ search'.at = IF req.query.near = <<>> THEN "answered"
                           ELSE IF req.mode = "sparse" THEN "sparse" ELSE "dense"
           /\ always' = live /\ ever' = live
           /\ UNCHANGED <<kind, live, config, loaded, writes>>
<1>1. <<>> \in Seq(HitSet)
  BY EmptySeq
<1> QED
  BY <1>1 DEF Begin, Searches, NoHitsYet

\* The hits of a variant are merged into those before, and the search goes on
\* with the next one or with the other retriever.
LEMMA MergeFields ==
    ASSUME search \in Searches, IsRanking(search.dense), NEW hits, IsRanking(hits), Merge(hits)
    PROVE  /\ search' \in Searches /\ search'.req = search.req
           /\ search'.dense = BestOf(search.dense, hits) /\ search'.nearest = <<>>
           /\ search'.sparse = search.sparse /\ search'.found = search.found
           /\ search'.results = search.results
           /\ \/ /\ search.variant < Len(Variants(search.req))
                 /\ search'.at = "dense" /\ search'.variant = search.variant + 1
              \/ /\ ~(search.variant < Len(Variants(search.req)))
                 /\ search'.at = AfterDense(search) /\ search'.variant = search.variant
<1>1. BestOf(search.dense, hits) \in Seq(HitSet) /\ <<>> \in Seq(HitSet)
  BY BestOfBoth, EmptySeq DEF IsRanking
<1> DEFINE s == [search EXCEPT !.dense = BestOf(@, hits), !.nearest = <<>>]
<1>2. /\ s \in Searches /\ s.req = search.req /\ s.variant = search.variant
      /\ s.dense = BestOf(search.dense, hits) /\ s.nearest = <<>>
      /\ s.sparse = search.sparse /\ s.found = search.found /\ s.results = search.results
  BY <1>1 DEF Searches
<1>3. search' = IF s.variant < Len(Variants(s.req))
                  THEN [s EXCEPT !.variant = @ + 1, !.at = "dense"]
                  ELSE [s EXCEPT !.at = AfterDense(s)]
  BY DEF Merge
<1>4. AfterDense(s) = AfterDense(search) /\ AfterDense(search) \in {"fuse", "sparse"}
  BY <1>2 DEF AfterDense
<1> HIDE DEF s
<1>5. CASE s.variant < Len(Variants(s.req))
  <2>1. search' = [s EXCEPT !.variant = @ + 1, !.at = "dense"]
    BY <1>3, <1>5
  <2>2. s.variant + 1 \in Nat \ {0}
    BY <1>2 DEF Searches
  <2> QED
    BY <1>2, <1>5, <2>1, <2>2 DEF Searches
<1>6. CASE ~(s.variant < Len(Variants(s.req)))
  <2>1. search' = [s EXCEPT !.at = AfterDense(s)]
    BY <1>3, <1>6
  <2> QED
    BY <1>2, <1>4, <1>6, <2>1 DEF Searches
<1> QED
  BY <1>5, <1>6

\* The chunks a dense query of PostgreSQL may come upon.
Seen == {seen \in SUBSET live : NeedsExactScan(search.req) => seen = live}

\* One statement of a store, or the first of two.
LEMMA SearchDenseFields ==
    ASSUME search \in Searches, SearchDense
    PROVE  LET near == Variants(search.req)[search.variant] IN
           /\ search.at = "dense"
           /\ \/ /\ kind = "postgres"
                 /\ \E seen \in Seen : Merge(PgNearest(seen, search.req, near))
              \/ /\ kind # "postgres"
                 /\ VecNearest(live, search.req, near) \in Seq(HitSet) => search' \in Searches
                 /\ search'.at = "payload"
                 /\ search'.nearest = VecNearest(live, search.req, near)
                 /\ search'.req = search.req /\ search'.variant = search.variant
                 /\ search'.dense = search.dense /\ search'.sparse = search.sparse
                 /\ search'.found = search.found /\ search'.results = search.results
           /\ UNCHANGED <<kind, live, config, always, ever, writes, loaded>>
BY DEF SearchDense, Outside, Searches, Seen

LEMMA SearchSparseFields ==
    ASSUME search \in Searches, SearchSparse,
           BodyHits(live, search.req) \in Seq(HitSet), FtsHits(live, search.req) \in Seq(HitSet)
    PROVE  /\ search.at = "sparse" /\ search'.at = "fuse"
           /\ search' \in Searches /\ search'.req = search.req
           /\ \/ kind = "postgres" /\ search'.sparse = BodyHits(live, search.req)
              \/ kind # "postgres" /\ search'.sparse = FtsHits(live, search.req)
           /\ search'.nearest = search.nearest /\ search'.dense = search.dense
           /\ search'.found = search.found /\ search'.results = search.results
           /\ UNCHANGED <<kind, live, config, always, ever, writes, loaded>>
BY DEF SearchSparse, Outside, Searches

\* What the fusion and the heading filter leave.
FoundOf(s) == UnderHeading(s.req, Fused(s.req, Dense(s), s.sparse))

LEMMA FuseFields ==
    ASSUME search \in Searches, Fuse, FoundOf(search) \in Seq(HitSet)
    PROVE  /\ search.at = "fuse" /\ search'.at \in {"tokens", "rank"}
           /\ search' \in Searches /\ search'.req = search.req
           /\ search'.found = FoundOf(search)
           /\ search'.nearest = search.nearest /\ search'.dense = search.dense
           /\ search'.sparse = search.sparse /\ search'.results = search.results
           /\ loaded' \in MayLoad \cup {loaded}
           /\ search.req.rerank /\ FoundOf(search) # <<>> => loaded' \in MayLoad
           /\ search'.at = "tokens" => loaded' = "lexical"
           /\ UNCHANGED <<kind, live, config, always, ever, writes>>
<1> DEFINE found == UnderHeading(search.req, Fused(search.req, Dense(search), search.sparse))
           asked == search.req.rerank /\ found # <<>>
           at == IF asked /\ loaded' = "lexical" THEN "tokens" ELSE "rank"
<1>1. /\ search.at = "fuse" /\ loaded' \in (IF asked THEN MayLoad ELSE {loaded})
      /\ search' = [search EXCEPT !.found = found, !.at = at]
      /\ UNCHANGED Outside
  BY DEF Fuse
<1>2. found = FoundOf(search)
  BY DEF FoundOf
<1>3. at \in {"tokens", "rank"} /\ (at = "tokens" => loaded' = "lexical")
  OBVIOUS
<1>4. search.req.rerank /\ FoundOf(search) # <<>> => asked
  BY <1>2
<1> HIDE DEF found, at
<1>5. /\ search' \in Searches /\ search'.at = at /\ search'.found = found
      /\ search'.req = search.req /\ search'.nearest = search.nearest
      /\ search'.dense = search.dense /\ search'.sparse = search.sparse
      /\ search'.results = search.results
  BY <1>1, <1>2, <1>3 DEF Searches
<1> QED
  BY <1>1, <1>2, <1>3, <1>4, <1>5 DEF Outside

LEMMA LookUpTokensFields ==
    ASSUME search \in Searches, Found(search.found) \subseteq Chunks, LookUpTokens
    PROVE  /\ search.at = "tokens" /\ search'.at = "rank"
           /\ search' \in Searches /\ search'.req = search.req
           /\ search'.nearest = search.nearest /\ search'.dense = search.dense
           /\ search'.sparse = search.sparse /\ search'.found = search.found
           /\ search'.results = search.results
           /\ UNCHANGED <<kind, live, config, always, ever, writes, loaded>>
<1>1. PICK tokens \in SUBSET Chunks :
         search' = [search EXCEPT !.at = "rank", !.tokens = tokens]
  <2>1. PICK fails \in BOOLEAN :
           search' = [search EXCEPT !.at = "rank",
                        !.tokens = IF fails THEN {} ELSE Found(search.found) \cap live]
    BY DEF LookUpTokens
  <2> QED
    BY <2>1
<1> QED
  BY <1>1 DEF LookUpTokens, Outside, Searches

LEMMA RankAndCiteFields ==
    ASSUME search \in Searches, RankAndCite, Ranked(search) \in Seq(HitSet)
    PROVE  /\ search.at = "rank" /\ search'.at = "answered"
           /\ search' \in Searches /\ search'.req = search.req
           /\ search'.results = Ranked(search)
           /\ search'.nearest = search.nearest /\ search'.dense = search.dense
           /\ search'.sparse = search.sparse /\ search'.found = search.found
           /\ UNCHANGED <<kind, live, config, always, ever, writes, loaded>>
BY DEF RankAndCite, Outside, Searches

LEMMA RetrieverFailsFields ==
    ASSUME search \in Searches, RetrieverFails
    PROVE  /\ search.at \in {"dense", "payload", "sparse"} /\ search'.at = "failed"
           /\ search' \in Searches /\ search'.req = search.req
           /\ search'.nearest = search.nearest /\ search'.dense = search.dense
           /\ search'.sparse = search.sparse /\ search'.found = search.found
           /\ search'.results = search.results
           /\ UNCHANGED <<kind, live, config, always, ever, writes, loaded>>
BY DEF RetrieverFails, Outside, Searches

\* A publish or a delete changes the index at once.
LEMMA WriteFields ==
    ASSUME TypeOK,
           (\E c \in Chunks : Publish(c)) \/ (\E d \in Documents : Delete(d))
    PROVE  /\ live' \subseteq Chunks /\ always' = always \cap live'
           /\ ever' = IF Underway THEN ever \cup live' ELSE ever
           /\ writes < MaxWrites /\ writes' = writes + 1
           /\ UNCHANGED <<kind, config, loaded, search>>
<1>1. PICK now \in SUBSET Chunks : Written(now)
  BY DEF Publish, Delete, TypeOK
<1>2. Underway <=> search # Idle
  BY SearchIsTyped
<1> QED
  BY <1>1, <1>2 DEF Written

LEMMA ReadPayloadsFields ==
    ASSUME ReadPayloads
    PROVE  /\ search.at = "payload" /\ Merge(VecHits(live, search.req, search.nearest))
           /\ UNCHANGED <<kind, live, config, always, ever, writes, loaded>>
BY DEF ReadPayloads, Outside

LEMMA ReturnFields ==
    ASSUME Return
    PROVE  /\ search' = Idle /\ always' = {} /\ ever' = {}
           /\ UNCHANGED <<kind, live, config, loaded, writes>>
BY DEF Return

-----------------------------------------------------------------------------
(* Types.                                                                  *)

\* What the stores answer with, for one variant or for the terms.
LEMMA StoresRank ==
    ASSUME TypeOK, Staged, Underway
    PROVE  /\ IsRanking(BodyHits(live, search.req)) /\ IsRanking(FtsHits(live, search.req))
           /\ search.at \in {"dense", "payload"} =>
                LET near == Variants(search.req)[search.variant] IN
                /\ near \in [Chunks -> Int]
                /\ \A seen \in Seen : IsRanking(PgNearest(seen, search.req, near))
                /\ IsRanking(VecNearest(live, search.req, near))
           /\ IsRanking(VecHits(live, search.req, search.nearest))
<1>1. /\ search.req \in Requests /\ live \in SUBSET Chunks /\ IsRanking(search.nearest)
  BY SearchIsTyped DEF TypeOK
<1>2. search.req.query.bm25 \in [Chunks -> Int] /\ Limit(search.req) \in Nat
  BY <1>1, RequestAssumption, LimitIsEnough
<1>3. IsRanking(BodyHits(live, search.req)) /\ IsRanking(FtsHits(live, search.req))
  BY <1>1, <1>2, ScoredHits DEF BodyHits, FtsHits
<1>4. ASSUME search.at \in {"dense", "payload"}
      PROVE  LET near == Variants(search.req)[search.variant] IN
             /\ near \in [Chunks -> Int]
             /\ \A seen \in Seen : IsRanking(PgNearest(seen, search.req, near))
             /\ IsRanking(VecNearest(live, search.req, near))
  <2>1. Variants(search.req)[search.variant] \in [Chunks -> Int]
    BY <1>1, <1>4, VariantsOf DEF Staged
  <2> QED
    BY <1>1, <1>2, <2>1, ScoredHits DEF PgNearest, VecNearest, Seen
<1>5. IsRanking(VecHits(live, search.req, search.nearest))
  BY <1>1, PayloadsOf
<1> QED
  BY <1>3, <1>4, <1>5

\* The list that is left after the fusion is a ranking, and so is the answer.
LEMMA ListsRank ==
    ASSUME TypeOK, Staged, Underway
    PROVE  /\ IsRanking(Dense(search))
           /\ IsRanking(Fused(search.req, Dense(search), search.sparse))
           /\ IsRanking(FoundOf(search))
           /\ search.at = "rank" =>
                /\ search.req.rerank /\ search.found # <<>> =>
                     loaded \in {"none", "lexical", "cross-encoder"}
                /\ IsRanking(Ranked(search))
<1>1. /\ search.req \in Requests /\ IsRanking(search.dense)
      /\ IsRanking(search.sparse) /\ IsRanking(search.found)
  BY SearchIsTyped
<1>2. IsRanking(Dense(search))
  BY <1>1, DenseList
<1>3. IsRanking(Fused(search.req, Dense(search), search.sparse))
  BY <1>1, <1>2, FusedHits
<1>4. IsRanking(FoundOf(search))
  BY <1>3, HeadingFilter DEF FoundOf
<1>5. ASSUME search.at = "rank"
      PROVE  /\ search.req.rerank /\ search.found # <<>> =>
                   loaded \in {"none", "lexical", "cross-encoder"}
             /\ IsRanking(Ranked(search))
  <2>1. search.req.rerank /\ search.found # <<>> =>
           loaded \in {"none", "lexical", "cross-encoder"}
    BY <1>5 DEF Staged, TypeOK
  <2> QED
    BY <1>1, <2>1, RankedHits
<1> QED
  BY <1>2, <1>3, <1>4, <1>5

\* The reranker of a process is one that can be configured, or what stands in.
LEMMA RerankerIsKnown ==
    ASSUME TypeOK
    PROVE  /\ MayLoad \subseteq {"none", "lexical", "cross-encoder"}
           /\ config \in {"none", "lexical", "cross-encoder"}
BY SearchAssumption DEF TypeOK, MayLoad

\* The types of a step that leaves the index alone.
LEMMA SearchStepIsTyped ==
    ASSUME TypeOK, UNCHANGED <<kind, live, config, always, ever, writes>>,
           loaded' \in {"unset", "none", "lexical", "cross-encoder"},
           search' \in Searches,
           IsRanking(search'.nearest), IsRanking(search'.dense), IsRanking(search'.sparse),
           IsRanking(search'.found), IsRanking(search'.results)
    PROVE  TypeOK'
BY DEF TypeOK, IsRanking

\* The empty list is a ranking.
LEMMA NoHits == IsRanking(<<>>)
<1>1. <<>> \in Seq(HitSet) /\ Len(<<>>) = 0
  BY EmptySeq
<1> QED
  BY <1>1, LenProperties DEF IsRanking

\* A dense search that is done with a variant has what the next step needs.
LEMMA MergeIsTyped ==
    ASSUME TypeOK, Staged, search.at \in {"dense", "payload"},
           NEW hits, IsRanking(hits), Merge(hits),
           UNCHANGED <<kind, live, config, always, ever, writes, loaded>>
    PROVE  TypeOK' /\ Staged'
<1>1. Underway
  BY DEF Underway
<1>2. /\ search \in Searches /\ search.req \in Requests
      /\ IsRanking(search.dense) /\ IsRanking(search.sparse) /\ IsRanking(search.found)
      /\ IsRanking(search.results) /\ IsRanking(<<>>)
  BY <1>1, SearchIsTyped, NoHits
<1>3. /\ search' \in Searches /\ search'.req = search.req
      /\ search'.dense = BestOf(search.dense, hits) /\ search'.nearest = <<>>
      /\ search'.sparse = search.sparse /\ search'.found = search.found
      /\ search'.results = search.results
      /\ \/ /\ search.variant < Len(Variants(search.req))
            /\ search'.at = "dense" /\ search'.variant = search.variant + 1
         \/ /\ ~(search.variant < Len(Variants(search.req)))
            /\ search'.at = AfterDense(search) /\ search'.variant = search.variant
  BY <1>2, MergeFields
<1>4. IsRanking(BestOf(search.dense, hits))
  BY <1>2, BestOfBoth
<1>5. TypeOK'
  <2>1. loaded' \in {"unset", "none", "lexical", "cross-encoder"}
    BY DEF TypeOK
  <2> QED
    BY <1>2, <1>3, <1>4, <2>1, SearchStepIsTyped
<1>6. Staged'
  <2>1. /\ live \subseteq ever /\ search.req.mode # "sparse"
        /\ search.variant \in 1 .. Len(Variants(search.req))
    BY <1>1 DEF Staged
  <2>2. Len(Variants(search.req)) \in Nat
    BY <1>2, VariantsOf
  <2>3. /\ search'.at \in {"dense", "fuse", "sparse"}
        /\ search'.at = "sparse" => search.req.mode # "dense"
    BY <1>3 DEF AfterDense
  <2>4. search'.at = "dense" => search'.variant \in 1 .. Len(Variants(search.req))
    BY <1>3, <2>1, <2>2 DEF AfterDense
  <2>5. Variants(search.req)' = Variants(search'.req)
    BY DEF Variants, Taken
  <2> QED
    BY <1>3, <2>1, <2>3, <2>4, <2>5 DEF Staged
<1> QED
  BY <1>5, <1>6

\* Every step leaves a search of the right type, where it can be.
LEMMA TypeIsKept ==
    ASSUME TypeOK, Staged, [Next]_vars
    PROVE  TypeOK' /\ Staged'
<1>1. ASSUME NEW req \in Requests, Begin(req) PROVE TypeOK' /\ Staged'
  <2>1. /\ search' \in Searches /\ search'.req = req /\ search'.variant = 1 /\ NoHitsYet'
        /\ search'.at = IF req.query.near = <<>> THEN "answered"
                        ELSE IF req.mode = "sparse" THEN "sparse" ELSE "dense"
        /\ always' = live /\ ever' = live
        /\ UNCHANGED <<kind, live, config, loaded, writes>>
    BY <1>1, BeginFields
  <2>2. /\ search'.nearest = <<>> /\ search'.dense = <<>> /\ search'.sparse = <<>>
        /\ search'.found = <<>> /\ search'.results = <<>>
    BY <2>1 DEF NoHitsYet
  <2>3. IsRanking(<<>>)
    BY NoHits
  <2>4. TypeOK'
    BY <2>1, <2>2, <2>3 DEF TypeOK, IsRanking
  <2>5. req.query.near # <<>> => 1 \in 1 .. Len(Variants(req))
    BY VariantsOf
  <2>6. Staged'
    BY <2>1, <2>2, <2>5 DEF Staged
  <2> QED
    BY <2>4, <2>6
<1>2. ASSUME SearchDense PROVE TypeOK' /\ Staged'
  <2>1. search.at = "dense" /\ Underway
    BY <1>2 DEF SearchDense, Underway
  <2>2. search \in Searches /\ search.req \in Requests
    BY <2>1, SearchIsTyped
  <2> DEFINE near == Variants(search.req)[search.variant]
  <2>3. /\ \A seen \in Seen : IsRanking(PgNearest(seen, search.req, near))
        /\ IsRanking(VecNearest(live, search.req, near))
    BY <2>1, StoresRank
  <2>4. UNCHANGED <<kind, live, config, always, ever, writes, loaded>>
    BY <1>2 DEF SearchDense, Outside
  <2> HIDE DEF near
  <2>5. CASE \E seen \in Seen : Merge(PgNearest(seen, search.req, near))
    BY <2>1, <2>3, <2>4, <2>5, MergeIsTyped
  <2>6. ASSUME kind # "postgres",
               VecNearest(live, search.req, near) \in Seq(HitSet) => search' \in Searches,
               search'.at = "payload",
               search'.nearest = VecNearest(live, search.req, near),
               search'.req = search.req, search'.variant = search.variant,
               search'.dense = search.dense, search'.sparse = search.sparse,
               search'.found = search.found, search'.results = search.results
        PROVE  TypeOK' /\ Staged'
    <3>1. search' \in Searches
      BY <2>3, <2>6 DEF IsRanking
    <3>2. /\ IsRanking(search.dense) /\ IsRanking(search.sparse) /\ IsRanking(search.found)
          /\ IsRanking(search.results)
      BY <2>1, SearchIsTyped
    <3>3. loaded' \in {"unset", "none", "lexical", "cross-encoder"}
      BY <2>4 DEF TypeOK
    <3>4. TypeOK'
      BY <2>3, <2>4, <2>6, <3>1, <3>2, <3>3, SearchStepIsTyped
    <3>5. Staged'
      BY <2>1, <2>4, <2>6 DEF Staged, Underway
    <3> QED
      BY <3>4, <3>5
  <2>7. \/ /\ kind = "postgres"
           /\ \E seen \in Seen : Merge(PgNearest(seen, search.req, near))
        \/ /\ kind # "postgres"
           /\ VecNearest(live, search.req, near) \in Seq(HitSet) => search' \in Searches
           /\ search'.at = "payload"
           /\ search'.nearest = VecNearest(live, search.req, near)
           /\ search'.req = search.req /\ search'.variant = search.variant
           /\ search'.dense = search.dense /\ search'.sparse = search.sparse
           /\ search'.found = search.found /\ search'.results = search.results
    BY <1>2, <2>2, SearchDenseFields DEF near
  <2> QED
    BY <2>5, <2>6, <2>7
<1>3. ASSUME ReadPayloads PROVE TypeOK' /\ Staged'
  <2>1. /\ search.at = "payload" /\ Merge(VecHits(live, search.req, search.nearest))
        /\ UNCHANGED <<kind, live, config, always, ever, writes, loaded>>
    BY <1>3, ReadPayloadsFields
  <2>2. IsRanking(VecHits(live, search.req, search.nearest))
    BY <2>1, StoresRank DEF Underway
  <2> QED
    BY <2>1, <2>2, MergeIsTyped
<1>4. ASSUME SearchSparse PROVE TypeOK' /\ Staged'
  <2>1. search.at = "sparse" /\ Underway
    BY <1>4 DEF SearchSparse, Underway
  <2>2. /\ search \in Searches /\ search.req \in Requests
        /\ IsRanking(search.nearest) /\ IsRanking(search.dense) /\ IsRanking(search.found)
        /\ IsRanking(search.results)
    BY <2>1, SearchIsTyped
  <2>3. IsRanking(BodyHits(live, search.req)) /\ IsRanking(FtsHits(live, search.req))
    BY <2>1, StoresRank
  <2>4. /\ BodyHits(live, search.req) \in Seq(HitSet)
        /\ FtsHits(live, search.req) \in Seq(HitSet)
    BY <2>3 DEF IsRanking
  <2>5. /\ search'.at = "fuse" /\ search' \in Searches /\ search'.req = search.req
        /\ search'.sparse = BodyHits(live, search.req) \/ search'.sparse = FtsHits(live, search.req)
        /\ search'.nearest = search.nearest /\ search'.dense = search.dense
        /\ search'.found = search.found /\ search'.results = search.results
        /\ UNCHANGED <<kind, live, config, always, ever, writes, loaded>>
    BY <1>4, <2>2, <2>4, SearchSparseFields
  <2>6. loaded' \in {"unset", "none", "lexical", "cross-encoder"}
    BY <2>5 DEF TypeOK
  <2>7. TypeOK'
    BY <2>2, <2>3, <2>5, <2>6, SearchStepIsTyped
  <2>8. Staged'
    BY <2>1, <2>5 DEF Staged
  <2> QED
    BY <2>7, <2>8
<1>5. ASSUME Fuse PROVE TypeOK' /\ Staged'
  <2>1. search.at = "fuse" /\ Underway
    BY <1>5 DEF Fuse, Underway
  <2>2. /\ search \in Searches
        /\ IsRanking(search.nearest) /\ IsRanking(search.dense) /\ IsRanking(search.sparse)
        /\ IsRanking(search.results)
    BY <2>1, SearchIsTyped
  <2>3. IsRanking(FoundOf(search)) /\ FoundOf(search) \in Seq(HitSet)
    BY <2>1, ListsRank DEF IsRanking
  <2>4. /\ search'.at \in {"tokens", "rank"} /\ search' \in Searches /\ search'.req = search.req
        /\ search'.found = FoundOf(search)
        /\ search'.nearest = search.nearest /\ search'.dense = search.dense
        /\ search'.sparse = search.sparse /\ search'.results = search.results
        /\ loaded' \in MayLoad \cup {loaded}
        /\ search.req.rerank /\ FoundOf(search) # <<>> => loaded' \in MayLoad
        /\ UNCHANGED <<kind, live, config, always, ever, writes>>
    BY <1>5, <2>2, <2>3, FuseFields
  <2>5. /\ loaded' \in {"unset", "none", "lexical", "cross-encoder"}
        /\ search.req.rerank /\ FoundOf(search) # <<>> => loaded' # "unset"
    BY <2>4, RerankerIsKnown DEF TypeOK
  <2>6. TypeOK'
    BY <2>2, <2>3, <2>4, <2>5, SearchStepIsTyped
  <2>7. Staged'
    BY <2>1, <2>4, <2>5 DEF Staged
  <2> QED
    BY <2>6, <2>7
<1>6. ASSUME LookUpTokens PROVE TypeOK' /\ Staged'
  <2>1. search.at = "tokens" /\ Underway
    BY <1>6 DEF LookUpTokens, Underway
  <2>2. /\ search \in Searches
        /\ IsRanking(search.nearest) /\ IsRanking(search.dense) /\ IsRanking(search.sparse)
        /\ IsRanking(search.found) /\ IsRanking(search.results)
        /\ Found(search.found) \subseteq Chunks
    BY <2>1, SearchIsTyped, LenIsCount
  <2>3. /\ search'.at = "rank" /\ search' \in Searches /\ search'.req = search.req
        /\ search'.nearest = search.nearest /\ search'.dense = search.dense
        /\ search'.sparse = search.sparse /\ search'.found = search.found
        /\ search'.results = search.results
        /\ UNCHANGED <<kind, live, config, always, ever, writes, loaded>>
    BY <1>6, <2>2, LookUpTokensFields
  <2>4. loaded' \in {"unset", "none", "lexical", "cross-encoder"}
    BY <2>3 DEF TypeOK
  <2>5. TypeOK'
    BY <2>2, <2>3, <2>4, SearchStepIsTyped
  <2>6. Staged'
    BY <2>1, <2>3 DEF Staged
  <2> QED
    BY <2>5, <2>6
<1>7. ASSUME RankAndCite PROVE TypeOK' /\ Staged'
  <2>1. search.at = "rank" /\ Underway
    BY <1>7 DEF RankAndCite, Underway
  <2>2. /\ search \in Searches
        /\ IsRanking(search.nearest) /\ IsRanking(search.dense) /\ IsRanking(search.sparse)
        /\ IsRanking(search.found)
    BY <2>1, SearchIsTyped
  <2>3. IsRanking(Ranked(search)) /\ Ranked(search) \in Seq(HitSet)
    BY <2>1, ListsRank DEF IsRanking
  <2>4. /\ search'.at = "answered" /\ search' \in Searches /\ search'.req = search.req
        /\ search'.results = Ranked(search)
        /\ search'.nearest = search.nearest /\ search'.dense = search.dense
        /\ search'.sparse = search.sparse /\ search'.found = search.found
        /\ UNCHANGED <<kind, live, config, always, ever, writes, loaded>>
    BY <1>7, <2>2, <2>3, RankAndCiteFields
  <2>5. loaded' \in {"unset", "none", "lexical", "cross-encoder"}
    BY <2>4 DEF TypeOK
  <2>6. TypeOK'
    BY <2>2, <2>3, <2>4, <2>5, SearchStepIsTyped
  <2>7. Staged'
    BY <2>1, <2>4 DEF Staged
  <2> QED
    BY <2>6, <2>7
<1>8. ASSUME RetrieverFails PROVE TypeOK' /\ Staged'
  <2>1. Underway
    BY <1>8 DEF RetrieverFails, Underway
  <2>2. /\ search \in Searches
        /\ IsRanking(search.nearest) /\ IsRanking(search.dense) /\ IsRanking(search.sparse)
        /\ IsRanking(search.found) /\ IsRanking(search.results)
    BY <2>1, SearchIsTyped
  <2>3. /\ search'.at = "failed" /\ search' \in Searches /\ search'.req = search.req
        /\ search'.nearest = search.nearest /\ search'.dense = search.dense
        /\ search'.sparse = search.sparse /\ search'.found = search.found
        /\ search'.results = search.results
        /\ UNCHANGED <<kind, live, config, always, ever, writes, loaded>>
    BY <1>8, <2>2, RetrieverFailsFields
  <2>4. loaded' \in {"unset", "none", "lexical", "cross-encoder"}
    BY <2>3 DEF TypeOK
  <2>5. TypeOK'
    BY <2>2, <2>3, <2>4, SearchStepIsTyped
  <2>6. Staged'
    BY <2>1, <2>3 DEF Staged
  <2> QED
    BY <2>5, <2>6
<1>9. ASSUME Return PROVE TypeOK' /\ Staged'
  <2>1. /\ search' = Idle /\ always' = {} /\ ever' = {}
        /\ UNCHANGED <<kind, live, config, loaded, writes>>
    BY <1>9, ReturnFields
  <2>2. search'.at = "idle"
    BY <2>1 DEF Idle
  <2>3. TypeOK'
    BY <2>1 DEF TypeOK
  <2>4. Staged'
    BY <2>2 DEF Staged, Underway
  <2> QED
    BY <2>3, <2>4
<1>10. ASSUME (\E c \in Chunks : Publish(c)) \/ (\E d \in Documents : Delete(d))
       PROVE  TypeOK' /\ Staged'
  <2>1. /\ live' \subseteq Chunks /\ always' = always \cap live'
        /\ ever' = IF Underway THEN ever \cup live' ELSE ever
        /\ writes < MaxWrites /\ writes' = writes + 1
        /\ UNCHANGED <<kind, config, loaded, search>>
    BY <1>10, WriteFields
  <2>2. always \subseteq ever /\ ever \subseteq Chunks
    BY DEF TypeOK
  <2>3. /\ always' \subseteq live' \cap ever' /\ ever' \subseteq Chunks
        /\ Underway => live' \subseteq ever'
    BY <2>1, <2>2
  <2>4. writes' \in 0 .. MaxWrites
    BY <2>1, SearchAssumption DEF TypeOK
  <2>5. TypeOK'
    BY <2>1, <2>3, <2>4 DEF TypeOK, IsRanking
  <2>6. Staged'
    BY <2>1, <2>3 DEF Staged, Underway
  <2> QED
    BY <2>5, <2>6
<1>11. ASSUME UNCHANGED vars PROVE TypeOK' /\ Staged'
  BY <1>11 DEF vars, TypeOK, Staged, IsRanking, Underway
<1> QED
  BY <1>1, <1>2, <1>3, <1>4, <1>5, <1>6, <1>7, <1>8, <1>9, <1>10, <1>11 DEF Next

\* Initially nothing is searched for.
LEMMA TypeAtFirst == Init => TypeOK /\ Staged
<1> SUFFICES ASSUME Init PROVE TypeOK /\ Staged
  OBVIOUS
<1>1. search.at = "idle"
  BY DEF Init, Idle
<1>2. 0 \in 0 .. MaxWrites
  BY SearchAssumption
<1> QED
  BY <1>1, <1>2 DEF Init, TypeOK, Staged, Underway

\* Every variable has its type at every moment, and no ranking of a search has
\* a chunk twice, whatever the variants, the stores and the merging did.
THEOREM TypesAreKept == Spec => []TypeOK
<1> DEFINE Inv == TypeOK /\ Staged
<1>1. Init => Inv
  BY TypeAtFirst
<1>2. Inv /\ [Next]_vars => Inv'
  BY TypeIsKept
<1>3. Inv => TypeOK
  OBVIOUS
<1> QED
  BY <1>1, <1>2, <1>3, PTL DEF Spec

-----------------------------------------------------------------------------
(* An answer is of the index and of the request.                           *)

\* A step of the search that leaves it with sound lists.
LEMMA SoundSteps ==
    ASSUME HitsAreSound, UNCHANGED <<kind, always, ever>>, search'.req = search.req,
           AllInScope(search'.nearest), AllSound(search'.dense), AllSound(search'.sparse),
           AllSound(search'.found), AllSound(search'.results)
    PROVE  HitsAreSound'
<1>1. AllInScope(search.nearest)'
  BY DEF AllInScope, InScope
<1>2. /\ AllSound(search.dense)' /\ AllSound(search.sparse)'
      /\ AllSound(search.found)' /\ AllSound(search.results)'
  BY DEF AllSound, IsSound, MayShow, InScope, Readable, FtsReadable
<1> QED
  BY <1>1, <1>2 DEF HitsAreSound

\* A chunk with one of the tags has the words of it.
LEMMA ReadableHasWords ==
    ASSUME NEW req, NEW c \in Chunks, Readable(req, Acl[c])
    PROVE  FtsReadable(req, c)
<1>1. CASE req.acl = {}
  BY <1>1 DEF FtsReadable
<1>2. CASE req.acl # {}
  <2>1. PICK tag \in Acl[c] : tag \in req.acl
    BY <1>2 DEF Readable
  <2>2. IsPhraseIn(Words[tag], AclWords[c])
    BY TagAssumption
  <2> QED
    BY <2>1, <2>2 DEF FtsReadable
<1> QED
  BY <1>1, <1>2

\* What the store of its deployment answers with is sound.
LEMMA StoresAreSound ==
    ASSUME TypeOK, Staged, Underway
    PROVE  /\ kind = "postgres" => AllSound(BodyHits(live, search.req))
           /\ kind # "postgres" /\ search.at = "sparse" => AllSound(FtsHits(live, search.req))
           /\ search.at \in {"dense", "payload"} =>
                LET near == Variants(search.req)[search.variant] IN
                /\ kind = "postgres" =>
                     \A seen \in Seen : AllSound(PgNearest(seen, search.req, near))
                /\ AllInScope(VecNearest(live, search.req, near))
           /\ search.at = "payload" /\ AllInScope(search.nearest) =>
                AllSound(VecHits(live, search.req, search.nearest))
<1>1. /\ search.req \in Requests /\ live \in SUBSET Chunks /\ live \subseteq ever
      /\ always \subseteq live /\ IsRanking(search.nearest)
  BY SearchIsTyped DEF TypeOK, Staged
<1>2. search.req.query.bm25 \in [Chunks -> Int] /\ Limit(search.req) \in Nat
  BY <1>1, RequestAssumption, LimitIsEnough
<1>3. kind \in {"sqlite", "postgres"}
  BY SearchAssumption DEF TypeOK
<1>4. \A c \in Chunks : InScope(search.req, c) /\ Readable(search.req, Acl[c]) => MayShow(c)
  BY ReadableHasWords DEF MayShow
<1>5. ASSUME kind = "postgres" PROVE AllSound(BodyHits(live, search.req))
  <2> DEFINE S == {c \in live : /\ InScope(search.req, c) /\ Readable(search.req, Acl[c])
                                /\ search.req.query.bm25[c] > 0}
             h == Scored(S, search.req.query.bm25, Limit(search.req))
  <2>1. \A i \in DOMAIN h : h[i].id \in S /\ h[i].payload = TRUE
    BY <1>1, <1>2, ScoredHits
  <2>2. BodyHits(live, search.req) = h
    BY DEF BodyHits
  <2> HIDE DEF h
  <2> QED
    BY <1>1, <1>4, <2>1, <2>2 DEF AllSound, IsSound
<1>6. ASSUME kind # "postgres", search.at = "sparse" PROVE AllSound(FtsHits(live, search.req))
  <2> DEFINE S == {c \in live : /\ InScope(search.req, c) /\ FtsReadable(search.req, c)
                                /\ search.req.query.bm25[c] > 0}
             h == Scored(S, search.req.query.bm25, Limit(search.req))
  <2>1. \A i \in DOMAIN h : h[i].id \in S /\ h[i].payload = TRUE
    BY <1>1, <1>2, ScoredHits
  <2>2. FtsHits(live, search.req) = h
    BY DEF FtsHits
  <2> HIDE DEF h
  <2>3. search.req.mode # "dense"
    BY <1>6 DEF Staged
  <2>4. \A c \in S : MayShow(c)
    BY <1>3, <1>6, <2>3 DEF MayShow
  <2> QED
    BY <1>1, <2>1, <2>2, <2>4 DEF AllSound, IsSound
<1>7. ASSUME search.at \in {"dense", "payload"}
      PROVE  LET near == Variants(search.req)[search.variant] IN
             /\ kind = "postgres" =>
                  \A seen \in Seen : AllSound(PgNearest(seen, search.req, near))
             /\ AllInScope(VecNearest(live, search.req, near))
  <2> DEFINE near == Variants(search.req)[search.variant]
             W == {c \in live : InScope(search.req, c)}
             h == Scored(W, near, Limit(search.req))
  <2>1. near \in [Chunks -> Int]
    BY <1>7, StoresRank
  <2> HIDE DEF near
  <2>2. ASSUME NEW seen \in Seen PROVE AllSound(PgNearest(seen, search.req, near))
    <3> DEFINE S == {c \in seen : InScope(search.req, c) /\ Readable(search.req, Acl[c])}
               g == Scored(S, near, Limit(search.req))
    <3>1. seen \subseteq live
      BY DEF Seen
    <3>2. \A i \in DOMAIN g : g[i].id \in S /\ g[i].payload = TRUE
      BY <1>1, <1>2, <2>1, <3>1, ScoredHits
    <3>3. PgNearest(seen, search.req, near) = g
      BY DEF PgNearest
    <3> HIDE DEF g
    <3> QED
      BY <1>1, <1>4, <3>1, <3>2, <3>3 DEF AllSound, IsSound
  <2>3. \A i \in DOMAIN h : h[i].id \in W
    BY <1>1, <1>2, <2>1, ScoredHits
  <2>4. VecNearest(live, search.req, near) = h
    BY DEF VecNearest
  <2> HIDE DEF h
  <2>5. AllInScope(h)
    BY <1>1, <2>3 DEF AllInScope
  <2> QED
    BY <2>2, <2>4, <2>5 DEF near
<1>8. ASSUME search.at = "payload", AllInScope(search.nearest)
      PROVE  AllSound(VecHits(live, search.req, search.nearest))
  <2> DEFINE v == VecHits(live, search.req, search.nearest)
  <2>1. \A i \in DOMAIN v :
           /\ \E k \in DOMAIN search.nearest : v[i].id = search.nearest[k].id
           /\ v[i].payload <=> v[i].id \in live
           /\ v[i].id \in live => Readable(search.req, Acl[v[i].id])
    BY <1>1, PayloadsOf
  <2> HIDE DEF v
  <2>2. \A i \in DOMAIN v : v[i].id \in ever /\ InScope(search.req, v[i].id)
    BY <1>8, <2>1 DEF AllInScope
  <2>3. \A i \in DOMAIN v : IF v[i].payload THEN MayShow(v[i].id)
                                            ELSE v[i].id \notin always
    BY <1>1, <1>4, <2>1, <2>2
  <2>4. AllSound(v)
    BY <2>2, <2>3 DEF AllSound, IsSound
  <2> QED
    BY <2>4 DEF v
<1> QED
  BY <1>5, <1>6, <1>7, <1>8

\* Merging, fusing and ranking add no hit that no retriever has found.
LEMMA ListsAreSound ==
    ASSUME TypeOK, Staged, Underway, AllSound(search.dense), AllSound(search.sparse),
           AllSound(search.found)
    PROVE  /\ \A hits : IsRanking(hits) /\ AllSound(hits) => AllSound(BestOf(search.dense, hits))
           /\ AllSound(Dense(search)) /\ AllSound(FoundOf(search))
           /\ search.at = "rank" => AllSound(Ranked(search))
<1>1. /\ search.req \in Requests /\ IsRanking(search.dense) /\ IsRanking(search.sparse)
      /\ IsRanking(search.found)
  BY SearchIsTyped
<1>2. ASSUME NEW hits, IsRanking(hits), AllSound(hits)
      PROVE  AllSound(BestOf(search.dense, hits))
  <2>1. \A i \in DOMAIN BestOf(search.dense, hits) :
           \/ \E k \in DOMAIN search.dense : BestOf(search.dense, hits)[i] = search.dense[k]
           \/ \E k \in DOMAIN hits : BestOf(search.dense, hits)[i] = hits[k]
    BY <1>1, <1>2, BestOfBoth
  <2> QED
    BY <1>2, <2>1 DEF AllSound
<1> DEFINE dense == Dense(search)
           fused == Fused(search.req, dense, search.sparse)
<1>3. IsRanking(dense) /\ IsRanking(fused)
  BY ListsRank
<1>4. \A i \in DOMAIN dense : \E k \in DOMAIN search.dense : dense[i] = search.dense[k]
  BY <1>1, DenseList
<1> HIDE DEF dense
<1>5. AllSound(dense)
  BY <1>4 DEF AllSound
<1>6. \A i \in DOMAIN fused : \/ \E k \in DOMAIN dense : SameChunk(fused[i], dense[k])
                              \/ \E k \in DOMAIN search.sparse : SameChunk(fused[i], search.sparse[k])
  BY <1>1, <1>3, FusedHits
<1>7. \A i \in DOMAIN FoundOf(search) : \E k \in DOMAIN fused : FoundOf(search)[i] = fused[k]
  BY <1>3, HeadingFilter DEF FoundOf, dense
<1> HIDE DEF fused
<1>8. AllSound(fused)
  BY <1>5, <1>6 DEF AllSound, IsSound, SameChunk
<1>9. AllSound(FoundOf(search))
  BY <1>7, <1>8 DEF AllSound
<1>10. ASSUME search.at = "rank" PROVE AllSound(Ranked(search))
  <2>1. \A i \in DOMAIN Ranked(search) : \E k \in DOMAIN search.found :
           Ranked(search)[i] = search.found[k]
    BY <1>1, <1>10, ListsRank, RankedHits
  <2> QED
    BY <2>1 DEF AllSound
<1> QED
  BY <1>2, <1>5, <1>9, <1>10 DEF dense

\* The lists of a step that merges a variant's hits are sound.
LEMMA MergeIsSound ==
    ASSUME TypeOK, Staged, HitsAreSound, Underway,
           NEW hits, IsRanking(hits), AllSound(hits), Merge(hits),
           UNCHANGED <<kind, live, config, always, ever, writes, loaded>>
    PROVE  HitsAreSound'
<1>1. search \in Searches /\ IsRanking(search.dense)
  BY SearchIsTyped
<1>2. /\ search'.req = search.req
      /\ search'.dense = BestOf(search.dense, hits) /\ search'.nearest = <<>>
      /\ search'.sparse = search.sparse /\ search'.found = search.found
      /\ search'.results = search.results
  BY <1>1, MergeFields
<1>3. /\ AllSound(search.dense) /\ AllSound(search.sparse) /\ AllSound(search.found)
      /\ AllSound(search.results)
  BY DEF HitsAreSound
<1>4. AllSound(BestOf(search.dense, hits))
  BY <1>3, ListsAreSound
<1>5. AllInScope(<<>>)
  BY EmptySeq, LenProperties DEF AllInScope
<1> QED
  BY <1>2, <1>3, <1>4, <1>5, SoundSteps

\* Every step keeps the lists sound.
LEMMA SoundIsKept ==
    ASSUME TypeOK, Staged, HitsAreSound, [Next]_vars
    PROVE  HitsAreSound'
<1>1. ASSUME NEW req \in Requests, Begin(req) PROVE HitsAreSound'
  <2>1. NoHitsYet'
    BY <1>1, BeginFields
  <2>2. DOMAIN <<>> = {}
    BY EmptySeq, LenProperties
  <2> QED
    BY <2>1, <2>2 DEF HitsAreSound, AllSound, AllInScope, NoHitsYet
<1>2. ASSUME Underway
      PROVE  /\ search \in Searches /\ IsRanking(search.found)
             /\ AllInScope(search.nearest)
             /\ AllSound(search.dense) /\ AllSound(search.sparse)
             /\ AllSound(search.found) /\ AllSound(search.results)
  BY <1>2, SearchIsTyped DEF HitsAreSound
<1>3. ASSUME SearchDense PROVE HitsAreSound'
  <2>1. search.at = "dense" /\ Underway
    BY <1>3 DEF SearchDense, Underway
  <2> DEFINE near == Variants(search.req)[search.variant]
  <2>2. /\ \A seen \in Seen : IsRanking(PgNearest(seen, search.req, near))
        /\ kind = "postgres" =>
             \A seen \in Seen : AllSound(PgNearest(seen, search.req, near))
        /\ AllInScope(VecNearest(live, search.req, near))
    BY <2>1, StoresRank, StoresAreSound
  <2>3. UNCHANGED <<kind, live, config, always, ever, writes, loaded>>
    BY <1>3 DEF SearchDense, Outside
  <2>4. \/ /\ kind = "postgres"
           /\ \E seen \in Seen : Merge(PgNearest(seen, search.req, near))
        \/ /\ search'.nearest = VecNearest(live, search.req, near)
           /\ search'.req = search.req
           /\ search'.dense = search.dense /\ search'.sparse = search.sparse
           /\ search'.found = search.found /\ search'.results = search.results
    BY <1>2, <1>3, <2>1, SearchDenseFields
  <2> HIDE DEF near
  <2> QED
    BY <1>2, <2>1, <2>2, <2>3, <2>4, MergeIsSound, SoundSteps
<1>4. ASSUME ReadPayloads PROVE HitsAreSound'
  <2>1. /\ search.at = "payload" /\ Merge(VecHits(live, search.req, search.nearest))
        /\ UNCHANGED <<kind, live, config, always, ever, writes, loaded>>
    BY <1>4, ReadPayloadsFields
  <2>2. Underway
    BY <2>1 DEF Underway
  <2>3. /\ IsRanking(VecHits(live, search.req, search.nearest))
        /\ AllSound(VecHits(live, search.req, search.nearest))
    BY <1>2, <2>1, <2>2, StoresRank, StoresAreSound
  <2> QED
    BY <2>1, <2>2, <2>3, MergeIsSound
<1>5. ASSUME SearchSparse PROVE HitsAreSound'
  <2>1. Underway /\ search.at = "sparse"
    BY <1>5 DEF SearchSparse, Underway
  <2>2. /\ kind = "postgres" => AllSound(BodyHits(live, search.req))
        /\ kind # "postgres" => AllSound(FtsHits(live, search.req))
        /\ BodyHits(live, search.req) \in Seq(HitSet)
        /\ FtsHits(live, search.req) \in Seq(HitSet)
    BY <2>1, StoresAreSound, StoresRank DEF IsRanking
  <2>3. /\ search'.req = search.req
        /\ \/ kind = "postgres" /\ search'.sparse = BodyHits(live, search.req)
           \/ kind # "postgres" /\ search'.sparse = FtsHits(live, search.req)
        /\ search'.nearest = search.nearest /\ search'.dense = search.dense
        /\ search'.found = search.found /\ search'.results = search.results
        /\ UNCHANGED <<kind, live, config, always, ever, writes, loaded>>
    BY <1>2, <1>5, <2>1, <2>2, SearchSparseFields
  <2> QED
    BY <1>2, <2>1, <2>2, <2>3, SoundSteps
<1>6. ASSUME Fuse PROVE HitsAreSound'
  <2>1. Underway
    BY <1>6 DEF Fuse, Underway
  <2>2. AllSound(FoundOf(search)) /\ FoundOf(search) \in Seq(HitSet)
    BY <1>2, <2>1, ListsAreSound, ListsRank DEF IsRanking
  <2>3. /\ search'.req = search.req /\ search'.found = FoundOf(search)
        /\ search'.nearest = search.nearest /\ search'.dense = search.dense
        /\ search'.sparse = search.sparse /\ search'.results = search.results
        /\ UNCHANGED <<kind, live, config, always, ever, writes>>
    BY <1>2, <1>6, <2>1, <2>2, FuseFields
  <2> QED
    BY <1>2, <2>1, <2>2, <2>3, SoundSteps
<1>7. ASSUME LookUpTokens PROVE HitsAreSound'
  <2>1. Underway
    BY <1>7 DEF LookUpTokens, Underway
  <2>2. Found(search.found) \subseteq Chunks
    BY <1>2, <2>1, LenIsCount
  <2>3. /\ search'.req = search.req /\ search'.found = search.found
        /\ search'.nearest = search.nearest /\ search'.dense = search.dense
        /\ search'.sparse = search.sparse /\ search'.results = search.results
        /\ UNCHANGED <<kind, live, config, always, ever, writes>>
    BY <1>2, <1>7, <2>1, <2>2, LookUpTokensFields
  <2> QED
    BY <1>2, <2>1, <2>3, SoundSteps
<1>8. ASSUME RankAndCite PROVE HitsAreSound'
  <2>1. search.at = "rank" /\ Underway
    BY <1>8 DEF RankAndCite, Underway
  <2>2. AllSound(Ranked(search)) /\ Ranked(search) \in Seq(HitSet)
    BY <1>2, <2>1, ListsAreSound, ListsRank DEF IsRanking
  <2>3. /\ search'.req = search.req /\ search'.results = Ranked(search)
        /\ search'.nearest = search.nearest /\ search'.dense = search.dense
        /\ search'.sparse = search.sparse /\ search'.found = search.found
        /\ UNCHANGED <<kind, live, config, always, ever, writes>>
    BY <1>2, <1>8, <2>1, <2>2, RankAndCiteFields
  <2> QED
    BY <1>2, <2>1, <2>2, <2>3, SoundSteps
<1>9. ASSUME RetrieverFails PROVE HitsAreSound'
  <2>1. Underway
    BY <1>9 DEF RetrieverFails, Underway
  <2>2. /\ search'.req = search.req
        /\ search'.nearest = search.nearest /\ search'.dense = search.dense
        /\ search'.sparse = search.sparse /\ search'.found = search.found
        /\ search'.results = search.results
        /\ UNCHANGED <<kind, live, config, always, ever, writes>>
    BY <1>2, <1>9, <2>1, RetrieverFailsFields
  <2> QED
    BY <1>2, <2>1, <2>2, SoundSteps
<1>10. ASSUME Return PROVE HitsAreSound'
  BY <1>10, ReturnFields DEF HitsAreSound, Underway, Idle
<1>11. ASSUME (\E c \in Chunks : Publish(c)) \/ (\E d \in Documents : Delete(d))
       PROVE  HitsAreSound'
  <2>1. /\ always' = always \cap live' /\ ever' = IF Underway THEN ever \cup live' ELSE ever
        /\ UNCHANGED <<kind, search>>
    BY <1>11, WriteFields
  <2>2. always' \subseteq always /\ ever \subseteq ever'
    BY <2>1
  <2>3. ASSUME Underway
        PROVE  /\ AllInScope(search.nearest)'
               /\ AllSound(search.dense)' /\ AllSound(search.sparse)'
               /\ AllSound(search.found)' /\ AllSound(search.results)'
    <3>1. AllInScope(search.nearest)'
      BY <1>2, <2>1, <2>2, <2>3 DEF AllInScope, InScope
    <3>2. AllSound(search.dense)' /\ AllSound(search.sparse)'
      BY <1>2, <2>1, <2>2, <2>3 DEF AllSound, IsSound, MayShow, InScope, Readable, FtsReadable
    <3>3. AllSound(search.found)' /\ AllSound(search.results)'
      BY <1>2, <2>1, <2>2, <2>3 DEF AllSound, IsSound, MayShow, InScope, Readable, FtsReadable
    <3> QED
      BY <3>1, <3>2, <3>3
  <2> QED
    BY <2>1, <2>3 DEF HitsAreSound, Underway
<1>12. ASSUME UNCHANGED vars PROVE HitsAreSound'
  BY <1>12 DEF vars, HitsAreSound, Underway, AllInScope, AllSound, IsSound,
                MayShow, InScope, Readable, FtsReadable
<1> QED
  BY <1>1, <1>3, <1>4, <1>5, <1>6, <1>7, <1>8, <1>9, <1>10, <1>11, <1>12 DEF Next

\* Whatever is published, replaced or deleted between the statements of a
\* search, and whichever of them fail: an answer shows chunks that were in the
\* index during it, with their text only those the filter of a store that was
\* asked lets through, and without it only those that are gone.
THEOREM AnswersAreOfTheIndex == Spec => []ResultsAreOfTheIndex
<1> DEFINE Inv == TypeOK /\ Staged /\ HitsAreSound
<1>1. Init => Inv
  BY TypeAtFirst DEF Init, Idle, HitsAreSound, Underway
<1>2. Inv /\ [Next]_vars => Inv'
  BY TypeIsKept, SoundIsKept
<1>3. Inv => ResultsAreOfTheIndex
  BY DEF HitsAreSound, Underway, AllSound, IsSound, ResultsAreOfTheIndex, Answered
<1> QED
  BY <1>1, <1>2, <1>3, PTL DEF Spec

-----------------------------------------------------------------------------
(* An answer leaves nothing out that there is room for.                    *)

\* The request and the chunks of a search that goes on are those it had.
LEMMA WantedStays ==
    ASSUME Underway, UNCHANGED <<kind, always, ever>>, search'.req = search.req
    PROVE  /\ Unfiltered' => Unfiltered
           /\ Kept' = Kept /\ Matching' = Matching /\ Lasting' = Lasting /\ Wanted' = Wanted
           /\ (DenseSeesAll)' <=> DenseSeesAll
           /\ Limit(search.req)' = Limit(search.req)
<1>1. \A c : Allowed(c)' <=> Allowed(c)
  BY DEF Allowed, InScope, Readable
<1>2. Limit(search.req)' = Limit(search.req)
  BY DEF Limit
<1>3. {c \in ever : InScope(search.req, c)}' = {c \in ever : InScope(search.req, c)}
  BY DEF InScope
<1>4. DenseSeesAll' <=> DenseSeesAll
  BY <1>2, <1>3 DEF DenseSeesAll, NeedsExactScan
<1>5. \A c : Findable(c)' <=> Findable(c)
  BY <1>4 DEF Findable, Weight
<1>6. Kept' = Kept
  BY <1>1 DEF Kept
<1>7. Matching' = Matching
  BY <1>6 DEF Matching
<1>8. Lasting' = Lasting
  BY DEF Lasting, InScope
<1>9. Wanted' = Wanted
  BY <1>1, <1>5 DEF Wanted
<1>10. Unfiltered' => Unfiltered
  BY DEF Unfiltered
<1> QED
  BY <1>2, <1>4, <1>6, <1>7, <1>8, <1>9, <1>10

\* A search that goes on keeps a list that is full or has a set.
LEMMA FullOrStays ==
    ASSUME NEW hits, NEW n, NEW S, NEW S2 \in SUBSET S, FullOr(hits, n, S)
    PROVE  FullOr(hits, n, S2)
BY DEF FullOr

\* Each store returns a full list, or all of the chunks that are wanted of it.
LEMMA StoresLoseNone ==
    ASSUME TypeOK, Staged, HitsAreSound, Underway
    PROVE  LET n == Limit(search.req) IN
           /\ FullOr(BodyHits(live, search.req), n, Matching)
           /\ FullOr(FtsHits(live, search.req), n, Matching)
           /\ search.at \in {"dense", "payload"} =>
                LET near == Variants(search.req)[search.variant] IN
                /\ kind = "postgres" /\ DenseSeesAll =>
                     \A seen \in Seen : FullOr(PgNearest(seen, search.req, near), n, Kept)
                /\ FullOr(VecNearest(live, search.req, near), n, Lasting)
           /\ search.at = "payload" /\ DenseSeesAll /\ FullOr(search.nearest, n, Lasting) =>
                FullOr(VecHits(live, search.req, search.nearest), n, Kept)
<1> DEFINE n == Limit(search.req)
<1>1. /\ search.req \in Requests /\ live \in SUBSET Chunks /\ live \subseteq ever
      /\ always \subseteq live /\ IsRanking(search.nearest) /\ ever \in SUBSET Chunks
      /\ AllInScope(search.nearest)
  BY SearchIsTyped DEF TypeOK, Staged, HitsAreSound
<1>2. search.req.query.bm25 \in [Chunks -> Int] /\ n \in Nat
  BY <1>1, RequestAssumption, LimitIsEnough
<1>3. /\ Kept = {c \in always : InScope(search.req, c) /\ Readable(search.req, Acl[c])}
      /\ Matching = {c \in Kept : search.req.query.bm25[c] > 0}
      /\ Lasting = {c \in always : InScope(search.req, c)}
  BY DEF Kept, Allowed, Matching, Lasting
<1> HIDE DEF n
<1>4. FullOr(BodyHits(live, search.req), n, Matching)
  <2> DEFINE S == {c \in live : /\ InScope(search.req, c) /\ Readable(search.req, Acl[c])
                                /\ search.req.query.bm25[c] > 0}
             h == Scored(S, search.req.query.bm25, n)
  <2>1. FullOr(h, n, S)
    BY <1>1, <1>2, ScoredHits
  <2>2. BodyHits(live, search.req) = h
    BY DEF BodyHits, n
  <2> HIDE DEF h
  <2>3. Matching \in SUBSET S
    BY <1>1, <1>3
  <2> QED
    BY <2>1, <2>2, <2>3, FullOrStays
<1>5. FullOr(FtsHits(live, search.req), n, Matching)
  <2> DEFINE S == {c \in live : /\ InScope(search.req, c) /\ FtsReadable(search.req, c)
                                /\ search.req.query.bm25[c] > 0}
             h == Scored(S, search.req.query.bm25, n)
  <2>1. FullOr(h, n, S)
    BY <1>1, <1>2, ScoredHits
  <2>2. FtsHits(live, search.req) = h
    BY DEF FtsHits, n
  <2> HIDE DEF h
  <2>3. Matching \in SUBSET S
    BY <1>1, <1>3, ReadableHasWords
  <2> QED
    BY <2>1, <2>2, <2>3, FullOrStays
<1>6. ASSUME search.at \in {"dense", "payload"}
      PROVE  LET near == Variants(search.req)[search.variant] IN
             /\ kind = "postgres" /\ DenseSeesAll =>
                  \A seen \in Seen : FullOr(PgNearest(seen, search.req, near), n, Kept)
             /\ FullOr(VecNearest(live, search.req, near), n, Lasting)
  <2> DEFINE near == Variants(search.req)[search.variant]
             S == {c \in live : InScope(search.req, c) /\ Readable(search.req, Acl[c])}
             W == {c \in live : InScope(search.req, c)}
  <2>1. near \in [Chunks -> Int]
    BY <1>6, StoresRank
  <2> HIDE DEF near
  <2>2. FullOr(Scored(S, near, n), n, S) /\ FullOr(Scored(W, near, n), n, W)
    BY <1>1, <1>2, <2>1, ScoredHits
  <2>3. PgNearest(live, search.req, near) = Scored(S, near, n)
    BY DEF PgNearest, n
  <2>4. VecNearest(live, search.req, near) = Scored(W, near, n)
    BY DEF VecNearest, n
  <2>5. Kept \in SUBSET S /\ Lasting \in SUBSET W
    BY <1>1, <1>3
  <2>6. FullOr(PgNearest(live, search.req, near), n, Kept)
    BY <2>2, <2>3, <2>5, FullOrStays
  <2>7. FullOr(VecNearest(live, search.req, near), n, Lasting)
    BY <2>2, <2>4, <2>5, FullOrStays
  <2>8. kind = "postgres" /\ DenseSeesAll => Seen = {live}
    BY DEF DenseSeesAll, Seen
  <2> QED
    BY <2>6, <2>7, <2>8 DEF near
<1>7. ASSUME search.at = "payload", DenseSeesAll, FullOr(search.nearest, n, Lasting)
      PROVE  FullOr(VecHits(live, search.req, search.nearest), n, Kept)
  <2> DEFINE v == VecHits(live, search.req, search.nearest)
  <2>1. /\ IsRanking(v)
        /\ \A k \in DOMAIN search.nearest :
             (search.nearest[k].id \in live /\ Readable(search.req, Acl[search.nearest[k].id])) =>
                 search.nearest[k].id \in Found(v)
        /\ search.req.acl = {} => Found(search.nearest) \subseteq Found(v)
    BY <1>1, PayloadsOf
  <2> HIDE DEF v
  <2>2. CASE search.req.acl = {}
    <3>1. FullOr(v, n, Found(search.nearest))
      BY <2>1, <2>2 DEF FullOr
    <3>2. FullOr(v, n, Lasting)
      BY <1>1, <1>2, <1>7, <2>1, <3>1, FullOrOn
    <3>3. Kept \in SUBSET Lasting
      BY <1>3
    <3> QED
      BY <3>2, <3>3, FullOrStays DEF v
  <2>3. CASE search.req.acl # {}
    <3> DEFINE scope == {c \in ever : InScope(search.req, c)}
    <3>1. Cardinality(scope) <= n
      BY <1>7, <2>3 DEF DenseSeesAll, Staged, n
    <3>2. IsFiniteSet(scope)
      BY <1>1, SearchAssumption, FS_Subset
    <3>3. Found(search.nearest) \in SUBSET scope
      BY <1>1 DEF AllInScope, Found
    <3>4. Lasting \subseteq scope
      BY <1>1, <1>3
    <3> HIDE DEF scope
    <3>5. Lasting \subseteq Found(search.nearest)
      <4>1. CASE Len(search.nearest) >= n
        <5>1. Cardinality(Found(search.nearest)) >= Cardinality(scope)
          BY <1>1, <1>2, <3>1, <3>2, <4>1, LenIsCount, FS_CardinalityType
        <5>2. Found(search.nearest) = scope
          BY <1>1, <3>2, <3>3, <5>1, LenIsCount, FS_Subset, FS_CardinalityType
        <5> QED
          BY <3>4, <5>2
      <4> QED
        BY <1>7, <4>1 DEF FullOr
    <3>6. \A c \in Kept : c \in Found(v)
      <4> SUFFICES ASSUME NEW c \in Kept PROVE c \in Found(v)
        OBVIOUS
      <4>1. PICK k \in DOMAIN search.nearest : search.nearest[k].id = c
        BY <1>3, <3>5 DEF Found
      <4> QED
        BY <1>1, <1>3, <2>1, <4>1
    <3> QED
      BY <3>6 DEF FullOr, v
  <2> QED
    BY <2>2, <2>3
<1> QED
  BY <1>4, <1>5, <1>6, <1>7 DEF n

\* The fusion and the ranking leave room for what the lists have.
LEMMA ListsLoseNone ==
    ASSUME TypeOK, Staged, Unfiltered, NoneIsLost
    PROVE  /\ search.at = "fuse" => FullOr(FoundOf(search), Limit(search.req), Wanted)
           /\ search.at = "rank" => /\ FullOr(Ranked(search), search.req.topK, Wanted)
                                    /\ Len(Ranked(search)) <= search.req.topK
<1> DEFINE n == Limit(search.req)
<1>1. /\ search.req \in Requests /\ IsRanking(search.dense) /\ IsRanking(search.sparse)
      /\ IsRanking(search.found) /\ Underway
  BY SearchIsTyped DEF Unfiltered
<1>2. /\ search.req.mode \in {"hybrid", "dense", "sparse"}
      /\ n \in Nat /\ search.req.topK \in Nat /\ search.req.topK <= n
  BY <1>1, RequestAssumption, LimitIsEnough
<1> HIDE DEF n
<1>3. ASSUME search.at = "fuse" PROVE FullOr(FoundOf(search), n, Wanted)
  <2> DEFINE dense == Dense(search)
             fused == Fused(search.req, dense, search.sparse)
  <2>1. FullOr(dense, n, Found(search.dense))
    BY <1>1, DenseList DEF n
  <2>2. IsRanking(dense) /\ IsRanking(fused) /\ IsRanking(FoundOf(search))
    BY <1>1, ListsRank
  <2> HIDE DEF dense
  <2>3. /\ Weight(search.req, "dense") > 0 => FullOr(fused, n, Found(dense))
        /\ Weight(search.req, "sparse") > 0 => FullOr(fused, n, Found(search.sparse))
    BY <1>1, <2>2, FusedHits DEF n
  <2>4. FullOr(FoundOf(search), n, Found(fused))
    BY <2>2, HeadingFilter DEF FoundOf, dense, Unfiltered, FullOr
  <2> HIDE DEF fused
  <2>5. ASSUME Weight(search.req, "dense") > 0, DenseSeesAll
        PROVE  FullOr(FoundOf(search), n, Kept)
    <3>1. search.req.mode # "sparse"
      BY <1>2, <2>5 DEF Weight
    <3>2. FullOr(search.dense, n, Kept)
      BY <1>3, <2>5, <3>1 DEF NoneIsLost, DenseIsSearched, n
    <3>3. FullOr(dense, n, Kept)
      BY <1>1, <1>2, <2>1, <2>2, <3>2, FullOrOn
    <3>4. FullOr(fused, n, Kept)
      BY <1>2, <2>2, <2>3, <2>5, <3>3, FullOrOn
    <3> QED
      BY <1>2, <2>2, <2>4, <3>4, FullOrOn
  <2>6. ASSUME Weight(search.req, "sparse") > 0
        PROVE  FullOr(FoundOf(search), n, Matching)
    <3>1. search.req.mode # "dense"
      BY <1>2, <2>6 DEF Weight
    <3>2. FullOr(search.sparse, n, Matching)
      BY <1>3, <3>1 DEF NoneIsLost, n
    <3>3. FullOr(fused, n, Matching)
      BY <1>1, <1>2, <2>2, <2>3, <2>6, <3>2, FullOrOn
    <3> QED
      BY <1>2, <2>2, <2>4, <3>3, FullOrOn
  <2> QED
    BY <2>5, <2>6 DEF FullOr, Wanted, Findable, Kept, Matching
<1>4. ASSUME search.at = "rank"
      PROVE  FullOr(Ranked(search), search.req.topK, Wanted) /\ Len(Ranked(search)) <= search.req.topK
  <2>1. /\ FullOr(Ranked(search), search.req.topK, Found(search.found))
        /\ Len(Ranked(search)) <= search.req.topK /\ IsRanking(Ranked(search))
    BY <1>1, <1>4, ListsRank, RankedHits
  <2>2. FullOr(search.found, n, Wanted)
    BY <1>4 DEF NoneIsLost, n
  <2> QED
    BY <1>1, <1>2, <2>1, <2>2, FullOrOn
<1> QED
  BY <1>3, <1>4 DEF n

\* A dense search that has lost nothing of one variant has lost nothing.
LEMMA MergeLosesNone ==
    ASSUME TypeOK, Staged, Underway, search.at \in {"dense", "payload"},
           NEW hits, IsRanking(hits),
           Unfiltered /\ DenseSeesAll => FullOr(hits, Limit(search.req), Kept), Merge(hits),
           UNCHANGED <<kind, live, config, always, ever, writes, loaded>>
    PROVE  NoneIsLost'
<1>1. search \in Searches /\ IsRanking(search.dense) /\ search.req \in Requests
  BY SearchIsTyped
<1>2. /\ search'.req = search.req /\ search'.dense = BestOf(search.dense, hits)
      /\ search'.at = "dense" \/ search'.at = AfterDense(search)
  BY <1>1, MergeFields
<1>3. /\ IsRanking(BestOf(search.dense, hits))
      /\ Found(BestOf(search.dense, hits)) = Found(search.dense) \cup Found(hits)
  BY <1>1, BestOfBoth
<1>4. /\ Unfiltered' => Unfiltered
      /\ Kept' = Kept /\ (DenseSeesAll' <=> DenseSeesAll)
      /\ Limit(search.req)' = Limit(search.req)
  BY <1>2, WantedStays
<1>5. Limit(search.req) \in Nat
  BY <1>1, LimitIsEnough
<1>6. FullOr(BestOf(search.dense, hits), Limit(search.req), Found(hits))
  BY <1>3 DEF FullOr
<1>7. Unfiltered' /\ DenseSeesAll' => FullOr(search.dense, Limit(search.req), Kept)'
  <2> SUFFICES ASSUME Unfiltered', DenseSeesAll'
               PROVE  FullOr(search.dense, Limit(search.req), Kept)'
    OBVIOUS
  <2>1. FullOr(hits, Limit(search.req), Kept)
    BY <1>4
  <2>2. FullOr(BestOf(search.dense, hits), Limit(search.req), Kept)
    BY <1>3, <1>5, <1>6, <2>1, FullOrOn
  <2> QED
    BY <1>2, <1>4, <2>2 DEF FullOr, Found
<1>8. /\ search'.at \in {"dense", "sparse", "fuse"}
      /\ search'.at = "fuse" => search.req.mode = "dense"
  BY <1>2 DEF AfterDense
<1> QED
  BY <1>2, <1>7, <1>8 DEF NoneIsLost, Answered

\* No step loses a chunk there is room for.
LEMMA LossIsAvoided ==
    ASSUME TypeOK, Staged, HitsAreSound, NoneIsLost, [Next]_vars
    PROVE  NoneIsLost'
<1>1. ASSUME NEW req \in Requests, Begin(req) PROVE NoneIsLost'
  <2>1. /\ search'.req = req /\ search'.variant = 1
        /\ search'.at = IF req.query.near = <<>> THEN "answered"
                        ELSE IF req.mode = "sparse" THEN "sparse" ELSE "dense"
    BY <1>1, BeginFields
  <2> QED
    BY <2>1 DEF NoneIsLost, Unfiltered, DenseIsSearched, Answered
<1>2. ASSUME Underway
      PROVE  search \in Searches /\ IsRanking(search.found)
  BY <1>2, SearchIsTyped
<1>3. ASSUME SearchDense PROVE NoneIsLost'
  <2>1. search.at = "dense" /\ Underway
    BY <1>3 DEF SearchDense, Underway
  <2> DEFINE near == Variants(search.req)[search.variant]
  <2>2. /\ \A seen \in Seen : IsRanking(PgNearest(seen, search.req, near))
        /\ kind = "postgres" /\ DenseSeesAll =>
             \A seen \in Seen : FullOr(PgNearest(seen, search.req, near), Limit(search.req), Kept)
        /\ FullOr(VecNearest(live, search.req, near), Limit(search.req), Lasting)
    BY <2>1, StoresRank, StoresLoseNone
  <2>3. UNCHANGED <<kind, live, config, always, ever, writes, loaded>>
    BY <1>3 DEF SearchDense, Outside
  <2>4. \/ /\ kind = "postgres"
           /\ \E seen \in Seen : Merge(PgNearest(seen, search.req, near))
        \/ /\ kind # "postgres" /\ search'.at = "payload"
           /\ search'.nearest = VecNearest(live, search.req, near)
           /\ search'.req = search.req /\ search'.variant = search.variant
           /\ search'.dense = search.dense
    BY <1>2, <1>3, <2>1, SearchDenseFields
  <2> HIDE DEF near
  <2>5. ASSUME kind = "postgres", NEW seen \in Seen, Merge(PgNearest(seen, search.req, near))
        PROVE  NoneIsLost'
    BY <2>1, <2>2, <2>3, <2>5, MergeLosesNone
  <2>6. ASSUME search'.at = "payload",
               search'.nearest = VecNearest(live, search.req, near),
               search'.req = search.req, search'.variant = search.variant,
               search'.dense = search.dense
        PROVE  NoneIsLost'
    <3>1. /\ Unfiltered' => Unfiltered
          /\ Kept' = Kept /\ Lasting' = Lasting /\ (DenseSeesAll' <=> DenseSeesAll)
          /\ Limit(search.req)' = Limit(search.req)
      BY <2>1, <2>3, <2>6, WantedStays
    <3>2. FullOr(search.nearest, Limit(search.req), Lasting)'
      BY <2>2, <2>6, <3>1 DEF FullOr, Found
    <3>3. Unfiltered' /\ DenseSeesAll' /\ DenseIsSearched' =>
             FullOr(search.dense, Limit(search.req), Kept)'
      BY <2>1, <2>6, <3>1 DEF NoneIsLost, DenseIsSearched, FullOr, Found
    <3> QED
      BY <2>6, <3>2, <3>3 DEF NoneIsLost, Answered
  <2> QED
    BY <2>4, <2>5, <2>6
<1>4. ASSUME ReadPayloads PROVE NoneIsLost'
  <2>1. /\ search.at = "payload" /\ Merge(VecHits(live, search.req, search.nearest))
        /\ UNCHANGED <<kind, live, config, always, ever, writes, loaded>>
    BY <1>4, ReadPayloadsFields
  <2>2. Underway
    BY <2>1 DEF Underway
  <2>3. Unfiltered /\ DenseSeesAll =>
           FullOr(VecHits(live, search.req, search.nearest), Limit(search.req), Kept)
    BY <2>1, <2>2, StoresLoseNone DEF NoneIsLost
  <2> QED
    BY <2>1, <2>2, <2>3, StoresRank, MergeLosesNone
<1>5. ASSUME SearchSparse PROVE NoneIsLost'
  <2>1. search.at = "sparse" /\ Underway
    BY <1>5 DEF SearchSparse, Underway
  <2>2. /\ BodyHits(live, search.req) \in Seq(HitSet)
        /\ FtsHits(live, search.req) \in Seq(HitSet)
        /\ FullOr(BodyHits(live, search.req), Limit(search.req), Matching)
        /\ FullOr(FtsHits(live, search.req), Limit(search.req), Matching)
    BY <2>1, StoresRank, StoresLoseNone DEF IsRanking
  <2>3. /\ search'.req = search.req /\ search'.at = "fuse"
        /\ search'.sparse = BodyHits(live, search.req) \/ search'.sparse = FtsHits(live, search.req)
        /\ search'.dense = search.dense
        /\ UNCHANGED <<kind, live, config, always, ever, writes, loaded>>
    BY <1>2, <1>5, <2>1, <2>2, SearchSparseFields
  <2>4. /\ Unfiltered' => Unfiltered
        /\ Kept' = Kept /\ Matching' = Matching /\ (DenseSeesAll' <=> DenseSeesAll)
        /\ Limit(search.req)' = Limit(search.req)
    BY <2>1, <2>3, WantedStays
  <2>5. FullOr(search.sparse, Limit(search.req), Matching)'
    BY <2>2, <2>3, <2>4 DEF FullOr, Found
  <2>6. Unfiltered' /\ DenseSeesAll' /\ DenseIsSearched' =>
           FullOr(search.dense, Limit(search.req), Kept)'
    BY <2>1, <2>3, <2>4 DEF NoneIsLost, DenseIsSearched, FullOr, Found
  <2> QED
    BY <2>3, <2>5, <2>6 DEF NoneIsLost, Answered
<1>6. ASSUME Fuse PROVE NoneIsLost'
  <2>1. search.at = "fuse" /\ Underway
    BY <1>6 DEF Fuse, Underway
  <2>2. FoundOf(search) \in Seq(HitSet)
    BY <2>1, ListsRank DEF IsRanking
  <2>3. /\ search'.req = search.req /\ search'.found = FoundOf(search)
        /\ search'.at \in {"tokens", "rank"}
        /\ UNCHANGED <<kind, live, config, always, ever, writes>>
    BY <1>2, <1>6, <2>1, <2>2, FuseFields
  <2>4. /\ Unfiltered' => Unfiltered
        /\ Wanted' = Wanted /\ Limit(search.req)' = Limit(search.req)
    BY <2>1, <2>3, WantedStays
  <2>5. Unfiltered' => FullOr(search.found, Limit(search.req), Wanted)'
    BY <2>1, <2>3, <2>4, ListsLoseNone DEF FullOr, Found
  <2> QED
    BY <2>3, <2>5 DEF NoneIsLost, DenseIsSearched, Answered
<1>7. ASSUME LookUpTokens PROVE NoneIsLost'
  <2>1. search.at = "tokens" /\ Underway
    BY <1>7 DEF LookUpTokens, Underway
  <2>2. Found(search.found) \subseteq Chunks
    BY <1>2, <2>1, LenIsCount
  <2>3. /\ search'.req = search.req /\ search'.found = search.found /\ search'.at = "rank"
        /\ UNCHANGED <<kind, live, config, always, ever, writes>>
    BY <1>2, <1>7, <2>1, <2>2, LookUpTokensFields
  <2>4. /\ Unfiltered' => Unfiltered
        /\ Wanted' = Wanted /\ Limit(search.req)' = Limit(search.req)
    BY <2>1, <2>3, WantedStays
  <2>5. Unfiltered' => FullOr(search.found, Limit(search.req), Wanted)'
    BY <2>1, <2>3, <2>4 DEF FullOr, Found, NoneIsLost
  <2> QED
    BY <2>3, <2>5 DEF NoneIsLost, DenseIsSearched, Answered
<1>8. ASSUME RankAndCite PROVE NoneIsLost'
  <2>1. search.at = "rank" /\ Underway
    BY <1>8 DEF RankAndCite, Underway
  <2>2. Ranked(search) \in Seq(HitSet)
    BY <2>1, ListsRank DEF IsRanking
  <2>3. /\ search'.req = search.req /\ search'.results = Ranked(search)
        /\ search'.at = "answered"
        /\ UNCHANGED <<kind, live, config, always, ever, writes>>
    BY <1>2, <1>8, <2>1, <2>2, RankAndCiteFields
  <2>4. (Unfiltered' => Unfiltered) /\ Wanted' = Wanted
    BY <2>1, <2>3, WantedStays
  <2>5. Unfiltered' => /\ FullOr(search.results, search.req.topK, Wanted)'
                       /\ Len(search'.results) <= search'.req.topK
    BY <2>1, <2>3, <2>4, ListsLoseNone DEF FullOr, Found
  <2> QED
    BY <2>3, <2>5 DEF NoneIsLost, DenseIsSearched
<1>9. ASSUME RetrieverFails PROVE NoneIsLost'
  <2>1. Underway
    BY <1>9 DEF RetrieverFails, Underway
  <2>2. search'.at = "failed"
    BY <1>2, <1>9, <2>1, RetrieverFailsFields
  <2> QED
    BY <2>2 DEF NoneIsLost, DenseIsSearched, Answered
<1>10. ASSUME Return PROVE NoneIsLost'
  BY <1>10, ReturnFields DEF NoneIsLost, Unfiltered, Underway, Idle
<1>11. ASSUME (\E c \in Chunks : Publish(c)) \/ (\E d \in Documents : Delete(d))
       PROVE  NoneIsLost'
  <2> SUFFICES ASSUME Underway, Unfiltered PROVE NoneIsLost'
    <3>1. search' = search
      BY <1>11, WriteFields
    <3> QED
      BY <3>1 DEF NoneIsLost, Unfiltered, Underway
  <2>1. /\ always' = always \cap live' /\ ever' = ever \cup live' /\ live' \subseteq Chunks
        /\ UNCHANGED <<kind, search>>
    BY <1>11, WriteFields
  <2>2. \A c : /\ Allowed(c)' <=> Allowed(c)
               /\ InScope(search.req, c)' <=> InScope(search.req, c)
    BY <2>1 DEF Allowed, InScope, Readable
  <2>3. Kept' \in SUBSET Kept /\ Lasting' \in SUBSET Lasting
    BY <2>1, <2>2 DEF Kept, Lasting
  <2>4. Matching' \in SUBSET Matching
    BY <2>1, <2>3 DEF Matching
  <2>5. DenseSeesAll' => DenseSeesAll
    <3> DEFINE scope == {c \in ever : InScope(search.req, c)}
               later == {c \in ever' : InScope(search.req, c)}
    <3>1. scope' = later
      BY <2>2
    <3>2. IsFiniteSet(later) /\ scope \in SUBSET later
      BY <2>1, SearchAssumption, FS_Subset DEF TypeOK
    <3>3. /\ Cardinality(scope) <= Cardinality(later)
          /\ Cardinality(scope) \in Nat /\ Cardinality(later) \in Nat
      BY <3>2, FS_Subset, FS_CardinalityType
    <3>4. search.req \in Requests /\ Limit(search.req) \in Nat
      BY SearchIsTyped, LimitIsEnough
    <3>5. Limit(search.req)' = Limit(search.req)
      BY <2>1 DEF Limit
    <3>6. Cardinality(later) <= Limit(search.req) => Cardinality(scope) <= Limit(search.req)
      BY <3>3, <3>4
    <3> HIDE DEF later
    <3> QED
      BY <2>1, <3>1, <3>5, <3>6 DEF DenseSeesAll, NeedsExactScan
  <2>6. Wanted' \in SUBSET Wanted
    <3>1. \A c : Findable(c)' => Findable(c)
      BY <2>1, <2>5 DEF Findable, Weight
    <3> QED
      BY <2>1, <2>2, <3>1 DEF Wanted
  <2>7. \A hits, n :
           /\ FullOr(hits, n, Lasting) => FullOr(hits, n, Lasting')
           /\ FullOr(hits, n, Kept) => FullOr(hits, n, Kept')
           /\ FullOr(hits, n, Matching) => FullOr(hits, n, Matching')
           /\ FullOr(hits, n, Wanted) => FullOr(hits, n, Wanted')
    BY <2>3, <2>4, <2>6, FullOrStays
  <2>8. /\ FullOr(search.nearest, Limit(search.req), Lasting)' <=>
             FullOr(search.nearest, Limit(search.req), Lasting')
        /\ FullOr(search.dense, Limit(search.req), Kept)' <=>
             FullOr(search.dense, Limit(search.req), Kept')
        /\ FullOr(search.sparse, Limit(search.req), Matching)' <=>
             FullOr(search.sparse, Limit(search.req), Matching')
        /\ FullOr(search.found, Limit(search.req), Wanted)' <=>
             FullOr(search.found, Limit(search.req), Wanted')
        /\ FullOr(search.results, search.req.topK, Wanted)' <=>
             FullOr(search.results, search.req.topK, Wanted')
    BY <2>1 DEF FullOr, Found, Limit
  <2> QED
    BY <2>1, <2>5, <2>7, <2>8 DEF NoneIsLost, DenseIsSearched, Answered
<1>12. ASSUME UNCHANGED vars PROVE NoneIsLost'
  <2>1. UNCHANGED <<kind, always, ever, search>>
    BY <1>12 DEF vars
  <2> SUFFICES ASSUME Underway PROVE NoneIsLost'
    BY <2>1 DEF NoneIsLost, Unfiltered, Underway
  <2>2. /\ Unfiltered' => Unfiltered
        /\ Kept' = Kept /\ Matching' = Matching /\ Lasting' = Lasting /\ Wanted' = Wanted
        /\ DenseSeesAll' <=> DenseSeesAll
        /\ Limit(search.req)' = Limit(search.req)
    BY <2>1, WantedStays
  <2> QED
    BY <2>1, <2>2 DEF NoneIsLost, DenseIsSearched, Answered, FullOr, Found
<1> QED
  BY <1>1, <1>3, <1>4, <1>5, <1>6, <1>7, <1>8, <1>9, <1>10, <1>11, <1>12 DEF Next

\* Whatever the limits, the variants and the writes in between: an answer has
\* as many chunks as were asked for, or each allowed one that was in the index
\* throughout and that a retriever finds.
THEOREM AnswersAreComplete == Spec => []FullOrComplete
<1> DEFINE Inv == TypeOK /\ Staged /\ HitsAreSound /\ NoneIsLost
<1>1. Init => Inv
  BY TypeAtFirst DEF Init, Idle, HitsAreSound, NoneIsLost, Unfiltered, Underway
<1>2. Inv /\ [Next]_vars => Inv'
  BY TypeIsKept, SoundIsKept, LossIsAvoided
<1>3. Inv => FullOrComplete
  <2> SUFFICES ASSUME Inv, Answered, search.req.query.near # <<>>, ~search.req.heading
               PROVE  Len(search.results) = search.req.topK \/ Wanted \subseteq Results
    BY DEF FullOrComplete
  <2>1. Underway
    BY DEF Underway, Answered
  <2>2. /\ FullOr(search.results, search.req.topK, Wanted)
        /\ Len(search.results) <= search.req.topK
    BY <2>1 DEF NoneIsLost, Unfiltered
  <2>3. Len(search.results) \in Nat /\ search.req.topK \in Nat
    BY <2>1, SearchIsTyped, LenIsCount, LimitIsEnough
  <2> QED
    BY <2>2, <2>3 DEF FullOr, Results
<1> QED
  BY <1>1, <1>2, <1>3, PTL DEF Spec

-----------------------------------------------------------------------------
(* An answer keeps the order its retrievers agree on.                      *)

\* A step of the search that leaves it with lists in order.
LEMMA AgreedSteps ==
    ASSUME UNCHANGED <<kind, always, ever>>, search'.req = search.req,
           search'.at = "payload" => NearestAgree(search'.nearest, search'.variant),
           MergedAgree(search'.dense), MatchesAgree(search'.sparse),
           KeepsAgreed(search'.found), search.req.rerank \/ KeepsAgreed(search'.results)
    PROVE  AllAgree'
<1>1. Variants(search.req)' = Variants(search.req)
  BY DEF Variants, Taken
<1>2. \A c, d : Nearer(c, d)' <=> Nearer(c, d)
  BY <1>1 DEF Nearer
<1>3. Kept' = Kept /\ (ListsDecide' <=> ListsDecide)
  BY DEF Kept, Allowed, InScope, Readable, ListsDecide, NeedsExactScan
<1>4. search'.at = "payload" => NearestAgree(search.nearest, search.variant)'
  BY <1>1, <1>2 DEF NearestAgree, InScope, Together, Found
<1>5. MergedAgree(search.dense)'
  BY <1>1, <1>2, <1>3 DEF MergedAgree, Together, Found
<1>6. MatchesAgree(search.sparse)'
  BY <1>3 DEF MatchesAgree, Before
<1>7. KeepsAgreed(search.found)' /\ (search'.req.rerank \/ KeepsAgreed(search.results)')
  BY <1>2, <1>3 DEF KeepsAgreed, Agreed
<1> QED
  BY <1>4, <1>5, <1>6, <1>7 DEF AllAgree

\* In a list of hits the front of a chunk that is there is of the list.
LEMMA BeforeIsTogether ==
    ASSUME NEW hits, IsRanking(hits), NEW c, NEW d, Before(hits, c, d)
    PROVE  Together(hits, c, d)
<1> SUFFICES ASSUME d \in Found(hits) PROVE c \in Found(hits)
  BY DEF Together
<1>1. PICK j \in DOMAIN hits : hits[j].id = d
  BY DEF Found
<1>2. PICK i \in 1 .. j - 1 : hits[i].id = c
  BY <1>1 DEF Before
<1>3. DOMAIN hits = 1 .. Len(hits) /\ Len(hits) \in Nat
  BY RankingIsSeq
<1>4. i \in DOMAIN hits
  BY <1>1, <1>2, <1>3
<1> QED
  BY <1>2, <1>4 DEF Found

\* Each store ranks by what the request says of a chunk.
LEMMA StoresAgree ==
    ASSUME TypeOK, Staged, Underway
    PROVE  /\ MatchesAgree(BodyHits(live, search.req)) /\ MatchesAgree(FtsHits(live, search.req))
           /\ search.at \in {"dense", "payload"} =>
                LET near == Variants(search.req)[search.variant] IN
                /\ kind = "postgres" =>
                     \A seen \in Seen : MergedAgree(PgNearest(seen, search.req, near))
                /\ NearestAgree(VecNearest(live, search.req, near), search.variant)
           /\ search.at = "payload" /\ NearestAgree(search.nearest, search.variant) =>
                MergedAgree(VecHits(live, search.req, search.nearest))
<1>1. /\ search.req \in Requests /\ live \in SUBSET Chunks
      /\ always \subseteq live /\ IsRanking(search.nearest)
  BY SearchIsTyped DEF TypeOK
<1>2. search.req.query.bm25 \in [Chunks -> Int] /\ Limit(search.req) \in Nat
  BY <1>1, RequestAssumption, LimitIsEnough
<1>3. Kept = {c \in always : InScope(search.req, c) /\ Readable(search.req, Acl[c])}
  BY DEF Kept, Allowed
<1>4. ASSUME NEW S \in SUBSET live,
             \A c \in Kept : search.req.query.bm25[c] > 0 => c \in S,
             \A c \in S : search.req.query.bm25[c] > 0
      PROVE  MatchesAgree(Scored(S, search.req.query.bm25, Limit(search.req)))
  <2> DEFINE bm25 == search.req.query.bm25
             h == Scored(S, bm25, Limit(search.req))
  <2>1. /\ \A i \in DOMAIN h : h[i].id \in S
        /\ \A c, d \in S : bm25[c] > bm25[d] => Before(h, c, d)
    BY <1>1, <1>2, ScoredHits
  <2> HIDE DEF h
  <2>2. ASSUME NEW c \in Kept, NEW d \in always, bm25[c] > bm25[d]
        PROVE  Before(h, c, d)
    <3>1. CASE d \in S
      <4>1. bm25[c] \in Int /\ bm25[d] \in Int /\ bm25[d] > 0
        BY <1>1, <1>2, <1>3, <1>4, <3>1
      <4>2. c \in S
        BY <1>4, <2>2, <4>1
      <4> QED
        BY <2>1, <2>2, <3>1, <4>2
    <3>2. CASE d \notin S
      BY <2>1, <3>2 DEF Before
    <3> QED
      BY <3>1, <3>2
  <2> QED
    BY <2>2 DEF MatchesAgree, h
<1>5. MatchesAgree(BodyHits(live, search.req)) /\ MatchesAgree(FtsHits(live, search.req))
  <2> DEFINE S == {c \in live : /\ InScope(search.req, c) /\ Readable(search.req, Acl[c])
                                /\ search.req.query.bm25[c] > 0}
             F == {c \in live : /\ InScope(search.req, c) /\ FtsReadable(search.req, c)
                                /\ search.req.query.bm25[c] > 0}
  <2>1. /\ S \in SUBSET live /\ F \in SUBSET live
        /\ \A c \in S \cup F : search.req.query.bm25[c] > 0
    OBVIOUS
  <2>2. /\ \A c \in Kept : search.req.query.bm25[c] > 0 => c \in S
        /\ \A c \in Kept : search.req.query.bm25[c] > 0 => c \in F
    BY <1>1, <1>3, ReadableHasWords
  <2> HIDE DEF S, F
  <2>3. /\ MatchesAgree(Scored(S, search.req.query.bm25, Limit(search.req)))
        /\ MatchesAgree(Scored(F, search.req.query.bm25, Limit(search.req)))
    BY <1>4, <2>1, <2>2
  <2> QED
    BY <2>3 DEF BodyHits, FtsHits, S, F
<1>6. ASSUME search.at \in {"dense", "payload"}
      PROVE  LET near == Variants(search.req)[search.variant] IN
             /\ kind = "postgres" =>
                  \A seen \in Seen : MergedAgree(PgNearest(seen, search.req, near))
             /\ NearestAgree(VecNearest(live, search.req, near), search.variant)
  <2> DEFINE near == Variants(search.req)[search.variant]
             W == {c \in live : InScope(search.req, c)}
             h == Scored(W, near, Limit(search.req))
  <2>1. near \in [Chunks -> Int]
    BY <1>6, StoresRank
  <2>2. search.variant \in DOMAIN Variants(search.req)
    BY <1>1, <1>6, VariantsOf DEF Staged
  <2>3. \A c, d : Nearer(c, d) => near[c] > near[d]
    BY <2>2 DEF Nearer
  <2>4. ASSUME kind = "postgres", NEW seen \in Seen
        PROVE  MergedAgree(PgNearest(seen, search.req, near))
    <3> DEFINE S == {c \in seen : InScope(search.req, c) /\ Readable(search.req, Acl[c])}
               g == Scored(S, near, Limit(search.req))
    <3>1. S \in SUBSET Chunks
      BY <1>1 DEF Seen
    <3> HIDE DEF near
    <3>2. /\ IsRanking(g)
          /\ \A i \in DOMAIN g : g[i].id \in S /\ g[i].score = near[g[i].id]
          /\ \A c, d \in S : near[c] > near[d] => Before(g, c, d)
      BY <1>2, <2>1, <3>1, ScoredHits
    <3>3. PgNearest(seen, search.req, near) = g
      BY DEF PgNearest
    <3> HIDE DEF g
    <3>4. \A i \in DOMAIN g : g[i].score = Variants(search.req)[search.variant][g[i].id]
      BY <3>2 DEF near
    <3>5. ASSUME ListsDecide, NEW c \in Kept, NEW d \in always, Nearer(c, d), d \in Found(g)
          PROVE  c \in Found(g)
      <4>1. seen = live
        BY <1>6, <2>4, <3>5 DEF ListsDecide, Staged, Seen
      <4>2. c \in S /\ d \in S
        BY <1>1, <1>3, <3>2, <3>5, <4>1 DEF Found
      <4>3. Before(g, c, d)
        BY <2>3, <3>2, <3>5, <4>2
      <4> QED
        BY <3>2, <3>5, <4>3, BeforeIsTogether DEF Together
    <3>6. MergedAgree(g)
      BY <2>2, <3>4, <3>5 DEF MergedAgree, Together
    <3> QED
      BY <3>3, <3>6
  <2>5. W \in SUBSET Chunks
    BY <1>1
  <2> HIDE DEF near
  <2>6. /\ IsRanking(h)
        /\ \A i \in DOMAIN h : h[i].id \in W /\ h[i].score = near[h[i].id]
        /\ \A c, d \in W : near[c] > near[d] => Before(h, c, d)
    BY <1>2, <2>1, <2>5, ScoredHits
  <2>7. VecNearest(live, search.req, near) = h
    BY DEF VecNearest
  <2> HIDE DEF h
  <2>8. NearestAgree(h, search.variant)
    <3>1. \A i \in DOMAIN h : h[i].score = Variants(search.req)[search.variant][h[i].id]
      BY <2>6 DEF near
    <3>2. ASSUME NEW c \in always, NEW d \in always, InScope(search.req, c), Nearer(c, d),
                 d \in Found(h)
          PROVE  c \in Found(h)
      <4>1. d \in W
        BY <2>6, <3>2 DEF Found
      <4>2. Before(h, c, d)
        BY <1>1, <2>3, <2>6, <3>2, <4>1
      <4> QED
        BY <2>6, <3>2, <4>2, BeforeIsTogether DEF Together
    <3> QED
      BY <3>1, <3>2 DEF NearestAgree, Together
  <2> QED
    BY <2>4, <2>7, <2>8 DEF near
<1>7. ASSUME search.at = "payload", NearestAgree(search.nearest, search.variant)
      PROVE  MergedAgree(VecHits(live, search.req, search.nearest))
  <2> DEFINE v == VecHits(live, search.req, search.nearest)
  <2>1. /\ \A i \in DOMAIN v : \E k \in DOMAIN search.nearest :
             v[i].id = search.nearest[k].id /\ v[i].score = search.nearest[k].score
        /\ \A k \in DOMAIN search.nearest :
             (search.nearest[k].id \in live /\ Readable(search.req, Acl[search.nearest[k].id])) =>
                 search.nearest[k].id \in Found(v)
    BY <1>1, PayloadsOf
  <2>2. search.variant \in DOMAIN Variants(search.req)
    BY <1>1, <1>7, VariantsOf DEF Staged
  <2> HIDE DEF v
  <2>3. \A i \in DOMAIN v : v[i].score = Variants(search.req)[search.variant][v[i].id]
    BY <1>7, <2>1 DEF NearestAgree
  <2>4. ASSUME NEW c \in Kept, NEW d \in always, Nearer(c, d), d \in Found(v)
        PROVE  c \in Found(v)
    <3>1. d \in Found(search.nearest)
      BY <2>1, <2>4 DEF Found
    <3>2. PICK k \in DOMAIN search.nearest : search.nearest[k].id = c
      BY <1>3, <1>7, <2>4, <3>1 DEF NearestAgree, Together, Found
    <3> QED
      BY <1>1, <1>3, <2>1, <2>4, <3>2
  <2>5. MergedAgree(v)
    BY <2>2, <2>3, <2>4 DEF MergedAgree, Together
  <2> QED
    BY <2>5 DEF v
<1> QED
  BY <1>5, <1>6, <1>7

\* Merging two lists that agree gives one that does.
LEMMA MergedListsAgree ==
    ASSUME NEW hits, IsRanking(hits), MergedAgree(hits),
           NEW more, IsRanking(more), MergedAgree(more)
    PROVE  MergedAgree(BestOf(hits, more))
<1> DEFINE b == BestOf(hits, more)
<1>1. /\ \A i \in DOMAIN b : \/ \E k \in DOMAIN hits : b[i] = hits[k]
                             \/ \E k \in DOMAIN more : b[i] = more[k]
      /\ Found(b) = Found(hits) \cup Found(more)
  BY BestOfBoth
<1> HIDE DEF b
<1>2. \A i \in DOMAIN b : \E v \in DOMAIN Variants(search.req) :
         b[i].score = Variants(search.req)[v][b[i].id]
  BY <1>1 DEF MergedAgree
<1>3. ListsDecide => \A c \in Kept, d \in always : Nearer(c, d) => Together(b, c, d)
  BY <1>1 DEF MergedAgree, Together
<1> QED
  BY <1>2, <1>3 DEF MergedAgree, b

\* The fusion and the ranking keep what the lists agree on.
LEMMA ListsAgree ==
    ASSUME TypeOK, Staged, AllAgree, Underway
    PROVE  /\ KeepsAgreed(FoundOf(search))
           /\ search.at = "rank" /\ ~search.req.rerank => KeepsAgreed(Ranked(search))
<1>1. /\ search.req \in Requests /\ IsRanking(search.dense) /\ IsRanking(search.sparse)
      /\ IsRanking(search.found)
      /\ MergedAgree(search.dense) /\ MatchesAgree(search.sparse) /\ KeepsAgreed(search.found)
  BY SearchIsTyped DEF AllAgree
<1>2. KeepsAgreed(FoundOf(search))
  <2> DEFINE dense == Dense(search)
             fused == Fused(search.req, dense, search.sparse)
             f == FoundOf(search)
  <2>1. /\ \A i \in DOMAIN dense : \E k \in DOMAIN search.dense : dense[i] = search.dense[k]
        /\ \A k, l \in DOMAIN search.dense : search.dense[k].score > search.dense[l].score =>
             Before(dense, search.dense[k].id, search.dense[l].id)
    BY <1>1, DenseList
  <2>2. IsRanking(dense) /\ IsRanking(fused)
    BY ListsRank
  <2> HIDE DEF dense
  <2>3. \A c, d : Before(dense, c, d) /\ Before(search.sparse, c, d) => Before(fused, c, d)
    BY <1>1, <2>2, FusedHits
  <2>4. \A i, j \in DOMAIN f : Before(fused, f[i].id, f[j].id) => i < j
    BY <2>2, HeadingFilter DEF FoundOf, dense
  <2> HIDE DEF fused, f
  <2>5. ASSUME ListsDecide, NEW i \in DOMAIN f, NEW j \in DOMAIN f,
               f[i].id \in Kept, f[j].id \in always, Agreed(f[i].id, f[j].id)
        PROVE  i < j
    <3> DEFINE c == f[i].id
               d == f[j].id
    <3>1. c \in Kept /\ d \in always
      BY <2>5
    <3>2. Before(search.sparse, c, d)
      BY <1>1, <2>5, <3>1 DEF MatchesAgree, Agreed
    <3>3. Before(dense, c, d)
      <4>1. CASE d \in Found(search.dense)
        <5>1. c \in Found(search.dense)
          BY <1>1, <2>5, <3>1, <4>1 DEF MergedAgree, Agreed, Together
        <5>2. PICK k \in DOMAIN search.dense : search.dense[k].id = c
          BY <5>1 DEF Found
        <5>3. PICK l \in DOMAIN search.dense : search.dense[l].id = d
          BY <4>1 DEF Found
        <5>4. PICK v \in DOMAIN Variants(search.req) :
                 search.dense[k].score = Variants(search.req)[v][c]
          BY <1>1, <5>2 DEF MergedAgree
        <5>5. PICK w \in DOMAIN Variants(search.req) :
                 search.dense[l].score = Variants(search.req)[w][d]
          BY <1>1, <5>3 DEF MergedAgree
        <5>6. Variants(search.req)[v][c] > Variants(search.req)[w][d]
          BY <2>5 DEF Agreed, Nearer
        <5> QED
          BY <2>1, <5>2, <5>3, <5>4, <5>5, <5>6
      <4>2. CASE d \notin Found(search.dense)
        BY <2>1, <4>2 DEF Before, Found
      <4> QED
        BY <4>1, <4>2
    <3> QED
      BY <2>3, <2>4, <3>2, <3>3
  <2> QED
    BY <2>5 DEF KeepsAgreed, f
<1>3. ASSUME search.at = "rank", ~search.req.rerank PROVE KeepsAgreed(Ranked(search))
  <2>1. \A i \in DOMAIN Ranked(search) :
           i \in DOMAIN search.found /\ Ranked(search)[i] = search.found[i]
    BY <1>1, <1>3, RankedHits
  <2> QED
    BY <1>1, <2>1 DEF KeepsAgreed
<1> QED
  BY <1>2, <1>3

\* A variant's hits are merged in order.
LEMMA MergeAgrees ==
    ASSUME TypeOK, Staged, AllAgree, Underway,
           NEW hits, IsRanking(hits), MergedAgree(hits), Merge(hits),
           UNCHANGED <<kind, live, config, always, ever, writes, loaded>>
    PROVE  AllAgree'
<1>1. search \in Searches /\ IsRanking(search.dense)
  BY SearchIsTyped
<1>2. /\ search'.req = search.req /\ search'.dense = BestOf(search.dense, hits)
      /\ search'.at = "dense" \/ search'.at = AfterDense(search)
      /\ search'.sparse = search.sparse /\ search'.found = search.found
      /\ search'.results = search.results
  BY <1>1, MergeFields
<1>3. search'.at # "payload"
  BY <1>2 DEF AfterDense
<1>4. /\ MergedAgree(search.dense) /\ MatchesAgree(search.sparse)
      /\ KeepsAgreed(search.found) /\ (search.req.rerank \/ KeepsAgreed(search.results))
  BY DEF AllAgree
<1>5. MergedAgree(BestOf(search.dense, hits))
  BY <1>1, <1>4, MergedListsAgree
<1> QED
  BY <1>2, <1>3, <1>4, <1>5, AgreedSteps

\* Every step keeps the lists in the order that is agreed on.
LEMMA AgreementIsKept ==
    ASSUME TypeOK, Staged, AllAgree, [Next]_vars
    PROVE  AllAgree'
<1>1. ASSUME NEW req \in Requests, Begin(req) PROVE AllAgree'
  <2>1. NoHitsYet' /\ search'.at # "payload"
    BY <1>1, BeginFields
  <2>2. DOMAIN <<>> = {}
    BY EmptySeq, LenProperties
  <2>3. MergedAgree(search.dense)' /\ MatchesAgree(search.sparse)'
    BY <2>1, <2>2 DEF NoHitsYet, MergedAgree, MatchesAgree, Together, Before, Found
  <2>4. KeepsAgreed(search.found)' /\ KeepsAgreed(search.results)'
    BY <2>1, <2>2 DEF NoHitsYet, KeepsAgreed
  <2> QED
    BY <2>1, <2>3, <2>4 DEF AllAgree
<1>2. ASSUME Underway
      PROVE  /\ search \in Searches /\ IsRanking(search.found)
             /\ search.at = "payload" => NearestAgree(search.nearest, search.variant)
             /\ MergedAgree(search.dense) /\ MatchesAgree(search.sparse)
             /\ KeepsAgreed(search.found)
             /\ search.req.rerank \/ KeepsAgreed(search.results)
  BY <1>2, SearchIsTyped DEF AllAgree
<1>3. ASSUME SearchDense PROVE AllAgree'
  <2>1. search.at = "dense" /\ Underway
    BY <1>3 DEF SearchDense, Underway
  <2> DEFINE near == Variants(search.req)[search.variant]
  <2>2. /\ \A seen \in Seen : IsRanking(PgNearest(seen, search.req, near))
        /\ kind = "postgres" =>
             \A seen \in Seen : MergedAgree(PgNearest(seen, search.req, near))
        /\ NearestAgree(VecNearest(live, search.req, near), search.variant)
    BY <2>1, StoresRank, StoresAgree
  <2>3. UNCHANGED <<kind, live, config, always, ever, writes, loaded>>
    BY <1>3 DEF SearchDense, Outside
  <2>4. \/ /\ kind = "postgres"
           /\ \E seen \in Seen : Merge(PgNearest(seen, search.req, near))
        \/ /\ search'.nearest = VecNearest(live, search.req, near)
           /\ search'.req = search.req /\ search'.variant = search.variant
           /\ search'.dense = search.dense /\ search'.sparse = search.sparse
           /\ search'.found = search.found /\ search'.results = search.results
    BY <1>2, <1>3, <2>1, SearchDenseFields
  <2> HIDE DEF near
  <2> QED
    BY <1>2, <2>1, <2>2, <2>3, <2>4, MergeAgrees, AgreedSteps
<1>4. ASSUME ReadPayloads PROVE AllAgree'
  <2>1. /\ search.at = "payload" /\ Merge(VecHits(live, search.req, search.nearest))
        /\ UNCHANGED <<kind, live, config, always, ever, writes, loaded>>
    BY <1>4, ReadPayloadsFields
  <2>2. Underway
    BY <2>1 DEF Underway
  <2>3. /\ IsRanking(VecHits(live, search.req, search.nearest))
        /\ MergedAgree(VecHits(live, search.req, search.nearest))
    BY <1>2, <2>1, <2>2, StoresRank, StoresAgree
  <2> QED
    BY <2>1, <2>2, <2>3, MergeAgrees
<1>5. ASSUME SearchSparse PROVE AllAgree'
  <2>1. Underway
    BY <1>5 DEF SearchSparse, Underway
  <2>2. /\ MatchesAgree(BodyHits(live, search.req)) /\ MatchesAgree(FtsHits(live, search.req))
        /\ BodyHits(live, search.req) \in Seq(HitSet)
        /\ FtsHits(live, search.req) \in Seq(HitSet)
    BY <2>1, StoresAgree, StoresRank DEF IsRanking
  <2>3. /\ search'.req = search.req /\ search'.at = "fuse"
        /\ search'.sparse = BodyHits(live, search.req) \/ search'.sparse = FtsHits(live, search.req)
        /\ search'.dense = search.dense
        /\ search'.found = search.found /\ search'.results = search.results
        /\ UNCHANGED <<kind, live, config, always, ever, writes, loaded>>
    BY <1>2, <1>5, <2>1, <2>2, SearchSparseFields
  <2> QED
    BY <1>2, <2>1, <2>2, <2>3, AgreedSteps
<1>6. ASSUME Fuse PROVE AllAgree'
  <2>1. Underway
    BY <1>6 DEF Fuse, Underway
  <2>2. KeepsAgreed(FoundOf(search)) /\ FoundOf(search) \in Seq(HitSet)
    BY <2>1, ListsAgree, ListsRank DEF IsRanking
  <2>3. /\ search'.req = search.req /\ search'.found = FoundOf(search)
        /\ search'.at # "payload"
        /\ search'.dense = search.dense
        /\ search'.sparse = search.sparse /\ search'.results = search.results
        /\ UNCHANGED <<kind, live, config, always, ever, writes>>
    BY <1>2, <1>6, <2>1, <2>2, FuseFields
  <2> QED
    BY <1>2, <2>1, <2>2, <2>3, AgreedSteps
<1>7. ASSUME LookUpTokens PROVE AllAgree'
  <2>1. Underway
    BY <1>7 DEF LookUpTokens, Underway
  <2>2. Found(search.found) \subseteq Chunks
    BY <1>2, <2>1, LenIsCount
  <2>3. /\ search'.req = search.req /\ search'.found = search.found /\ search'.at = "rank"
        /\ search'.dense = search.dense
        /\ search'.sparse = search.sparse /\ search'.results = search.results
        /\ UNCHANGED <<kind, live, config, always, ever, writes>>
    BY <1>2, <1>7, <2>1, <2>2, LookUpTokensFields
  <2> QED
    BY <1>2, <2>1, <2>3, AgreedSteps
<1>8. ASSUME RankAndCite PROVE AllAgree'
  <2>1. search.at = "rank" /\ Underway
    BY <1>8 DEF RankAndCite, Underway
  <2>2. /\ search.req.rerank \/ KeepsAgreed(Ranked(search))
        /\ Ranked(search) \in Seq(HitSet)
    BY <2>1, ListsAgree, ListsRank DEF IsRanking
  <2>3. /\ search'.req = search.req /\ search'.results = Ranked(search)
        /\ search'.at = "answered" /\ search'.dense = search.dense
        /\ search'.sparse = search.sparse /\ search'.found = search.found
        /\ UNCHANGED <<kind, live, config, always, ever, writes>>
    BY <1>2, <1>8, <2>1, <2>2, RankAndCiteFields
  <2> QED
    BY <1>2, <2>1, <2>2, <2>3, AgreedSteps
<1>9. ASSUME RetrieverFails PROVE AllAgree'
  <2>1. Underway
    BY <1>9 DEF RetrieverFails, Underway
  <2>2. /\ search'.req = search.req /\ search'.at = "failed"
        /\ search'.dense = search.dense
        /\ search'.sparse = search.sparse /\ search'.found = search.found
        /\ search'.results = search.results
        /\ UNCHANGED <<kind, live, config, always, ever, writes>>
    BY <1>2, <1>9, <2>1, RetrieverFailsFields
  <2> QED
    BY <1>2, <2>1, <2>2, AgreedSteps
<1>10. ASSUME Return PROVE AllAgree'
  BY <1>10, ReturnFields DEF AllAgree, Underway, Idle
<1>11. ASSUME UNCHANGED <<kind, search>>, always' \subseteq always PROVE AllAgree'
  <2> SUFFICES ASSUME Underway PROVE AllAgree'
    BY <1>11 DEF AllAgree, Underway
  <2>1. \A c : Allowed(c)' <=> Allowed(c)
    BY <1>11 DEF Allowed, InScope, Readable
  <2>2. Kept' \subseteq Kept /\ (ListsDecide' <=> ListsDecide)
    BY <1>11, <2>1 DEF Kept, ListsDecide, NeedsExactScan
  <2>3. \A c, d : Nearer(c, d)' <=> Nearer(c, d)
    BY <1>11 DEF Nearer
  <2>4. search'.at = "payload" => NearestAgree(search.nearest, search.variant)'
    BY <1>2, <1>11, <2>3 DEF NearestAgree, InScope, Together, Found
  <2>5. MergedAgree(search.dense)' /\ MatchesAgree(search.sparse)'
    BY <1>2, <1>11, <2>2, <2>3 DEF MergedAgree, MatchesAgree, Together, Before, Found
  <2>6. KeepsAgreed(search.found)' /\ (search'.req.rerank \/ KeepsAgreed(search.results)')
    BY <1>2, <1>11, <2>2, <2>3 DEF KeepsAgreed, Agreed
  <2> QED
    BY <2>4, <2>5, <2>6 DEF AllAgree
<1>12. ASSUME (\E c \in Chunks : Publish(c)) \/ (\E d \in Documents : Delete(d))
       PROVE  AllAgree'
  BY <1>11, <1>12, WriteFields
<1>13. ASSUME UNCHANGED vars PROVE AllAgree'
  BY <1>11, <1>13 DEF vars
<1> QED
  BY <1>1, <1>3, <1>4, <1>5, <1>6, <1>7, <1>8, <1>9, <1>10, <1>12, <1>13 DEF Next

\* Whatever the weights, the limits, the number of variants and the writes in
\* between: of two chunks that were in the index throughout, the allowed one
\* that every variant and the terms put first is not shown behind the other,
\* unless a reranker was asked for, or the HNSW index.
THEOREM AnswersKeepTheOrder == Spec => []AgreedOrderIsKept
<1> DEFINE Inv == TypeOK /\ Staged /\ AllAgree
<1>1. Init => Inv
  BY TypeAtFirst DEF Init, Idle, AllAgree, Underway
<1>2. Inv /\ [Next]_vars => Inv'
  BY TypeIsKept, AgreementIsKept
<1>3. Inv => AgreedOrderIsKept
  BY DEF AllAgree, KeepsAgreed, Kept, ListsDecide, Agreed, Nearer, Underway,
         AgreedOrderIsKept, Answered
<1> QED
  BY <1>1, <1>2, <1>3, PTL DEF Spec
=============================================================================
