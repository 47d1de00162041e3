------------------------- MODULE OrderedIds_proofs -------------------------
(***************************************************************************)
(* Facts about finite sets of ids and their order, which the tables of     *)
(* knowledge-service are read in, and about the lists that are sorted,     *)
(* selected from and built up in loops: what the proofs about the event    *)
(* stream, the tools, the search and the checks have in common.            *)
(***************************************************************************)
EXTENDS Lists, FiniteSetTheorems, SequenceTheorems, WellFoundedInduction, TLAPS

-----------------------------------------------------------------------------
(* The n-th of the ids.                                                    *)

UpTo(ids, i) == {j \in ids : j <= i}

\* Each id has its own place, and there is an id for each place.
LEMMA PlacesOfIds ==
    ASSUME NEW ids \in SUBSET Nat, IsFiniteSet(ids)
    PROVE  /\ Cardinality(ids) \in Nat
           /\ \A i \in ids : Cardinality(UpTo(ids, i)) \in 1 .. Cardinality(ids)
           /\ \A i, j \in ids : i < j => Cardinality(UpTo(ids, i)) < Cardinality(UpTo(ids, j))
           /\ \A i, j \in ids : Cardinality(UpTo(ids, i)) = Cardinality(UpTo(ids, j)) => i = j
           /\ \A n \in 1 .. Cardinality(ids) :
                 \E i \in ids : Cardinality(UpTo(ids, i)) = n
<1> DEFINE place == [i \in ids |-> Cardinality(UpTo(ids, i))]
<1>1. Cardinality(ids) \in Nat
  BY FS_CardinalityType
<1>2. \A i \in Nat : /\ IsFiniteSet(UpTo(ids, i))
                     /\ Cardinality(UpTo(ids, i)) \in Nat
                     /\ Cardinality(UpTo(ids, i)) <= Cardinality(ids)
  BY FS_Subset, FS_CardinalityType DEF UpTo
<1>3. \A i \in ids : Cardinality(UpTo(ids, i)) \in 1 .. Cardinality(ids)
  <2> TAKE i \in ids
  <2>1. UpTo(ids, i) # {}
    BY DEF UpTo
  <2>2. Cardinality(UpTo(ids, i)) # 0
    BY <1>2, <2>1, FS_EmptySet
  <2> QED
    BY <1>1, <1>2, <2>2
<1>4. \A i, j \in ids : i < j => Cardinality(UpTo(ids, i)) < Cardinality(UpTo(ids, j))
  <2> SUFFICES ASSUME NEW i \in ids, NEW j \in ids, i < j
               PROVE  Cardinality(UpTo(ids, i)) < Cardinality(UpTo(ids, j))
    OBVIOUS
  <2>0. i \in Nat /\ j \in Nat /\ ids \subseteq Nat
    OBVIOUS
  <2>1. /\ UpTo(ids, i) \in SUBSET UpTo(ids, j)
        /\ j \in UpTo(ids, j) /\ j \notin UpTo(ids, i)
    <3>1. \A k \in ids : k <= i => k <= j
      BY <2>0
    <3>2. j <= j /\ ~(j <= i)
      BY <2>0
    <3>3. UpTo(ids, i) \subseteq UpTo(ids, j)
      BY <3>1 DEF UpTo
    <3> QED
      BY <3>2, <3>3 DEF UpTo
  <2>2. /\ Cardinality(UpTo(ids, i)) <= Cardinality(UpTo(ids, j))
        /\ Cardinality(UpTo(ids, i)) # Cardinality(UpTo(ids, j))
    BY <1>2, <2>0, <2>1, FS_Subset
  <2> QED
    BY <1>2, <2>0, <2>2
<1>5. place \in Injection(ids, 1 .. Cardinality(ids))
  <2>1. place \in [ids -> 1 .. Cardinality(ids)]
    BY <1>3
  <2>2. \A i, j \in ids : place[i] = place[j] => i = j
    <3> SUFFICES ASSUME NEW i \in ids, NEW j \in ids, i # j PROVE place[i] # place[j]
      OBVIOUS
    <3>1. i \in Nat /\ j \in Nat
      OBVIOUS
    <3>2. i < j \/ j < i
      BY <3>1
    <3> QED
      BY <1>2, <1>4, <3>1, <3>2
  <2> QED
    BY <2>1, <2>2 DEF Injection, IsInjective
<1>6. /\ IsFiniteSet(1 .. Cardinality(ids))
      /\ Cardinality(1 .. Cardinality(ids)) = Cardinality(ids)
  BY <1>1, FS_Interval
<1>7. place \in Surjection(ids, 1 .. Cardinality(ids))
  BY <1>5, <1>6, FS_Injection
<1> QED
  BY <1>1, <1>3, <1>4, <1>5, <1>7 DEF Surjection, Injection, IsInjective

\* A set of ids that is not empty has a highest and a lowest.
LEMMA Extremes ==
    ASSUME NEW ids \in SUBSET Nat, ids # {}
    PROVE  /\ \E i \in ids : \A j \in ids : i <= j
           /\ IsFiniteSet(ids) => \E i \in ids : \A j \in ids : j <= i
<1>1. \E i \in ids : \A j \in ids : i <= j
  <2>1. PICK i \in ids : \A j \in ids : <<j, i>> \notin OpToRel(<, Nat)
    BY NatLessThanWellFounded, WFMin
  <2>2. \A j \in ids : i \in Nat /\ j \in Nat
    OBVIOUS
  <2>3. \A j \in ids : ~(j < i)
    BY <2>1, <2>2 DEF OpToRel
  <2>4. \A j \in ids : i <= j
    BY <2>2, <2>3
  <2> QED
    BY <2>4
<1>2. ASSUME IsFiniteSet(ids) PROVE \E i \in ids : \A j \in ids : j <= i
  <2> DEFINE n == Cardinality(ids)
  <2>1. n \in 1 .. n
    BY <1>2, FS_CardinalityType, FS_EmptySet
  <2>2. PICK i \in ids : Cardinality(UpTo(ids, i)) = n
    BY <1>2, <2>1, PlacesOfIds
  <2>3. UpTo(ids, i) = ids
    BY <1>2, <2>2, FS_Subset DEF UpTo
  <2>4. \A j \in ids : j <= i
    BY <2>3 DEF UpTo
  <2> QED
    BY <2>4
<1> QED
  BY <1>1, <1>2

-----------------------------------------------------------------------------
(* Rankings.                                                               *)

\* The order of a ranking is a strict and total one.
LEMMA PrecedesIsTotal ==
    ASSUME NEW S \in SUBSET Int, NEW score, \A x \in S : score[x] \in Int
    PROVE  /\ \A x \in S : ~Precedes(score, x, x)
           /\ \A x, y \in S : x # y => Precedes(score, x, y) \/ Precedes(score, y, x)
           /\ \A x, y, z \in S :
                 Precedes(score, x, y) /\ Precedes(score, y, z) => Precedes(score, x, z)
<1>1. \A x \in S : ~Precedes(score, x, x)
  BY DEF Precedes
<1>2. \A x, y \in S : x # y => Precedes(score, x, y) \/ Precedes(score, y, x)
  <2> SUFFICES ASSUME NEW x \in S, NEW y \in S, x # y
               PROVE  Precedes(score, x, y) \/ Precedes(score, y, x)
    OBVIOUS
  <2>1. x \in Int /\ y \in Int /\ score[x] \in Int /\ score[y] \in Int
    OBVIOUS
  <2> QED
    BY <2>1 DEF Precedes
<1>3. \A x, y, z \in S :
         Precedes(score, x, y) /\ Precedes(score, y, z) => Precedes(score, x, z)
  <2> SUFFICES ASSUME NEW x \in S, NEW y \in S, NEW z \in S,
                      Precedes(score, x, y), Precedes(score, y, z)
               PROVE  Precedes(score, x, z)
    OBVIOUS
  <2>1. /\ x \in Int /\ y \in Int /\ z \in Int
        /\ score[x] \in Int /\ score[y] \in Int /\ score[z] \in Int
    OBVIOUS
  <2> QED
    BY <2>1 DEF Precedes
<1> QED
  BY <1>1, <1>2, <1>3

\* A ranking of a finite set has each of its members once, in order.
LEMMA RankingOrders ==
    ASSUME NEW S \in SUBSET Int, IsFiniteSet(S), NEW score, \A x \in S : score[x] \in Int
    PROVE  /\ Cardinality(S) \in Nat
           /\ Ranking(S, score) \in [1 .. Cardinality(S) -> S]
           /\ \A x \in S : \E i \in 1 .. Cardinality(S) : Ranking(S, score)[i] = x
           /\ \A i, j \in 1 .. Cardinality(S) :
                 i < j => Precedes(score, Ranking(S, score)[i], Ranking(S, score)[j])
<1> DEFINE n == Cardinality(S)
           ahead(x) == {y \in S : Precedes(score, y, x)}
           place == [x \in S |-> Cardinality(ahead(x)) + 1]
           R == Ranking(S, score)
<1>1. n \in Nat
  BY FS_CardinalityType
<1>2. \A x \in S : /\ IsFiniteSet(ahead(x))
                   /\ Cardinality(ahead(x)) \in Nat
                   /\ Cardinality(ahead(x)) < n
  <2> SUFFICES ASSUME NEW x \in S
               PROVE  /\ IsFiniteSet(ahead(x)) /\ Cardinality(ahead(x)) \in Nat
                      /\ Cardinality(ahead(x)) < n
    OBVIOUS
  <2>1. ahead(x) \in SUBSET S /\ ahead(x) # S
    BY PrecedesIsTotal
  <2>2. IsFiniteSet(ahead(x)) /\ Cardinality(ahead(x)) <= n /\ Cardinality(ahead(x)) # n
    BY <2>1, FS_Subset
  <2>3. Cardinality(ahead(x)) \in Nat
    BY <2>2, FS_CardinalityType
  <2> HIDE DEF ahead, n
  <2> QED
    BY <1>1, <2>2, <2>3
<1>3. \A x, y \in S : Precedes(score, x, y) => Cardinality(ahead(x)) < Cardinality(ahead(y))
  <2> SUFFICES ASSUME NEW x \in S, NEW y \in S, Precedes(score, x, y)
               PROVE  Cardinality(ahead(x)) < Cardinality(ahead(y))
    OBVIOUS
  <2>1. ahead(x) \in SUBSET ahead(y) /\ ahead(x) # ahead(y)
    BY PrecedesIsTotal
  <2>2. /\ Cardinality(ahead(x)) <= Cardinality(ahead(y))
        /\ Cardinality(ahead(x)) # Cardinality(ahead(y))
    BY <1>2, <2>1, FS_Subset
  <2> HIDE DEF ahead, n
  <2> QED
    BY <1>2, <2>2
<1>4. \A x, y \in S : place[x] = place[y] => x = y
  <2> SUFFICES ASSUME NEW x \in S, NEW y \in S, x # y PROVE place[x] # place[y]
    OBVIOUS
  <2>1. Precedes(score, x, y) \/ Precedes(score, y, x)
    BY PrecedesIsTotal
  <2> HIDE DEF ahead
  <2> QED
    BY <1>2, <1>3, <2>1
<1>5. place \in Injection(S, 1 .. n)
  <2>1. \A x \in S : Cardinality(ahead(x)) + 1 \in 1 .. n
    <3> HIDE DEF ahead, n
    <3> QED
      BY <1>1, <1>2
  <2>2. place \in [S -> 1 .. n]
    BY <2>1
  <2> QED
    BY <1>4, <2>2 DEF Injection, IsInjective
<1>6. place \in Surjection(S, 1 .. n)
  <2>1. IsFiniteSet(1 .. n) /\ Cardinality(1 .. n) = n
    BY <1>1, FS_Interval
  <2> QED
    BY <1>5, <2>1, FS_Injection
<1>7. \A i \in 1 .. n : R[i] \in S /\ place[R[i]] = i
  <2> SUFFICES ASSUME NEW i \in 1 .. n PROVE R[i] \in S /\ place[R[i]] = i
    OBVIOUS
  <2>1. PICK x \in S : place[x] = i
    BY <1>6 DEF Surjection
  <2>2. Cardinality(ahead(x)) = i - 1
    <3> HIDE DEF ahead, n
    <3> QED
      BY <1>2, <2>1
  <2>3. R[i] = CHOOSE y \in S : Cardinality(ahead(y)) = i - 1
    BY DEF Ranking
  <2>4. R[i] \in S /\ Cardinality(ahead(R[i])) = i - 1
    <3> HIDE DEF ahead, n, R
    <3> QED
      BY <2>2, <2>3
  <2> HIDE DEF ahead, n, R
  <2> QED
    BY <1>1, <2>4
<1>8. R \in [1 .. n -> S]
  <2>1. R = [i \in 1 .. n |-> R[i]]
    BY DEF Ranking
  <2> HIDE DEF R
  <2> QED
    BY <1>7, <2>1
<1>9. \A x \in S : \E i \in 1 .. n : R[i] = x
  <2> SUFFICES ASSUME NEW x \in S PROVE \E i \in 1 .. n : R[i] = x
    OBVIOUS
  <2>1. place[x] \in 1 .. n
    BY <1>5 DEF Injection
  <2>2. R[place[x]] \in S /\ place[R[place[x]]] = place[x]
    BY <1>7, <2>1
  <2> HIDE DEF R, place
  <2> QED
    BY <1>4, <2>1, <2>2
<1>10. \A i, j \in 1 .. n : i < j => Precedes(score, R[i], R[j])
  <2> SUFFICES ASSUME NEW i \in 1 .. n, NEW j \in 1 .. n, i < j
               PROVE  Precedes(score, R[i], R[j])
    OBVIOUS
  <2>1. /\ R[i] \in S /\ R[j] \in S
        /\ place[R[i]] = i /\ place[R[j]] = j
    BY <1>7
  <2>2. /\ Cardinality(ahead(R[i])) \in Nat /\ Cardinality(ahead(R[j])) \in Nat
        /\ Precedes(score, R[j], R[i]) => Cardinality(ahead(R[j])) < Cardinality(ahead(R[i]))
    <3> HIDE DEF ahead, R, n
    <3> QED
      BY <1>2, <1>3, <2>1
  <2>3. Cardinality(ahead(R[i])) + 1 = i /\ Cardinality(ahead(R[j])) + 1 = j
    BY <2>1
  <2>4. R[i] # R[j] /\ ~Precedes(score, R[j], R[i])
    <3> HIDE DEF ahead, R, n
    <3> QED
      BY <2>2, <2>3
  <2> HIDE DEF R
  <2> QED
    BY <2>1, <2>4, PrecedesIsTotal
<1> QED
  BY <1>1, <1>8, <1>9, <1>10

\* A function of 1 .. n is a sequence.
LEMMA FunctionIsSeq ==
    ASSUME NEW S, NEW n \in Nat, NEW f \in [1 .. n -> S]
    PROVE  f \in Seq(S) /\ Len(f) = n /\ DOMAIN f = 1 .. n
<1>1. f \in Seq(S)
  BY SeqDef
<1>2. Len(f) \in Nat /\ DOMAIN f = 1 .. Len(f) /\ DOMAIN f = 1 .. n
  BY <1>1, LenProperties
<1>3. Len(f) = n
  <2>1. \A m \in Nat : 1 .. m = 1 .. n => m = n
    <3> SUFFICES ASSUME NEW m \in Nat, 1 .. m = 1 .. n PROVE m = n
      OBVIOUS
    <3>1. (m \in 1 .. m <=> m \in 1 .. n) /\ (n \in 1 .. m <=> n \in 1 .. n)
      OBVIOUS
    <3> QED
      BY <3>1
  <2> QED
    BY <1>2, <2>1
<1> QED
  BY <1>1, <1>2, <1>3

\* Taken leaves the front of a sequence, and all of a short one.
LEMMA TakenIsFront ==
    ASSUME NEW S, NEW s \in Seq(S), NEW n \in Nat
    PROVE  /\ Taken(s, n) \in Seq(S)
           /\ DOMAIN Taken(s, n) \subseteq DOMAIN s
           /\ \A i \in DOMAIN Taken(s, n) : Taken(s, n)[i] = s[i]
           /\ Len(s) <= n => Taken(s, n) = s
           /\ \A j \in DOMAIN Taken(s, n), i \in DOMAIN s : i < j => i \in DOMAIN Taken(s, n)
           /\ Len(Taken(s, n)) = IF n < Len(s) THEN n ELSE Len(s)
<1> DEFINE m == IF n < Len(s) THEN n ELSE Len(s)
<1>1. Len(s) \in Nat /\ DOMAIN s = 1 .. Len(s) /\ \A i \in 1 .. Len(s) : s[i] \in S
  BY LenProperties, ElementOfSeq
<1>2. m \in Nat /\ m <= Len(s) /\ \A i \in 1 .. m : i \in 1 .. Len(s) /\ s[i] \in S
  BY <1>1
<1>3. Taken(s, n) = SubSeq(s, 1, m)
  BY DEF Taken
<1> HIDE DEF m
<1>4. /\ SubSeq(s, 1, m) \in Seq(S)
      /\ Len(SubSeq(s, 1, m)) = IF 1 <= m THEN m - 1 + 1 ELSE 0
      /\ \A i \in 1 .. m - 1 + 1 : SubSeq(s, 1, m)[i] = s[1 + i - 1]
  BY <1>2, SubSeqProperties
<1>5. Len(SubSeq(s, 1, m)) = m /\ \A i \in 1 .. m : SubSeq(s, 1, m)[i] = s[i]
  BY <1>2, <1>4
<1>6. DOMAIN SubSeq(s, 1, m) = 1 .. m
  BY <1>4, <1>5, LenProperties
<1>7. Len(s) <= n => SubSeq(s, 1, m) = s
  <2>1. Len(s) <= n => m = Len(s)
    <3>1. \A k, l \in Nat : l <= k => (IF k < l THEN k ELSE l) = l
      OBVIOUS
    <3> QED
      BY <1>1, <3>1 DEF m
  <2> QED
    BY <2>1, SubSeqFull
<1>8. \A j \in 1 .. m, i \in 1 .. Len(s) : i < j => i \in 1 .. m
  BY <1>1, <1>2
<1> QED
  BY <1>1, <1>2, <1>3, <1>4, <1>5, <1>6, <1>7, <1>8 DEF m

-----------------------------------------------------------------------------
(* Loops.                                                                  *)

\* What holds at first and is kept by every round holds after all of them.
LEMMA RoundByRound ==
    ASSUME NEW N \in Nat, NEW S, 0 \in S, \A n \in 1 .. N : n - 1 \in S => n \in S
    PROVE  \A n \in 0 .. N : n \in S
<1> DEFINE missed == {n \in 0 .. N : n \notin S}
<1>1. SUFFICES ASSUME missed # {} PROVE FALSE
  OBVIOUS
<1>2. missed \in SUBSET Nat
  OBVIOUS
<1>3. PICK n \in missed : \A m \in missed : n <= m
  BY <1>1, <1>2, Extremes
<1>4. n \in 1 .. N /\ n - 1 \in 0 .. N /\ ~(n <= n - 1)
  BY <1>3
<1>5. n - 1 \in S
  BY <1>3, <1>4
<1> QED
  BY <1>3, <1>4, <1>5

\* The results of the rounds of a loop.
Rounds(f, base, N, step) ==
    /\ f[0] = base
    /\ \A n \in 1 .. N : f[n] = step[<<f[n - 1], n>>]

\* A loop has a result after every round.
LEMMA LoopRuns ==
    ASSUME NEW A, NEW base \in A, NEW N \in Nat, NEW step \in [A \X (1 .. N) -> A]
    PROVE  \E f \in [0 .. N -> A] : Rounds(f, base, N, step)
<1> DEFINE runs(f, n) == /\ f \in [0 .. n -> A]
                         /\ f[0] = base
                         /\ \A k \in 1 .. n : f[k] = step[<<f[k - 1], k>>]
           S == {n \in 0 .. N : \E f \in [0 .. n -> A] : runs(f, n)}
<1>1. 0 \in S
  <2> DEFINE f == [k \in 0 .. 0 |-> base]
  <2>1. f \in [0 .. 0 -> A] /\ f[0] = base
    OBVIOUS
  <2> HIDE DEF f
  <2>2. \A k : k \notin 1 .. 0
    OBVIOUS
  <2>3. runs(f, 0)
    BY <2>1, <2>2
  <2>4. 0 \in 0 .. N
    OBVIOUS
  <2> QED
    BY <2>1, <2>3, <2>4
<1>2. ASSUME NEW n \in 1 .. N, n - 1 \in S PROVE n \in S
  <2>1. PICK f \in [0 .. n - 1 -> A] : runs(f, n - 1)
    BY <1>2
  <2> DEFINE g == [k \in 0 .. n |-> IF k = n THEN step[<<f[n - 1], n>>] ELSE f[k]]
  <2>2. n \in Nat /\ n - 1 \in 0 .. n - 1 /\ 0 \in 0 .. n - 1
    OBVIOUS
  <2>3. f[n - 1] \in A /\ step[<<f[n - 1], n>>] \in A
    BY <2>1, <2>2
  <2>4. \A k \in 0 .. n : k # n => k \in 0 .. n - 1
    OBVIOUS
  <2>5. g \in [0 .. n -> A]
    BY <2>1, <2>3, <2>4
  <2>6. g[0] = base
    <3>1. 0 \in 0 .. n /\ 0 # n
      BY <2>2
    <3> QED
      BY <2>1, <3>1
  <2>7. ASSUME NEW k \in 1 .. n PROVE g[k] = step[<<g[k - 1], k>>]
    <3>1. k \in 0 .. n /\ k - 1 \in 0 .. n /\ k - 1 # n /\ (k # n => k \in 1 .. n - 1)
      BY <2>2
    <3>2. g[k - 1] = f[k - 1]
      BY <3>1
    <3>3. CASE k = n
      BY <3>1, <3>2, <3>3
    <3>4. CASE k # n
      BY <2>1, <3>1, <3>2, <3>4
    <3> QED
      BY <3>3, <3>4
  <2> HIDE DEF g
  <2>8. runs(g, n)
    BY <2>5, <2>6, <2>7
  <2>9. n \in 0 .. N
    OBVIOUS
  <2> QED
    BY <2>5, <2>8, <2>9
<1> HIDE DEF S
<1>3. \A n \in 0 .. N : n \in S
  BY <1>1, <1>2, RoundByRound
<1>4. N \in S
  BY <1>3
<1> QED
  BY <1>4 DEF S, Rounds

\* Each of the places 1 .. n once, in their order.
LEMMA AscendingIs ==
    ASSUME NEW n \in Nat, NEW places \in SUBSET (1 .. n)
    PROVE  /\ Ascending(places, n) \in Seq(places)
           /\ \A x \in places : \E k \in DOMAIN Ascending(places, n) : Ascending(places, n)[k] = x
           /\ \A k, l \in DOMAIN Ascending(places, n) :
                 k < l => Ascending(places, n)[k] < Ascending(places, n)[l]
<1> DEFINE upTo[i \in 0 .. n] ==
             IF i = 0 THEN <<>>
             ELSE IF i \in places THEN Append(upTo[i - 1], i) ELSE upTo[i - 1]
           A == Seq(places)
           step == [x \in A \X (1 .. n) |-> IF x[2] \in places THEN Append(x[1], x[2]) ELSE x[1]]
<1>1. <<>> \in A /\ step \in [A \X (1 .. n) -> A]
  <2>1. \A a \in A, i \in 1 .. n : i \in places => Append(a, i) \in A
    BY AppendProperties
  <2> QED
    BY <2>1
<1>2. PICK f \in [0 .. n -> A] :
         f[0] = <<>> /\ \A i \in 1 .. n : f[i] = step[<<f[i - 1], i>>]
  <2> HIDE DEF A, step
  <2>1. \E f \in [0 .. n -> A] : Rounds(f, <<>>, n, step)
    BY <1>1, LoopRuns
  <2> QED
    BY <2>1 DEF Rounds
<1>3. \A i \in 1 .. n : f[i] = IF i \in places THEN Append(f[i - 1], i) ELSE f[i - 1]
  <2> SUFFICES ASSUME NEW i \in 1 .. n
               PROVE  f[i] = IF i \in places THEN Append(f[i - 1], i) ELSE f[i - 1]
    OBVIOUS
  <2>1. i - 1 \in 0 .. n
    OBVIOUS
  <2>2. f[i - 1] \in A
    BY <1>2, <2>1
  <2>3. <<f[i - 1], i>> \in A \X (1 .. n)
    BY <2>2
  <2> QED
    BY <1>2, <2>3
<1>4. f = [i \in 0 .. n |-> IF i = 0 THEN <<>>
                            ELSE IF i \in places THEN Append(f[i - 1], i) ELSE f[i - 1]]
  <2>1. \A i \in 0 .. n : i # 0 => i \in 1 .. n
    OBVIOUS
  <2> QED
    BY <1>2, <1>3, <2>1
<1>5. upTo = [i \in 0 .. n |-> IF i = 0 THEN <<>>
                    ELSE IF i \in places THEN Append(upTo[i - 1], i) ELSE upTo[i - 1]]
  BY <1>4
<1>6. Ascending(places, n) = upTo[n]
  BY DEF Ascending
<1> HIDE DEF upTo
<1>7. upTo = f
  <2>1. DOMAIN upTo = 0 .. n
    BY <1>5
  <2> DEFINE S == {i \in 0 .. n : upTo[i] = f[i]}
  <2>2. 0 \in S
    BY <1>2, <1>5
  <2>3. ASSUME NEW i \in 1 .. n, i - 1 \in S PROVE i \in S
    <3>1. i \in 0 .. n /\ i # 0
      OBVIOUS
    <3>2. upTo[i] = IF i \in places THEN Append(upTo[i - 1], i) ELSE upTo[i - 1]
      BY <1>5, <3>1
    <3> QED
      BY <1>3, <2>3, <3>1, <3>2
  <2> HIDE DEF S
  <2>4. \A i \in 0 .. n : i \in S
    BY <2>2, <2>3, RoundByRound
  <2>5. \A i \in 0 .. n : upTo[i] = f[i]
    BY <2>4 DEF S
  <2> QED
    BY <1>2, <1>5, <2>1, <2>5
<1> DEFINE good(s, i) == /\ s \in Seq(places)
                         /\ \A k \in DOMAIN s : s[k] <= i
                         /\ \A x \in places : x <= i => \E k \in DOMAIN s : s[k] = x
                         /\ \A k, l \in DOMAIN s : k < l => s[k] < s[l]
           S == {i \in 0 .. n : good(f[i], i)}
<1>8. 0 \in S
  <2>1. \A x \in places : ~(x <= 0)
    OBVIOUS
  <2>2. <<>> \in Seq(places) /\ DOMAIN <<>> = {}
    OBVIOUS
  <2>3. good(<<>>, 0)
    BY <2>1, <2>2
  <2> QED
    BY <1>2, <2>3
<1>9. ASSUME NEW i \in 1 .. n, i - 1 \in S PROVE i \in S
  <2> DEFINE s == f[i - 1]
  <2>1. i \in 0 .. n /\ i - 1 \in Nat /\ i \in Nat
    OBVIOUS
  <2>2. good(s, i - 1)
    BY <1>9
  <2> HIDE DEF s
  <2>3. Len(s) \in Nat /\ DOMAIN s = 1 .. Len(s) /\ \A k \in DOMAIN s : s[k] \in places /\ s[k] \in Nat
    <3>1. s \in Seq(places)
      BY <2>2
    <3>2. Len(s) \in Nat /\ DOMAIN s = 1 .. Len(s) /\ \A k \in 1 .. Len(s) : s[k] \in places
      BY <3>1, LenProperties, ElementOfSeq
    <3>3. \A x \in places : x \in Nat
      OBVIOUS
    <3> QED
      BY <3>2, <3>3
  <2>4. CASE i \in places
    <3> DEFINE t == Append(s, i)
    <3>1. s \in Seq(places)
      BY <2>2
    <3>2. /\ t \in Seq(places) /\ Len(t) = Len(s) + 1
          /\ \A k \in 1 .. Len(s) : t[k] = s[k]
          /\ t[Len(s) + 1] = i
      BY <2>4, <3>1, AppendProperties
    <3> HIDE DEF t
    <3>3. DOMAIN t = 1 .. Len(s) + 1
      BY <3>2, LenProperties
    <3>4. \A k \in DOMAIN t : k \in 1 .. Len(s) \/ k = Len(s) + 1
      BY <2>3, <3>3
    <3>5. \A k \in 1 .. Len(s) : t[k] <= i - 1 /\ t[k] \in Nat
      BY <2>2, <2>3, <3>2
    <3>6. \A k \in DOMAIN t : t[k] <= i
      BY <2>1, <3>2, <3>4, <3>5
    <3>7. \A x \in places : x <= i => \E k \in DOMAIN t : t[k] = x
      <4> SUFFICES ASSUME NEW x \in places, x <= i PROVE \E k \in DOMAIN t : t[k] = x
        OBVIOUS
      <4>1. CASE x = i
        <5>1. Len(s) + 1 \in DOMAIN t
          BY <2>3, <3>3
        <5> QED
          BY <3>2, <4>1, <5>1
      <4>2. CASE x # i
        <5>1. x \in Nat /\ x <= i - 1
          BY <2>1, <4>2
        <5>2. PICK k \in DOMAIN s : s[k] = x
          BY <2>2, <5>1
        <5>3. k \in 1 .. Len(s) /\ k \in DOMAIN t
          BY <2>3, <3>3, <5>2
        <5> QED
          BY <3>2, <5>2, <5>3
      <4> QED
        BY <4>1, <4>2
    <3>8. \A k, l \in DOMAIN t : k < l => t[k] < t[l]
      <4> SUFFICES ASSUME NEW k \in DOMAIN t, NEW l \in DOMAIN t, k < l PROVE t[k] < t[l]
        OBVIOUS
      <4>1. k \in 1 .. Len(s)
        BY <2>3, <3>3
      <4>2. CASE l = Len(s) + 1
        BY <2>1, <3>2, <3>5, <4>1, <4>2
      <4>3. CASE l \in 1 .. Len(s)
        BY <2>2, <2>3, <3>2, <4>1, <4>3
      <4> QED
        BY <3>4, <4>2, <4>3
    <3>9. f[i] = t
      BY <1>3, <2>4 DEF s, t
    <3>10. good(t, i)
      BY <3>2, <3>6, <3>7, <3>8
    <3> QED
      BY <2>1, <3>9, <3>10
  <2>5. CASE i \notin places
    <3>1. f[i] = s
      BY <1>3, <2>5 DEF s
    <3>2. \A x \in places : x <= i => x <= i - 1
      BY <2>1, <2>5
    <3>3. \A k \in DOMAIN s : s[k] <= i
      BY <2>1, <2>2, <2>3
    <3>4. good(s, i)
      BY <2>2, <3>2, <3>3
    <3> QED
      BY <2>1, <3>1, <3>4
  <2> QED
    BY <2>4, <2>5
<1> HIDE DEF S
<1>10. \A i \in 0 .. n : i \in S
  BY <1>8, <1>9, RoundByRound
<1>11. n \in S /\ \A x \in places : x <= n
  BY <1>10
<1>12. good(f[n], n)
  BY <1>11 DEF S
<1> QED
  BY <1>6, <1>7, <1>11, <1>12

\* A list is what it is, listed.
LEMMA ListedIs ==
    ASSUME NEW S, NEW s \in Seq(S)
    PROVE  Listed(s) = s
  BY ConcatEmptySeq DEF Listed

\* A comprehension has the elements at the places it selects, in their order.
LEMMA ThoseAre ==
    ASSUME NEW S, NEW s \in Seq(S), NEW places \in SUBSET DOMAIN s
    PROVE  /\ Those(s, places) \in Seq(S)
           /\ \E at \in [DOMAIN Those(s, places) -> places] :
                 /\ \A k \in DOMAIN Those(s, places) : Those(s, places)[k] = s[at[k]]
                 /\ \A i \in places : \E k \in DOMAIN Those(s, places) : at[k] = i
                 /\ \A k, l \in DOMAIN Those(s, places) : k < l => at[k] < at[l]
<1> DEFINE at == Ascending(places, Len(s))
           t  == [k \in DOMAIN at |-> s[at[k]]]
<1>1. Len(s) \in Nat /\ DOMAIN s = 1 .. Len(s) /\ \A i \in DOMAIN s : s[i] \in S
  BY LenProperties, ElementOfSeq
<1>2. /\ at \in Seq(places)
      /\ \A i \in places : \E k \in DOMAIN at : at[k] = i
      /\ \A k, l \in DOMAIN at : k < l => at[k] < at[l]
  BY <1>1, AscendingIs
<1>3. Those(s, places) = Listed(t)
  BY DEF Those
<1> HIDE DEF at
<1>4. Len(at) \in Nat /\ DOMAIN at = 1 .. Len(at) /\ \A k \in DOMAIN at : at[k] \in places
  BY <1>2, LenProperties, ElementOfSeq
<1>5. t \in [1 .. Len(at) -> S]
  BY <1>1, <1>4
<1>6. t \in Seq(S) /\ DOMAIN t = DOMAIN at
  BY <1>4, <1>5, FunctionIsSeq
<1>7. Listed(t) = t
  BY <1>6, ListedIs
<1>8. at \in [DOMAIN t -> places]
  <2>1. at = [k \in DOMAIN at |-> at[k]]
    BY <1>2, <1>4, SeqDef
  <2> QED
    BY <1>4, <1>6, <2>1
<1>9. \A k \in DOMAIN t : t[k] = s[at[k]]
  BY <1>6
<1> HIDE DEF t
<1> QED
  BY <1>2, <1>3, <1>6, <1>7, <1>8, <1>9

\* The places the sorted elements are taken from.
Sorts(at, s, key) ==
    /\ \A k \in DOMAIN s : Sorted(s, key)[k] = s[at[k]]
    /\ \A i \in DOMAIN s : \E k \in DOMAIN s : at[k] = i
    /\ \A k, l \in DOMAIN s :
          k < l => \/ key[at[k]] < key[at[l]]
                   \/ key[at[k]] = key[at[l]] /\ at[k] < at[l]

\* Sorting a list keeps its elements and puts them in the order of their keys.
LEMMA SortedIs ==
    ASSUME NEW S, NEW s \in Seq(S), NEW key, \A i \in DOMAIN s : key[i] \in Int
    PROVE  /\ Sorted(s, key) \in Seq(S)
           /\ Len(Sorted(s, key)) = Len(s)
           /\ DOMAIN Sorted(s, key) = DOMAIN s
           /\ \E at \in [DOMAIN s -> DOMAIN s] : Sorts(at, s, key)
<1> DEFINE D     == DOMAIN s
           score == [i \in D |-> -key[i]]
           R     == Ranking(D, score)
           t     == [k \in DOMAIN R |-> s[R[k]]]
<1>1. Len(s) \in Nat /\ D = 1 .. Len(s) /\ \A i \in D : s[i] \in S
  BY LenProperties, ElementOfSeq
<1>2. D \in SUBSET Int /\ IsFiniteSet(D) /\ Cardinality(D) = Len(s)
  BY <1>1, FS_Interval
<1>3. \A i \in D : score[i] \in Int
  OBVIOUS
<1>4. Sorted(s, key) = Listed(t)
  BY DEF Sorted, Arranged
<1>5. /\ R \in [D -> D]
      /\ \A i \in D : \E k \in D : R[k] = i
      /\ \A k, l \in D : k < l => Precedes(score, R[k], R[l])
  <2> HIDE DEF D, score, R
  <2>1. /\ R \in [1 .. Cardinality(D) -> D]
        /\ \A i \in D : \E k \in 1 .. Cardinality(D) : R[k] = i
        /\ \A k, l \in 1 .. Cardinality(D) : k < l => Precedes(score, R[k], R[l])
    BY <1>2, <1>3, RankingOrders DEF R
  <2> QED
    BY <1>1, <1>2, <2>1
<1> HIDE DEF R
<1>6. t \in [1 .. Len(s) -> S]
  BY <1>1, <1>5
<1>7. t \in Seq(S) /\ Len(t) = Len(s) /\ DOMAIN t = D
  BY <1>1, <1>6, FunctionIsSeq
<1>8. Listed(t) = t
  BY <1>7, ListedIs
<1>9. \A k \in D : t[k] = s[R[k]]
  BY <1>5
<1>10. \A k, l \in D :
          k < l => \/ key[R[k]] < key[R[l]]
                   \/ key[R[k]] = key[R[l]] /\ R[k] < R[l]
  <2> SUFFICES ASSUME NEW k \in D, NEW l \in D, k < l
               PROVE  \/ key[R[k]] < key[R[l]]
                      \/ key[R[k]] = key[R[l]] /\ R[k] < R[l]
    OBVIOUS
  <2>1. R[k] \in D /\ R[l] \in D
    BY <1>5
  <2>2. /\ score[R[k]] = -key[R[k]] /\ score[R[l]] = -key[R[l]]
        /\ key[R[k]] \in Int /\ key[R[l]] \in Int
    BY <2>1
  <2>3. score[R[k]] > score[R[l]] \/ (score[R[k]] = score[R[l]] /\ R[k] < R[l])
    BY <1>5 DEF Precedes
  <2> HIDE DEF D, score
  <2> QED
    BY <2>2, <2>3
<1> HIDE DEF t, score
<1>11. Sorted(s, key) = t
  BY <1>4, <1>8
<1>12. R \in [D -> D] /\ Sorts(R, s, key)
  BY <1>5, <1>9, <1>10, <1>11 DEF Sorts
<1> QED
  BY <1>7, <1>11, <1>12
=============================================================================
