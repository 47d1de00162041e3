------------------------------- MODULE Lists -------------------------------
(***************************************************************************)
(* Selecting from a list and sorting it, as Python's comprehensions and    *)
(* its stable sort do and the stores' ORDER BY.                            *)
(***************************************************************************)
EXTENDS Integers, FiniteSets, Sequences

\* The better score is first, and of equal ones the lower id or place.
Precedes(score, x, y) == score[x] > score[y] \/ (score[x] = score[y] /\ x < y)

Ranking(S, score) ==
    [i \in 1 .. Cardinality(S) |->
        CHOOSE x \in S : Cardinality({y \in S : Precedes(score, y, x)}) = i - 1]

\* The elements at some places, by the score of the place.
Arranged(list, places, score) ==
    LET ranked == Ranking(places, score) IN [i \in DOMAIN ranked |-> list[ranked[i]]]

\* list(...): the same elements, each evaluated once.
Listed(list) == list \o <<>>

\* sorted(list, key = ...), the key of every place: equal ones keep their order.
Sorted(list, key) ==
    Listed(Arranged(list, DOMAIN list, [i \in DOMAIN list |-> -key[i]]))

\* Some of the places 1 .. n, in their order.
Ascending(places, n) ==
    LET upTo[i \in 0 .. n] ==
          IF i = 0 THEN <<>>
          ELSE IF i \in places THEN Append(upTo[i - 1], i) ELSE upTo[i - 1]
    IN upTo[n]

\* [x for x in list if ...]
Those(list, places) ==
    LET kept == Ascending(places, Len(list)) IN Listed([k \in DOMAIN kept |-> list[kept[k]]])

\* list[:n]
Taken(list, n) == SubSeq(list, 1, IF n < Len(list) THEN n ELSE Len(list))
=============================================================================
