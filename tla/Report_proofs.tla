--------------------------- MODULE Report_proofs ---------------------------
(***************************************************************************)
(* Proofs about a check and its report: the types, with every passage in   *)
(* its place in both texts, and that a thorough check names the documents  *)
(* that were copied.  The second rests on what the algorithms do: winnowing*)
(* two texts with a long run in common selects a fingerprint in common,    *)
(* the scan for seeds meets that run in spite of the places it skips, and  *)
(* extending, merging and choosing matches keep one as long.               *)
(***************************************************************************)
EXTENDS Report, OrderedIds_proofs

-----------------------------------------------------------------------------
(* Numbers and lists.                                                      *)

\* The greatest and the least of the numbers between two.
LEMMA GreatestAndLeast ==
    ASSUME NEW a \in Int, NEW b \in Int, NEW S \in SUBSET (a .. b), S # {}
    PROVE  /\ Max(S) \in S /\ \A x \in S : x <= Max(S)
           /\ Min(S) \in S /\ \A x \in S : Min(S) <= x
<1> DEFINE up   == {x - a : x \in S}
           down == {b - x : x \in S}
<1>1. up \in SUBSET Nat /\ up # {} /\ down \in SUBSET Nat /\ down # {}
  <2>1. \A x \in S : x - a \in Nat /\ b - x \in Nat
    OBVIOUS
  <2> QED
    BY <2>1
<1>2. PICK m \in up : \A n \in up : m <= n
  BY <1>1, Extremes
<1>3. PICK l \in S : m = l - a
  BY <1>2
<1>4. \A x \in S : l <= x
  <2> SUFFICES ASSUME NEW x \in S PROVE l <= x
    OBVIOUS
  <2>1. m <= x - a /\ x \in Int /\ l \in Int
    BY <1>2
  <2> QED
    BY <1>3, <2>1
<1>5. PICK n \in down : \A k \in down : n <= k
  BY <1>1, Extremes
<1>6. PICK g \in S : n = b - g
  BY <1>5
<1>7. \A x \in S : x <= g
  <2> SUFFICES ASSUME NEW x \in S PROVE x <= g
    OBVIOUS
  <2>1. n <= b - x /\ x \in Int /\ g \in Int
    BY <1>5
  <2> QED
    BY <1>6, <2>1
<1>8. \A x \in S : x \in Int
  OBVIOUS
<1>9. \E x \in S : \A y \in S : x >= y
  BY <1>7, <1>8
<1>10. Max(S) \in S /\ \A y \in S : Max(S) >= y
  BY <1>9 DEF Max
<1>11. Min(S) \in S /\ \A y \in S : Min(S) <= y
  BY <1>4 DEF Min
<1> QED
  BY <1>8, <1>10, <1>11

\* The greater and the lesser of two numbers.
LEMMA OfTwo ==
    ASSUME NEW a \in Int, NEW b \in Int
    PROVE  /\ Max({a, b}) = IF a >= b THEN a ELSE b
           /\ Min({a, b}) = IF a <= b THEN a ELSE b
<1>1. /\ Max({a, b}) \in {a, b} /\ Max({a, b}) >= a /\ Max({a, b}) >= b
  <2>1. \E x \in {a, b} : \A y \in {a, b} : x >= y
    OBVIOUS
  <2>2. Max({a, b}) \in {a, b} /\ \A y \in {a, b} : Max({a, b}) >= y
    BY <2>1 DEF Max
  <2> QED
    BY <2>2
<1>2. /\ Min({a, b}) \in {a, b} /\ Min({a, b}) <= a /\ Min({a, b}) <= b
  <2>1. \E x \in {a, b} : \A y \in {a, b} : x <= y
    OBVIOUS
  <2>2. Min({a, b}) \in {a, b} /\ \A y \in {a, b} : Min({a, b}) <= y
    BY <2>1 DEF Min
  <2> QED
    BY <2>2
<1> QED
  BY <1>1, <1>2

\* A sequence is a function on 1 .. Len.
LEMMA SeqIs ==
    ASSUME NEW S, NEW s \in Seq(S)
    PROVE  Len(s) \in Nat /\ DOMAIN s = 1 .. Len(s) /\ \A i \in DOMAIN s : s[i] \in S
  BY LenProperties, ElementOfSeq

\* A slice that ends within the text.
LEMMA SliceIs ==
    ASSUME NEW S, NEW text \in Seq(S), NEW s \in Nat, NEW e \in Int, e <= Len(text)
    PROVE  /\ Slice(text, s, e) \in Seq(S)
           /\ Len(Slice(text, s, e)) = IF s < e THEN e - s ELSE 0
           /\ \A i \in 1 .. e - s : Slice(text, s, e)[i] = text[s + i]
<1>1. Len(text) \in Nat /\ DOMAIN text = 1 .. Len(text) /\ \A i \in DOMAIN text : text[i] \in S
  BY SeqIs
<1>2. Slice(text, s, e) = SubSeq(text, s + 1, e)
  BY DEF Slice
<1>3. \A i \in s + 1 .. e : text[i] \in S
  BY <1>1
<1>4. /\ SubSeq(text, s + 1, e) \in Seq(S)
      /\ Len(SubSeq(text, s + 1, e)) = IF s + 1 <= e THEN e - (s + 1) + 1 ELSE 0
      /\ \A i \in 1 .. e - (s + 1) + 1 : SubSeq(text, s + 1, e)[i] = text[s + 1 + i - 1]
  BY <1>3, SubSeqProperties
<1>5. e - (s + 1) + 1 = e - s /\ \A i \in 1 .. e - s : s + 1 + i - 1 = s + i
  OBVIOUS
<1>6. (s + 1 <= e) <=> s < e
  OBVIOUS
<1> QED
  BY <1>2, <1>4, <1>5, <1>6

\* What the lists up to each place are, one behind the other.
FrontsOf(f, lists) ==
    f[0] = <<>> /\ \A i \in 1 .. Len(lists) : f[i] = f[i - 1] \o lists[i]

\* The prefixes of a list of lists, flattened, exist.
LEMMA PrefixesOf ==
    ASSUME NEW S, NEW lists \in Seq(Seq(S))
    PROVE  \E f \in [0 .. Len(lists) -> Seq(S)] : FrontsOf(f, lists)
<1> DEFINE n    == Len(lists)
           A    == Seq(S)
           base == <<>>
           step == [x \in A \X (1 .. n) |-> x[1] \o lists[x[2]]]
<1>1. n \in Nat /\ \A i \in 1 .. n : lists[i] \in A
  BY SeqIs
<1>2. base \in A /\ step \in [A \X (1 .. n) -> A]
  BY <1>1, ConcatProperties
<1>3. PICK f \in [0 .. n -> A] : Rounds(f, base, n, step)
  <2> HIDE DEF A, base, step, n
  <2> QED
    BY <1>1, <1>2, LoopRuns
<1>4. \A i \in 1 .. n : f[i] = f[i - 1] \o lists[i]
  <2> SUFFICES ASSUME NEW i \in 1 .. n PROVE f[i] = f[i - 1] \o lists[i]
    OBVIOUS
  <2>1. i - 1 \in 0 .. n
    BY <1>1
  <2>2. <<f[i - 1], i>> \in A \X (1 .. n)
    BY <1>3, <2>1
  <2>3. f[i] = step[<<f[i - 1], i>>]
    BY <1>3 DEF Rounds
  <2> QED
    BY <2>2, <2>3
<1>5. f[0] = <<>>
  BY <1>3 DEF Rounds
<1> QED
  BY <1>3, <1>4, <1>5 DEF FrontsOf

\* Lists put one behind the other have the elements of each.
LEMMA FlatIs ==
    ASSUME NEW S, NEW lists \in Seq(Seq(S))
    PROVE  /\ FlattenSeq(lists) \in Seq(S)
           /\ \A i \in DOMAIN lists : \A k \in DOMAIN lists[i] :
                 \E n \in DOMAIN FlattenSeq(lists) : FlattenSeq(lists)[n] = lists[i][k]
           /\ \A n \in DOMAIN FlattenSeq(lists) :
                 \E i \in DOMAIN lists : \E k \in DOMAIN lists[i] :
                    FlattenSeq(lists)[n] = lists[i][k]
<1> DEFINE N == Len(lists)
           flatten[i \in 1 .. N] == IF i = 1 THEN lists[i] ELSE flatten[i - 1] \o lists[i]
           has(s, list) == \A k \in DOMAIN list : \E n \in DOMAIN s : s[n] = list[k]
           from(s, m) == \A n \in DOMAIN s : \E i \in 1 .. m : \E k \in DOMAIN lists[i] :
                            s[n] = lists[i][k]
<1>1. N \in Nat /\ DOMAIN lists = 1 .. N /\ \A i \in 1 .. N : lists[i] \in Seq(S)
  BY SeqIs
<1>2. CASE N = 0
  <2>1. FlattenSeq(lists) = lists /\ lists = <<>>
    BY <1>2, EmptySeq DEF FlattenSeq
  <2>2. FlattenSeq(lists) \in Seq(S) /\ DOMAIN FlattenSeq(lists) = {} /\ DOMAIN lists = {}
    BY <2>1
  <2> QED
    BY <2>2
<1>3. CASE N # 0
  <2>3. PICK f \in [0 .. N -> Seq(S)] :
           f[0] = <<>> /\ \A n \in 1 .. N : f[n] = f[n - 1] \o lists[n]
    <3>1. \E f \in [0 .. Len(lists) -> Seq(S)] : FrontsOf(f, lists)
      BY PrefixesOf
    <3> QED
      BY <3>1 DEF FrontsOf
  <2>4. \A n \in 1 .. N : f[n] = f[n - 1] \o lists[n] /\ f[n - 1] \in Seq(S)
    <3>1. \A n \in 1 .. N : n - 1 \in 0 .. N
      BY <1>1
    <3> QED
      BY <2>3, <3>1
  <2>5. [i \in 1 .. N |-> f[i]] =
          [i \in 1 .. N |-> IF i = 1 THEN lists[i]
                            ELSE [j \in 1 .. N |-> f[j]][i - 1] \o lists[i]]
    <3>1. ASSUME NEW i \in 1 .. N
          PROVE  f[i] = IF i = 1 THEN lists[i] ELSE [j \in 1 .. N |-> f[j]][i - 1] \o lists[i]
      <4>1. CASE i = 1
        <5>1. f[1] = f[0] \o lists[1] /\ lists[1] \in Seq(S)
          BY <1>1, <2>4, <4>1
        <5> QED
          BY <2>3, <4>1, <5>1, ConcatEmptySeq
      <4>2. CASE i # 1
        <5>1. i - 1 \in 1 .. N
          BY <4>2
        <5> QED
          BY <2>4, <4>2, <5>1
      <4> QED
        BY <4>1, <4>2
    <3> QED
      BY <3>1
  <2>6. flatten = [i \in 1 .. N |-> IF i = 1 THEN lists[i] ELSE flatten[i - 1] \o lists[i]]
    BY <2>5
  <2>7. FlattenSeq(lists) = flatten[N]
    BY <1>3 DEF FlattenSeq
  <2> HIDE DEF flatten
  <2> DEFINE good(s, m) == s \in Seq(S) /\ (\A i \in 1 .. m : has(s, lists[i])) /\ from(s, m)
             G == {m \in 0 .. N : m = 0 \/ good(flatten[m], m)}
  <2>8. 0 \in G
    BY <1>1
  <2>9. ASSUME NEW m \in 1 .. N, m - 1 \in G PROVE m \in G
    <3>1. m \in 0 .. N /\ m # 0 /\ lists[m] \in Seq(S)
      BY <1>1
    <3>2. CASE m = 1
      <4>1. flatten[m] = lists[m]
        BY <2>6, <3>2
      <4>2. good(flatten[m], m)
        BY <3>1, <3>2, <4>1
      <4> QED
        BY <3>1, <4>2
    <3>3. CASE m # 1
      <4> DEFINE s == flatten[m - 1]
      <4>1. m - 1 \in 1 .. N /\ m - 1 # 0
        BY <3>3
      <4>2. good(s, m - 1)
        BY <2>9, <4>1
      <4>3. flatten[m] = s \o lists[m]
        BY <2>6, <3>3
      <4> HIDE DEF s
      <4>4. s \in Seq(S)
        BY <4>2
      <4> DEFINE t == s \o lists[m]
      <4>5. /\ t \in Seq(S) /\ Len(t) = Len(s) + Len(lists[m])
            /\ \A k \in 1 .. Len(s) + Len(lists[m]) :
                  t[k] = IF k <= Len(s) THEN s[k] ELSE lists[m][k - Len(s)]
        BY <3>1, <4>4, ConcatProperties
      <4>6. /\ Len(s) \in Nat /\ DOMAIN s = 1 .. Len(s)
            /\ Len(lists[m]) \in Nat /\ DOMAIN lists[m] = 1 .. Len(lists[m])
        BY <3>1, <4>4, SeqIs
      <4> HIDE DEF t
      <4>7. DOMAIN t = 1 .. Len(s) + Len(lists[m])
        BY <4>5, SeqIs
      <4>8. \A k \in DOMAIN s : k \in DOMAIN t /\ t[k] = s[k]
        BY <4>5, <4>6, <4>7
      <4>9. \A k \in DOMAIN lists[m] : Len(s) + k \in DOMAIN t /\ t[Len(s) + k] = lists[m][k]
        <5> SUFFICES ASSUME NEW k \in DOMAIN lists[m]
                     PROVE  Len(s) + k \in DOMAIN t /\ t[Len(s) + k] = lists[m][k]
          OBVIOUS
        <5>1. /\ Len(s) + k \in 1 .. Len(s) + Len(lists[m])
              /\ ~(Len(s) + k <= Len(s)) /\ Len(s) + k - Len(s) = k
          BY <4>6
        <5> QED
          BY <4>5, <4>7, <5>1
      <4>10. ASSUME NEW i \in 1 .. m PROVE has(t, lists[i])
        <5>1. CASE i = m
          BY <4>9, <5>1
        <5>2. CASE i # m
          <6>1. i \in 1 .. m - 1
            BY <5>2
          <6>2. has(s, lists[i])
            BY <4>2, <6>1
          <6> QED
            BY <4>8, <6>2
        <5> QED
          BY <5>1, <5>2
      <4>11. from(t, m)
        <5> SUFFICES ASSUME NEW n \in DOMAIN t
                     PROVE  \E i \in 1 .. m : \E k \in DOMAIN lists[i] : t[n] = lists[i][k]
          OBVIOUS
        <5>1. CASE n <= Len(s)
          <6>1. n \in DOMAIN s /\ t[n] = s[n]
            BY <4>5, <4>6, <4>7, <5>1
          <6>2. PICK i \in 1 .. m - 1 : \E k \in DOMAIN lists[i] : s[n] = lists[i][k]
            BY <4>2, <6>1
          <6>3. i \in 1 .. m
            OBVIOUS
          <6> QED
            BY <6>1, <6>2, <6>3
        <5>2. CASE ~(n <= Len(s))
          <6>1. n - Len(s) \in DOMAIN lists[m] /\ t[n] = lists[m][n - Len(s)]
            BY <4>5, <4>6, <4>7, <5>2
          <6>2. m \in 1 .. m
            OBVIOUS
          <6> QED
            BY <6>1, <6>2
        <5> QED
          BY <5>1, <5>2
      <4>12. good(t, m)
        BY <4>5, <4>10, <4>11
      <4>13. flatten[m] = t
        BY <4>3 DEF t
      <4> QED
        BY <3>1, <4>12, <4>13
    <3> QED
      BY <3>2, <3>3
  <2> HIDE DEF G
  <2>10. \A m \in 0 .. N : m \in G
    BY <1>1, <2>8, <2>9, RoundByRound
  <2>11. N \in G
    BY <1>1, <2>10
  <2>12. good(flatten[N], N)
    BY <1>3, <2>11 DEF G
  <2> QED
    BY <1>1, <2>7, <2>12
<1> QED
  BY <1>2, <1>3

-----------------------------------------------------------------------------
(* What the parser, the chunker and the projection make of a text is text. *)

\* White space and letters are characters.
LEMMA CharsAre == Newline \in Chars /\ " " \in Chars /\ Letters \subseteq Chars
  BY DEF Chars, Newline, Spaces, Letters

\* A part of a text is text.
LEMMA SubSeqIs ==
    ASSUME NEW S, NEW s \in Seq(S), NEW a \in Int, NEW b \in Int, 1 <= a, b <= Len(s)
    PROVE  SubSeq(s, a, b) \in Seq(S)
<1>1. Len(s) \in Nat /\ DOMAIN s = 1 .. Len(s) /\ \A i \in DOMAIN s : s[i] \in S
  BY SeqIs
<1>2. \A i \in a .. b : s[i] \in S
  BY <1>1
<1> QED
  BY <1>2, SubSeqProperties

\* What Strip leaves is text.
LEMMA StripIs ==
    ASSUME NEW S, NEW text \in Seq(S)
    PROVE  Strip(text) \in Seq(S)
<1> DEFINE kept == {i \in 1 .. Len(text) : text[i] \notin Spaces}
<1>1. Len(text) \in Nat
  BY SeqIs
<1>2. CASE kept = {}
  BY <1>2 DEF Strip
<1>3. CASE kept # {}
  <2>1. kept \in SUBSET (1 .. Len(text))
    OBVIOUS
  <2> HIDE DEF kept
  <2>0. 1 \in Int /\ Len(text) \in Int /\ \A i \in kept : i \in 1 .. Len(text)
    BY <1>1, <2>1
  <2>2. Min(kept) \in kept /\ Max(kept) \in kept
    BY <1>3, <2>0, <2>1, GreatestAndLeast
  <2>3. /\ Min(kept) \in Int /\ Max(kept) \in Int
        /\ 1 <= Min(kept) /\ Max(kept) <= Len(text)
    BY <2>0, <2>2
  <2>4. SubSeq(text, Min(kept), Max(kept)) \in Seq(S)
    BY <2>3, SubSeqIs
  <2>5. Strip(text) = SubSeq(text, Min(kept), Max(kept))
    BY <1>3 DEF Strip, kept
  <2> QED
    BY <2>4, <2>5
<1> QED
  BY <1>2, <1>3

\* The parsed text is text.
LEMMA TextOfIs ==
    ASSUME NEW lines \in Seq(Seq(Chars))
    PROVE  TextOf(lines) \in Seq(Chars)
<1> DEFINE n == Len(lines)
           joined[i \in 0 .. Len(lines)] ==
             IF i = 0 THEN <<>>
             ELSE joined[i - 1] \o (IF i = 1 THEN <<>> ELSE <<Newline>>) \o lines[i]
           A == Seq(Chars)
           step == [x \in A \X (1 .. n) |->
                      x[1] \o (IF x[2] = 1 THEN <<>> ELSE <<Newline>>) \o lines[x[2]]]
<1>1. n \in Nat /\ \A i \in 1 .. n : lines[i] \in A
  BY SeqIs
<1>2. ASSUME NEW a \in A, NEW i \in 1 .. n
      PROVE  a \o (IF i = 1 THEN <<>> ELSE <<Newline>>) \o lines[i] \in A
  <2> DEFINE break == IF i = 1 THEN <<>> ELSE <<Newline>>
  <2>1. break \in A
    <3>1. Newline \in Chars
      BY CharsAre
    <3>2. <<Newline>> \in Seq(Chars) /\ <<>> \in Seq(Chars)
      BY <3>1
    <3> QED
      BY <3>2
  <2> HIDE DEF break
  <2>2. a \o break \in A
    BY <2>1, ConcatProperties
  <2>3. (a \o break) \o lines[i] \in A
    BY <1>1, <2>2, ConcatProperties
  <2> QED
    BY <2>3 DEF break
<1>3. <<>> \in A /\ step \in [A \X (1 .. n) -> A]
  BY <1>2
<1>4. PICK f \in [0 .. n -> A] : Rounds(f, <<>>, n, step)
  <2> HIDE DEF A, step, n
  <2> QED
    BY <1>1, <1>3, LoopRuns
<1>5. f = [i \in 0 .. Len(lines) |->
             IF i = 0 THEN <<>>
             ELSE f[i - 1] \o (IF i = 1 THEN <<>> ELSE <<Newline>>) \o lines[i]]
  <2>1. ASSUME NEW i \in 0 .. n
        PROVE f[i] = IF i = 0 THEN <<>>
                     ELSE f[i - 1] \o (IF i = 1 THEN <<>> ELSE <<Newline>>) \o lines[i]
    <3>1. CASE i = 0
      BY <1>4, <3>1 DEF Rounds
    <3>2. CASE i # 0
      <4>1. i \in 1 .. n /\ i - 1 \in 0 .. n
        BY <3>2, <1>1
      <4>2. f[i] = step[<<f[i - 1], i>>] /\ <<f[i - 1], i>> \in A \X (1 .. n)
        BY <4>1, <1>4 DEF Rounds
      <4> QED
        BY <4>2, <3>2
    <3> QED
      BY <3>1, <3>2
  <2> QED
    BY <1>4, <2>1
<1>6. joined = [i \in 0 .. Len(lines) |->
             IF i = 0 THEN <<>>
             ELSE joined[i - 1] \o (IF i = 1 THEN <<>> ELSE <<Newline>>) \o lines[i]]
  BY <1>5
<1>7. TextOf(lines) = joined[n]
  BY DEF TextOf
<1> HIDE DEF joined
<1> DEFINE S == {i \in 0 .. n : joined[i] \in A}
<1>8. 0 \in S
  BY <1>1, <1>6
<1>9. ASSUME NEW i \in 1 .. n, i - 1 \in S PROVE i \in S
  <2>1. i \in 0 .. n /\ i # 0
    OBVIOUS
  <2>2. joined[i] = joined[i - 1] \o (IF i = 1 THEN <<>> ELSE <<Newline>>) \o lines[i]
    BY <1>6, <2>1
  <2> QED
    BY <1>2, <1>9, <2>1, <2>2
<1> HIDE DEF S
<1>10. \A i \in 0 .. n : i \in S
  BY <1>1, <1>8, <1>9, RoundByRound
<1>11. n \in S
  BY <1>1, <1>10
<1> QED
  BY <1>7, <1>11 DEF S

Block == [section : Nat, start : Nat, text : Seq(Chars)]

\* Every block has a section and text.
LEMMA BlocksAre ==
    ASSUME NEW lines \in Seq(Seq(Chars))
    PROVE  BlocksOf(lines) \in Seq(Block)
<1> DEFINE n == Len(lines)
           places == {i \in 1 .. n + 1 : /\ i = 1 \/ IsHeading(lines[i - 1])
                                         /\ Body(lines, i - 1) # {}}
           sections == Ascending(places, n + 1)
<1>1. n \in Nat /\ n + 1 \in Nat
  BY SeqIs
<1>2. places \in SUBSET (1 .. n + 1)
  OBVIOUS
<1>3. sections \in Seq(places)
  <2> HIDE DEF places
  <2> QED
    BY <1>1, <1>2, AscendingIs
<1>4. /\ Len(sections) \in Nat /\ DOMAIN sections = 1 .. Len(sections)
      /\ \A k \in DOMAIN sections : sections[k] \in places
  <2> HIDE DEF places, sections
  <2> QED
    BY <1>3, SeqIs
<1>5. ASSUME NEW k \in DOMAIN sections
      PROVE  BlockUnder(lines, sections[k] - 1) \in Block
  <2> DEFINE h == sections[k] - 1
             body == Body(lines, h)
  <2>1. h \in Nat /\ body # {}
    <3>1. sections[k] \in places
      BY <1>4
    <3>2. sections[k] \in 1 .. n + 1 /\ Body(lines, sections[k] - 1) # {}
      BY <3>1
    <3> HIDE DEF sections, places, n
    <3> QED
      BY <1>1, <3>2
  <2>2. body \in SUBSET (h + 1 .. n)
    BY DEF Body
  <2> HIDE DEF h
  <2>3. BlockUnder(lines, h) \in Block
    <3> HIDE DEF body
    <3>1. h + 1 \in Int /\ n \in Int
      BY <1>1, <2>1
    <3>2. Min(body) \in body /\ Max(body) \in body
      BY <2>1, <2>2, <3>1, GreatestAndLeast
    <3>3. Min(body) \in h + 1 .. n /\ Max(body) \in h + 1 .. n
      BY <2>2, <3>2
    <3>4. /\ Min(body) \in Int /\ Max(body) \in Int /\ 1 <= Min(body)
          /\ Max(body) <= n /\ Min(body) - 1 \in Int /\ Min(body) - 1 <= n
      BY <1>1, <2>1, <3>3
    <3>5. SubSeq(lines, Min(body), Max(body)) \in Seq(Seq(Chars))
      BY <3>4, SubSeqIs
    <3>6. SubSeq(lines, 1, Min(body) - 1) \in Seq(Seq(Chars))
      BY <3>4, SubSeqIs
    <3>7. /\ TextOf(SubSeq(lines, Min(body), Max(body))) \in Seq(Chars)
          /\ Len(TextOf(SubSeq(lines, 1, Min(body) - 1))) \in Nat
      BY <3>5, <3>6, TextOfIs, SeqIs
    <3>8. LineStart(lines, Min(body)) \in Nat
      BY <3>7 DEF LineStart
    <3> QED
      BY <2>1, <3>7, <3>8 DEF BlockUnder, Block, body
  <2> QED
    BY <2>3 DEF h
<1>6. BlocksOf(lines) = [k \in DOMAIN sections |-> BlockUnder(lines, sections[k] - 1)]
  BY DEF BlocksOf
<1> HIDE DEF sections
<1>7. [k \in DOMAIN sections |-> BlockUnder(lines, sections[k] - 1)] \in [1 .. Len(sections) -> Block]
  BY <1>4, <1>5
<1> QED
  BY <1>4, <1>6, <1>7, FunctionIsSeq

\* Sentences are extents of their text.
LEMMA SentencesAre ==
    ASSUME NEW S, NEW text \in Seq(S)
    PROVE  SentencesOf(text) \in Seq((0 .. Len(text)) \X (0 .. Len(text)))
<1> DEFINE n == Len(text)
           places == {i \in DOMAIN text : text[i] \in {Stop, Newline} \/ i = Len(text)}
           ends == Ascending(places, n)
           span(k) == <<IF k = 1 THEN 0 ELSE ends[k - 1], ends[k]>>
           A == (0 .. n) \X (0 .. n)
<1>1. n \in Nat /\ DOMAIN text = 1 .. n
  BY SeqIs
<1>2. places \in SUBSET (1 .. n)
  BY <1>1
<1>3. ends \in Seq(places)
  <2> HIDE DEF places, n
  <2> QED
    BY <1>1, <1>2, AscendingIs
<1>4. Len(ends) \in Nat /\ DOMAIN ends = 1 .. Len(ends) /\ \A k \in DOMAIN ends : ends[k] \in 1 .. n
  <2> HIDE DEF places, ends, n
  <2> QED
    BY <1>2, <1>3, SeqIs
<1>5. SentencesOf(text) = Listed([k \in DOMAIN ends |-> span(k)])
  BY DEF SentencesOf
<1> HIDE DEF ends
<1>6. ASSUME NEW k \in DOMAIN ends PROVE span(k) \in A
  <2>1. k = 1 \/ k - 1 \in DOMAIN ends
    BY <1>4
  <2> HIDE DEF n
  <2>2. ends[k] \in 0 .. n /\ (k # 1 => ends[k - 1] \in 0 .. n) /\ 0 \in 0 .. n
    BY <1>1, <1>4, <2>1
  <2> QED
    BY <2>2
<1>7. [k \in DOMAIN ends |-> span(k)] \in [1 .. Len(ends) -> A]
  BY <1>4, <1>6
<1>8. [k \in DOMAIN ends |-> span(k)] \in Seq(A)
  <2> HIDE DEF span, A
  <2> QED
    BY <1>4, <1>7, FunctionIsSeq
<1>9. Listed([k \in DOMAIN ends |-> span(k)]) \in Seq(A)
  <2> HIDE DEF span, A
  <2> QED
    BY <1>8, ListedIs
<1> QED
  BY <1>5, <1>9

\* A piece of a text of n characters.
Pieces(n) == Nat \X (0 .. n)

\* The pieces of a long sentence are extents of the text.
LEMMA HardSplitIs ==
    ASSUME NEW n \in Nat, NEW s \in 0 .. n, NEW e \in 0 .. n, e - s > TargetChars
    PROVE  HardSplit(s, e) \in Seq(Pieces(n))
<1> DEFINE m == (e - s + TargetChars - 1) \div TargetChars
           piece(k) == <<s + (k - 1) * TargetChars, Min({s + k * TargetChars, e})>>
<1>1. TargetChars \in Nat \ {0} /\ e - s + TargetChars - 1 \in Nat
  BY ChunkAssumption
<1>2. m \in Nat
  <2> DEFINE x == e - s + TargetChars - 1
  <2> HIDE DEF x
  <2>1. x \in Nat
    BY <1>1 DEF x
  <2>2. x \div TargetChars \in Nat
    BY <1>1, <2>1
  <2> QED
    BY <2>2 DEF x
<1>3. ASSUME NEW k \in 1 .. m PROVE piece(k) \in Pieces(n)
  <2>1. (k - 1) \in Nat /\ k \in Nat
    BY <1>2
  <2>2. (k - 1) * TargetChars \in Nat /\ k * TargetChars \in Nat
    BY <1>1, <2>1
  <2>3. s + (k - 1) * TargetChars \in Nat /\ s + k * TargetChars \in Nat
    BY <2>2
  <2> DEFINE a == s + k * TargetChars
  <2> HIDE DEF a
  <2>4. a \in Int /\ a \in Nat /\ e \in Int
    BY <2>3 DEF a
  <2>5. Min({a, e}) = IF a <= e THEN a ELSE e
    BY <2>4, OfTwo
  <2>6. Min({a, e}) \in 0 .. n
    BY <2>4, <2>5
  <2>7. Min({s + k * TargetChars, e}) \in 0 .. n
    BY <2>6 DEF a
  <2> QED
    BY <2>3, <2>7 DEF Pieces
<1>4. HardSplit(s, e) = [k \in 1 .. m |-> piece(k)]
  BY DEF HardSplit
<1> HIDE DEF m, piece
<1>5. [k \in 1 .. m |-> piece(k)] \in [1 .. m -> Pieces(n)]
  BY <1>3
<1> QED
  BY <1>2, <1>4, <1>5, FunctionIsSeq

\* Taking one more sentence keeps pieces extents of the text.
LEMMA PackedIs ==
    ASSUME NEW n \in Nat, NEW acc \in [pieces : Seq(Pieces(n)), start : Nat, cursor : 0 .. n],
           NEW sentence \in (0 .. n) \X (0 .. n)
    PROVE  Packed(acc, sentence) \in [pieces : Seq(Pieces(n)), start : Nat, cursor : 0 .. n]
<1> DEFINE size == sentence[2] - sentence[1]
           full == acc.start < acc.cursor /\ acc.cursor - acc.start + size > TargetChars
           pieces == IF full THEN Append(acc.pieces, <<acc.start, acc.cursor>>) ELSE acc.pieces
<1>1. /\ acc.pieces \in Seq(Pieces(n)) /\ acc.start \in Nat /\ acc.cursor \in 0 .. n
      /\ sentence[1] \in 0 .. n /\ sentence[2] \in 0 .. n /\ TargetChars \in Nat
  BY ChunkAssumption
<1>2. pieces \in Seq(Pieces(n))
  <2>1. <<acc.start, acc.cursor>> \in Pieces(n)
    BY <1>1 DEF Pieces
  <2>2. Append(acc.pieces, <<acc.start, acc.cursor>>) \in Seq(Pieces(n))
    BY <1>1, <2>1, AppendProperties
  <2> QED
    BY <1>1, <2>2
<1> HIDE DEF pieces
<1>3. CASE size > TargetChars
  <2>1. HardSplit(sentence[1], sentence[2]) \in Seq(Pieces(n))
    BY <1>1, <1>3, HardSplitIs
  <2>2. pieces \o HardSplit(sentence[1], sentence[2]) \in Seq(Pieces(n))
    BY <1>2, <2>1, ConcatProperties
  <2>3. sentence[2] \in Nat
    BY <1>1
  <2>4. Packed(acc, sentence) =
          [pieces |-> pieces \o HardSplit(sentence[1], sentence[2]),
           start  |-> sentence[2], cursor |-> sentence[2]]
    BY <1>3 DEF Packed, pieces
  <2> QED
    BY <1>1, <2>2, <2>3, <2>4
<1>4. CASE ~(size > TargetChars)
  <2>1. Packed(acc, sentence) =
          [pieces |-> pieces, start |-> IF full THEN acc.cursor ELSE acc.start,
           cursor |-> sentence[2]]
    BY <1>4 DEF Packed, pieces
  <2>2. (IF full THEN acc.cursor ELSE acc.start) \in Nat
    BY <1>1
  <2> QED
    BY <1>1, <1>2, <2>1, <2>2
<1> QED
  BY <1>3, <1>4

\* So does closing a piece.
LEMMA FlushedIs ==
    ASSUME NEW n \in Nat, NEW acc \in [pieces : Seq(Pieces(n)), start : Nat, cursor : 0 .. n]
    PROVE  Flushed(acc) \in Seq(Pieces(n))
<1>1. acc.pieces \in Seq(Pieces(n)) /\ <<acc.start, acc.cursor>> \in Pieces(n)
  BY DEF Pieces
<1>2. Append(acc.pieces, <<acc.start, acc.cursor>>) \in Seq(Pieces(n))
  BY <1>1, AppendProperties
<1> QED
  BY <1>1, <1>2 DEF Flushed

\* The pieces of a block are extents of its text.
LEMMA PackIs ==
    ASSUME NEW text \in Seq(Chars)
    PROVE  Pack(text) \in Seq(Pieces(Len(text)))
<1> DEFINE n == Len(text)
           sentences == SentencesOf(text)
           packed[i \in 0 .. Len(sentences)] ==
             IF i = 0 THEN [pieces |-> <<>>, start |-> 0, cursor |-> 0]
             ELSE Packed(packed[i - 1], sentences[i])
           N == Len(sentences)
           A == [pieces : Seq(Pieces(n)), start : Nat, cursor : 0 .. n]
           step == [x \in A \X (1 .. N) |-> Packed(x[1], sentences[x[2]])]
           base == [pieces |-> <<>>, start |-> 0, cursor |-> 0]
<1>1. n \in Nat
  BY SeqIs
<1>2. N \in Nat /\ \A i \in 1 .. N : sentences[i] \in (0 .. n) \X (0 .. n)
  <2>1. sentences \in Seq((0 .. n) \X (0 .. n))
    BY SentencesAre
  <2> HIDE DEF sentences, n
  <2> QED
    BY <2>1, SeqIs
<1>3. ASSUME NEW a \in A, NEW i \in 1 .. N PROVE Packed(a, sentences[i]) \in A
  <2> HIDE DEF sentences, n, N
  <2> QED
    BY <1>1, <1>2, PackedIs
<1>4. base \in A /\ step \in [A \X (1 .. N) -> A]
  <2>1. step \in [A \X (1 .. N) -> A]
    <3> HIDE DEF A, sentences, N
    <3> QED
      BY <1>3
  <2>2. base \in A
    BY <1>1
  <2> QED
    BY <2>1, <2>2
<1>5. PICK f \in [0 .. N -> A] : Rounds(f, base, N, step)
  <2> HIDE DEF A, step, N, base
  <2> QED
    BY <1>2, <1>4, LoopRuns
<1>6. f = [i \in 0 .. Len(sentences) |->
             IF i = 0 THEN [pieces |-> <<>>, start |-> 0, cursor |-> 0]
             ELSE Packed(f[i - 1], sentences[i])]
  <2>1. ASSUME NEW i \in 0 .. N
        PROVE f[i] = IF i = 0 THEN base ELSE Packed(f[i - 1], sentences[i])
    <3> HIDE DEF A, N, base, sentences
    <3>1. CASE i = 0
      BY <1>5, <3>1 DEF Rounds
    <3>2. CASE i # 0
      <4>1. i \in 1 .. N /\ i - 1 \in 0 .. N
        BY <3>2, <1>2
      <4>2. f[i] = step[<<f[i - 1], i>>] /\ <<f[i - 1], i>> \in A \X (1 .. N)
        BY <4>1, <1>5 DEF Rounds
      <4> QED
        BY <4>2, <3>2
    <3> QED
      BY <3>1, <3>2
  <2> QED
    BY <1>5, <2>1
<1>7. packed = [i \in 0 .. Len(sentences) |->
             IF i = 0 THEN [pieces |-> <<>>, start |-> 0, cursor |-> 0]
             ELSE Packed(packed[i - 1], sentences[i])]
  BY <1>6
<1> DEFINE pieces == Flushed(packed[N])
           whole  == {k \in DOMAIN pieces : Stripped(text, pieces[k]) # <<>>}
<1>8. Pack(text) = Those(pieces, whole)
  BY DEF Pack
<1> HIDE DEF packed, sentences, n
<1> DEFINE S == {i \in 0 .. N : packed[i] \in A}
<1>9. 0 \in S
  BY <1>2, <1>4, <1>7
<1>10. ASSUME NEW i \in 1 .. N, i - 1 \in S PROVE i \in S
  <2>1. i \in 0 .. N /\ i # 0
    BY <1>2
  <2>2. packed[i] = Packed(packed[i - 1], sentences[i])
    BY <1>7, <2>1
  <2> HIDE DEF A
  <2> QED
    BY <1>3, <1>10, <2>1, <2>2
<1> HIDE DEF S
<1>11. \A i \in 0 .. N : i \in S
  <2> HIDE DEF N
  <2> QED
    BY <1>2, <1>9, <1>10, RoundByRound
<1>12. N \in S
  BY <1>2, <1>11
<1>13. packed[N] \in A
  BY <1>12 DEF S
<1>14. pieces \in Seq(Pieces(n))
  <2> HIDE DEF N
  <2> QED
    BY <1>1, <1>13, FlushedIs
<1> HIDE DEF pieces
<1>15. Those(pieces, whole) \in Seq(Pieces(n))
  <2>1. whole \in SUBSET DOMAIN pieces
    OBVIOUS
  <2> HIDE DEF whole
  <2> QED
    BY <1>14, <2>1, ThoseAre
<1> QED
  BY <1>8, <1>15 DEF n

Row == [section : Nat, text : Seq(Chars), start : Nat, end : Nat]

\* A piece without its blanks is text.
LEMMA StrippedIs ==
    ASSUME NEW text \in Seq(Chars), NEW piece \in Pieces(Len(text))
    PROVE  Stripped(text, piece) \in Seq(Chars)
<1>1. Len(text) \in Nat
  BY SeqIs
<1>2. piece[1] \in Nat /\ piece[2] \in Int /\ piece[2] <= Len(text)
  BY <1>1 DEF Pieces
<1>3. Slice(text, piece[1], piece[2]) \in Seq(Chars)
  BY <1>2, SliceIs
<1> QED
  BY <1>3, StripIs DEF Stripped

\* A block is cut into rows.
LEMMA ChunkBlockIs ==
    ASSUME NEW block \in Block
    PROVE  ChunkBlock(block) \in Seq(Row)
<1> DEFINE text == block.text
           pieces == Pack(text)
           n == Len(text)
           stripped(k) == Stripped(text, pieces[k])
           before(k) == IF k = 1 THEN <<>> ELSE TailOf(stripped(k - 1))
           row(k) == [section |-> block.section,
                      text    |-> before(k) \o stripped(k),
                      start   |-> Max({block.start + pieces[k][1] - Len(before(k)), 0}),
                      end     |-> block.start + pieces[k][2]]
<1>1. text \in Seq(Chars) /\ block.section \in Nat /\ block.start \in Nat
  BY DEF Block
<1>2. n \in Nat /\ pieces \in Seq(Pieces(n))
  BY <1>1, PackIs, SeqIs
<1>3. /\ Len(pieces) \in Nat /\ DOMAIN pieces = 1 .. Len(pieces)
      /\ \A k \in DOMAIN pieces : pieces[k] \in Pieces(n)
  <2> HIDE DEF pieces, n
  <2> QED
    BY <1>2, SeqIs
<1>4. \A k \in DOMAIN pieces : stripped(k) \in Seq(Chars)
  <2> HIDE DEF pieces, text
  <2> QED
    BY <1>1, <1>3, StrippedIs
<1>5. ChunkBlock(block) = [k \in DOMAIN pieces |-> row(k)]
  BY DEF ChunkBlock, Chunked
<1> HIDE DEF pieces, text
<1>6. ASSUME NEW k \in DOMAIN pieces PROVE row(k) \in Row
  <2>1. before(k) \in Seq(Chars)
    <3>1. CASE k = 1
      BY <3>1
    <3>2. CASE k # 1
      <4>1. k - 1 \in DOMAIN pieces
        BY <1>3, <3>2
      <4> DEFINE s == stripped(k - 1)
      <4>2. s \in Seq(Chars)
        BY <1>4, <4>1
      <4> HIDE DEF s
      <4>3. Len(s) \in Nat /\ Len(s) \in Int /\ OverlapChars \in Nat /\ 0 \in Int
        BY <4>2, SeqIs, ChunkAssumption
      <4>4. Len(s) - OverlapChars \in Int
        BY <4>3
      <4>5. Max({Len(s) - OverlapChars, 0}) \in Nat
        BY <4>3, <4>4, OfTwo
      <4>6. Slice(s, Max({Len(s) - OverlapChars, 0}), Len(s)) \in Seq(Chars)
        BY <4>2, <4>3, <4>5, SliceIs
      <4> QED
        BY <3>2, <4>6 DEF TailOf, s
    <3> QED
      BY <3>1, <3>2
  <2> HIDE DEF before
  <2>2. before(k) \o stripped(k) \in Seq(Chars)
    <3>1. stripped(k) \in Seq(Chars)
      BY <1>4
    <3> HIDE DEF stripped
    <3> QED
      BY <2>1, <3>1, ConcatProperties
  <2>3. pieces[k][1] \in Nat /\ pieces[k][2] \in Nat
    BY <1>2, <1>3 DEF Pieces
  <2>4. Len(before(k)) \in Nat
    BY <2>1, SeqIs
  <2>5. block.start + pieces[k][1] - Len(before(k)) \in Int /\ 0 \in Int
    BY <1>1, <2>3, <2>4
  <2>6. Max({block.start + pieces[k][1] - Len(before(k)), 0}) \in Nat
    BY <2>5, OfTwo
  <2>7. block.start + pieces[k][2] \in Nat
    BY <1>1, <2>3
  <2> HIDE DEF stripped
  <2> QED
    BY <1>1, <2>2, <2>6, <2>7 DEF Row
<1> HIDE DEF row
<1>7. [k \in DOMAIN pieces |-> row(k)] \in [1 .. Len(pieces) -> Row]
  BY <1>3, <1>6
<1> QED
  BY <1>3, <1>5, <1>7, FunctionIsSeq

\* The last of a list is one of it.
LEMMA LastIs ==
    ASSUME NEW S, NEW s \in Seq(S), s # <<>>
    PROVE  Last(s) \in S /\ Last(s) = s[Len(s)] /\ Len(s) \in 1 .. Len(s) /\ Len(s) \in DOMAIN s
<1>1. Len(s) \in Nat /\ DOMAIN s = 1 .. Len(s) /\ \A i \in DOMAIN s : s[i] \in S
  BY SeqIs
<1>2. Len(s) # 0
  BY EmptySeq
<1> QED
  BY <1>1, <1>2 DEF Last

\* A list in which one element is replaced.
LEMMA ExceptIs ==
    ASSUME NEW S, NEW s \in Seq(S), NEW x \in S, NEW i
    PROVE  [s EXCEPT ![i] = x] \in Seq(S) /\ Len([s EXCEPT ![i] = x]) = Len(s)
<1>1. Len(s) \in Nat /\ DOMAIN s = 1 .. Len(s) /\ \A k \in DOMAIN s : s[k] \in S
  BY SeqIs
<1>2. s \in [1 .. Len(s) -> S]
  BY <1>1
<1>3. [s EXCEPT ![i] = x] \in [1 .. Len(s) -> S]
  BY <1>2
<1> QED
  BY <1>1, <1>3, FunctionIsSeq

\* Rows stay rows when a short one is appended to the one before.
LEMMA AbsorbedIs ==
    ASSUME NEW result \in Seq(Row), NEW chunk \in Row
    PROVE  Absorbed(result, chunk) \in Seq(Row)
<1> DEFINE last   == Last(result)
           longer == [last EXCEPT !.text = @ \o <<Newline>> \o chunk.text,
                                  !.end = Max({@, chunk.end})]
<1>1. Append(result, chunk) \in Seq(Row)
  BY AppendProperties
<1>2. ASSUME result # <<>> PROVE [result EXCEPT ![Len(result)] = longer] \in Seq(Row)
  <2>1. last \in Row
    BY <1>2, LastIs
  <2> HIDE DEF last
  <2>2. /\ last.text \in Seq(Chars) /\ last.end \in Nat /\ last.end \in Int
        /\ chunk.text \in Seq(Chars) /\ chunk.end \in Nat /\ chunk.end \in Int
    BY <2>1 DEF Row
  <2>3. <<Newline>> \in Seq(Chars)
    <3>1. Newline \in Chars
      BY CharsAre
    <3> QED
      BY <3>1
  <2>4. last.text \o <<Newline>> \in Seq(Chars)
    BY <2>2, <2>3, ConcatProperties
  <2>5. last.text \o <<Newline>> \o chunk.text \in Seq(Chars)
    BY <2>2, <2>4, ConcatProperties
  <2>6. Max({last.end, chunk.end}) \in Nat
    BY <2>2, OfTwo
  <2>7. longer \in Row
    BY <2>1, <2>5, <2>6 DEF Row
  <2> HIDE DEF longer
  <2> QED
    BY <2>7, ExceptIs
<1>3. \/ Absorbed(result, chunk) = Append(result, chunk)
      \/ result # <<>> /\ Absorbed(result, chunk) = [result EXCEPT ![Len(result)] = longer]
  BY DEF Absorbed
<1> HIDE DEF longer
<1> QED
  BY <1>1, <1>2, <1>3

\* A document is cut into rows.
LEMMA RowsAre ==
    ASSUME NEW lines \in Seq(Seq(Chars))
    PROVE  RowsOf(lines) \in Seq(Row)
<1> DEFINE blocks == BlocksOf(lines)
           lists == [k \in DOMAIN blocks |-> ChunkBlock(blocks[k])]
           chunks == FlattenSeq(lists)
           rows[i \in 0 .. Len(chunks)] ==
             IF i = 0 THEN <<>> ELSE Absorbed(rows[i - 1], chunks[i])
           N == Len(chunks)
           A == Seq(Row)
           step == [x \in A \X (1 .. N) |-> Absorbed(x[1], chunks[x[2]])]
<1>1. lists \in Seq(Seq(Row))
  <2>1. blocks \in Seq(Block)
    BY BlocksAre
  <2> HIDE DEF blocks
  <2>2. /\ Len(blocks) \in Nat /\ DOMAIN blocks = 1 .. Len(blocks)
        /\ \A k \in DOMAIN blocks : blocks[k] \in Block
    BY <2>1, SeqIs
  <2>3. lists \in [1 .. Len(blocks) -> Seq(Row)]
    BY <2>2, ChunkBlockIs
  <2> HIDE DEF lists
  <2> QED
    BY <2>2, <2>3, FunctionIsSeq
<1>2. chunks \in Seq(Row)
  <2> HIDE DEF lists
  <2> QED
    BY <1>1, FlatIs
<1>3. N \in Nat /\ \A i \in 1 .. N : chunks[i] \in Row
  <2> HIDE DEF chunks
  <2> QED
    BY <1>2, SeqIs
<1>4. RowsOf(lines) = rows[N]
  BY DEF RowsOf
<1>5. ASSUME NEW a \in A, NEW i \in 1 .. N PROVE Absorbed(a, chunks[i]) \in A
  <2> HIDE DEF chunks, N
  <2> QED
    BY <1>3, AbsorbedIs
<1>6. <<>> \in A /\ step \in [A \X (1 .. N) -> A]
  <2> HIDE DEF chunks, N
  <2> QED
    BY <1>5
<1>7. PICK f \in [0 .. N -> A] : Rounds(f, <<>>, N, step)
  <2> HIDE DEF A, step, N
  <2> QED
    BY <1>3, <1>6, LoopRuns
<1>8. f = [i \in 0 .. Len(chunks) |->
             IF i = 0 THEN <<>> ELSE Absorbed(f[i - 1], chunks[i])]
  <2>1. ASSUME NEW i \in 0 .. N
        PROVE f[i] = IF i = 0 THEN <<>> ELSE Absorbed(f[i - 1], chunks[i])
    <3> HIDE DEF A, N, chunks
    <3>1. CASE i = 0
      BY <1>7, <3>1 DEF Rounds
    <3>2. CASE i # 0
      <4>1. i \in 1 .. N /\ i - 1 \in 0 .. N
        BY <3>2, <1>3
      <4>2. f[i] = step[<<f[i - 1], i>>] /\ <<f[i - 1], i>> \in A \X (1 .. N)
        BY <4>1, <1>7 DEF Rounds
      <4> QED
        BY <4>2, <3>2
    <3> QED
      BY <3>1, <3>2
  <2> QED
    BY <1>7, <2>1
<1>9. rows = [i \in 0 .. Len(chunks) |->
             IF i = 0 THEN <<>> ELSE Absorbed(rows[i - 1], chunks[i])]
  BY <1>8
<1> HIDE DEF rows, chunks
<1> DEFINE S == {i \in 0 .. N : rows[i] \in A}
<1>10. 0 \in S
  BY <1>3, <1>9
<1>11. ASSUME NEW i \in 1 .. N, i - 1 \in S PROVE i \in S
  <2>1. i \in 0 .. N /\ i # 0
    BY <1>3
  <2>2. rows[i] = Absorbed(rows[i - 1], chunks[i])
    BY <1>9, <2>1
  <2> HIDE DEF A
  <2> QED
    BY <1>5, <1>11, <2>1, <2>2
<1> HIDE DEF S
<1>12. \A i \in 0 .. N : i \in S
  <2> HIDE DEF N
  <2> QED
    BY <1>3, <1>10, <1>11, RoundByRound
<1>13. N \in S
  BY <1>3, <1>12
<1> QED
  BY <1>4, <1>13 DEF S

Cursor == [text : Seq(Chars), cursor : Nat]

\* Joining one more row keeps a text and a cursor.
LEMMA JoinedIs ==
    ASSUME NEW acc \in Cursor, NEW row \in Row
    PROVE  Joined(acc, row) \in Cursor
<1> DEFINE cursor == Max({acc.cursor, row.start})
           padded == acc.text \o Blanks(cursor - acc.cursor)
           rest   == Slice(row.text, cursor - row.start, Len(row.text))
<1>1. /\ acc.text \in Seq(Chars) /\ acc.cursor \in Nat /\ acc.cursor \in Int
      /\ row.text \in Seq(Chars) /\ row.start \in Int /\ row.start \in Nat /\ row.end \in Nat
  BY DEF Cursor, Row
<1>2. cursor \in Nat /\ cursor >= acc.cursor /\ cursor >= row.start
  BY <1>1, OfTwo
<1> HIDE DEF cursor
<1>3. cursor - acc.cursor \in Nat /\ cursor - row.start \in Nat
  BY <1>1, <1>2
<1>4. padded \in Seq(Chars)
  <2> DEFINE n == cursor - acc.cursor
  <2>1. [i \in 1 .. n |-> " "] \in [1 .. n -> Chars]
    BY CharsAre
  <2> HIDE DEF n
  <2>2. Blanks(n) \in Seq(Chars)
    <3>1. n \in Nat
      BY <1>3 DEF n
    <3> QED
      BY <2>1, <3>1, FunctionIsSeq DEF Blanks
  <2> QED
    BY <1>1, <2>2, ConcatProperties DEF n
<1>5. rest \in Seq(Chars)
  <2>1. Len(row.text) \in Int /\ Len(row.text) <= Len(row.text)
    BY <1>1, SeqIs
  <2> QED
    BY <1>1, <1>3, <2>1, SliceIs
<1> HIDE DEF padded, rest
<1>6. padded \o rest \in Seq(Chars)
  BY <1>4, <1>5, ConcatProperties
<1>7. Joined(acc, row) \in {[text |-> padded, cursor |-> cursor],
                            [text |-> padded \o rest, cursor |-> row.end]}
  BY DEF Joined, padded, rest, cursor
<1>8. [text |-> padded, cursor |-> cursor] \in Cursor
  BY <1>2, <1>4 DEF Cursor
<1>9. [text |-> padded \o rest, cursor |-> row.end] \in Cursor
  BY <1>1, <1>6 DEF Cursor
<1> QED
  BY <1>7, <1>8, <1>9

\* The text joined from the rows of a version is text.
LEMMA LoadTextIs ==
    ASSUME NEW rows \in Seq(Row)
    PROVE  LoadText(rows) \in Seq(Chars)
<1> DEFINE sorted == ByStart(rows)
           joined[i \in 0 .. Len(sorted)] ==
             IF i = 0 THEN [text |-> <<>>, cursor |-> 0] ELSE Joined(joined[i - 1], sorted[i])
           N == Len(sorted)
           A == Cursor
           step == [x \in A \X (1 .. N) |-> Joined(x[1], sorted[x[2]])]
           base == [text |-> <<>>, cursor |-> 0]
<1>1. sorted \in Seq(Row)
  <2> DEFINE key == [k \in DOMAIN rows |-> rows[k].start]
  <2>1. \A k \in DOMAIN rows : rows[k] \in Row
    BY SeqIs
  <2>2. \A k \in DOMAIN rows : key[k] \in Int
    BY <2>1 DEF Row
  <2> HIDE DEF key
  <2>3. Sorted(rows, key) \in Seq(Row)
    BY <2>2, SortedIs
  <2> QED
    BY <2>3 DEF ByStart, key
<1>2. LoadText(rows) = joined[N].text
  BY DEF LoadText
<1>3. N \in Nat /\ \A i \in 1 .. N : sorted[i] \in Row
  <2> HIDE DEF sorted
  <2> QED
    BY <1>1, SeqIs
<1>4. ASSUME NEW a \in A, NEW i \in 1 .. N PROVE Joined(a, sorted[i]) \in A
  <2> HIDE DEF sorted, N
  <2> QED
    BY <1>3, JoinedIs
<1>5. base \in A /\ step \in [A \X (1 .. N) -> A]
  <2> HIDE DEF sorted, N
  <2>1. step \in [A \X (1 .. N) -> A]
    BY <1>4
  <2>2. base \in A
    BY DEF Cursor
  <2> QED
    BY <2>1, <2>2
<1>6. PICK f \in [0 .. N -> A] : Rounds(f, base, N, step)
  <2> HIDE DEF A, step, N, base
  <2> QED
    BY <1>3, <1>5, LoopRuns
<1>7. f = [i \in 0 .. Len(sorted) |->
             IF i = 0 THEN [text |-> <<>>, cursor |-> 0] ELSE Joined(f[i - 1], sorted[i])]
  <2>1. ASSUME NEW i \in 0 .. N
        PROVE f[i] = IF i = 0 THEN base ELSE Joined(f[i - 1], sorted[i])
    <3> HIDE DEF A, N, sorted, base
    <3>1. CASE i = 0
      BY <1>6, <3>1 DEF Rounds
    <3>2. CASE i # 0
      <4>1. i \in 1 .. N /\ i - 1 \in 0 .. N
        BY <3>2, <1>3
      <4>2. f[i] = step[<<f[i - 1], i>>] /\ <<f[i - 1], i>> \in A \X (1 .. N)
        BY <4>1, <1>6 DEF Rounds
      <4> QED
        BY <4>2, <3>2
    <3> QED
      BY <3>1, <3>2
  <2> QED
    BY <1>6, <2>1
<1>8. joined = [i \in 0 .. Len(sorted) |->
             IF i = 0 THEN [text |-> <<>>, cursor |-> 0] ELSE Joined(joined[i - 1], sorted[i])]
  BY <1>7
<1> HIDE DEF joined, sorted
<1> DEFINE S == {i \in 0 .. N : joined[i] \in A}
<1>9. 0 \in S
  BY <1>3, <1>5, <1>8
<1>10. ASSUME NEW i \in 1 .. N, i - 1 \in S PROVE i \in S
  <2>1. i \in 0 .. N /\ i # 0
    BY <1>3
  <2>2. joined[i] = Joined(joined[i - 1], sorted[i])
    BY <1>8, <2>1
  <2> HIDE DEF A
  <2> QED
    BY <1>4, <1>10, <2>1, <2>2
<1> HIDE DEF S
<1>11. \A i \in 0 .. N : i \in S
  <2> HIDE DEF N
  <2> QED
    BY <1>3, <1>9, <1>10, RoundByRound
<1>12. N \in S
  BY <1>3, <1>11
<1>13. joined[N] \in Cursor
  BY <1>12 DEF S
<1> QED
  BY <1>2, <1>13 DEF Cursor

\* The windows of a text lie within it.
Windows(text) ==
    {w \in [start : Nat, text : Seq(Chars)] : w.start + Len(w.text) <= Len(text)}

\* chunk_document makes windows of the text.
LEMMA SlidingChunksAre ==
    ASSUME NEW text \in Seq(Chars)
    PROVE  SlidingChunks(text) \in Seq(Windows(text))
<1> DEFINE sentences == SentencesOf(text)
           n         == Len(sentences)
           stride    == PerChunk - Overlap
           places    == {i \in 1 .. n : /\ (i - 1) % stride = 0
                                        /\ i = 1 \/ i - 1 - stride + PerChunk < n}
           starts    == Ascending(places, n)
           At(i)     == <<sentences[i][1], sentences[Min({i - 1 + PerChunk, n})][2]>>
           windows   == Listed([k \in DOMAIN starts |-> At(starts[k])])
           chunk(k)  == [start |-> windows[k][1], text |-> Slice(text, windows[k][1], windows[k][2])]
           L         == Len(text)
           Pair      == (0 .. L) \X (0 .. L)
           Window    == Windows(text)
<1>1. SlidingChunks(text) \in {<<>>, [k \in DOMAIN windows |-> chunk(k)]}
  BY DEF SlidingChunks
<1>2. L \in Nat /\ sentences \in Seq(Pair)
  BY SentencesAre, SeqIs
<1>3. n \in Nat /\ \A i \in 1 .. n : sentences[i] \in Pair
  <2> HIDE DEF sentences, Pair
  <2> QED
    BY <1>2, SeqIs
<1>4. PerChunk \in Nat \ {0}
  BY MatchAssumption
<1> HIDE DEF sentences, n
<1>5. Len(starts) \in Nat /\ DOMAIN starts = 1 .. Len(starts) /\ \A k \in DOMAIN starts : starts[k] \in 1 .. n
  <2>1. places \in SUBSET (1 .. n)
    OBVIOUS
  <2> HIDE DEF places
  <2>2. starts \in Seq(places)
    BY <1>3, <2>1, AscendingIs
  <2> HIDE DEF starts
  <2> QED
    BY <2>1, <2>2, SeqIs
<1> HIDE DEF starts
<1>6. ASSUME NEW i \in 1 .. n PROVE At(i) \in Pair
  <2>1. i - 1 + PerChunk \in Int /\ n \in Int /\ i - 1 + PerChunk >= 1 /\ n >= 1
    BY <1>3, <1>4
  <2> DEFINE a == i - 1 + PerChunk
  <2> HIDE DEF a
  <2>0. a \in Int /\ n \in Int /\ a >= 1 /\ n >= 1
    BY <2>1 DEF a
  <2>2. Min({a, n}) \in 1 .. n
    <3>1. Min({a, n}) = IF a <= n THEN a ELSE n
      BY <2>0, OfTwo
    <3>2. a \in 1 .. n \/ ~(a <= n)
      BY <2>0
    <3>3. n \in 1 .. n
      BY <2>0
    <3> QED
      BY <3>1, <3>2, <3>3
  <2> DEFINE m == Min({i - 1 + PerChunk, n})
  <2> HIDE DEF m
  <2>3. m \in 1 .. n
    BY <2>2 DEF m, a
  <2>4. sentences[i][1] \in 0 .. L /\ sentences[m][2] \in 0 .. L
    BY <1>3, <2>3
  <2> QED
    BY <2>4 DEF m
<1>7. windows \in Seq(Pair)
  <2> HIDE DEF At, Pair
  <2>1. [k \in DOMAIN starts |-> At(starts[k])] \in [1 .. Len(starts) -> Pair]
    BY <1>5, <1>6
  <2>2. [k \in DOMAIN starts |-> At(starts[k])] \in Seq(Pair)
    BY <1>5, <2>1, FunctionIsSeq
  <2> QED
    BY <2>2, ListedIs
<1> HIDE DEF windows, At
<1>8. /\ Len(windows) \in Nat /\ DOMAIN windows = 1 .. Len(windows)
      /\ \A k \in DOMAIN windows : windows[k] \in Pair
  <2> HIDE DEF Pair
  <2> QED
    BY <1>7, SeqIs
<1>9. ASSUME NEW k \in DOMAIN windows PROVE chunk(k) \in Window
  <2> DEFINE x == windows[k][1]
             y == windows[k][2]
             t == Slice(text, windows[k][1], windows[k][2])
  <2>1. x \in Nat /\ y \in Int /\ x <= L /\ y <= L
    BY <1>2, <1>8
  <2> HIDE DEF x, y
  <2>2. t \in Seq(Chars) /\ Len(t) = IF x < y THEN y - x ELSE 0
    <3>1. Slice(text, x, y) \in Seq(Chars) /\ Len(Slice(text, x, y)) = IF x < y THEN y - x ELSE 0
      BY <2>1, SliceIs
    <3> QED
      BY <3>1 DEF x, y
  <2> HIDE DEF t
  <2>3. x + Len(t) <= L
    <3> DEFINE l == Len(t)
    <3>1. l = IF x < y THEN y - x ELSE 0
      BY <2>2
    <3> HIDE DEF l, L
    <3>2. x + l <= L
      BY <1>2, <2>1, <3>1
    <3> QED
      BY <3>2 DEF l
  <2>4. chunk(k) = [start |-> x, text |-> t]
    BY DEF x, t
  <2> HIDE DEF chunk
  <2> QED
    BY <2>1, <2>2, <2>3, <2>4 DEF Windows
<1> HIDE DEF chunk, Window
<1>10. [k \in DOMAIN windows |-> chunk(k)] \in [1 .. Len(windows) -> Window]
  BY <1>8, <1>9
<1>11. [k \in DOMAIN windows |-> chunk(k)] \in Seq(Window)
  BY <1>8, <1>10, FunctionIsSeq
<1>12. <<>> \in Seq(Window)
  OBVIOUS
<1> QED
  BY <1>1, <1>11, <1>12 DEF Window

-----------------------------------------------------------------------------
(* Normalized texts.                                                       *)

\* What is selected has what all that is selected has.
LEMMA ThoseHave ==
    ASSUME NEW S, NEW T, NEW s \in Seq(S), NEW places \in SUBSET DOMAIN s,
           \A i \in places : s[i] \in T
    PROVE  Those(s, places) \in Seq(T)
<1> DEFINE t == Those(s, places)
<1>1. /\ t \in Seq(S)
      /\ \E at \in [DOMAIN t -> places] : \A k \in DOMAIN t : t[k] = s[at[k]]
  BY ThoseAre
<1> HIDE DEF t
<1>2. Len(t) \in Nat /\ DOMAIN t = 1 .. Len(t)
  BY <1>1, SeqIs
<1>3. PICK at \in [DOMAIN t -> places] : \A k \in DOMAIN t : t[k] = s[at[k]]
  BY <1>1
<1>4. \A k \in 1 .. Len(t) : t[k] \in T
  BY <1>2, <1>3
<1>5. t = [k \in 1 .. Len(t) |-> t[k]]
  <2>1. t \in [1 .. Len(t) -> S]
    BY <1>1, <1>2, SeqIs
  <2> QED
    BY <2>1
<1>6. t \in [1 .. Len(t) -> T]
  BY <1>4, <1>5
<1>7. t \in Seq(T)
  BY <1>2, <1>6, FunctionIsSeq
<1> QED
  BY <1>7 DEF t

Units(C) == [char : C, start : Nat, end : Nat]

\* Without citations, every character stands for a span of the text.
LEMMA UncitedIs ==
    ASSUME NEW C, NEW text \in Seq(C)
    PROVE  Uncited(text) \in Seq(Units(C \ {Citation}))
<1> DEFINE places == {i \in DOMAIN text : text[i] # Citation}
           kept   == Ascending(places, Len(text))
           U      == Units(C \ {Citation})
<1>1. Len(text) \in Nat /\ DOMAIN text = 1 .. Len(text) /\ \A i \in DOMAIN text : text[i] \in C
  BY SeqIs
<1>2. Len(kept) \in Nat /\ DOMAIN kept = 1 .. Len(kept) /\ \A k \in DOMAIN kept : kept[k] \in places
  <2>1. places \in SUBSET (1 .. Len(text))
    BY <1>1
  <2> HIDE DEF places
  <2>2. kept \in Seq(places)
    BY <1>1, <2>1, AscendingIs
  <2> HIDE DEF kept
  <2> QED
    BY <2>2, SeqIs
<1>3. Uncited(text) = Listed([k \in DOMAIN kept |-> Mapped(text, kept[k])])
  BY DEF Uncited
<1> HIDE DEF kept
<1>4. ASSUME NEW k \in DOMAIN kept PROVE Mapped(text, kept[k]) \in U
  <2>1. kept[k] \in 1 .. Len(text) /\ text[kept[k]] \in C \ {Citation}
    BY <1>1, <1>2
  <2>2. kept[k] - 1 \in Nat /\ kept[k] \in Nat
    BY <1>1, <2>1
  <2> QED
    BY <2>1, <2>2 DEF Mapped, Units
<1> HIDE DEF U
<1>5. [k \in DOMAIN kept |-> Mapped(text, kept[k])] \in [1 .. Len(kept) -> U]
  BY <1>2, <1>4
<1>6. [k \in DOMAIN kept |-> Mapped(text, kept[k])] \in Seq(U)
  BY <1>2, <1>5, FunctionIsSeq
<1>7. Listed([k \in DOMAIN kept |-> Mapped(text, kept[k])]) \in Seq(U)
  BY <1>6, ListedIs
<1> QED
  BY <1>3, <1>7 DEF U

\* So it does when white space is collapsed.
LEMMA CollapsedIs ==
    ASSUME NEW chars \in Seq(Units(Chars))
    PROVE  Collapsed(chars) \in Seq(Units(Chars))
<1> DEFINE n == Len(chars)
           RunEnd(k) == Max({j \in k .. Len(chars) : \A i \in k .. j : IsSpace(chars, i)})
           Short(k) == IF IsSpace(chars, k)
                         THEN [char |-> " ", start |-> chars[k].start, end |-> chars[RunEnd(k)].end]
                         ELSE chars[k]
           short == Listed([k \in DOMAIN chars |-> Short(k)])
           first == {k \in DOMAIN chars : ~IsSpace(chars, k) \/ k = 1 \/ ~IsSpace(chars, k - 1)}
           U == Units(Chars)
<1>1. n \in Nat /\ DOMAIN chars = 1 .. n /\ \A i \in DOMAIN chars : chars[i] \in U
  BY SeqIs
<1>2. Collapsed(chars) = Those(short, first)
  BY DEF Collapsed
<1>3. ASSUME NEW k \in DOMAIN chars PROVE Short(k) \in U
  <2>1. CASE IsSpace(chars, k)
    <3> DEFINE run == {j \in k .. n : \A i \in k .. j : IsSpace(chars, i)}
    <3>1. k \in Int /\ n \in Int /\ k <= n /\ k \in 1 .. n
      BY <1>1
    <3>2. run \in SUBSET (k .. n)
      OBVIOUS
    <3>3. k \in run
      <4>1. \A i \in k .. k : i = k
        BY <3>1
      <4>2. k \in k .. n
        BY <3>1
      <4> QED
        BY <2>1, <4>1, <4>2
    <3>4. Max(run) \in run
      <4> HIDE DEF run, n
      <4> QED
        BY <3>1, <3>2, <3>3, GreatestAndLeast
    <3>5. RunEnd(k) \in k .. n
      BY <3>4
    <3> HIDE DEF RunEnd
    <3>6. RunEnd(k) \in DOMAIN chars
      BY <1>1, <3>1, <3>5
    <3>7. chars[k].start \in Nat /\ chars[RunEnd(k)].end \in Nat
      BY <1>1, <3>6 DEF Units
    <3> QED
      BY <2>1, <3>7, CharsAre DEF Units
  <2>2. CASE ~IsSpace(chars, k)
    BY <1>1, <2>2
  <2> QED
    BY <2>1, <2>2
<1> HIDE DEF Short
<1>4. [k \in DOMAIN chars |-> Short(k)] \in [1 .. n -> U]
  BY <1>1, <1>3
<1> HIDE DEF U
<1>5. [k \in DOMAIN chars |-> Short(k)] \in Seq(U) /\ DOMAIN [k \in DOMAIN chars |-> Short(k)] = DOMAIN chars
  <2> HIDE DEF n
  <2> QED
    BY <1>1, <1>4, FunctionIsSeq
<1>6. short \in Seq(U) /\ DOMAIN short = DOMAIN chars
  BY <1>5, ListedIs
<1> HIDE DEF short
<1>7. first \in SUBSET DOMAIN short
  BY <1>6
<1> HIDE DEF first
<1>8. Those(short, first) \in Seq(U)
  BY <1>6, <1>7, ThoseAre
<1> QED
  BY <1>2, <1>8 DEF U

\* The characters of a normalized text.
LEMMA PlainIs ==
    ASSUME NEW C, NEW normalized \in Seq(Units(C))
    PROVE  Plain(normalized) \in Seq(C) /\ Len(Plain(normalized)) = Len(normalized)
<1> DEFINE chars == [k \in DOMAIN normalized |-> normalized[k].char]
<1>1. /\ Len(normalized) \in Nat /\ DOMAIN normalized = 1 .. Len(normalized)
      /\ \A k \in DOMAIN normalized : normalized[k] \in Units(C)
  BY SeqIs
<1>2. chars \in [1 .. Len(normalized) -> C]
  BY <1>1 DEF Units
<1> HIDE DEF chars
<1>3. chars \in Seq(C) /\ Len(chars) = Len(normalized)
  BY <1>1, <1>2, FunctionIsSeq
<1>4. Listed(chars) = chars
  BY <1>3, ListedIs
<1> QED
  BY <1>3, <1>4 DEF Plain, chars

\* A text normalized for Chinese holds neither citations nor ignored characters.
LEMMA ZhIs ==
    ASSUME NEW C, NEW text \in Seq(C)
    PROVE  Plain(Normalize("zh", text)) \in Seq((C \ {Citation}) \ Ignored)
<1> DEFINE chars == Uncited(text)
           places == {k \in DOMAIN chars : chars[k].char \notin Ignored}
<1>1. chars \in Seq(Units(C \ {Citation}))
  BY UncitedIs
<1>2. Normalize("zh", text) = Those(chars, places)
  BY DEF Normalize
<1> HIDE DEF chars
<1>3. \A k \in DOMAIN chars : chars[k] \in Units(C \ {Citation})
  BY <1>1, SeqIs
<1>4. \A k \in places : chars[k] \in Units((C \ {Citation}) \ Ignored)
  BY <1>3 DEF Units
<1>5. places \in SUBSET DOMAIN chars
  OBVIOUS
<1> HIDE DEF places
<1>6. Those(chars, places) \in Seq(Units((C \ {Citation}) \ Ignored))
  BY <1>1, <1>4, <1>5, ThoseHave
<1> QED
  BY <1>2, <1>6, PlainIs

\* A normalized text is a text; the Chinese profile keeps only letters.
LEMMA NormalizedIs ==
    ASSUME NEW text \in Seq(Chars), NEW profile \in {"zh", "generic"}
    PROVE  /\ Plain(Normalize(profile, text)) \in Seq(Chars)
           /\ profile = "zh" =>
                 /\ Plain(Normalize(profile, text)) \in Seq(Letters)
                 /\ Len(Plain(Normalize(profile, text))) > 0 => HasCjk(text)
<1>1. CASE profile = "zh"
  <2> DEFINE p == Plain(Normalize("zh", text))
  <2>1. p \in Seq((Chars \ {Citation}) \ Ignored)
    BY ZhIs
  <2>2. (Chars \ {Citation}) \ Ignored \subseteq Letters
    BY DEF Chars, Ignored
  <2>3. /\ Len(p) \in Nat /\ DOMAIN p = 1 .. Len(p)
        /\ \A k \in DOMAIN p : p[k] \in (Chars \ {Citation}) \ Ignored
    <3> HIDE DEF p
    <3> QED
      BY <2>1, SeqIs
  <2>4. ASSUME ~HasCjk(text), Len(p) > 0 PROVE FALSE
    <3> DEFINE C == Chars \ Letters
    <3>1. /\ Len(text) \in Nat /\ DOMAIN text = 1 .. Len(text)
          /\ \A k \in DOMAIN text : text[k] \in Chars
      BY SeqIs
    <3>2. \A k \in DOMAIN text : text[k] \in C
      BY <2>4, <3>1 DEF HasCjk
    <3>3. text \in Seq(C)
      <4>1. text = [k \in 1 .. Len(text) |-> text[k]]
        BY <3>1
      <4>2. text \in [1 .. Len(text) -> C]
        BY <3>1, <3>2, <4>1
      <4> HIDE DEF C
      <4> QED
        BY <3>1, <4>2, FunctionIsSeq
    <3>4. p \in Seq((C \ {Citation}) \ Ignored)
      BY <3>3, ZhIs
    <3>5. 1 \in DOMAIN p
      BY <2>3, <2>4
    <3> HIDE DEF p, C
    <3>6. p[1] \in (C \ {Citation}) \ Ignored
      BY <3>4, <3>5, SeqIs
    <3> QED
      BY <2>2, <3>6 DEF C
  <2>5. p \in Seq(Letters) /\ p \in Seq(Chars)
    <3> HIDE DEF p
    <3>1. p = [k \in 1 .. Len(p) |-> p[k]]
      BY <2>1, <2>3
    <3>2. p \in [1 .. Len(p) -> Letters] /\ p \in [1 .. Len(p) -> Chars]
      BY <2>2, <2>3, <3>1
    <3> QED
      BY <2>3, <3>2, FunctionIsSeq
  <2> QED
    BY <1>1, <2>4, <2>5
<1>2. CASE profile # "zh"
  <2>1. Uncited(text) \in Seq(Units(Chars \ {Citation}))
    BY UncitedIs
  <2>2. Uncited(text) \in Seq(Units(Chars))
    <3> DEFINE u == Uncited(text)
    <3> HIDE DEF u
    <3>1. u \in Seq(Units(Chars \ {Citation}))
      BY <2>1 DEF u
    <3>2. Len(u) \in Nat /\ DOMAIN u = 1 .. Len(u) /\ \A k \in DOMAIN u : u[k] \in Units(Chars \ {Citation})
      BY <3>1, SeqIs
    <3>3. \A k \in DOMAIN u : u[k] \in Units(Chars)
      BY <3>2 DEF Units
    <3>4. u = [k \in 1 .. Len(u) |-> u[k]]
      BY <3>1, <3>2
    <3>5. u \in [1 .. Len(u) -> Units(Chars)]
      BY <3>2, <3>3, <3>4
    <3>6. u \in Seq(Units(Chars))
      BY <3>2, <3>5, FunctionIsSeq
    <3> QED
      BY <3>6 DEF u
  <2>3. Normalize(profile, text) = Collapsed(Uncited(text))
    BY <1>2 DEF Normalize
  <2>4. Collapsed(Uncited(text)) \in Seq(Units(Chars))
    BY <2>2, CollapsedIs
  <2>5. Normalize(profile, text) \in Seq(Units(Chars))
    BY <2>3, <2>4
  <2> QED
    BY <1>2, <2>5, PlainIs
<1> QED
  BY <1>1, <1>2

-----------------------------------------------------------------------------
(* Winnowing.                                                              *)

\* Two texts agree where their characters do.
LEMMA AgreeIs ==
    ASSUME NEW S, NEW q \in Seq(S), NEW c \in Seq(S), NEW i \in Nat, NEW j \in Nat, NEW n \in Nat,
           i + n <= Len(q), j + n <= Len(c)
    PROVE  Agree(q, c, i, j, n) <=> \A k \in 1 .. n : q[i + k] = c[j + k]
<1> DEFINE s == SubSeq(q, i + 1, i + n)
           t == SubSeq(c, j + 1, j + n)
<1>1. ASSUME NEW a \in Seq(S), NEW x \in Nat, x + n <= Len(a)
      PROVE  /\ SubSeq(a, x + 1, x + n) \in Seq(S) /\ Len(SubSeq(a, x + 1, x + n)) = n
             /\ \A k \in 1 .. n : SubSeq(a, x + 1, x + n)[k] = a[x + k]
  <2>1. Len(a) \in Nat /\ DOMAIN a = 1 .. Len(a) /\ \A k \in DOMAIN a : a[k] \in S
    BY SeqIs
  <2>2. \A k \in x + 1 .. x + n : a[k] \in S
    BY <1>1, <2>1
  <2>3. /\ SubSeq(a, x + 1, x + n) \in Seq(S)
        /\ Len(SubSeq(a, x + 1, x + n)) = IF x + 1 <= x + n THEN x + n - (x + 1) + 1 ELSE 0
        /\ \A k \in 1 .. x + n - (x + 1) + 1 : SubSeq(a, x + 1, x + n)[k] = a[x + 1 + k - 1]
    BY <2>2, SubSeqProperties
  <2>4. x + n - (x + 1) + 1 = n /\ (\A k \in 1 .. n : x + 1 + k - 1 = x + k) /\ (x + 1 <= x + n <=> n > 0)
    OBVIOUS
  <2> QED
    BY <2>3, <2>4
<1>2. /\ s \in Seq(S) /\ Len(s) = n /\ \A k \in 1 .. n : s[k] = q[i + k]
      /\ t \in Seq(S) /\ Len(t) = n /\ \A k \in 1 .. n : t[k] = c[j + k]
  BY <1>1
<1>3. Agree(q, c, i, j, n) <=> s = t
  BY DEF Agree
<1> HIDE DEF s, t
<1>4. DOMAIN s = 1 .. n /\ DOMAIN t = 1 .. n
  BY <1>2, SeqIs
<1>5. (\A k \in 1 .. n : s[k] = t[k]) => s = t
  BY <1>2, <1>4, SeqEqual
<1> QED
  BY <1>2, <1>3, <1>5

\* The parameters, as numbers.
LEMMA ParamsAre ==
    /\ K \in Nat \ {0} /\ W \in Nat \ {0} /\ Seed \in Nat \ {0} /\ Passage \in Nat \ {0}
    /\ MinEffective \in Nat \ {0} /\ Lookahead \in Nat \ {0} /\ TopK \in Nat \ {0}
    /\ MergeGap \in Nat /\ ZhSeed \in Nat \ {0} /\ ZhPassage \in Nat
  BY MatchAssumption

\* The least hash of every window is selected.
LEMMA WindowIsWinnowed ==
    ASSUME NEW S, NEW hashes \in Seq(S), NEW i \in Nat, i + W <= Len(hashes)
    PROVE  Min({hashes[n] : n \in i + 1 .. i + W}) \in Winnow(hashes)
<1>1. W \in Nat \ {0} /\ Len(hashes) \in Nat /\ DOMAIN hashes = 1 .. Len(hashes)
  BY ParamsAre, SeqIs
<1>2. CASE Len(hashes) <= W
  <2>1. i = 0 /\ Len(hashes) = W
    <3> DEFINE l == Len(hashes)
    <3>1. l \in Int /\ W \in Int /\ i \in Int /\ i >= 0 /\ i + W <= l /\ l <= W
      BY <1>1, <1>2
    <3> HIDE DEF l
    <3>2. i = 0 /\ l = W
      BY <3>1
    <3> QED
      BY <3>2 DEF l
  <2>2. {hashes[n] : n \in i + 1 .. i + W} = ToSet(hashes)
    BY <1>1, <2>1 DEF ToSet
  <2> QED
    BY <1>2, <2>2 DEF Winnow
<1>3. CASE ~(Len(hashes) <= W)
  <2>1. i + 1 \in 1 .. Len(hashes) - W + 1 /\ i + 1 + W - 1 = i + W
    BY <1>1
  <2>2. Winnow(hashes) = {Min({hashes[j] : j \in x .. x + W - 1}) : x \in 1 .. Len(hashes) - W + 1}
    BY <1>3 DEF Winnow
  <2>3. Min({hashes[j] : j \in i + 1 .. i + 1 + W - 1}) \in Winnow(hashes)
    BY <2>1, <2>2
  <2> QED
    BY <2>1, <2>3
<1> QED
  BY <1>2, <1>3

\* A run in common is the same character by character.
LEMMA RunAgrees ==
    ASSUME NEW S, NEW q \in Seq(S), NEW c \in Seq(S), NEW g \in Nat,
           NEW i \in 0 .. Len(q) - g, NEW j \in 0 .. Len(c) - g, Agree(q, c, i, j, g)
    PROVE  \A k \in 1 .. g : q[i + k] = c[j + k]
<1> DEFINE a == Len(q)
           b == Len(c)
<1>1. a \in Nat /\ b \in Nat /\ i \in 0 .. a - g /\ j \in 0 .. b - g
  BY SeqIs
<1> HIDE DEF a, b
<1>2. i \in Nat /\ j \in Nat /\ i + g <= a /\ j + g <= b
  BY <1>1
<1>3. i \in Nat /\ j \in Nat /\ i + g <= Len(q) /\ j + g <= Len(c)
  BY <1>2 DEF a, b
<1> QED
  BY <1>3, AgreeIs

\* Two texts that have a run of K + W - 1 in common have a fingerprint in common.
LEMMA PrintsAreShared ==
    ASSUME NEW profile, NEW text, NEW other,
           Plain(Normalize(profile, text)) \in Seq(Chars),
           Plain(Normalize(profile, other)) \in Seq(Chars),
           NEW g \in Nat, g >= K + W - 1,
           Runs(Plain(Normalize(profile, text)), Plain(Normalize(profile, other)), g) # {}
    PROVE  Fingerprint(profile, text) \cap Fingerprint(profile, other) # {}
<1> DEFINE q == Plain(Normalize(profile, text))
           c == Plain(Normalize(profile, other))
           hash(s) == [x \in 1 .. Len(s) - K + 1 |-> Hash(SubSeq(s, x, x + K - 1))]
<1>1. Fingerprint(profile, text) = IF Len(q) < K THEN {} ELSE Winnow(hash(q))
  BY DEF Fingerprint
<1>2. Fingerprint(profile, other) = IF Len(c) < K THEN {} ELSE Winnow(hash(c))
  BY DEF Fingerprint
<1>3. q \in Seq(Chars) /\ c \in Seq(Chars) /\ Runs(q, c, g) # {}
  OBVIOUS
<1> HIDE DEF q, c
<1>4. K \in Nat \ {0} /\ W \in Nat \ {0} /\ Len(q) \in Nat /\ Len(c) \in Nat
  BY <1>3, ParamsAre, SeqIs
<1>5. PICK i \in 0 .. Len(q) - g, j \in 0 .. Len(c) - g : Agree(q, c, i, j, g)
  BY <1>3 DEF Runs
<1>6. \A k \in 1 .. g : q[i + k] = c[j + k]
  BY <1>3, <1>5, RunAgrees
<1>7. ASSUME NEW s \in Seq(Chars), NEW x \in Nat, x + g <= Len(s)
      PROVE  /\ ~(Len(s) < K)
             /\ Min({hash(s)[n] : n \in x + 1 .. x + W}) \in Winnow(hash(s))
             /\ \A n \in 1 .. W : /\ x + n \in DOMAIN hash(s)
                                  /\ hash(s)[x + n] = Hash(SubSeq(s, x + n, x + n + K - 1))
                                  /\ x + n + K - 1 <= Len(s)
  <2>1. Len(s) \in Nat /\ Len(s) - K + 1 \in Nat /\ x + W <= Len(s) - K + 1
    BY <1>4, <1>7, SeqIs
  <2> DEFINE N == Len(s) - K + 1
             T == {Hash(SubSeq(s, y, y + K - 1)) : y \in 1 .. N}
             h == hash(s)
  <2>2. h \in [1 .. N -> T]
    OBVIOUS
  <2>3. DOMAIN h = 1 .. N /\ \A y \in 1 .. N : h[y] = Hash(SubSeq(s, y, y + K - 1))
    OBVIOUS
  <2>4. N \in Nat /\ x + W <= N
    BY <2>1
  <2> HIDE DEF T, h
  <2>5. h \in Seq(T) /\ Len(h) = N
    <3> HIDE DEF N
    <3> QED
      BY <2>2, <2>4, FunctionIsSeq
  <2>6. Min({h[n] : n \in x + 1 .. x + W}) \in Winnow(h)
    <3> HIDE DEF N
    <3> QED
      BY <2>4, <2>5, WindowIsWinnowed
  <2>7. \A n \in 1 .. W : x + n \in 1 .. N
    BY <1>4, <2>1
  <2>8. \A n \in 1 .. W : x + n + K - 1 <= Len(s)
    BY <1>4, <2>1
  <2>9. ~(Len(s) < K)
    BY <1>4, <2>1
  <2> QED
    BY <2>3, <2>6, <2>7, <2>8, <2>9 DEF h
<1>8. i \in Nat /\ j \in Nat /\ i + g <= Len(q) /\ j + g <= Len(c)
  BY <1>4, <1>5
<1> DEFINE hq == hash(q)
           hc == hash(c)
<1>9. /\ ~(Len(q) < K) /\ Min({hq[n] : n \in i + 1 .. i + W}) \in Winnow(hq)
      /\ \A n \in 1 .. W : /\ hq[i + n] = Hash(SubSeq(q, i + n, i + n + K - 1))
                           /\ i + n + K - 1 <= Len(q)
  BY <1>3, <1>7, <1>8
<1>10. /\ ~(Len(c) < K) /\ Min({hc[n] : n \in j + 1 .. j + W}) \in Winnow(hc)
       /\ \A n \in 1 .. W : /\ hc[j + n] = Hash(SubSeq(c, j + n, j + n + K - 1))
                            /\ j + n + K - 1 <= Len(c)
  BY <1>3, <1>7, <1>8
<1> HIDE DEF hq, hc, hash
<1>11. ASSUME NEW n \in 1 .. W PROVE hq[i + n] = hc[j + n]
  <2>1. i + n - 1 \in Nat /\ j + n - 1 \in Nat /\ K \in Nat
    BY <1>4, <1>8
  <2>2. i + n - 1 + K <= Len(q) /\ j + n - 1 + K <= Len(c)
    BY <1>4, <1>9, <1>10
  <2>3. \A k \in 1 .. K : q[i + n - 1 + k] = c[j + n - 1 + k]
    <3> SUFFICES ASSUME NEW k \in 1 .. K PROVE q[i + n - 1 + k] = c[j + n - 1 + k]
      OBVIOUS
    <3>1. n - 1 + k \in 1 .. g
      BY <1>4
    <3>2. i + (n - 1 + k) = i + n - 1 + k /\ j + (n - 1 + k) = j + n - 1 + k
      BY <1>8
    <3> QED
      BY <1>6, <3>1, <3>2
  <2> DEFINE a == i + n - 1
             b == j + n - 1
  <2>4. Agree(q, c, a, b, K)
    <3>1. a \in Nat /\ b \in Nat /\ a + K <= Len(q) /\ b + K <= Len(c)
      BY <2>1, <2>2
    <3> HIDE DEF a, b
    <3>2. \A k \in 1 .. K : q[a + k] = c[b + k]
      BY <2>3 DEF a, b
    <3> QED
      BY <1>3, <2>1, <3>1, <3>2, AgreeIs
  <2>5. SubSeq(q, i + n, i + n + K - 1) = SubSeq(c, j + n, j + n + K - 1)
    <3>1. a + 1 = i + n /\ a + K = i + n + K - 1 /\ b + 1 = j + n /\ b + K = j + n + K - 1
      BY <1>4, <1>8
    <3> HIDE DEF a, b
    <3> QED
      BY <2>4, <3>1 DEF Agree
  <2> QED
    BY <1>9, <1>10, <2>5
<1>12. {hq[n] : n \in i + 1 .. i + W} = {hc[n] : n \in j + 1 .. j + W}
  <2>1. ASSUME NEW x \in i + 1 .. i + W PROVE \E y \in j + 1 .. j + W : hq[x] = hc[y]
    <3>1. x - i \in 1 .. W /\ i + (x - i) = x /\ j + (x - i) \in j + 1 .. j + W
      BY <1>4, <1>8
    <3> QED
      BY <1>11, <3>1
  <2>2. ASSUME NEW y \in j + 1 .. j + W PROVE \E x \in i + 1 .. i + W : hq[x] = hc[y]
    <3>1. y - j \in 1 .. W /\ j + (y - j) = y /\ i + (y - j) \in i + 1 .. i + W
      BY <1>4, <1>8
    <3> QED
      BY <1>11, <3>1
  <2> DEFINE I == i + 1 .. i + W
             J == j + 1 .. j + W
  <2>3. \A x \in I : \E y \in J : hq[x] = hc[y]
    BY <2>1
  <2>4. \A y \in J : \E x \in I : hq[x] = hc[y]
    BY <2>2
  <2> HIDE DEF I, J
  <2>5. {hq[n] : n \in I} = {hc[n] : n \in J}
    <3>1. \A z \in {hq[n] : n \in I} : z \in {hc[n] : n \in J}
      BY <2>3
    <3>2. \A z \in {hc[n] : n \in J} : z \in {hq[n] : n \in I}
      BY <2>4
    <3> QED
      BY <3>1, <3>2
  <2> QED
    BY <2>5 DEF I, J
<1> QED
  BY <1>1, <1>2, <1>9, <1>10, <1>12 DEF hq, hc

\* A run as long as the winnow window in common: the probe of the query meets
\* the fingerprints a window was stored with, whichever profile the query has.
LEMMA ChunkSharesPrints ==
    ASSUME NEW profile \in {"zh", "generic"}, NEW text \in Seq(Chars), NEW other \in Seq(Chars),
           NEW g \in Nat, g >= K + W - 1,
           Runs(Plain(Normalize(profile, text)), Plain(Normalize(profile, other)), g) # {}
    PROVE  Fingerprint(profile, text) \cap ChunkFingerprints(other) # {}
<1>1. /\ Plain(Normalize(profile, text)) \in Seq(Chars)
      /\ Plain(Normalize(profile, other)) \in Seq(Chars)
      /\ profile = "zh" => (Len(Plain(Normalize(profile, other))) > 0 => HasCjk(other))
  BY NormalizedIs
<1>2. Fingerprint(profile, text) \cap Fingerprint(profile, other) # {}
  BY <1>1, PrintsAreShared
<1>3. profile \in {"generic"} \cup (IF HasCjk(other) THEN {"zh"} ELSE {})
  <2>1. CASE profile = "generic"
    BY <2>1
  <2>2. CASE profile = "zh"
    <3> DEFINE n == Plain(Normalize(profile, text))
               c == Plain(Normalize(profile, other))
    <3>1. PICK i \in 0 .. Len(n) - g, j \in 0 .. Len(c) - g : TRUE
      BY DEF Runs
    <3>2. Len(c) \in Nat
      BY <1>1, SeqIs
    <3>3. g >= 1
      BY ParamsAre
    <3>4. Len(c) > 0
      <4> HIDE DEF c
      <4> QED
        BY <3>1, <3>2, <3>3
    <3> QED
      BY <1>1, <2>2, <3>4
  <2> QED
    BY <2>1, <2>2
<1>4. Fingerprint(profile, other) \subseteq ChunkFingerprints(other)
  BY <1>3 DEF ChunkFingerprints
<1> QED
  BY <1>2, <1>4

-----------------------------------------------------------------------------
(* Seeds.                                                                  *)

Match == [qs : Nat, cs : Nat, len : Nat]

\* The matches of two texts.
Within(q, c) == {m \in Match : m.qs + m.len <= Len(q) /\ m.cs + m.len <= Len(c)}

\* A maximal match is at least as long as any match through its window.
LEMMA MaximalIs ==
    ASSUME NEW S, NEW q \in Seq(S), NEW c \in Seq(S), NEW qi \in Nat, NEW ci \in Nat,
           NEW min \in Nat, qi + min <= Len(q), ci + min <= Len(c)
    PROVE  /\ Maximal(q, c, qi, ci, min) \in Within(q, c)
           /\ Maximal(q, c, qi, ci, min).len <= Len(q)
           /\ \A a, b \in Nat :
                 /\ a <= qi /\ a <= ci /\ Agree(q, c, qi - a, ci - a, a)
                 /\ qi + min + b <= Len(q) /\ ci + min + b <= Len(c)
                 /\ Agree(q, c, qi + min, ci + min, b)
                 => Maximal(q, c, qi, ci, min).len >= a + min + b
<1> DEFINE lm == Min({qi, ci})
           rm == Min({Len(q) - qi, Len(c) - ci}) - min
           ls == {n \in 0 .. lm : Agree(q, c, qi - n, ci - n, n)}
           rs == {n \in 0 .. rm : Agree(q, c, qi + min, ci + min, n)}
           left  == Max(ls)
           right == Max(rs)
<1>1. Len(q) \in Nat /\ Len(c) \in Nat
  BY SeqIs
<1>2. lm = IF qi <= ci THEN qi ELSE ci
  <2>1. qi \in Int /\ ci \in Int
    OBVIOUS
  <2> QED
    BY <2>1, OfTwo
<1>3. rm = (IF Len(q) - qi <= Len(c) - ci THEN Len(q) - qi ELSE Len(c) - ci) - min
  <2> DEFINE a == Len(q) - qi
             b == Len(c) - ci
  <2>1. a \in Int /\ b \in Int
    BY <1>1
  <2> HIDE DEF a, b
  <2>2. Min({a, b}) = IF a <= b THEN a ELSE b
    BY <2>1, OfTwo
  <2> QED
    BY <2>2 DEF a, b
<1> HIDE DEF lm, rm
<1>4. /\ lm \in Nat /\ lm <= qi /\ lm <= ci /\ \A a \in Nat : a <= qi /\ a <= ci => a <= lm
      /\ rm \in Nat /\ qi + min + rm <= Len(q) /\ ci + min + rm <= Len(c)
      /\ \A b \in Nat : qi + min + b <= Len(q) /\ ci + min + b <= Len(c) => b <= rm
  <2> DEFINE lq == Len(q)
             lc == Len(c)
  <2>1. lq \in Int /\ lc \in Int /\ qi + min <= lq /\ ci + min <= lc
    BY <1>1
  <2>2. rm = (IF lq - qi <= lc - ci THEN lq - qi ELSE lc - ci) - min
    BY <1>3
  <2> HIDE DEF lq, lc
  <2>3. lm \in Nat /\ lm <= qi /\ lm <= ci /\ \A a \in Nat : a <= qi /\ a <= ci => a <= lm
    BY <1>2
  <2>4. rm = lq - qi - min \/ rm = lc - ci - min
    BY <2>1, <2>2
  <2>5. rm \in Nat
    BY <2>1, <2>4
  <2>6. qi + min + rm <= lq /\ ci + min + rm <= lc
    BY <2>1, <2>2
  <2>7. ASSUME NEW b \in Nat, qi + min + b <= lq, ci + min + b <= lc PROVE b <= rm
    BY <2>1, <2>4, <2>7
  <2> QED
    BY <2>3, <2>5, <2>6, <2>7 DEF lq, lc
<1>5. 0 \in ls /\ 0 \in rs
  <2>1. ASSUME NEW x \in Nat, NEW y \in Nat, x <= Len(q), y <= Len(c) PROVE Agree(q, c, x, y, 0)
    <3>1. 0 \in Nat /\ x + 0 <= Len(q) /\ y + 0 <= Len(c) /\ \A k : k \notin 1 .. 0
      BY <2>1, <1>1
    <3> QED
      BY <3>1, AgreeIs
  <2>2. Agree(q, c, qi - 0, ci - 0, 0)
    <3>1. qi - 0 = qi /\ ci - 0 = ci /\ qi <= Len(q) /\ ci <= Len(c)
      BY <1>1
    <3> QED
      BY <2>1, <3>1
  <2>3. Agree(q, c, qi + min, ci + min, 0)
    <3>1. qi + min \in Nat /\ ci + min \in Nat
      OBVIOUS
    <3> QED
      BY <2>1, <3>1
  <2>4. 0 \in 0 .. lm /\ 0 \in 0 .. rm
    BY <1>4
  <2> QED
    BY <2>2, <2>3, <2>4
<1>6. left \in ls /\ \A x \in ls : x <= left
  <2>1. ls \in SUBSET (0 .. lm) /\ 0 \in Int /\ lm \in Int
    BY <1>4
  <2> HIDE DEF ls
  <2> QED
    BY <1>5, <2>1, GreatestAndLeast
<1>7. right \in rs /\ \A x \in rs : x <= right
  <2>1. rs \in SUBSET (0 .. rm) /\ 0 \in Int /\ rm \in Int
    BY <1>4
  <2> HIDE DEF rs
  <2> QED
    BY <1>5, <2>1, GreatestAndLeast
<1>8. Maximal(q, c, qi, ci, min) = [qs |-> qi - left, cs |-> ci - left, len |-> left + min + right]
  BY DEF Maximal, lm, rm
<1>9. left \in 0 .. lm /\ right \in 0 .. rm
  BY <1>6, <1>7
<1> HIDE DEF left, right
<1>10. /\ left \in Nat /\ right \in Nat /\ left <= qi /\ left <= ci
       /\ left + min + right <= Len(q)
       /\ qi - left + (left + min + right) <= Len(q)
       /\ ci - left + (left + min + right) <= Len(c)
  BY <1>1, <1>4, <1>9
<1>11. Maximal(q, c, qi, ci, min) \in Within(q, c)
  BY <1>8, <1>10 DEF Within, Match
<1>12. ASSUME NEW a \in Nat, NEW b \in Nat,
              a <= qi, a <= ci, Agree(q, c, qi - a, ci - a, a),
              qi + min + b <= Len(q), ci + min + b <= Len(c),
              Agree(q, c, qi + min, ci + min, b)
       PROVE  left + min + right >= a + min + b
  <2>0. a <= lm /\ b <= rm
    BY <1>4, <1>12
  <2>1. a \in 0 .. lm /\ b \in 0 .. rm
    BY <1>4, <2>0
  <2>2. a \in ls /\ b \in rs
    BY <1>12, <2>1
  <2>3. a <= left /\ b <= right
    BY <1>6, <1>7, <2>2
  <2> QED
    BY <1>10, <2>3
<1> QED
  BY <1>8, <1>10, <1>11, <1>12

\* Nothing that is selected is lost.
LEMMA ThoseHold ==
    ASSUME NEW S, NEW s \in Seq(S), NEW places \in SUBSET DOMAIN s
    PROVE  Those(s, places) \in Seq(S) /\ \A i \in places : s[i] \in ToSet(Those(s, places))
<1> DEFINE t == Those(s, places)
<1>1. t \in Seq(S)
  BY ThoseAre
<1>2. \E at \in [DOMAIN t -> places] :
         /\ \A k \in DOMAIN t : t[k] = s[at[k]]
         /\ \A i \in places : \E k \in DOMAIN t : at[k] = i
  BY ThoseAre
<1> HIDE DEF t
<1>3. \A i \in places : s[i] \in ToSet(t)
  BY <1>2 DEF ToSet
<1> QED
  BY <1>1, <1>3 DEF t

\* What is in either of two lists is in both together.
LEMMA JoinHolds ==
    ASSUME NEW S, NEW s \in Seq(S), NEW t \in Seq(S)
    PROVE  s \o t \in Seq(S) /\ ToSet(s \o t) = ToSet(s) \cup ToSet(t)
<1> DEFINE l == Len(s)
           n == Len(t)
           u == s \o t
<1>1. /\ u \in Seq(S) /\ Len(u) = l + n
      /\ \A k \in 1 .. l + n : u[k] = IF k <= l THEN s[k] ELSE t[k - l]
  BY ConcatProperties
<1> HIDE DEF u
<1>2. /\ l \in Nat /\ DOMAIN s = 1 .. l /\ n \in Nat /\ DOMAIN t = 1 .. n
      /\ DOMAIN u = 1 .. l + n
  BY <1>1, SeqIs
<1> HIDE DEF l, n
<1>3. ASSUME NEW k \in DOMAIN s PROVE k \in DOMAIN u /\ u[k] = s[k]
  BY <1>1, <1>2
<1>4. ASSUME NEW k \in DOMAIN t PROVE l + k \in DOMAIN u /\ u[l + k] = t[k]
  <2> DEFINE x == l + k
  <2>1. x \in 1 .. l + n /\ ~(x <= l) /\ x - l = k
    BY <1>2
  <2> HIDE DEF x
  <2>2. x \in DOMAIN u /\ u[x] = t[k]
    BY <1>1, <1>2, <2>1
  <2> QED
    BY <2>2 DEF x
<1>5. ASSUME NEW k \in DOMAIN u
      PROVE  (k \in DOMAIN s /\ u[k] = s[k]) \/ (k - l \in DOMAIN t /\ u[k] = t[k - l])
  <2>1. k \in 1 .. l + n
    BY <1>2
  <2>2. k <= l \/ k - l \in 1 .. n
    BY <1>2, <2>1
  <2>3. u[k] = IF k <= l THEN s[k] ELSE t[k - l]
    BY <1>1, <2>1
  <2> QED
    BY <1>2, <2>1, <2>2, <2>3
<1>6. ToSet(u) = ToSet(s) \cup ToSet(t)
  BY <1>3, <1>4, <1>5 DEF ToSet
<1> QED
  BY <1>1, <1>6 DEF u

\* Every place of a window is found.
LEMMA PlacesAre ==
    ASSUME NEW S, NEW q \in Seq(S), NEW c \in Seq(S), NEW qi \in Nat, NEW min \in Nat, min > 0
    PROVE  /\ Len(Places(q, c, qi, min)) \in Nat
           /\ DOMAIN Places(q, c, qi, min) = 1 .. Len(Places(q, c, qi, min))
           /\ \A k \in DOMAIN Places(q, c, qi, min) :
                 /\ Places(q, c, qi, min)[k] \in 0 .. Len(c) - min
                 /\ Agree(q, c, qi, Places(q, c, qi, min)[k], min)
           /\ \A ci \in 0 .. Len(c) - min : Agree(q, c, qi, ci, min) =>
                 ci \in ToSet(Places(q, c, qi, min))
<1> DEFINE m  == Len(c) - min + 1
           P  == {n \in 1 .. m : Agree(q, c, qi, n - 1, min)}
           at == Ascending(P, Len(c))
           p  == [k \in DOMAIN at |-> at[k] - 1]
<1>1. Len(c) \in Nat /\ m \in Int /\ m <= Len(c)
  BY SeqIs
<1>2. P \in SUBSET (1 .. Len(c))
  BY <1>1
<1>3. at \in Seq(P) /\ \A x \in P : \E k \in DOMAIN at : at[k] = x
  <2> HIDE DEF P, m
  <2> QED
    BY <1>1, <1>2, AscendingIs
<1>4. Places(q, c, qi, min) = p
  BY DEF Places
<1>5. Len(at) \in Nat /\ DOMAIN at = 1 .. Len(at) /\ \A k \in DOMAIN at : at[k] \in P
  <2> HIDE DEF at, P
  <2> QED
    BY <1>3, SeqIs
<1> HIDE DEF at
<1>6. \A k \in DOMAIN at : at[k] \in Int /\ at[k] - 1 \in 0 .. Len(c) - min
  BY <1>1, <1>5
<1>7. p \in [1 .. Len(at) -> Int]
  BY <1>5, <1>6
<1>8. Len(p) = Len(at) /\ DOMAIN p = DOMAIN at
  <2> HIDE DEF p
  <2> QED
    BY <1>5, <1>7, FunctionIsSeq
<1>9. \A k \in DOMAIN at : p[k] \in 0 .. Len(c) - min /\ Agree(q, c, qi, p[k], min)
  BY <1>5, <1>6
<1>10. ASSUME NEW ci \in 0 .. Len(c) - min, Agree(q, c, qi, ci, min)
       PROVE  \E k \in DOMAIN at : p[k] = ci
  <2>1. ci + 1 \in 1 .. m /\ ci + 1 - 1 = ci
    BY <1>1
  <2>2. ci + 1 \in P
    BY <1>10, <2>1
  <2>3. PICK k \in DOMAIN at : at[k] = ci + 1
    BY <1>3, <2>2
  <2> QED
    BY <2>1, <2>3
<1> HIDE DEF p
<1>11. \A ci \in 0 .. Len(c) - min : Agree(q, c, qi, ci, min) => ci \in ToSet(p)
  BY <1>8, <1>10 DEF ToSet
<1> QED
  BY <1>4, <1>5, <1>8, <1>9, <1>11

Scan(q, c) == [seeds : Seq(Within(q, c)), next : Int]

Long(matches, n) == \E k \in DOMAIN matches : matches[k].len >= n

\* A round r of the scan, which was acc before: it keeps what was found, and
\* it has found a match as long as it goes on by.
Advances(q, c, min, qi, acc, r) ==
    /\ \A n \in Nat : Long(acc.seeds, n) => Long(r.seeds, n)
    /\ \E longest \in Nat :
          /\ r.next = qi + Max({1, longest - min + 1})
          /\ longest > 0 => Long(r.seeds, longest)
          /\ \A ci \in 0 .. Len(c) - min : Agree(q, c, qi, ci, min) =>
                longest >= Maximal(q, c, qi, ci, min).len

\* One round of the scan for seeds advances.
LEMMA SeededIs ==
    ASSUME NEW S, NEW q \in Seq(S), NEW c \in Seq(S), NEW min \in Nat, min > 0, min <= Len(c),
           NEW acc \in Scan(q, c), NEW qi \in Nat, qi + min <= Len(q), ~(qi < acc.next)
    PROVE  /\ Seeded(q, c, min, acc, qi) \in Scan(q, c)
           /\ Advances(q, c, min, qi, acc, Seeded(q, c, min, acc, qi))
<1> DEFINE places  == Places(q, c, qi, min)
           matches == [k \in DOMAIN places |-> Maximal(q, c, qi, places[k], min)]
           lens    == {0} \cup {matches[k].len : k \in DOMAIN matches}
           longest == Max(lens)
           news    == {k \in DOMAIN matches : matches[k] \notin ToSet(acc.seeds)}
           added   == Those(matches, news)
<1>1. Seeded(q, c, min, acc, qi) = [seeds |-> acc.seeds \o added,
                                    next  |-> qi + Max({1, longest - min + 1})]
  BY DEF Seeded
<1>2. /\ Len(places) \in Nat /\ DOMAIN places = 1 .. Len(places)
      /\ \A k \in DOMAIN places : places[k] \in 0 .. Len(c) - min
      /\ \A ci \in 0 .. Len(c) - min : Agree(q, c, qi, ci, min) => ci \in ToSet(places)
  BY PlacesAre
<1>3. Len(q) \in Nat /\ Len(c) \in Nat /\ acc.seeds \in Seq(Within(q, c))
  BY SeqIs DEF Scan
<1> HIDE DEF places
<1>4. \A k \in DOMAIN places : /\ Maximal(q, c, qi, places[k], min) \in Within(q, c)
                               /\ Maximal(q, c, qi, places[k], min).len <= Len(q)
  <2> SUFFICES ASSUME NEW k \in DOMAIN places
               PROVE  /\ Maximal(q, c, qi, places[k], min) \in Within(q, c)
                      /\ Maximal(q, c, qi, places[k], min).len <= Len(q)
    OBVIOUS
  <2>1. places[k] \in Nat /\ places[k] + min <= Len(c)
    BY <1>2, <1>3
  <2> QED
    BY <2>1, MaximalIs
<1>5. matches \in [1 .. Len(places) -> Within(q, c)]
  BY <1>2, <1>4
<1>6. \A k \in DOMAIN places : matches[k] = Maximal(q, c, qi, places[k], min)
  OBVIOUS
<1> HIDE DEF matches
<1>7. matches \in Seq(Within(q, c)) /\ DOMAIN matches = DOMAIN places
  BY <1>2, <1>5, FunctionIsSeq
<1>8. lens \in SUBSET (0 .. Len(q)) /\ lens # {} /\ 0 \in Int /\ Len(q) \in Int
  <2>1. \A k \in DOMAIN matches : matches[k].len \in 0 .. Len(q)
    BY <1>3, <1>4, <1>6, <1>7 DEF Within, Match
  <2>2. 0 \in 0 .. Len(q)
    BY <1>3
  <2> QED
    BY <1>3, <2>1, <2>2
<1>9. longest \in lens /\ \A x \in lens : x <= longest
  <2> HIDE DEF lens
  <2> QED
    BY <1>8, GreatestAndLeast
<1> HIDE DEF longest
<1>10. longest \in Nat
  BY <1>8, <1>9
<1>11. added \in Seq(Within(q, c)) /\ \A i \in news : matches[i] \in ToSet(added)
  <2>1. news \in SUBSET DOMAIN matches
    OBVIOUS
  <2> HIDE DEF news
  <2> QED
    BY <1>7, <2>1, ThoseHold
<1> DEFINE seeds == acc.seeds \o added
<1>13. seeds \in Seq(Within(q, c)) /\ ToSet(seeds) = ToSet(acc.seeds) \cup ToSet(added)
  <2> HIDE DEF added
  <2> QED
    BY <1>3, <1>11, JoinHolds
<1>14. \A i \in DOMAIN matches : matches[i] \in ToSet(seeds)
  <2> HIDE DEF added, seeds
  <2> QED
    BY <1>11, <1>13
<1> HIDE DEF seeds, added
<1>15. \A n \in Nat : Long(acc.seeds, n) => Long(seeds, n)
  BY <1>13 DEF Long, ToSet
<1>16. longest > 0 => Long(seeds, longest)
  <2> SUFFICES ASSUME longest > 0 PROVE Long(seeds, longest)
    OBVIOUS
  <2>1. PICK i \in DOMAIN matches : matches[i].len = longest
    BY <1>9, <1>10
  <2>2. PICK l \in DOMAIN seeds : seeds[l] = matches[i]
    BY <1>14 DEF ToSet
  <2> QED
    BY <1>10, <2>1, <2>2 DEF Long
<1>17. ASSUME NEW ci \in 0 .. Len(c) - min, Agree(q, c, qi, ci, min)
       PROVE  longest >= Maximal(q, c, qi, ci, min).len
  <2>1. PICK k \in DOMAIN places : places[k] = ci
    BY <1>2, <1>17 DEF ToSet
  <2>2. matches[k].len \in lens
    BY <1>7
  <2> HIDE DEF lens
  <2>3. matches[k].len <= longest /\ matches[k].len \in 0 .. Len(q)
    BY <1>8, <1>9, <2>2
  <2> QED
    BY <1>6, <1>10, <2>1, <2>3
<1>18. qi + Max({1, longest - min + 1}) \in Int
  <2> DEFINE d == longest - min + 1
  <2>1. d \in Int /\ 1 \in Int
    BY <1>10
  <2> HIDE DEF d
  <2>2. Max({1, d}) \in Int
    BY <2>1, OfTwo
  <2>3. qi + Max({1, d}) \in Int
    BY <2>2
  <2> QED
    BY <2>3 DEF d
<1>19. Seeded(q, c, min, acc, qi) = [seeds |-> seeds, next |-> qi + Max({1, longest - min + 1})]
  BY <1>1 DEF seeds
<1> DEFINE r == Seeded(q, c, min, acc, qi)
<1>20. r.seeds = seeds /\ r.next = qi + Max({1, longest - min + 1})
  BY <1>19
<1>21. r \in Scan(q, c)
  BY <1>13, <1>18, <1>19 DEF Scan
<1> HIDE DEF r
<1>22. \A n \in Nat : Long(acc.seeds, n) => Long(r.seeds, n)
  BY <1>15, <1>20
<1>23. longest > 0 => Long(r.seeds, longest)
  BY <1>16, <1>20
<1> HIDE DEF lens
<1> QED
  BY <1>10, <1>17, <1>20, <1>21, <1>22, <1>23 DEF r, Advances

\* A place behind the last match is passed over.
LEMMA SeededKeeps ==
    ASSUME NEW q, NEW c, NEW min, NEW acc, NEW qi, qi < acc.next
    PROVE  Seeded(q, c, min, acc, qi) = acc
  BY DEF Seeded

\* The window of a run that lies at qi extends to all of the run.
LEMMA RunIsMaximal ==
    ASSUME NEW S, NEW q \in Seq(S), NEW c \in Seq(S), NEW min \in Nat, NEW g \in Nat, min <= g,
           NEW i \in Nat, NEW j \in Nat, i + g <= Len(q), j + g <= Len(c), Agree(q, c, i, j, g),
           NEW qi \in i .. i + g - min
    PROVE  /\ j + (qi - i) \in 0 .. Len(c) - min
           /\ Agree(q, c, qi, j + (qi - i), min)
           /\ Maximal(q, c, qi, j + (qi - i), min).len >= g
<1> DEFINE a  == qi - i
           ci == j + a
           b  == g - a - min
<1>1. Len(q) \in Nat /\ Len(c) \in Nat
  BY SeqIs
<1>2. /\ a \in Nat /\ b \in Nat /\ qi \in Nat /\ ci \in Nat
      /\ qi + min <= Len(q) /\ ci + min <= Len(c) /\ ci \in 0 .. Len(c) - min
      /\ a <= qi /\ a <= ci /\ qi - a = i /\ ci - a = j /\ a <= g
      /\ qi + min + b <= Len(q) /\ ci + min + b <= Len(c) /\ a + min + b = g
  BY <1>1
<1>3. \A k \in 1 .. g : q[i + k] = c[j + k]
  BY AgreeIs
<1>4. Agree(q, c, i, j, a)
  <2>1. i + a <= Len(q) /\ j + a <= Len(c) /\ \A k \in 1 .. a : k \in 1 .. g
    BY <1>2
  <2> HIDE DEF a
  <2> QED
    BY <1>2, <1>3, <2>1, AgreeIs
<1>5. Agree(q, c, qi, ci, min)
  <2>1. \A k \in 1 .. min : q[qi + k] = c[ci + k]
    <3> SUFFICES ASSUME NEW k \in 1 .. min PROVE q[qi + k] = c[ci + k]
      OBVIOUS
    <3>1. a + k \in 1 .. g /\ i + (a + k) = qi + k /\ j + (a + k) = ci + k
      BY <1>2
    <3> QED
      BY <1>3, <3>1
  <2> HIDE DEF ci
  <2> QED
    BY <1>2, <2>1, AgreeIs
<1>6. Agree(q, c, qi + min, ci + min, b)
  <2>1. \A k \in 1 .. b : q[qi + min + k] = c[ci + min + k]
    <3> SUFFICES ASSUME NEW k \in 1 .. b PROVE q[qi + min + k] = c[ci + min + k]
      OBVIOUS
    <3>1. a + min + k \in 1 .. g /\ i + (a + min + k) = qi + min + k /\ j + (a + min + k) = ci + min + k
      BY <1>2
    <3> QED
      BY <1>3, <3>1
  <2>2. qi + min \in Nat /\ ci + min \in Nat
    BY <1>2
  <2> HIDE DEF ci, b
  <2> QED
    BY <1>2, <2>1, <2>2, AgreeIs
<1>7. Maximal(q, c, qi, ci, min).len >= a + min + b
  <2>1. Agree(q, c, qi - a, ci - a, a)
    BY <1>2, <1>4
  <2> HIDE DEF a, b, ci
  <2> QED
    BY <1>2, <1>6, <2>1, MaximalIs
<1>8. Maximal(q, c, qi, ci, min).len >= g
  BY <1>2, <1>7
<1> QED
  BY <1>2, <1>5, <1>8

\* FindSeeds finds a seed for every run: windows it skips lie in a longer match.
LEMMA SeedsAreFound ==
    ASSUME NEW S, NEW q \in Seq(S), NEW c \in Seq(S),
           NEW min \in Nat \ {0}, min <= Len(q), min <= Len(c)
    PROVE  /\ FindSeeds(q, c, min) \in Seq(Within(q, c))
           /\ \A g \in Nat : min <= g /\ Runs(q, c, g) # {} => Long(FindSeeds(q, c, min), g)
<1> DEFINE N == Len(q) - min + 1
           scan[n \in 0 .. Len(q) - min + 1] ==
             IF n = 0 THEN [seeds |-> <<>>, next |-> 0]
             ELSE Seeded(q, c, min, scan[n - 1], n - 1)
           base == [seeds |-> <<>>, next |-> 0]
           step == [x \in Scan(q, c) \X (1 .. N) |-> Seeded(q, c, min, x[1], x[2] - 1)]
<1>1. Len(q) \in Nat /\ Len(c) \in Nat /\ N \in Nat /\ min \in Nat
  BY SeqIs
<1>2. ASSUME NEW acc \in Scan(q, c), NEW n \in 1 .. N PROVE Seeded(q, c, min, acc, n - 1) \in Scan(q, c)
  <2>1. CASE n - 1 < acc.next
    BY <2>1, SeededKeeps
  <2>2. CASE ~(n - 1 < acc.next)
    <3>1. n - 1 \in Nat /\ n - 1 + min <= Len(q)
      BY <1>1
    <3> HIDE DEF N
    <3> QED
      BY <1>1, <2>2, <3>1, SeededIs
  <2> QED
    BY <2>1, <2>2
<1>3. base \in Scan(q, c) /\ step \in [Scan(q, c) \X (1 .. N) -> Scan(q, c)]
  <2>1. base \in Scan(q, c)
    BY DEF Scan
  <2> HIDE DEF N
  <2> QED
    BY <1>2, <2>1
<1>4. PICK f \in [0 .. N -> Scan(q, c)] : Rounds(f, base, N, step)
  <2> HIDE DEF step, N, base
  <2> QED
    BY <1>1, <1>3, LoopRuns
<1>5. f = [n \in 0 .. Len(q) - min + 1 |->
             IF n = 0 THEN [seeds |-> <<>>, next |-> 0]
             ELSE Seeded(q, c, min, f[n - 1], n - 1)]
  <2>1. ASSUME NEW n \in 0 .. N
        PROVE f[n] = IF n = 0 THEN base ELSE Seeded(q, c, min, f[n - 1], n - 1)
    <3> HIDE DEF N, base
    <3>1. CASE n = 0
      BY <1>4, <3>1 DEF Rounds
    <3>2. CASE n # 0
      <4>1. n \in 1 .. N /\ n - 1 \in 0 .. N
        BY <3>2, <1>1
      <4>2. f[n] = step[<<f[n - 1], n>>] /\ <<f[n - 1], n>> \in Scan(q, c) \X (1 .. N)
        BY <4>1, <1>4 DEF Rounds
      <4> QED
        BY <4>2, <3>2
    <3> QED
      BY <3>1, <3>2
  <2> QED
    BY <1>4, <2>1
<1>6. scan = [n \in 0 .. Len(q) - min + 1 |->
             IF n = 0 THEN [seeds |-> <<>>, next |-> 0]
             ELSE Seeded(q, c, min, scan[n - 1], n - 1)]
  BY <1>5
<1>7. FindSeeds(q, c, min) = scan[N].seeds
  BY DEF FindSeeds
<1> HIDE DEF scan
<1>8. scan[0] = base /\ \A n \in 1 .. N : scan[n] = Seeded(q, c, min, scan[n - 1], n - 1)
  <2>1. \A n \in 1 .. N : n \in 0 .. N /\ n # 0
    BY <1>1
  <2>2. 0 \in 0 .. N
    BY <1>1
  <2> QED
    BY <1>6, <2>1, <2>2
<1> HIDE DEF N
<1>9. \A n \in 0 .. N : scan[n] \in Scan(q, c)
  <2> DEFINE G == {n \in 0 .. N : scan[n] \in Scan(q, c)}
  <2>1. 0 \in G
    BY <1>1, <1>3, <1>8
  <2>2. ASSUME NEW n \in 1 .. N, n - 1 \in G PROVE n \in G
    <3>1. n \in 0 .. N
      BY <1>1
    <3> QED
      BY <1>2, <1>8, <2>2, <3>1
  <2> HIDE DEF G
  <2>3. \A n \in 0 .. N : n \in G
    BY <1>1, <2>1, <2>2, RoundByRound
  <2> QED
    BY <2>3 DEF G
<1>10. N \in 0 .. N
  BY <1>1
<1>11. ASSUME NEW g \in Nat, min <= g, Runs(q, c, g) # {} PROVE Long(scan[N].seeds, g)
  <2>1. PICK i \in 0 .. Len(q) - g, j \in 0 .. Len(c) - g : Agree(q, c, i, j, g)
    BY <1>11 DEF Runs
  <2>2. i \in Nat /\ j \in Nat /\ i + g <= Len(q) /\ j + g <= Len(c)
    BY <1>1, <2>1
  <2> DEFINE open(n) == n <= i + g - min /\ scan[n].next <= i + g - min
             G == {n \in 0 .. N : Long(scan[n].seeds, g) \/ open(n)}
  <2>3. 0 \in G
    <3>1. 0 \in 0 .. N /\ scan[0].next = 0 /\ 0 <= i + g - min
      BY <1>1, <1>8, <1>11, <2>2
    <3> QED
      BY <3>1
  <2>4. ASSUME NEW n \in 1 .. N, n - 1 \in G PROVE n \in G
    <3> DEFINE qi  == n - 1
               acc == scan[qi]
               r   == scan[n]
    <3>1. qi \in Nat /\ qi \in 0 .. N /\ n \in 0 .. N /\ qi + min <= Len(q) /\ n = qi + 1
      BY <1>1 DEF N
    <3>2. acc \in Scan(q, c) /\ r = Seeded(q, c, min, acc, qi)
      BY <1>8, <1>9, <3>1
    <3>3. Long(acc.seeds, g) \/ (qi <= i + g - min /\ acc.next <= i + g - min)
      BY <2>4
    <3>4. acc.next \in Int
      BY <3>2 DEF Scan
    <3> HIDE DEF acc, qi
    <3>5. CASE qi < acc.next
      <4>1. r = acc
        BY <3>2, <3>5, SeededKeeps
      <4>2. CASE Long(acc.seeds, g)
        BY <3>1, <4>1, <4>2
      <4>3. CASE ~Long(acc.seeds, g)
        <5>1. n <= i + g - min /\ r.next <= i + g - min
          BY <1>1, <2>2, <3>1, <3>3, <3>4, <3>5, <4>1, <4>3
        <5> QED
          BY <3>1, <5>1
      <4> QED
        BY <4>2, <4>3
    <3>6. CASE ~(qi < acc.next)
      <4>1. /\ \A k \in Nat : Long(acc.seeds, k) => Long(r.seeds, k)
            /\ \E longest \in Nat :
                  /\ r.next = qi + Max({1, longest - min + 1})
                  /\ longest > 0 => Long(r.seeds, longest)
                  /\ \A ci \in 0 .. Len(c) - min : Agree(q, c, qi, ci, min) =>
                        longest >= Maximal(q, c, qi, ci, min).len
        <5> DEFINE x == Seeded(q, c, min, acc, qi)
        <5>1. Advances(q, c, min, qi, acc, x)
          BY <1>1, <3>1, <3>2, <3>6, SeededIs
        <5> HIDE DEF x, r
        <5>2. r = x
          BY <3>2 DEF x
        <5> QED
          BY <5>1, <5>2 DEF Advances
      <4>2. PICK longest \in Nat :
                  /\ r.next = qi + Max({1, longest - min + 1})
                  /\ longest > 0 => Long(r.seeds, longest)
                  /\ \A ci \in 0 .. Len(c) - min : Agree(q, c, qi, ci, min) =>
                        longest >= Maximal(q, c, qi, ci, min).len
        BY <4>1
      <4>3. CASE Long(acc.seeds, g)
        BY <3>1, <4>1, <4>3
      <4>4. CASE longest >= g
        <5>0. longest > 0 /\ g \in Int /\ longest \in Int
          BY <1>1, <1>11, <4>4
        <5>1. PICK k \in DOMAIN r.seeds : r.seeds[k].len >= longest
          BY <4>2, <5>0 DEF Long
        <5>2. r.seeds[k] \in Within(q, c)
          <6>1. r.seeds \in Seq(Within(q, c))
            BY <1>9, <3>1 DEF Scan
          <6> HIDE DEF r
          <6> QED
            BY <6>1, SeqIs
        <5>3. r.seeds[k].len >= g
          <6>1. r.seeds[k].len \in Int
            BY <5>2 DEF Within, Match
          <6> HIDE DEF r
          <6> QED
            BY <4>4, <5>0, <5>1, <6>1
        <5>4. Long(r.seeds, g)
          BY <5>3 DEF Long
        <5> QED
          BY <3>1, <5>4
      <4>5. CASE ~Long(acc.seeds, g) /\ ~(longest >= g)
        <5>1. qi <= i + g - min
          BY <3>3, <4>5
        <5>2. ~(i <= qi)
          <6> SUFFICES ASSUME i <= qi PROVE FALSE
            OBVIOUS
          <6>1. qi \in i .. i + g - min
            BY <1>1, <2>2, <3>1, <5>1
          <6> DEFINE ci == j + (qi - i)
          <6>2. /\ ci \in 0 .. Len(c) - min
                /\ Agree(q, c, qi, ci, min)
                /\ Maximal(q, c, qi, ci, min).len >= g
            BY <1>1, <1>11, <2>1, <2>2, <6>1, RunIsMaximal
          <6>3. ci \in Nat /\ ci + min <= Len(c)
            BY <1>1, <6>2
          <6>4. Maximal(q, c, qi, ci, min).len \in Nat
            <7> HIDE DEF ci
            <7>1. Maximal(q, c, qi, ci, min) \in Within(q, c)
              BY <1>1, <3>1, <6>3, MaximalIs
            <7> QED
              BY <7>1 DEF Within, Match
          <6>5. longest >= Maximal(q, c, qi, ci, min).len
            BY <4>2, <6>2
          <6> HIDE DEF ci
          <6> QED
            BY <4>5, <6>2, <6>4, <6>5
        <5> DEFINE d == longest - min + 1
        <5>3. d \in Int /\ 1 \in Int /\ d <= g - min
          BY <1>1, <4>5
        <5> HIDE DEF d
        <5>4. Max({1, d}) = IF 1 >= d THEN 1 ELSE d
          BY <5>3, OfTwo
        <5>5. r.next = qi + Max({1, d})
          BY <4>2 DEF d
        <5>6. n <= i + g - min /\ r.next <= i + g - min
          <6>1. qi + 1 <= i
            BY <2>2, <3>1, <5>2
          <6>2. r.next <= i + g - min
            <7> DEFINE x == r.next
                       y == Max({1, d})
            <7>1. x = qi + y /\ (y = 1 \/ y = d)
              BY <5>4, <5>5
            <7> HIDE DEF x, y
            <7>2. x <= i + g - min
              BY <1>1, <1>11, <2>2, <3>1, <5>3, <6>1, <7>1
            <7> QED
              BY <7>2 DEF x
          <6> QED
            BY <1>1, <1>11, <2>2, <3>1, <6>1, <6>2
        <5> QED
          BY <3>1, <5>6
      <4> QED
        BY <4>3, <4>4, <4>5
    <3> QED
      BY <3>5, <3>6
  <2> HIDE DEF G
  <2>5. \A n \in 0 .. N : n \in G
    BY <1>1, <2>3, <2>4, RoundByRound
  <2>6. N \in G
    BY <1>10, <2>5
  <2>7. ~open(N)
    <3>1. i + g - min < N
      BY <1>1, <2>2 DEF N
    <3> QED
      BY <1>1, <2>2, <3>1
  <2> QED
    BY <2>6, <2>7 DEF G
<1>12. scan[N].seeds \in Seq(Within(q, c))
  BY <1>9, <1>10 DEF Scan
<1> QED
  BY <1>7, <1>11, <1>12

-----------------------------------------------------------------------------
(* Extending, merging and choosing matches.                                *)

\* A match lies within both texts.
LEMMA WithinIs ==
    ASSUME NEW q, NEW c, NEW m \in Within(q, c)
    PROVE  /\ m.qs \in Nat /\ m.cs \in Nat /\ m.len \in Nat
           /\ m.qs + m.len <= Len(q) /\ m.cs + m.len <= Len(c)
  BY DEF Within, Match

\* An extended match lies within both texts, and is no shorter.
LEMMA ExtendIs ==
    ASSUME NEW S, NEW q \in Seq(S), NEW c \in Seq(S), NEW m \in Within(q, c)
    PROVE  Extend(q, c, m) \in Within(q, c) /\ Extend(q, c, m).len >= m.len
<1> DEFINE L == Lookahead
           At(k)  == IF k > 0 THEN m.len + (k - 1) * Lookahead ELSE k * Lookahead
           far(s) == {n \in 0 .. Len(q) : \A k \in 1 .. n :
                         Tolerable(q, c, m.qs + At(s * k), m.cs + At(s * k))}
           l == Max(far(-1))
           r == Max(far(1))
<1>1. /\ Len(q) \in Nat /\ Len(c) \in Nat /\ L \in Nat \ {0}
      /\ m.qs \in Nat /\ m.cs \in Nat /\ m.len \in Nat
      /\ m.qs + m.len <= Len(q) /\ m.cs + m.len <= Len(c)
  BY SeqIs, WithinIs, ParamsAre
<1>2. ASSUME NEW s \in {-1, 1}
      PROVE  Max(far(s)) \in far(s)
  <2>1. far(s) \in SUBSET (0 .. Len(q)) /\ 0 \in Int /\ Len(q) \in Int
    BY <1>1
  <2>2. 0 \in far(s)
    <3>1. 0 \in 0 .. Len(q) /\ \A k : k \notin 1 .. 0
      BY <1>1
    <3> QED
      BY <3>1
  <2> HIDE DEF far
  <2> QED
    BY <2>1, <2>2, GreatestAndLeast
<1>3. /\ l \in 0 .. Len(q)
      /\ \A k \in 1 .. l : Tolerable(q, c, m.qs + At(-1 * k), m.cs + At(-1 * k))
  BY <1>2
<1>4. /\ r \in 0 .. Len(q)
      /\ \A k \in 1 .. r : Tolerable(q, c, m.qs + At(1 * k), m.cs + At(1 * k))
  BY <1>2
<1>5. Extend(q, c, m) = [qs  |-> m.qs - l * Lookahead,
                         cs  |-> m.cs - l * Lookahead,
                         len |-> l * Lookahead + m.len + r * Lookahead]
  BY DEF Extend
<1> HIDE DEF l, r, far
<1>6. l * L \in Nat /\ r * L \in Nat
  BY <1>1, <1>3, <1>4
<1>7. l * L <= m.qs /\ l * L <= m.cs
  <2>1. CASE l = 0
    BY <1>1, <2>1
  <2>2. CASE l # 0
    <3>1. l \in 1 .. l /\ l \in Nat /\ ~(-1 * l > 0)
      BY <1>1, <1>3, <2>2
    <3>2. At(-1 * l) = (-1 * l) * L
      BY <3>1
    <3>3. (-1 * l) * L = - (l * L)
      BY <1>1, <3>1
    <3>4. m.qs + At(-1 * l) >= 0 /\ m.cs + At(-1 * l) >= 0
      BY <1>3, <3>1 DEF Tolerable
    <3> DEFINE x == l * L
    <3>5. m.qs + (- x) >= 0 /\ m.cs + (- x) >= 0 /\ x \in Nat
      BY <1>6, <3>2, <3>3, <3>4
    <3> HIDE DEF x
    <3>6. x <= m.qs /\ x <= m.cs
      BY <1>1, <3>5
    <3> QED
      BY <3>6 DEF x
  <2> QED
    BY <2>1, <2>2
<1>8. m.qs + m.len + r * L <= Len(q) /\ m.cs + m.len + r * L <= Len(c)
  <2>1. CASE r = 0
    BY <1>1, <2>1
  <2>2. CASE r # 0
    <3>1. r \in 1 .. r /\ r \in Nat /\ 1 * r > 0 /\ 1 * r = r
      BY <1>1, <1>4, <2>2
    <3>2. At(1 * r) = m.len + (r - 1) * L
      BY <3>1
    <3>3. (r - 1) * L = r * L - L
      BY <1>1, <3>1
    <3>4. m.qs + At(1 * r) + L <= Len(q) /\ m.cs + At(1 * r) + L <= Len(c)
      BY <1>4, <3>1 DEF Tolerable
    <3> DEFINE x == r * L
    <3>5. m.qs + (m.len + (x - L)) + L <= Len(q) /\ m.cs + (m.len + (x - L)) + L <= Len(c) /\ x \in Nat
      BY <1>6, <3>2, <3>3, <3>4
    <3> HIDE DEF x
    <3>6. m.qs + m.len + x <= Len(q) /\ m.cs + m.len + x <= Len(c)
      BY <1>1, <3>5
    <3> QED
      BY <3>6 DEF x
  <2> QED
    BY <2>1, <2>2
<1> DEFINE x == l * L
           y == r * L
<1>9. /\ x \in Nat /\ y \in Nat /\ x <= m.qs /\ x <= m.cs
      /\ m.qs + m.len + y <= Len(q) /\ m.cs + m.len + y <= Len(c)
  BY <1>6, <1>7, <1>8
<1>10. Extend(q, c, m) = [qs |-> m.qs - x, cs |-> m.cs - x, len |-> x + m.len + y]
  BY <1>5
<1> HIDE DEF x, y, L, At
<1>11. /\ m.qs - x \in Nat /\ m.cs - x \in Nat /\ x + m.len + y \in Nat /\ x + m.len + y >= m.len
       /\ m.qs - x + (x + m.len + y) <= Len(q) /\ m.cs - x + (x + m.len + y) <= Len(c)
  <2> DEFINE a == m.qs
             b == m.cs
             n == m.len
             lq == Len(q)
             lc == Len(c)
  <2>1. /\ a \in Nat /\ b \in Nat /\ n \in Nat /\ lq \in Nat /\ lc \in Nat
        /\ x \in Nat /\ y \in Nat /\ x <= a /\ x <= b
        /\ a + n + y <= lq /\ b + n + y <= lc
    BY <1>1, <1>9
  <2> HIDE DEF a, b, n, lq, lc
  <2>2. /\ a - x \in Nat /\ b - x \in Nat /\ x + n + y \in Nat /\ x + n + y >= n
        /\ a - x + (x + n + y) <= lq /\ b - x + (x + n + y) <= lc
    BY <2>1
  <2> QED
    BY <2>2 DEF a, b, n, lq, lc
<1> QED
  BY <1>10, <1>11 DEF Within, Match

\* By their start, and no match is lost.
LEMMA ByPlaceIs ==
    ASSUME NEW M, \A m \in M : m.qs \in Int /\ m.cs \in Int, NEW matches \in Seq(M)
    PROVE  /\ ByPlace(matches) \in Seq(M)
           /\ \A i \in DOMAIN matches : \E k \in DOMAIN ByPlace(matches) :
                 ByPlace(matches)[k] = matches[i]
           /\ \A k, l \in DOMAIN ByPlace(matches) :
                 k < l => ByPlace(matches)[k].qs <= ByPlace(matches)[l].qs
           /\ Len(ByPlace(matches)) = Len(matches)
<1> DEFINE D  == DOMAIN matches
           k1 == [k \in D |-> matches[k].cs]
           s1 == Sorted(matches, k1)
           k2 == [k \in DOMAIN s1 |-> s1[k].qs]
           s2 == Sorted(s1, k2)
<1>1. Len(matches) \in Nat /\ \A k \in D : matches[k] \in M /\ k1[k] \in Int
  BY SeqIs
<1> HIDE DEF k1
<1>2. /\ s1 \in Seq(M) /\ DOMAIN s1 = D /\ Len(s1) = Len(matches)
      /\ \E at \in [D -> D] : /\ \A k \in D : s1[k] = matches[at[k]]
                              /\ \A i \in D : \E k \in D : at[k] = i
  <2>1. s1 \in Seq(M) /\ DOMAIN s1 = D /\ Len(s1) = Len(matches)
    BY <1>1, SortedIs
  <2>2. \E at \in [D -> D] : Sorts(at, matches, k1)
    BY <1>1, SortedIs
  <2> QED
    BY <2>1, <2>2 DEF Sorts
<1>3. \A i \in D : \E k \in D : s1[k] = matches[i]
  BY <1>2
<1>4. ByPlace(matches) = s2
  BY DEF ByPlace, k1
<1> HIDE DEF s1
<1>5. \A k \in DOMAIN s1 : s1[k] \in M /\ k2[k] = s1[k].qs /\ k2[k] \in Int
  BY <1>2, SeqIs
<1> HIDE DEF k2
<1>6. s2 \in Seq(M) /\ DOMAIN s2 = DOMAIN s1 /\ Len(s2) = Len(s1)
  BY <1>2, <1>5, SortedIs
<1>7. PICK at \in [D -> D] : /\ \A k \in D : s2[k] = s1[at[k]]
                             /\ \A i \in D : \E k \in D : at[k] = i
                             /\ \A k, l \in D : k < l => \/ k2[at[k]] < k2[at[l]]
                                                         \/ k2[at[k]] = k2[at[l]]
  <2>1. PICK at \in [DOMAIN s1 -> DOMAIN s1] : Sorts(at, s1, k2)
    BY <1>2, <1>5, SortedIs
  <2>2. at \in [D -> D] /\ DOMAIN s1 = D
    BY <1>2, <2>1
  <2>3. \A k \in D : s2[k] = s1[at[k]]
    BY <2>1, <2>2 DEF Sorts
  <2>4. \A i \in D : \E k \in D : at[k] = i
    BY <2>1, <2>2 DEF Sorts
  <2>5. \A k, l \in D : k < l => k2[at[k]] < k2[at[l]] \/ k2[at[k]] = k2[at[l]]
    BY <2>1, <2>2 DEF Sorts
  <2> HIDE DEF D, s2
  <2> QED
    BY <2>2, <2>3, <2>4, <2>5
<1> HIDE DEF s2
<1>8. \A i \in D : \E k \in D : s2[k] = matches[i]
  <2> SUFFICES ASSUME NEW i \in D PROVE \E k \in D : s2[k] = matches[i]
    OBVIOUS
  <2>1. PICK n \in D : s1[n] = matches[i]
    BY <1>3
  <2>2. PICK k \in D : at[k] = n
    BY <1>7
  <2> QED
    BY <1>7, <2>1, <2>2
<1>9. \A k, l \in D : k < l => s2[k].qs <= s2[l].qs
  <2> SUFFICES ASSUME NEW k \in D, NEW l \in D, k < l PROVE s2[k].qs <= s2[l].qs
    OBVIOUS
  <2>1. at[k] \in DOMAIN s1 /\ at[l] \in DOMAIN s1
    BY <1>2, <1>7
  <2>4. s2[k] = s1[at[k]] /\ s2[l] = s1[at[l]]
    BY <1>7
  <2>5. /\ s1[at[k]] \in M /\ k2[at[k]] = s1[at[k]].qs /\ k2[at[k]] \in Int
        /\ s1[at[l]] \in M /\ k2[at[l]] = s1[at[l]].qs /\ k2[at[l]] \in Int
    BY <1>5, <2>1
  <2>2. k2[at[k]] = s2[k].qs /\ k2[at[l]] = s2[l].qs /\ s2[k].qs \in Int /\ s2[l].qs \in Int
    BY <2>4, <2>5
  <2>3. k2[at[k]] < k2[at[l]] \/ k2[at[k]] = k2[at[l]]
    BY <1>7
  <2> QED
    BY <2>2, <2>3
<1> QED
  BY <1>2, <1>4, <1>6, <1>8, <1>9

\* Joining a match to the last one loses neither.
LEMMA MergedIs ==
    ASSUME NEW q, NEW c, Len(q) \in Nat, Len(c) \in Nat,
           NEW acc \in Seq(Within(q, c)), NEW m \in Within(q, c)
    PROVE  /\ Merged(acc, m) \in Seq(Within(q, c)) /\ Merged(acc, m) # <<>>
           /\ \A n \in Nat : Long(acc, n) => Long(Merged(acc, m), n)
           /\ (acc # <<>> => Last(acc).qs <= m.qs) =>
                 /\ \A n \in Nat : m.len >= n => Long(Merged(acc, m), n)
                 /\ Last(Merged(acc, m)).qs <= m.qs
<1> DEFINE l    == Len(acc)
           last == Last(acc)
           end  == Max({last.len, m.qs + m.len - last.qs})
           new  == [last EXCEPT !.len = end]
           t    == Merged(acc, m)
           W0   == Within(q, c)
<1>1. /\ m.qs \in Nat /\ m.cs \in Nat /\ m.len \in Nat
      /\ m.qs + m.len <= Len(q) /\ m.cs + m.len <= Len(c)
  BY WithinIs
<1>2. /\ l \in Nat /\ DOMAIN acc = 1 .. l /\ \A k \in DOMAIN acc : acc[k] \in W0
  BY SeqIs
<1>3. \A k \in DOMAIN acc : acc[k].len \in Nat
  BY <1>2, WithinIs
<1>4. CASE t = Append(acc, m)
  <2>1. /\ t \in Seq(W0) /\ Len(t) = l + 1
        /\ \A k \in 1 .. l : t[k] = acc[k]
        /\ t[l + 1] = m
    BY <1>4, AppendProperties
  <2> HIDE DEF t
  <2>2. DOMAIN t = 1 .. l + 1 /\ t # <<>>
    <3>1. DOMAIN t = 1 .. Len(t)
      BY <2>1, SeqIs
    <3>2. t # <<>>
      BY <1>2, <2>1, EmptySeq
    <3> QED
      BY <2>1, <3>1, <3>2
  <2>3. \A n \in Nat : Long(acc, n) => Long(t, n)
    <3> SUFFICES ASSUME NEW n \in Nat, NEW k \in DOMAIN acc, acc[k].len >= n PROVE Long(t, n)
      BY DEF Long
    <3>1. k \in DOMAIN t /\ t[k] = acc[k]
      BY <1>2, <2>1, <2>2
    <3> QED
      BY <3>1 DEF Long
  <2>4. \A n \in Nat : m.len >= n => Long(t, n)
    <3>1. l + 1 \in DOMAIN t
      BY <1>2, <2>2
    <3> QED
      BY <2>1, <3>1 DEF Long
  <2>5. Last(t) = m
    BY <2>1 DEF Last
  <2>6. Last(t).qs <= m.qs
    BY <1>1, <2>5
  <2> QED
    BY <2>1, <2>2, <2>3, <2>4, <2>6 DEF t
<1>5. CASE acc # <<>> /\ Diagonal(m) = Diagonal(last) /\ t = [acc EXCEPT ![l] = new]
  <2>1. last \in W0 /\ last = acc[l] /\ l \in DOMAIN acc
    BY <1>5, LastIs
  <2>2. /\ last.qs \in Nat /\ last.cs \in Nat /\ last.len \in Nat
        /\ last.qs + last.len <= Len(q) /\ last.cs + last.len <= Len(c)
        /\ m.cs - m.qs = last.cs - last.qs
    BY <1>5, <2>1, WithinIs DEF Diagonal
  <2> HIDE DEF last
  <2> DEFINE e == m.qs + m.len - last.qs
  <2>3. e \in Int /\ last.len \in Int /\ (last.qs <= m.qs => e >= m.len)
    <3> DEFINE lq == last.qs
               a  == m.qs
               n  == m.len
    <3>1. lq \in Nat /\ a \in Nat /\ n \in Nat
      BY <1>1, <2>2
    <3> HIDE DEF lq, a, n
    <3>2. a + n - lq \in Int /\ (lq <= a => a + n - lq >= n)
      BY <3>1
    <3> QED
      BY <2>2, <3>2 DEF lq, a, n
  <2>4. end = IF last.len >= e THEN last.len ELSE e
    BY <2>3, OfTwo
  <2>5. /\ end \in Nat /\ end >= last.len /\ (last.qs <= m.qs => end >= m.len)
        /\ last.qs + end <= Len(q) /\ last.cs + end <= Len(c)
    <3> HIDE DEF end
    <3>1. CASE end = last.len /\ last.len >= e
      BY <1>1, <2>2, <2>3, <3>1
    <3>2. CASE end = e /\ ~(last.len >= e)
      <4>1. (last.qs <= m.qs => end >= m.len) /\ end >= last.len /\ end \in Nat
        <5> HIDE DEF e
        <5> QED
          BY <1>1, <2>2, <2>3, <3>2
      <4>2. last.qs + end = m.qs + m.len
        <5> DEFINE lq == last.qs
                   a  == m.qs
                   n  == m.len
        <5>1. lq \in Nat /\ a \in Nat /\ n \in Nat /\ end = a + n - lq
          BY <1>1, <2>2, <3>2
        <5> HIDE DEF lq, a, n, end
        <5>2. lq + end = a + n
          BY <5>1
        <5> QED
          BY <5>2 DEF lq, a, n
      <4>3. last.cs + end = m.cs + m.len
        <5> DEFINE lq == last.qs
                   lc == last.cs
                   a  == m.qs
                   b0 == m.cs
                   n  == m.len
        <5>1. /\ lq \in Nat /\ lc \in Nat /\ a \in Nat /\ b0 \in Nat /\ n \in Nat
              /\ b0 - a = lc - lq /\ end = a + n - lq
          BY <1>1, <2>2, <3>2
        <5> HIDE DEF lq, lc, a, b0, n
        <5>2. lc + end = b0 + n
          BY <5>1
        <5> QED
          BY <5>2 DEF lq, lc, a, b0, n
      <4> QED
        BY <1>1, <4>1, <4>2, <4>3
    <3> QED
      BY <2>4, <3>1, <3>2
  <2> HIDE DEF end, t
  <2>6. new \in W0 /\ new.qs = last.qs /\ new.len = end
    BY <2>1, <2>5 DEF Within, Match
  <2> HIDE DEF new
  <2>7. t \in Seq(W0) /\ Len(t) = l
    BY <1>5, <2>6, ExceptIs
  <2>8. t[l] = new /\ \A k \in DOMAIN acc : k # l => t[k] = acc[k]
    BY <1>5, <2>1
  <2>9. DOMAIN t = DOMAIN acc /\ t # <<>>
    BY <1>5
  <2>10. \A n \in Nat : Long(acc, n) => Long(t, n)
    <3> SUFFICES ASSUME NEW n \in Nat, NEW k \in DOMAIN acc, acc[k].len >= n PROVE Long(t, n)
      BY DEF Long
    <3>1. CASE k = l
      <4>1. t[k].len >= n
        BY <2>1, <2>2, <2>5, <2>6, <2>8, <3>1
      <4> QED
        BY <2>9, <4>1 DEF Long
    <3>2. CASE k # l
      BY <2>8, <2>9, <3>2 DEF Long
    <3> QED
      BY <3>1, <3>2
  <2>11. last.qs <= m.qs => \A n \in Nat : m.len >= n => Long(t, n)
    <3> SUFFICES ASSUME last.qs <= m.qs, NEW n \in Nat, m.len >= n PROVE Long(t, n)
      OBVIOUS
    <3>1. t[l].len >= n
      BY <1>1, <2>5, <2>6, <2>8
    <3> QED
      BY <2>1, <2>9, <3>1 DEF Long
  <2>12. Last(t) = new
    BY <2>7, <2>8 DEF Last
  <2> QED
    BY <1>5, <2>1, <2>6, <2>7, <2>9, <2>10, <2>11, <2>12 DEF t, last
<1>6. \/ t = Append(acc, m)
      \/ acc # <<>> /\ Diagonal(m) = Diagonal(last) /\ t = [acc EXCEPT ![l] = new]
  BY DEF Merged
<1> QED
  BY <1>4, <1>5, <1>6

\* Merging keeps a match as long as the longest.
LEMMA MergeIs ==
    ASSUME NEW q, NEW c, Len(q) \in Nat, Len(c) \in Nat, NEW matches \in Seq(Within(q, c))
    PROVE  /\ Merge(matches) \in Seq(Within(q, c))
           /\ \A n \in Nat : Long(matches, n) => Long(Merge(matches), n)
<1> DEFINE sorted == ByPlace(matches)
           merged[i \in 0 .. Len(sorted)] ==
             IF i = 0 THEN <<>> ELSE Merged(merged[i - 1], sorted[i])
           N  == Len(sorted)
           W0 == Within(q, c)
           A  == Seq(W0)
           step == [x \in A \X (1 .. N) |-> Merged(x[1], sorted[x[2]])]
<1>1. /\ sorted \in Seq(W0)
      /\ \A i \in DOMAIN matches : \E k \in DOMAIN sorted : sorted[k] = matches[i]
      /\ \A k, l \in DOMAIN sorted : k < l => sorted[k].qs <= sorted[l].qs
  <2>1. \A m \in W0 : m.qs \in Int /\ m.cs \in Int
    BY WithinIs
  <2> HIDE DEF W0
  <2>2. matches \in Seq(W0)
    BY DEF W0
  <2> QED
    BY <2>1, <2>2, ByPlaceIs
<1>2. Merge(matches) = merged[N]
  BY DEF Merge
<1> HIDE DEF sorted
<1>3. N \in Nat /\ DOMAIN sorted = 1 .. N /\ \A k \in 1 .. N : sorted[k] \in W0
  BY <1>1, SeqIs
<1>4. <<>> \in A /\ step \in [A \X (1 .. N) -> A]
  <2>1. ASSUME NEW acc \in A, NEW n \in 1 .. N PROVE Merged(acc, sorted[n]) \in A
    BY <1>3, MergedIs
  <2>2. <<>> \in A
    BY EmptySeq
  <2> HIDE DEF N, A
  <2> QED
    BY <2>1, <2>2
<1>5. PICK f \in [0 .. N -> A] : Rounds(f, <<>>, N, step)
  <2> HIDE DEF step, N, A
  <2> QED
    BY <1>3, <1>4, LoopRuns
<1>6. f = [i \in 0 .. Len(sorted) |->
             IF i = 0 THEN <<>> ELSE Merged(f[i - 1], sorted[i])]
  <2>1. ASSUME NEW n \in 0 .. N
        PROVE f[n] = IF n = 0 THEN <<>> ELSE Merged(f[n - 1], sorted[n])
    <3> HIDE DEF N, A
    <3>1. CASE n = 0
      BY <1>5, <3>1 DEF Rounds
    <3>2. CASE n # 0
      <4>1. n \in 1 .. N /\ n - 1 \in 0 .. N
        BY <3>2, <1>3
      <4>2. f[n] = step[<<f[n - 1], n>>] /\ <<f[n - 1], n>> \in A \X (1 .. N)
        BY <4>1, <1>5 DEF Rounds
      <4> QED
        BY <4>2, <3>2
    <3> QED
      BY <3>1, <3>2
  <2> QED
    BY <1>5, <2>1
<1>7. merged = [i \in 0 .. Len(sorted) |->
                  IF i = 0 THEN <<>> ELSE Merged(merged[i - 1], sorted[i])]
  BY <1>6
<1> HIDE DEF merged
<1>8. merged[0] = <<>> /\ \A n \in 1 .. N : merged[n] = Merged(merged[n - 1], sorted[n])
  <2>1. \A n \in 1 .. N : n \in 0 .. N /\ n # 0
    BY <1>3
  <2>2. 0 \in 0 .. N
    BY <1>3
  <2> QED
    BY <1>7, <2>1, <2>2
<1> HIDE DEF N
<1> DEFINE good(n) ==
      /\ merged[n] \in A
      /\ n > 0 => merged[n] # <<>> /\ Last(merged[n]).qs <= sorted[n].qs
      /\ \A k \in 1 .. n : \A l \in Nat : sorted[k].len >= l => Long(merged[n], l)
           G == {n \in 0 .. N : good(n)}
<1>9. 0 \in G
  <2>1. 0 \in 0 .. N /\ ~(0 > 0) /\ \A k : k \notin 1 .. 0
    BY <1>3
  <2> QED
    BY <1>4, <1>8, <2>1
<1>10. ASSUME NEW n \in 1 .. N, n - 1 \in G PROVE n \in G
  <2> DEFINE acc == merged[n - 1]
             t   == merged[n]
             m   == sorted[n]
  <2>1. n \in 0 .. N /\ n \in Int /\ n - 1 \in 0 .. N
    BY <1>3
  <2>2. t = Merged(acc, m) /\ m \in W0
    BY <1>3, <1>8
  <2>3. /\ acc \in A
        /\ n - 1 > 0 => acc # <<>> /\ Last(acc).qs <= sorted[n - 1].qs
        /\ \A k \in 1 .. n - 1 : \A l \in Nat : sorted[k].len >= l => Long(acc, l)
    BY <1>10
  <2>4. acc # <<>> => Last(acc).qs <= m.qs
    <3>1. CASE n = 1
      BY <1>8, <3>1
    <3>2. CASE n # 1
      <4>1. n - 1 > 0 /\ n - 1 \in 1 .. N /\ n - 1 < n
        BY <2>1, <3>2
      <4>2. Last(acc).qs <= sorted[n - 1].qs /\ sorted[n - 1].qs <= m.qs
        BY <1>1, <1>3, <2>3, <4>1
      <4>3. sorted[n - 1].qs \in Int /\ m.qs \in Int
        <5>1. sorted[n - 1] \in W0
          BY <1>3, <4>1
        <5> QED
          BY <2>2, <5>1, WithinIs
      <4>4. acc # <<>> => Last(acc).qs \in Int
        <5> SUFFICES ASSUME acc # <<>> PROVE Last(acc).qs \in Int
          OBVIOUS
        <5> HIDE DEF acc
        <5>1. Last(acc) \in W0
          BY <2>3, LastIs
        <5> QED
          BY <5>1, WithinIs
      <4> HIDE DEF acc, m
      <4> QED
        BY <4>2, <4>3, <4>4
    <3> QED
      BY <3>1, <3>2
  <2> HIDE DEF acc, m
  <2>5. /\ t \in A /\ t # <<>> /\ Last(t).qs <= m.qs
        /\ \A l \in Nat : Long(acc, l) => Long(t, l)
        /\ \A l \in Nat : m.len >= l => Long(t, l)
    <3> DEFINE x == Merged(acc, m)
    <3>1. /\ x \in A /\ x # <<>> /\ Last(x).qs <= m.qs
          /\ \A l \in Nat : Long(acc, l) => Long(x, l)
          /\ \A l \in Nat : m.len >= l => Long(x, l)
      BY <2>2, <2>3, <2>4, MergedIs
    <3> HIDE DEF x, t
    <3>2. t = x
      BY <2>2 DEF x
    <3> QED
      BY <3>1, <3>2
  <2>6. \A k \in 1 .. n : \A l \in Nat : sorted[k].len >= l => Long(t, l)
    <3> SUFFICES ASSUME NEW k \in 1 .. n, NEW l \in Nat, sorted[k].len >= l PROVE Long(t, l)
      OBVIOUS
    <3>1. CASE k = n
      BY <2>5, <3>1 DEF m
    <3>2. CASE k # n
      <4>1. k \in 1 .. n - 1
        BY <2>1, <3>2
      <4> HIDE DEF t
      <4> QED
        BY <2>3, <2>5, <4>1
    <3> QED
      BY <3>1, <3>2
  <2> QED
    BY <2>1, <2>5, <2>6 DEF m
<1>11. N \in G
  <2> HIDE DEF G
  <2>1. \A n \in 0 .. N : n \in G
    BY <1>3, <1>9, <1>10, RoundByRound
  <2> QED
    BY <1>3, <2>1
<1>12. \A n \in Nat : Long(matches, n) => Long(merged[N], n)
  <2> SUFFICES ASSUME NEW n \in Nat, NEW i \in DOMAIN matches, matches[i].len >= n
               PROVE  Long(merged[N], n)
    BY DEF Long
  <2>1. PICK k \in DOMAIN sorted : sorted[k] = matches[i]
    BY <1>1
  <2>2. k \in 1 .. N
    BY <1>3
  <2> QED
    BY <1>11, <2>1, <2>2
<1>13. merged[N] \in Seq(W0)
  BY <1>11
<1> QED
  BY <1>2, <1>12, <1>13

\* The longest match is kept.
LEMMA DedupeIs ==
    ASSUME NEW q, NEW c, Len(q) \in Nat, Len(c) \in Nat, NEW matches \in Seq(Within(q, c))
    PROVE  /\ DedupeByQueryCoverage(matches) \in Seq(Within(q, c))
           /\ \A n \in Nat : Long(matches, n) => Long(DedupeByQueryCoverage(matches), n)
<1> DEFINE key    == [k \in DOMAIN matches |-> -matches[k].len]
           sorted == Sorted(matches, key)
           kept[i \in 0 .. Len(sorted)] ==
             IF i = 0 THEN <<>> ELSE Uncovered(kept[i - 1], sorted[i])
           N  == Len(sorted)
           W0 == Within(q, c)
           A  == Seq(W0)
           step == [x \in A \X (1 .. N) |-> Uncovered(x[1], sorted[x[2]])]
<1>1. Len(matches) \in Nat /\ DOMAIN matches = 1 .. Len(matches) /\ \A k \in DOMAIN matches : matches[k] \in W0
  BY SeqIs
<1>2. \A k \in DOMAIN matches : matches[k].len \in Nat /\ key[k] = -matches[k].len /\ key[k] \in Int
  BY <1>1, WithinIs
<1>3. DedupeByQueryCoverage(matches) = kept[N]
  BY DEF DedupeByQueryCoverage
<1> HIDE DEF key
<1>4. sorted \in Seq(W0) /\ Len(sorted) = Len(matches) /\ DOMAIN sorted = DOMAIN matches
  BY <1>2, SortedIs
<1>5. PICK at \in [DOMAIN matches -> DOMAIN matches] : Sorts(at, matches, key)
  BY <1>2, SortedIs
<1>6. \A i \in DOMAIN matches : \E k \in DOMAIN matches : sorted[k] = matches[i]
  <2> SUFFICES ASSUME NEW i \in DOMAIN matches
               PROVE  \E k \in DOMAIN matches : sorted[k] = matches[i]
    OBVIOUS
  <2>1. PICK k \in DOMAIN matches : at[k] = i
    BY <1>5 DEF Sorts
  <2>2. sorted[k] = matches[at[k]]
    BY <1>5 DEF Sorts
  <2> QED
    BY <2>1, <2>2
<1>7. \A k, l \in DOMAIN matches : k < l => sorted[k].len >= sorted[l].len
  <2> SUFFICES ASSUME NEW k \in DOMAIN matches, NEW l \in DOMAIN matches, k < l
               PROVE  sorted[k].len >= sorted[l].len
    OBVIOUS
  <2>1. key[at[k]] < key[at[l]] \/ key[at[k]] = key[at[l]]
    BY <1>5 DEF Sorts
  <2>2. sorted[k] = matches[at[k]] /\ sorted[l] = matches[at[l]]
    BY <1>5 DEF Sorts
  <2> DEFINE x == sorted[k].len
             y == sorted[l].len
  <2>3. key[at[k]] = -x /\ key[at[l]] = -y /\ x \in Nat /\ y \in Nat
    BY <1>2, <2>2
  <2> HIDE DEF x, y
  <2>4. x >= y
    BY <2>1, <2>3
  <2> QED
    BY <2>4 DEF x, y
<1> HIDE DEF sorted
<1>8. N \in Nat /\ DOMAIN sorted = 1 .. N /\ \A k \in 1 .. N : sorted[k] \in W0
  BY <1>4, SeqIs
<1>9. ASSUME NEW acc \in A, NEW m \in W0
      PROVE  /\ Uncovered(acc, m) \in A
             /\ \A k \in DOMAIN acc : k \in DOMAIN Uncovered(acc, m) /\ Uncovered(acc, m)[k] = acc[k]
  <2>1. /\ Append(acc, m) \in A /\ Len(Append(acc, m)) = Len(acc) + 1
        /\ \A k \in 1 .. Len(acc) : Append(acc, m)[k] = acc[k]
    BY AppendProperties
  <2>2. Len(acc) \in Nat /\ DOMAIN acc = 1 .. Len(acc) /\ DOMAIN Append(acc, m) = 1 .. Len(acc) + 1
    BY <2>1, SeqIs
  <2>3. \A k \in DOMAIN acc : k \in DOMAIN Append(acc, m) /\ Append(acc, m)[k] = acc[k]
    BY <2>1, <2>2
  <2>4. Uncovered(acc, m) = acc \/ Uncovered(acc, m) = Append(acc, m)
    BY DEF Uncovered
  <2> QED
    BY <2>1, <2>3, <2>4
<1>10. <<>> \in A /\ step \in [A \X (1 .. N) -> A]
  <2>1. ASSUME NEW acc \in A, NEW n \in 1 .. N PROVE Uncovered(acc, sorted[n]) \in A
    BY <1>8, <1>9
  <2>2. <<>> \in A
    BY EmptySeq
  <2> HIDE DEF N, A
  <2> QED
    BY <2>1, <2>2
<1>11. PICK f \in [0 .. N -> A] : Rounds(f, <<>>, N, step)
  <2> HIDE DEF step, N, A
  <2> QED
    BY <1>8, <1>10, LoopRuns
<1>12. f = [i \in 0 .. Len(sorted) |->
             IF i = 0 THEN <<>> ELSE Uncovered(f[i - 1], sorted[i])]
  <2>1. ASSUME NEW n \in 0 .. N
        PROVE f[n] = IF n = 0 THEN <<>> ELSE Uncovered(f[n - 1], sorted[n])
    <3> HIDE DEF N, A
    <3>1. CASE n = 0
      BY <1>11, <3>1 DEF Rounds
    <3>2. CASE n # 0
      <4>1. n \in 1 .. N /\ n - 1 \in 0 .. N
        BY <3>2, <1>8
      <4>2. f[n] = step[<<f[n - 1], n>>] /\ <<f[n - 1], n>> \in A \X (1 .. N)
        BY <4>1, <1>11 DEF Rounds
      <4> QED
        BY <4>2, <3>2
    <3> QED
      BY <3>1, <3>2
  <2> QED
    BY <1>11, <2>1
<1>13. kept = [i \in 0 .. Len(sorted) |->
                  IF i = 0 THEN <<>> ELSE Uncovered(kept[i - 1], sorted[i])]
  BY <1>12
<1> HIDE DEF kept
<1>14. kept[0] = <<>> /\ \A n \in 1 .. N : kept[n] = Uncovered(kept[n - 1], sorted[n])
  <2>1. \A n \in 1 .. N : n \in 0 .. N /\ n # 0
    BY <1>8
  <2>2. 0 \in 0 .. N
    BY <1>8
  <2> QED
    BY <1>13, <2>1, <2>2
<1> HIDE DEF N
<1> DEFINE good(n) == kept[n] \in A /\ (n > 0 => 1 \in DOMAIN kept[n] /\ kept[n][1] = sorted[1])
           G == {n \in 0 .. N : good(n)}
<1>15. 0 \in G
  <2>1. 0 \in 0 .. N /\ ~(0 > 0)
    BY <1>8
  <2> QED
    BY <1>10, <1>14, <2>1
<1>16. ASSUME NEW n \in 1 .. N, n - 1 \in G PROVE n \in G
  <2> DEFINE acc == kept[n - 1]
  <2>1. n \in 0 .. N /\ n \in Int /\ n - 1 \in 0 .. N
    BY <1>8
  <2>2. kept[n] = Uncovered(acc, sorted[n]) /\ sorted[n] \in W0
    BY <1>8, <1>14
  <2>3. acc \in A
    BY <1>16
  <2>4. kept[n] \in A
    <3> HIDE DEF acc, A
    <3> QED
      BY <1>9, <2>2, <2>3
  <2>5. 1 \in DOMAIN kept[n] /\ kept[n][1] = sorted[1]
    <3>1. CASE n = 1
      <4>1. acc = <<>> /\ sorted[1] = sorted[n]
        BY <1>14, <3>1
      <4>2. Uncovered(acc, sorted[1]) = Append(<<>>, sorted[1])
        BY <4>1 DEF Uncovered
      <4>3. Append(<<>>, sorted[1]) = <<sorted[1]>>
        OBVIOUS
      <4> QED
        BY <2>2, <4>1, <4>2, <4>3
    <3>2. CASE n # 1
      <4>1. n - 1 > 0
        BY <2>1, <3>2
      <4>2. 1 \in DOMAIN acc /\ acc[1] = sorted[1]
        BY <1>16, <4>1
      <4> HIDE DEF acc
      <4>3. 1 \in DOMAIN Uncovered(acc, sorted[n]) /\ Uncovered(acc, sorted[n])[1] = acc[1]
        BY <1>9, <2>2, <2>3, <4>2
      <4> QED
        BY <2>2, <4>2, <4>3
    <3> QED
      BY <3>1, <3>2
  <2> QED
    BY <2>1, <2>4, <2>5
<1>17. N \in G
  <2> HIDE DEF G
  <2>1. \A n \in 0 .. N : n \in G
    BY <1>8, <1>15, <1>16, RoundByRound
  <2> QED
    BY <1>8, <2>1
<1>18. \A n \in Nat : Long(matches, n) => Long(kept[N], n)
  <2> SUFFICES ASSUME NEW n \in Nat, NEW i \in DOMAIN matches, matches[i].len >= n
               PROVE  Long(kept[N], n)
    BY DEF Long
  <2>1. PICK k \in DOMAIN matches : sorted[k] = matches[i]
    BY <1>6
  <2>2. k \in 1 .. N /\ 1 \in 1 .. N /\ N > 0
    BY <1>4, <1>8
  <2>3. sorted[1].len >= n
    <3>1. CASE k = 1
      BY <2>1, <3>1
    <3>2. CASE k # 1
      <4>1. 1 < k /\ 1 \in DOMAIN matches
        BY <1>4, <1>8, <2>2, <3>2
      <4>2. sorted[1].len >= sorted[k].len
        BY <1>7, <4>1
      <4>3. sorted[1].len \in Int /\ sorted[k].len \in Int /\ n \in Int
        BY <1>8, <2>2, WithinIs
      <4>4. sorted[k].len >= n
        BY <2>1
      <4> DEFINE x == sorted[1].len
                 y == sorted[k].len
      <4>5. x >= y /\ y >= n /\ x \in Int /\ y \in Int
        BY <4>2, <4>3, <4>4
      <4> HIDE DEF x, y
      <4>6. x >= n
        BY <4>5
      <4> QED
        BY <4>6 DEF x
    <3> QED
      BY <3>1, <3>2
  <2>4. 1 \in DOMAIN kept[N] /\ kept[N][1] = sorted[1]
    BY <1>17, <2>2
  <2> QED
    BY <2>3, <2>4 DEF Long
<1>19. kept[N] \in Seq(W0)
  BY <1>17
<1> QED
  BY <1>3, <1>18, <1>19

-----------------------------------------------------------------------------
(* The way back from a normalized text to the original.                    *)

Placed(text) == {u \in Units(Chars) : u.start < u.end /\ u.end <= Len(text)}

InOrder(n) == \A k, l \in DOMAIN n : k <= l => n[k].start <= n[l].start

\* A placed character has a span of the text.
LEMMA PlacedIs ==
    ASSUME NEW text, NEW u \in Placed(text)
    PROVE  /\ u \in Units(Chars) /\ u.start \in Nat /\ u.end \in Nat
           /\ u.start < u.end /\ u.end <= Len(text)
  BY DEF Placed, Units

\* Some of the characters are in order as all of them are.
LEMMA ThoseInOrder ==
    ASSUME NEW text, NEW s \in Seq(Placed(text)), InOrder(s), NEW places \in SUBSET DOMAIN s
    PROVE  Those(s, places) \in Seq(Placed(text)) /\ InOrder(Those(s, places))
<1> DEFINE t == Those(s, places)
<1>1. t \in Seq(Placed(text))
  BY ThoseAre
<1>2. \E at \in [DOMAIN t -> places] :
         /\ \A k \in DOMAIN t : t[k] = s[at[k]]
         /\ \A k, l \in DOMAIN t : k < l => at[k] < at[l]
  BY ThoseAre
<1> HIDE DEF t
<1>3. PICK at \in [DOMAIN t -> places] :
         /\ \A k \in DOMAIN t : t[k] = s[at[k]]
         /\ \A k, l \in DOMAIN t : k < l => at[k] < at[l]
  BY <1>2
<1>4. DOMAIN t = 1 .. Len(t) /\ Len(t) \in Nat /\ DOMAIN s = 1 .. Len(s) /\ Len(s) \in Nat
  BY <1>1, SeqIs
<1>5. InOrder(t)
  <2> SUFFICES ASSUME NEW k \in DOMAIN t, NEW l \in DOMAIN t, k <= l
               PROVE  t[k].start <= t[l].start
    BY DEF InOrder
  <2>1. at[k] \in DOMAIN s /\ at[l] \in DOMAIN s /\ k \in Int /\ l \in Int
    BY <1>4
  <2>2. at[k] \in Int /\ at[l] \in Int
    BY <1>4, <2>1
  <2>3. at[k] <= at[l]
    <3>1. CASE k = l
      BY <2>2, <3>1
    <3>2. CASE k # l
      <4>1. k < l
        BY <2>1, <3>2
      <4>2. at[k] < at[l]
        BY <1>3, <4>1
      <4> QED
        BY <2>2, <4>2
    <3> QED
      BY <3>1, <3>2
  <2>4. s[at[k]].start <= s[at[l]].start
    BY <2>1, <2>3 DEF InOrder
  <2> QED
    BY <1>3, <2>4
<1> QED
  BY <1>1, <1>5 DEF t

\* Without citations, the characters are placed in order.
LEMMA UncitedPlaced ==
    ASSUME NEW text \in Seq(Chars)
    PROVE  Uncited(text) \in Seq(Placed(text)) /\ InOrder(Uncited(text))
<1> DEFINE places == {i \in DOMAIN text : text[i] # Citation}
           kept   == Ascending(places, Len(text))
           P      == Placed(text)
           t      == [k \in DOMAIN kept |-> Mapped(text, kept[k])]
<1>1. Len(text) \in Nat /\ DOMAIN text = 1 .. Len(text) /\ \A i \in DOMAIN text : text[i] \in Chars
  BY SeqIs
<1>2. /\ kept \in Seq(places)
      /\ \A k, l \in DOMAIN kept : k < l => kept[k] < kept[l]
  <2>1. places \in SUBSET (1 .. Len(text))
    BY <1>1
  <2> HIDE DEF places
  <2> QED
    BY <1>1, <2>1, AscendingIs
<1>3. Uncited(text) = Listed(t)
  BY DEF Uncited
<1> HIDE DEF kept
<1>4. Len(kept) \in Nat /\ DOMAIN kept = 1 .. Len(kept) /\ \A k \in DOMAIN kept : kept[k] \in places
  BY <1>2, SeqIs
<1>5. ASSUME NEW k \in DOMAIN kept
      PROVE  /\ t[k] \in P /\ t[k].start = kept[k] - 1 /\ kept[k] \in Int
  <2>1. kept[k] \in 1 .. Len(text) /\ text[kept[k]] \in Chars
    BY <1>1, <1>4
  <2>2. kept[k] - 1 \in Nat /\ kept[k] \in Nat /\ kept[k] - 1 < kept[k] /\ kept[k] <= Len(text)
    BY <1>1, <2>1
  <2> QED
    BY <2>1, <2>2 DEF Mapped, Units, Placed
<1> HIDE DEF P
<1>6. t \in [1 .. Len(kept) -> P]
  BY <1>4, <1>5
<1>7. t \in Seq(P) /\ DOMAIN t = DOMAIN kept
  <2> HIDE DEF t
  <2> QED
    BY <1>4, <1>6, FunctionIsSeq
<1>8. InOrder(t)
  <2> SUFFICES ASSUME NEW k \in DOMAIN t, NEW l \in DOMAIN t, k <= l
               PROVE  t[k].start <= t[l].start
    BY DEF InOrder
  <2>1. k \in DOMAIN kept /\ l \in DOMAIN kept /\ k \in Int /\ l \in Int
    BY <1>4, <1>7
  <2>2. k = l \/ k < l
    BY <2>1
  <2>3. kept[k] <= kept[l]
    BY <1>2, <1>5, <2>1, <2>2
  <2>4. t[k].start = kept[k] - 1 /\ t[l].start = kept[l] - 1 /\ kept[k] \in Int /\ kept[l] \in Int
    BY <1>5, <2>1
  <2> QED
    BY <2>3, <2>4
<1> HIDE DEF t
<1>9. Listed(t) = t
  BY <1>7, ListedIs
<1> QED
  BY <1>3, <1>7, <1>8, <1>9 DEF P

\* With white space collapsed too.
LEMMA CollapsedPlaced ==
    ASSUME NEW text, NEW chars \in Seq(Placed(text)), InOrder(chars), Len(text) \in Nat
    PROVE  Collapsed(chars) \in Seq(Placed(text)) /\ InOrder(Collapsed(chars))
<1> DEFINE n == Len(chars)
           RunEnd(k) == Max({j \in k .. Len(chars) : \A i \in k .. j : IsSpace(chars, i)})
           Short(k) == IF IsSpace(chars, k)
                         THEN [char |-> " ", start |-> chars[k].start, end |-> chars[RunEnd(k)].end]
                         ELSE chars[k]
           t     == [k \in DOMAIN chars |-> Short(k)]
           short == Listed([k \in DOMAIN chars |-> Short(k)])
           first == {k \in DOMAIN chars : ~IsSpace(chars, k) \/ k = 1 \/ ~IsSpace(chars, k - 1)}
           P == Placed(text)
<1>1. n \in Nat /\ DOMAIN chars = 1 .. n /\ \A i \in DOMAIN chars : chars[i] \in P
  BY SeqIs
<1>2. Collapsed(chars) = Those(short, first)
  BY DEF Collapsed
<1>3. ASSUME NEW k \in DOMAIN chars PROVE Short(k) \in P /\ Short(k).start = chars[k].start
  <2>1. CASE IsSpace(chars, k)
    <3> DEFINE run == {j \in k .. n : \A i \in k .. j : IsSpace(chars, i)}
               e   == RunEnd(k)
    <3>1. k \in Int /\ n \in Int /\ k <= n /\ k \in 1 .. n
      BY <1>1
    <3>2. run \in SUBSET (k .. n)
      OBVIOUS
    <3>3. k \in run
      <4>1. \A i \in k .. k : i = k
        BY <3>1
      <4>2. k \in k .. n
        BY <3>1
      <4> QED
        BY <2>1, <4>1, <4>2
    <3>4. Max(run) \in run
      <4> HIDE DEF run, n
      <4> QED
        BY <3>1, <3>2, <3>3, GreatestAndLeast
    <3>5. e \in k .. n
      BY <3>4
    <3>6. Short(k) = [char |-> " ", start |-> chars[k].start, end |-> chars[e].end]
      BY <2>1
    <3> HIDE DEF Short, e
    <3>7. e \in DOMAIN chars /\ k <= e
      BY <1>1, <3>1, <3>5
    <3>8. chars[k].start <= chars[e].start
      BY <3>7 DEF InOrder
    <3>9. /\ chars[k].start \in Nat /\ chars[e].start \in Nat /\ chars[e].end \in Nat
          /\ chars[e].start < chars[e].end /\ chars[e].end <= Len(text)
      BY <1>1, <3>7, PlacedIs
    <3>10. chars[k].start < chars[e].end
      <4> DEFINE a == chars[k].start
                 b == chars[e].start
                 c == chars[e].end
      <4>1. a \in Nat /\ b \in Nat /\ c \in Nat /\ a <= b /\ b < c
        BY <3>8, <3>9
      <4> HIDE DEF a, b, c
      <4>2. a < c
        BY <4>1
      <4> QED
        BY <4>2 DEF a, c
    <3> DEFINE x == [char |-> " ", start |-> chars[k].start, end |-> chars[e].end]
    <3>11. x \in P
      BY <3>9, <3>10, CharsAre DEF Placed, Units
    <3>12. x.start = chars[k].start
      OBVIOUS
    <3>13. Short(k) = x
      BY <3>6
    <3> HIDE DEF P, x
    <3> QED
      BY <3>11, <3>12, <3>13
  <2>2. CASE ~IsSpace(chars, k)
    BY <1>1, <2>2
  <2> QED
    BY <2>1, <2>2
<1> HIDE DEF Short
<1>4. t \in [1 .. n -> P]
  BY <1>1, <1>3
<1>5. \A k \in DOMAIN chars : t[k].start = chars[k].start
  BY <1>3
<1> HIDE DEF P, t
<1>6. t \in Seq(P) /\ DOMAIN t = DOMAIN chars
  <2> HIDE DEF n
  <2> QED
    BY <1>1, <1>4, FunctionIsSeq
<1>7. InOrder(t)
  BY <1>5, <1>6 DEF InOrder
<1>8. short = t
  BY <1>6, ListedIs DEF t
<1> HIDE DEF short
<1>9. first \in SUBSET DOMAIN t
  BY <1>6
<1> HIDE DEF first
<1>10. Those(t, first) \in Seq(P) /\ InOrder(Those(t, first))
  BY <1>6, <1>7, <1>9, ThoseInOrder DEF P
<1> QED
  BY <1>2, <1>8, <1>10 DEF P

\* The characters of a normalized text are placed in order, in either profile.
LEMMA NormalizedPlaced ==
    ASSUME NEW text \in Seq(Chars), NEW profile
    PROVE  Normalize(profile, text) \in Seq(Placed(text)) /\ InOrder(Normalize(profile, text))
<1> DEFINE u == Uncited(text)
<1>1. u \in Seq(Placed(text)) /\ InOrder(u)
  BY UncitedPlaced
<1>2. Normalize(profile, text) =
        IF profile = "zh" THEN Those(u, {k \in DOMAIN u : u[k].char \notin Ignored})
                          ELSE Collapsed(u)
  BY DEF Normalize
<1> HIDE DEF u
<1>3. Len(text) \in Nat
  BY SeqIs
<1>4. Collapsed(u) \in Seq(Placed(text)) /\ InOrder(Collapsed(u))
  BY <1>1, <1>3, CollapsedPlaced
<1> DEFINE places == {k \in DOMAIN u : u[k].char \notin Ignored}
<1>5. places \in SUBSET DOMAIN u
  OBVIOUS
<1>6. Normalize(profile, text) = IF profile = "zh" THEN Those(u, places) ELSE Collapsed(u)
  BY <1>2
<1> HIDE DEF places
<1>7. Those(u, places) \in Seq(Placed(text)) /\ InOrder(Those(u, places))
  BY <1>1, <1>5, ThoseInOrder
<1> QED
  BY <1>4, <1>6, <1>7

Extents(l) == {x \in Nat \X Nat : x[1] < x[2] /\ x[2] <= l}

\* A match of the normalized text lies within the original.
LEMMA OriginalSpanIs ==
    ASSUME NEW text, Len(text) \in Nat, NEW n \in Seq(Placed(text)), InOrder(n),
           NEW s \in Nat, NEW e \in Nat, s < e, e <= Len(n)
    PROVE  OriginalSpan(n, s, e, text) \in Extents(Len(text))
<1> DEFINE first == n[s + 1].start
           last  == n[e].end
           l     == Len(text)
           a     == IF s = 0 THEN 0
                    ELSE Min({i \in 0 .. first : \A j \in i + 1 .. first : text[j] \in Ignored})
           outs  == {i \in last .. n[e + 1].start : \A j \in last + 1 .. i : text[j] \in Ignored}
           b     == IF e = Len(n) THEN Len(text) ELSE Max({last} \cup outs)
<1>1. Len(n) \in Nat /\ DOMAIN n = 1 .. Len(n) /\ \A k \in DOMAIN n : n[k] \in Placed(text)
  BY SeqIs
<1>2. s + 1 \in DOMAIN n /\ e \in DOMAIN n /\ s + 1 <= e
  BY <1>1
<1>3. OriginalSpan(n, s, e, text) = <<a, b>>
  BY DEF OriginalSpan
<1>4. /\ first \in Nat /\ last \in Nat /\ last <= l /\ l \in Nat
      /\ n[e].start \in Nat /\ n[e].start < last
  BY <1>1, <1>2, PlacedIs
<1>5. first < last
  <2>1. first <= n[e].start
    BY <1>2 DEF InOrder
  <2> DEFINE x == n[e].start
  <2> HIDE DEF first, last, x
  <2>2. first <= x /\ x < last /\ x \in Nat /\ first \in Nat /\ last \in Nat
    BY <1>4, <2>1 DEF x
  <2> QED
    BY <2>2
<1>6. a \in Nat /\ a <= first
  <2>1. CASE s = 0
    BY <1>4, <2>1
  <2>2. CASE s # 0
    <3> DEFINE ins == {i \in 0 .. first : \A j \in i + 1 .. first : text[j] \in Ignored}
    <3>1. a = Min(ins) /\ ins \in SUBSET (0 .. first)
      BY <2>2
    <3>2. first \in ins
      <4> HIDE DEF first
      <4>1. first \in 0 .. first /\ \A j : j \notin first + 1 .. first
        BY <1>4
      <4> QED
        BY <4>1
    <3> HIDE DEF ins, a, first
    <3>3. 0 \in Int /\ first \in Int
      BY <1>4
    <3>4. Min(ins) \in ins
      BY <3>1, <3>2, <3>3, GreatestAndLeast
    <3>5. Min(ins) \in 0 .. first
      BY <3>1, <3>4
    <3> QED
      BY <1>4, <3>1, <3>5
  <2> QED
    BY <2>1, <2>2
<1>7. b \in Nat /\ last <= b /\ b <= l
  <2>1. CASE e = Len(n)
    BY <1>4, <2>1
  <2>2. CASE e # Len(n)
    <3> DEFINE next == n[e + 1].start
               S == {last} \cup outs
    <3>1. e + 1 \in DOMAIN n
      <4> DEFINE m == Len(n)
      <4>1. e \in Nat /\ m \in Nat /\ e <= m /\ e # m /\ DOMAIN n = 1 .. m
        BY <1>1, <2>2
      <4> HIDE DEF m
      <4> QED
        BY <4>1
    <3>2. next \in Nat /\ next <= l
      <4>1. /\ n[e + 1].start \in Nat /\ n[e + 1].end \in Nat
            /\ n[e + 1].start < n[e + 1].end /\ n[e + 1].end <= Len(text)
        BY <1>1, <3>1, PlacedIs
      <4> DEFINE z == n[e + 1].end
      <4>2. next \in Nat /\ z \in Nat /\ next < z /\ z <= l
        BY <4>1
      <4> HIDE DEF next, z, l
      <4> QED
        BY <1>4, <4>2
    <3>3. b = Max(S)
      BY <2>2
    <3>4. S \in SUBSET (last .. l)
      <4>1. \A i \in outs : i \in last .. next
        OBVIOUS
      <4> HIDE DEF outs, next, last, l
      <4> QED
        BY <1>4, <3>2, <4>1
    <3>5. last \in S
      OBVIOUS
    <3> HIDE DEF S, last, l, b
    <3>6. last \in Int /\ l \in Int
      BY <1>4
    <3>7. Max(S) \in S
      BY <3>4, <3>5, <3>6, GreatestAndLeast
    <3>8. Max(S) \in last .. l
      BY <3>4, <3>7
    <3> QED
      BY <1>4, <3>3, <3>8
  <2> QED
    BY <2>1, <2>2
<1> HIDE DEF first, last, a, b, l
<1>8. a < b
  BY <1>4, <1>5, <1>6, <1>7
<1> QED
  BY <1>3, <1>6, <1>7, <1>8 DEF Extents, l

-----------------------------------------------------------------------------
(* Alignment.                                                              *)

IsPolicy(policy) ==
    /\ policy.profile \in {"zh", "generic"}
    /\ policy.seed \in Nat \ {0} /\ policy.passage \in Nat \ {0}

\* resolve_policy returns a profile and lengths of at least one.
LEMMA PolicyIs ==
    ASSUME NEW text, NEW language
    PROVE  IsPolicy(ResolvePolicy(text, language))
<1>1. ZhPassage \in Nat \ {0}
  BY MatchAssumption
<1> QED
  BY <1>1, ParamsAre DEF IsPolicy, ResolvePolicy

\* The passages of a candidate, as align returns them.
Found(query, candidate) ==
    [query : Extents(Len(query)), source : Extents(Len(candidate)), score : Nat \X Nat]

\* Agreeing characters are counted.
LEMMA SameIs ==
    ASSUME NEW q, NEW c, NEW qi, NEW ci, NEW n \in Nat
    PROVE  Same(q, c, qi, ci, n) \in Nat
<1> DEFINE S == {i \in 1 .. n : q[qi + i] = c[ci + i]}
<1>1. IsFiniteSet(1 .. n) /\ S \subseteq 1 .. n
  BY FS_Interval
<1> HIDE DEF S
<1>2. Cardinality(S) \in Nat
  BY <1>1, FS_Subset, FS_CardinalityType
<1> QED
  BY <1>2 DEF Same, S

\* A normalized text is as long as what it is made of.
LEMMA PlainPlaced ==
    ASSUME NEW text, NEW n \in Seq(Placed(text))
    PROVE  Plain(n) \in Seq(Chars) /\ Len(Plain(n)) = Len(n) /\ Len(n) \in Nat
<1>1. n \in Seq(Units(Chars))
  <2>1. Len(n) \in Nat /\ DOMAIN n = 1 .. Len(n) /\ \A k \in DOMAIN n : n[k] \in Placed(text)
    BY SeqIs
  <2>2. \A k \in DOMAIN n : n[k] \in Units(Chars)
    BY <2>1 DEF Placed
  <2>3. n = [k \in 1 .. Len(n) |-> n[k]]
    BY <2>1
  <2>4. n \in [1 .. Len(n) -> Units(Chars)]
    BY <2>1, <2>2, <2>3
  <2> QED
    BY <2>1, <2>4, FunctionIsSeq
<1> QED
  BY <1>1, PlainIs, SeqIs

\* A match is a passage of the two texts.
LEMMA BuildIs ==
    ASSUME NEW query \in Seq(Chars), NEW candidate \in Seq(Chars),
           NEW nq \in Seq(Placed(query)), InOrder(nq),
           NEW nc \in Seq(Placed(candidate)), InOrder(nc),
           NEW m \in Within(Plain(nq), Plain(nc)), m.len > 0
    PROVE  Build(nq, nc, query, candidate, m) \in Found(query, candidate)
<1>1. /\ Len(Plain(nq)) = Len(nq) /\ Len(Plain(nc)) = Len(nc)
      /\ Len(query) \in Nat /\ Len(candidate) \in Nat /\ Len(nq) \in Nat /\ Len(nc) \in Nat
  BY PlainPlaced, SeqIs
<1>2. /\ m.qs \in Nat /\ m.cs \in Nat /\ m.len \in Nat
      /\ m.qs + m.len <= Len(nq) /\ m.cs + m.len <= Len(nc)
  BY <1>1, WithinIs
<1>3. OriginalSpan(nq, m.qs, m.qs + m.len, query) \in Extents(Len(query))
  <2> DEFINE s == m.qs
             e == m.qs + m.len
  <2>1. s \in Nat /\ e \in Nat /\ s < e /\ e <= Len(nq)
    BY <1>2
  <2> HIDE DEF s, e
  <2>2. OriginalSpan(nq, s, e, query) \in Extents(Len(query))
    BY <1>1, <2>1, OriginalSpanIs
  <2> QED
    BY <2>2 DEF s, e
<1>4. OriginalSpan(nc, m.cs, m.cs + m.len, candidate) \in Extents(Len(candidate))
  <2> DEFINE s == m.cs
             e == m.cs + m.len
  <2>1. s \in Nat /\ e \in Nat /\ s < e /\ e <= Len(nc)
    BY <1>2
  <2> HIDE DEF s, e
  <2>2. OriginalSpan(nc, s, e, candidate) \in Extents(Len(candidate))
    BY <1>1, <2>1, OriginalSpanIs
  <2> QED
    BY <2>2 DEF s, e
<1>5. Same(Plain(nq), Plain(nc), m.qs, m.cs, m.len) \in Nat
  BY <1>2, SameIs
<1> QED
  BY <1>2, <1>3, <1>4, <1>5 DEF Build, Found

\* So is the whole of a short query, where the candidate has it.
LEMMA ShortExactIs ==
    ASSUME NEW query \in Seq(Chars), NEW candidate \in Seq(Chars),
           NEW nq \in Seq(Placed(query)), Len(nq) > 0,
           NEW nc \in Seq(Placed(candidate)), InOrder(nc)
    PROVE  ShortExact(nq, nc, query, candidate) \in Seq(Found(query, candidate))
<1> DEFINE q == Plain(nq)
           c == Plain(nc)
           l == Len(nq)
           places == Places(q, c, 0, l)
           row(k) == [query  |-> <<0, Len(query)>>,
                      source |-> OriginalSpan(nc, places[k], places[k] + l, candidate),
                      score  |-> <<1, 1>>]
           t == [k \in DOMAIN places |-> row(k)]
<1>1. /\ q \in Seq(Chars) /\ c \in Seq(Chars) /\ Len(c) = Len(nc) /\ Len(nc) \in Nat
      /\ Len(query) \in Nat /\ Len(candidate) \in Nat /\ l \in Nat
  BY PlainPlaced, SeqIs
<1>2. ShortExact(nq, nc, query, candidate) = t
  BY DEF ShortExact
<1>3. Len(places) \in Nat /\ DOMAIN places = 1 .. Len(places)
      /\ \A k \in DOMAIN places : places[k] \in 0 .. Len(c) - l
  <2> HIDE DEF q, c, l
  <2>1. 0 \in Nat /\ l > 0
    BY DEF l
  <2> QED
    BY <1>1, <2>1, PlacesAre
<1> HIDE DEF places
<1>4. <<0, Len(query)>> \in Extents(Len(query))
  <2>1. 1 \in DOMAIN nq
    <3>1. DOMAIN nq = 1 .. l
      BY SeqIs
    <3> QED
      BY <1>1, <3>1
  <2>2. nq[1] \in Placed(query)
    BY <2>1, SeqIs
  <2>3. nq[1].start \in Nat /\ nq[1].end \in Nat /\ nq[1].start < nq[1].end /\ nq[1].end <= Len(query)
    BY <2>2, PlacedIs
  <2> DEFINE a == nq[1].start
             b == nq[1].end
             n == Len(query)
  <2>4. a \in Nat /\ b \in Nat /\ n \in Nat /\ a < b /\ b <= n
    BY <1>1, <2>3
  <2> HIDE DEF a, b, n
  <2>5. 0 < n /\ n <= n /\ n \in Nat /\ 0 \in Nat
    BY <2>4
  <2> QED
    BY <2>5 DEF Extents, n
<1>5. ASSUME NEW k \in DOMAIN places
      PROVE  OriginalSpan(nc, places[k], places[k] + l, candidate) \in Extents(Len(candidate))
  <2> DEFINE s == places[k]
             e == places[k] + l
  <2>1. s \in Nat /\ e \in Nat /\ s < e /\ e <= Len(nc)
    <3>1. l > 0 /\ s \in 0 .. Len(nc) - l
      BY <1>1, <1>3
    <3> HIDE DEF l
    <3> QED
      BY <1>1, <3>1
  <2> HIDE DEF s, e
  <2>2. OriginalSpan(nc, s, e, candidate) \in Extents(Len(candidate))
    BY <1>1, <2>1, OriginalSpanIs
  <2> QED
    BY <2>2 DEF s, e
<1>6. \A k \in DOMAIN places : row(k) \in Found(query, candidate)
  BY <1>4, <1>5 DEF Found
<1> HIDE DEF row
<1>7. t \in [1 .. Len(places) -> Found(query, candidate)]
  BY <1>3, <1>6
<1> HIDE DEF t
<1>8. t \in Seq(Found(query, candidate))
  BY <1>3, <1>7, FunctionIsSeq
<1> QED
  BY <1>2, <1>8

\* The matches of at least the length of a passage: what is left of the seeds.
LEMMA RunsAre ==
    ASSUME NEW q \in Seq(Chars), NEW c \in Seq(Chars),
           NEW min \in Nat \ {0}, min <= Len(q), min <= Len(c)
    PROVE  LET seeds == FindSeeds(q, c, min)
               runs  == DedupeByQueryCoverage(Merge(Listed([k \in DOMAIN seeds |-> Extend(q, c, seeds[k])])))
           IN /\ runs \in Seq(Within(q, c))
              /\ \A g \in Nat : min <= g /\ Runs(q, c, g) # {} => Long(runs, g)
<1> DEFINE seeds == FindSeeds(q, c, min)
           t     == [k \in DOMAIN seeds |-> Extend(q, c, seeds[k])]
           runs  == DedupeByQueryCoverage(Merge(Listed([k \in DOMAIN seeds |-> Extend(q, c, seeds[k])])))
           R     == Within(q, c)
<1>1. seeds \in Seq(R) /\ \A g \in Nat : min <= g /\ Runs(q, c, g) # {} => Long(seeds, g)
  BY SeedsAreFound
<1>2. Len(q) \in Nat /\ Len(c) \in Nat
  BY SeqIs
<1> HIDE DEF seeds
<1>3. Len(seeds) \in Nat /\ DOMAIN seeds = 1 .. Len(seeds) /\ \A k \in DOMAIN seeds : seeds[k] \in R
  BY <1>1, SeqIs
<1>4. \A k \in DOMAIN seeds : t[k] \in R /\ t[k].len >= seeds[k].len
  BY <1>3, ExtendIs
<1>5. t \in [1 .. Len(seeds) -> R]
  BY <1>3, <1>4
<1> HIDE DEF t
<1>6. t \in Seq(R) /\ DOMAIN t = DOMAIN seeds
  <2> HIDE DEF R
  <2> QED
    BY <1>3, <1>5, FunctionIsSeq
<1>7. \A g \in Nat : Long(seeds, g) => Long(t, g)
  <2> SUFFICES ASSUME NEW g \in Nat, NEW k \in DOMAIN seeds, seeds[k].len >= g PROVE Long(t, g)
    BY DEF Long
  <2>1. t[k].len \in Int /\ seeds[k].len \in Int /\ t[k].len >= seeds[k].len
    BY <1>3, <1>4, WithinIs
  <2> DEFINE a == t[k].len
             b == seeds[k].len
  <2>2. a \in Int /\ b \in Int /\ a >= b /\ b >= g
    BY <2>1
  <2> HIDE DEF a, b
  <2>3. a >= g
    BY <2>2
  <2> QED
    BY <1>6, <2>3 DEF Long, a
<1>8. Merge(t) \in Seq(R) /\ \A g \in Nat : Long(t, g) => Long(Merge(t), g)
  BY <1>2, <1>6, MergeIs
<1> DEFINE kept == DedupeByQueryCoverage(Merge(t))
<1>9. kept \in Seq(R) /\ \A g \in Nat : Long(Merge(t), g) => Long(kept, g)
  <2> DEFINE x == Merge(t)
  <2>1. x \in Seq(R)
    BY <1>8
  <2> HIDE DEF x
  <2>2. /\ DedupeByQueryCoverage(x) \in Seq(R)
        /\ \A g \in Nat : Long(x, g) => Long(DedupeByQueryCoverage(x), g)
    BY <1>2, <2>1, DedupeIs
  <2> QED
    BY <2>2 DEF x
<1>10. Listed(t) = t
  BY <1>6, ListedIs
<1>11. runs = kept
  BY <1>10 DEF t
<1> HIDE DEF kept, runs
<1>12. runs \in Seq(R) /\ \A g \in Nat : min <= g /\ Runs(q, c, g) # {} => Long(runs, g)
  BY <1>1, <1>7, <1>8, <1>9, <1>11
<1> QED
  BY <1>12 DEF runs, seeds

\* The Chinese profile keeps effective characters only.
LEMMA ZhIsEffective ==
    ASSUME NEW q \in Seq(Letters)
    PROVE  EffectiveChars(q) = Len(q)
<1>1. Len(q) \in Nat /\ DOMAIN q = 1 .. Len(q) /\ \A k \in DOMAIN q : q[k] \in Letters
  BY SeqIs
<1>2. Letters \cap Ignored = {}
  BY DEF Letters, Ignored, Spaces, Punctuation, Stop, Newline
<1>3. {i \in DOMAIN q : q[i] \notin Ignored} = 1 .. Len(q)
  BY <1>1, <1>2
<1>4. Cardinality(1 .. Len(q)) = Len(q)
  <2>1. Cardinality(1 .. Len(q)) = IF 1 > Len(q) THEN 0 ELSE Len(q) - 1 + 1
    BY <1>1, FS_Interval
  <2> DEFINE n == Len(q)
             x == Cardinality(1 .. Len(q))
  <2>2. n \in Nat /\ x = IF 1 > n THEN 0 ELSE n - 1 + 1
    BY <1>1, <2>1
  <2> HIDE DEF n, x
  <2>3. x = n
    BY <2>2
  <2> QED
    BY <2>3 DEF x, n
<1> QED
  BY <1>3, <1>4 DEF EffectiveChars

\* Two texts share a run of g characters that the normalized texts both hold.
Share(profile, text, other, g) ==
    LET q == Plain(Normalize(profile, text))
        c == Plain(Normalize(profile, other))
    IN EffectiveChars(q) > 0 /\ EffectiveChars(c) > 0 /\ Runs(q, c, g) # {}

\* align returns passages of the two texts, and one at least if they share a
\* run as long as a seed and a passage.
LEMMA AlignIs ==
    ASSUME NEW policy, IsPolicy(policy),
           NEW query \in Seq(Chars), NEW candidate \in Seq(Chars)
    PROVE  /\ Align(policy, query, candidate) \in Seq(Found(query, candidate))
           /\ \A g \in Nat : /\ policy.seed <= g /\ policy.passage <= g
                             /\ Share(policy.profile, query, candidate, g)
                             => Align(policy, query, candidate) # <<>>
<1> DEFINE nq == Normalize(policy.profile, query)
           nc == Normalize(policy.profile, candidate)
           q  == Plain(nq)
           c  == Plain(nc)
           seeds == FindSeeds(q, c, policy.seed)
           runs  == DedupeByQueryCoverage(Merge(Listed([k \in DOMAIN seeds |-> Extend(q, c, seeds[k])])))
           places == {k \in DOMAIN runs : runs[k].len >= policy.passage}
           long  == Those(runs, places)
           rows  == [k \in DOMAIN long |-> Build(nq, nc, query, candidate, long[k])]
           F == Found(query, candidate)
           R == Within(q, c)
           min == policy.seed
           none  == \/ EffectiveChars(q) = 0 \/ Len(q) < policy.seed
                    \/ EffectiveChars(c) = 0 \/ Len(c) < policy.seed
           short == policy.profile = "zh" /\ EffectiveChars(q) \in policy.seed .. policy.passage - 1
<1>1. Align(policy, query, candidate) =
        IF none THEN <<>>
        ELSE IF short THEN ShortExact(nq, nc, query, candidate) ELSE Listed(rows)
  BY DEF Align, AlignNormal
<1>2. /\ nq \in Seq(Placed(query)) /\ InOrder(nq)
      /\ nc \in Seq(Placed(candidate)) /\ InOrder(nc)
  BY NormalizedPlaced
<1>3. /\ q \in Seq(Chars) /\ c \in Seq(Chars) /\ Len(q) = Len(nq) /\ Len(c) = Len(nc)
      /\ Len(nq) \in Nat /\ Len(nc) \in Nat
      /\ policy.profile = "zh" => q \in Seq(Letters)
  <2>1. q \in Seq(Chars) /\ c \in Seq(Chars) /\ Len(q) = Len(nq) /\ Len(c) = Len(nc)
        /\ Len(nq) \in Nat /\ Len(nc) \in Nat
    <3> HIDE DEF nq, nc
    <3> QED
      BY <1>2, PlainPlaced
  <2>2. policy.profile = "zh" => q \in Seq(Letters)
    BY NormalizedIs DEF IsPolicy
  <2> HIDE DEF q, c
  <2> QED
    BY <2>1, <2>2
<1>4. min \in Nat \ {0} /\ policy.passage \in Nat \ {0}
  BY DEF IsPolicy
<1>5. \A g \in Nat : Share(policy.profile, query, candidate, g) =>
         EffectiveChars(q) > 0 /\ EffectiveChars(c) > 0 /\ Runs(q, c, g) # {}
  BY DEF Share
<1> HIDE DEF min, nq, nc
<1>6. CASE none
  <2>1. Align(policy, query, candidate) = <<>>
    BY <1>1, <1>6
  <2>2. ASSUME NEW g \in Nat, policy.seed <= g, policy.passage <= g,
               Share(policy.profile, query, candidate, g)
        PROVE  FALSE
    <3>1. EffectiveChars(q) > 0 /\ EffectiveChars(c) > 0 /\ Runs(q, c, g) # {}
      BY <1>5, <2>2
    <3>2. Len(q) >= g /\ Len(c) >= g
      <4>1. PICK i \in 0 .. Len(q) - g, j \in 0 .. Len(c) - g : TRUE
        BY <3>1 DEF Runs
      <4> DEFINE a == Len(q)
                 b == Len(c)
      <4>2. a \in Nat /\ b \in Nat /\ i \in 0 .. a - g /\ j \in 0 .. b - g
        BY <1>3, <4>1
      <4> HIDE DEF a, b
      <4>3. a >= g /\ b >= g
        BY <4>2
      <4> QED
        BY <4>3 DEF a, b
    <3>3. ~(Len(q) < policy.seed) /\ ~(Len(c) < policy.seed)
      <4> DEFINE a == Len(q)
                 b == Len(c)
      <4>1. a \in Nat /\ b \in Nat /\ a >= g /\ b >= g /\ min \in Nat /\ min <= g
        BY <1>3, <1>4, <2>2, <3>2 DEF min
      <4> HIDE DEF a, b
      <4>2. ~(a < min) /\ ~(b < min)
        BY <4>1
      <4> QED
        BY <4>2 DEF a, b, min
    <3>4. EffectiveChars(q) # 0 /\ EffectiveChars(c) # 0
      <4>1. \A x : x > 0 => x # 0
        OBVIOUS
      <4> QED
        BY <3>1, <4>1
    <3> QED
      BY <1>6, <3>3, <3>4
  <2>3. <<>> \in Seq(F)
    BY EmptySeq
  <2> QED
    BY <2>1, <2>2, <2>3
<1>7. CASE ~none /\ short
  <2>1. Align(policy, query, candidate) = ShortExact(nq, nc, query, candidate)
    BY <1>1, <1>7
  <2>2. Len(nq) > 0
    <3> DEFINE a == Len(nq)
    <3>1. a \in Nat /\ ~(a < min) /\ min \in Nat \ {0}
      BY <1>3, <1>4, <1>7 DEF min
    <3> HIDE DEF a
    <3>2. a > 0
      BY <3>1
    <3> QED
      BY <3>2 DEF a
  <2>3. ShortExact(nq, nc, query, candidate) \in Seq(F)
    BY <1>2, <2>2, ShortExactIs
  <2>4. ASSUME NEW g \in Nat, policy.seed <= g, policy.passage <= g,
               Share(policy.profile, query, candidate, g)
        PROVE  FALSE
    <3>1. EffectiveChars(q) = Len(q)
      BY <1>3, <1>7, ZhIsEffective
    <3>2. PICK i \in 0 .. Len(q) - g, j \in 0 .. Len(c) - g : TRUE
      BY <1>5, <2>4 DEF Runs
    <3> DEFINE a == Len(q)
               p == policy.passage
    <3>3. a \in Nat /\ i \in 0 .. a - g /\ p \in Nat /\ p <= g /\ a \in policy.seed .. p - 1
      BY <1>3, <1>4, <1>7, <2>4, <3>1, <3>2
    <3> HIDE DEF a, p
    <3>4. a <= p - 1 /\ a >= g
      BY <3>3, <1>4 DEF min
    <3> QED
      BY <3>3, <3>4
  <2> QED
    BY <2>1, <2>3, <2>4
<1>8. CASE ~none /\ ~short
  <2>1. Align(policy, query, candidate) = Listed(rows)
    BY <1>1, <1>8
  <2>2. min <= Len(q) /\ min <= Len(c)
    <3> DEFINE a == Len(q)
               b == Len(c)
    <3>1. a \in Nat /\ b \in Nat /\ ~(a < min) /\ ~(b < min) /\ min \in Nat
      BY <1>3, <1>4, <1>8 DEF min
    <3> HIDE DEF a, b
    <3>2. min <= a /\ min <= b
      BY <3>1
    <3> QED
      BY <3>2 DEF a, b
  <2>3. runs \in Seq(R) /\ \A g \in Nat : min <= g /\ Runs(q, c, g) # {} => Long(runs, g)
    <3> DEFINE s == FindSeeds(q, c, min)
               r == DedupeByQueryCoverage(Merge(Listed([k \in DOMAIN s |-> Extend(q, c, s[k])])))
    <3>1. r \in Seq(Within(q, c)) /\ \A g \in Nat : min <= g /\ Runs(q, c, g) # {} => Long(r, g)
      <4> HIDE DEF q, c
      <4> QED
        BY <1>3, <1>4, <2>2, RunsAre
    <3>2. r = runs
      BY DEF min
    <3> HIDE DEF r, runs, q, c
    <3> QED
      BY <3>1, <3>2
  <2> HIDE DEF runs, q, c
  <2>4. places \in SUBSET DOMAIN runs
    OBVIOUS
  <2>5. /\ long \in Seq(R) /\ \A k \in places : runs[k] \in ToSet(long)
    <3> HIDE DEF places, R
    <3> QED
      BY <2>3, <2>4, ThoseHold
  <2>6. long \in Seq({m \in R : m.len >= policy.passage})
    <3> DEFINE T == {m \in R : m.len >= policy.passage}
    <3>1. \A k \in places : runs[k] \in T
      <4>1. \A k \in DOMAIN runs : runs[k] \in R
        BY <2>3, SeqIs
      <4> QED
        BY <4>1
    <3> HIDE DEF T, places, R
    <3> QED
      BY <2>3, <2>4, <3>1, ThoseHave DEF T
  <2> HIDE DEF long
  <2>7. Len(long) \in Nat /\ DOMAIN long = 1 .. Len(long)
        /\ \A k \in DOMAIN long : long[k] \in R /\ long[k].len >= policy.passage
    <3>1. Len(long) \in Nat /\ DOMAIN long = 1 .. Len(long)
          /\ \A k \in DOMAIN long : long[k] \in {m \in R : m.len >= policy.passage}
      BY <2>6, SeqIs
    <3> QED
      BY <3>1
  <2>8. ASSUME NEW k \in DOMAIN long
        PROVE  Build(nq, nc, query, candidate, long[k]) \in F
    <3> DEFINE m == long[k]
    <3>1. m \in R /\ m.len >= policy.passage
      BY <2>7
    <3> HIDE DEF m
    <3>2. m.len \in Nat
      BY <3>1, WithinIs
    <3> DEFINE a == m.len
               p == policy.passage
    <3>3. a >= p /\ a \in Nat /\ p \in Nat \ {0}
      BY <1>4, <3>1, <3>2
    <3> HIDE DEF a, p
    <3>4. a > 0
      BY <3>3
    <3>5. m.len > 0
      BY <3>4 DEF a
    <3>6. m \in Within(Plain(nq), Plain(nc))
      BY <3>1 DEF q, c
    <3>7. Build(nq, nc, query, candidate, m) \in F
      BY <1>2, <3>5, <3>6, BuildIs
    <3> QED
      BY <3>7 DEF m
  <2>9. rows \in [1 .. Len(long) -> F]
    <3> HIDE DEF F
    <3> QED
      BY <2>7, <2>8
  <2> HIDE DEF rows
  <2>10. rows \in Seq(F) /\ DOMAIN rows = DOMAIN long
    <3> HIDE DEF F
    <3> QED
      BY <2>7, <2>9, FunctionIsSeq
  <2>11. Listed(rows) = rows
    BY <2>10, ListedIs
  <2>12. ASSUME NEW g \in Nat, policy.seed <= g, policy.passage <= g,
                Share(policy.profile, query, candidate, g)
         PROVE  rows # <<>>
    <3>1. Long(runs, g)
      BY <1>5, <2>3, <2>12 DEF min
    <3>2. PICK k \in DOMAIN runs : runs[k].len >= g
      BY <3>1 DEF Long
    <3>3. runs[k].len \in Nat
      <4>1. runs[k] \in R
        BY <2>3, SeqIs
      <4> QED
        BY <4>1, WithinIs
    <3> DEFINE a == runs[k].len
               p == policy.passage
    <3>4. a >= g /\ a \in Nat /\ p \in Nat /\ p <= g
      BY <1>4, <2>12, <3>2, <3>3
    <3> HIDE DEF a, p
    <3>5. a >= p
      BY <3>4
    <3>6. k \in places
      BY <3>5 DEF a, p
    <3>7. runs[k] \in ToSet(long)
      BY <2>5, <3>6
    <3>8. DOMAIN long # {}
      BY <3>7 DEF ToSet
    <3>9. DOMAIN rows # {}
      BY <2>10, <3>8
    <3> QED
      BY <3>9
  <2> QED
    BY <2>1, <2>10, <2>11, <2>12
<1> QED
  BY <1>6, <1>7, <1>8

-----------------------------------------------------------------------------
(* The library.                                                            *)

\* The windows of a text with their fingerprints.
Probed(text) == {[start |-> w.start, text |-> w.text, prints |-> ChunkFingerprints(w.text)] :
                    w \in Windows(text)}

IsBook(book) == book.text \in Seq(Chars) /\ book.chunks \in Seq(Probed(book.text))

\* What the builder makes of a version is a text with probed windows of it.
LEMMA VersionIs ==
    ASSUME NEW lines \in Seq(Seq(Chars))
    PROVE  Version(lines).lines = lines /\ IsBook(Version(lines))
<1> DEFINE rows   == RowsOf(lines)
           text   == LoadText(rows)
           chunks == SlidingChunks(text)
           t      == [k \in DOMAIN chunks |->
                        [start |-> chunks[k].start, text |-> chunks[k].text,
                         prints |-> ChunkFingerprints(chunks[k].text)]]
<1>1. text \in Seq(Chars)
  BY RowsAre, LoadTextIs
<1>2. Version(lines) = [lines |-> lines, rows |-> rows, text |-> text, chunks |-> t]
  BY DEF Version, Built
<1> HIDE DEF text
<1>3. chunks \in Seq(Windows(text))
  BY <1>1, SlidingChunksAre
<1> HIDE DEF chunks
<1>4. Len(chunks) \in Nat /\ DOMAIN chunks = 1 .. Len(chunks) /\ \A k \in DOMAIN chunks : chunks[k] \in Windows(text)
  BY <1>3, SeqIs
<1>5. t \in [1 .. Len(chunks) -> Probed(text)]
  BY <1>4 DEF Probed
<1> HIDE DEF t
<1>6. t \in Seq(Probed(text))
  BY <1>4, <1>5, FunctionIsSeq
<1> QED
  BY <1>1, <1>2, <1>6 DEF IsBook

\* A probed window has its place in the text and its fingerprints.
LEMMA ProbedIs ==
    ASSUME NEW text, NEW chunk \in Probed(text)
    PROVE  /\ chunk.start \in Nat /\ chunk.text \in Seq(Chars)
           /\ chunk.prints = ChunkFingerprints(chunk.text)
           /\ chunk.start + Len(chunk.text) <= Len(text)
<1>1. PICK w \in Windows(text) :
         chunk = [start |-> w.start, text |-> w.text, prints |-> ChunkFingerprints(w.text)]
  BY DEF Probed
<1> QED
  BY <1>1 DEF Windows

LibraryOK ==
    /\ library = [d \in Documents |-> library[d]]
    /\ \A d \in Live : library[d].lines \in Drafts[d] /\ IsBook(library[d])

\* The windows of some documents, by their places.
Shelved(documents) ==
    {w \in documents \X Nat : w[2] \in DOMAIN library[w[1]].chunks}

\* The windows of a document, by their places.
LEMMA WindowsOfIs ==
    ASSUME LibraryOK, NEW d \in Live
    PROVE  /\ WindowsOf(d) \in Seq(Shelved({d}))
           /\ DOMAIN WindowsOf(d) = DOMAIN library[d].chunks
           /\ \A k \in DOMAIN library[d].chunks : WindowsOf(d)[k] = <<d, k>>
<1> DEFINE chunks == library[d].chunks
           t      == [k \in DOMAIN chunks |-> <<d, k>>]
<1>1. chunks \in Seq(Probed(library[d].text))
  BY DEF LibraryOK, IsBook
<1> HIDE DEF chunks
<1>2. Len(chunks) \in Nat /\ DOMAIN chunks = 1 .. Len(chunks)
  BY <1>1, SeqIs
<1>3. \A k \in DOMAIN chunks : <<d, k>> \in Shelved({d})
  <2> SUFFICES ASSUME NEW k \in DOMAIN chunks PROVE <<d, k>> \in Shelved({d})
    OBVIOUS
  <2>1. k \in Nat /\ k \in DOMAIN library[d].chunks
    BY <1>2 DEF chunks
  <2> QED
    BY <2>1 DEF Shelved
<1>4. t \in [1 .. Len(chunks) -> Shelved({d})]
  BY <1>2, <1>3
<1>5. \A k \in DOMAIN chunks : t[k] = <<d, k>>
  OBVIOUS
<1> HIDE DEF t
<1>6. t \in Seq(Shelved({d})) /\ DOMAIN t = DOMAIN chunks
  BY <1>2, <1>4, FunctionIsSeq
<1> QED
  BY <1>5, <1>6 DEF WindowsOf, t, chunks

\* Every window that shares a fingerprint with the probe is among them.
LEMMA SharingIs ==
    ASSUME LibraryOK, NEW probe, NEW documents \in SUBSET Live
    PROVE  /\ Sharing(probe, documents) \in Seq(Shelved(documents))
           /\ \A d \in documents : \A k \in DOMAIN library[d].chunks :
                 library[d].chunks[k].prints \cap probe # {} =>
                    <<d, k>> \in ToSet(Sharing(probe, documents))
<1> DEFINE at      == {i \in DOMAIN Titles : Titles[i] \in documents}
           among   == Those(Titles, at)
           lists   == [i \in DOMAIN among |-> WindowsOf(among[i])]
           windows == FlattenSeq(lists)
           hits    == {k \in DOMAIN windows :
                         library[windows[k][1]].chunks[windows[k][2]].prints \cap probe # {}}
           P       == Shelved(documents)
<1>1. Sharing(probe, documents) = Those(windows, hits)
  BY DEF Sharing
<1>2. Titles \in Seq(Documents) /\ \A d \in Documents : \E i \in DOMAIN Titles : Titles[i] = d
  BY ReportAssumption DEF Documents, ToSet
<1>3. among \in Seq(documents)
  <2>1. \A i \in at : Titles[i] \in documents
    OBVIOUS
  <2>2. at \in SUBSET DOMAIN Titles
    OBVIOUS
  <2> HIDE DEF at
  <2> QED
    BY <1>2, <2>1, <2>2, ThoseHave
<1>4. \A d \in documents : d \in ToSet(among)
  <2>1. at \in SUBSET DOMAIN Titles
    OBVIOUS
  <2>2. \A i \in at : Titles[i] \in ToSet(among)
    <3> HIDE DEF at
    <3> QED
      BY <1>2, <2>1, ThoseHold
  <2>3. \A d \in documents : d \in Documents
    BY DEF Live
  <2> HIDE DEF among
  <2> QED
    BY <1>2, <2>2, <2>3
<1> HIDE DEF among
<1>5. Len(among) \in Nat /\ DOMAIN among = 1 .. Len(among) /\ \A i \in DOMAIN among : among[i] \in documents
  BY <1>3, SeqIs
<1>6. \A i \in DOMAIN among :
         /\ WindowsOf(among[i]) \in Seq(P)
         /\ DOMAIN WindowsOf(among[i]) = DOMAIN library[among[i]].chunks
         /\ \A k \in DOMAIN library[among[i]].chunks : WindowsOf(among[i])[k] = <<among[i], k>>
  <2> SUFFICES ASSUME NEW i \in DOMAIN among
               PROVE  /\ WindowsOf(among[i]) \in Seq(P)
                      /\ DOMAIN WindowsOf(among[i]) = DOMAIN library[among[i]].chunks
                      /\ \A k \in DOMAIN library[among[i]].chunks :
                            WindowsOf(among[i])[k] = <<among[i], k>>
    OBVIOUS
  <2> DEFINE d == among[i]
             t == WindowsOf(d)
             p == Shelved({d})
  <2>1. d \in documents /\ d \in Live
    BY <1>5
  <2> HIDE DEF d
  <2>2. /\ t \in Seq(p)
        /\ DOMAIN t = DOMAIN library[d].chunks
        /\ \A k \in DOMAIN library[d].chunks : t[k] = <<d, k>>
    BY <2>1, WindowsOfIs
  <2>3. p \subseteq P
    BY <2>1 DEF Shelved
  <2>4. t \in Seq(P)
    <3> HIDE DEF t, p, P
    <3>1. Len(t) \in Nat /\ DOMAIN t = 1 .. Len(t) /\ \A k \in DOMAIN t : t[k] \in p
      BY <2>2, SeqIs
    <3>2. t = [k \in 1 .. Len(t) |-> t[k]]
      BY <2>2, <3>1
    <3>3. t \in [1 .. Len(t) -> P]
      BY <2>3, <3>1, <3>2
    <3> QED
      BY <3>1, <3>3, FunctionIsSeq
  <2> QED
    BY <2>2, <2>4 DEF d
<1>7. lists \in [1 .. Len(among) -> Seq(P)] /\ \A i \in DOMAIN among : lists[i] = WindowsOf(among[i])
  <2> HIDE DEF P
  <2> QED
    BY <1>5, <1>6
<1> HIDE DEF lists, P
<1>8. lists \in Seq(Seq(P)) /\ DOMAIN lists = DOMAIN among
  BY <1>5, <1>7, FunctionIsSeq
<1>9. /\ windows \in Seq(P)
      /\ \A i \in DOMAIN lists : \A k \in DOMAIN lists[i] : lists[i][k] \in ToSet(windows)
  <2>1. windows \in Seq(P)
    BY <1>8, FlatIs
  <2>2. \A i \in DOMAIN lists : \A k \in DOMAIN lists[i] :
           \E n \in DOMAIN windows : windows[n] = lists[i][k]
    BY <1>8, FlatIs
  <2> HIDE DEF windows
  <2> QED
    BY <2>1, <2>2 DEF ToSet
<1> HIDE DEF windows
<1>10. hits \in SUBSET DOMAIN windows
  OBVIOUS
<1>11. /\ Those(windows, hits) \in Seq(P)
       /\ \A n \in hits : windows[n] \in ToSet(Those(windows, hits))
  <2> HIDE DEF hits
  <2> QED
    BY <1>9, <1>10, ThoseHold
<1>12. ASSUME NEW d \in documents, NEW k \in DOMAIN library[d].chunks,
              library[d].chunks[k].prints \cap probe # {}
       PROVE  <<d, k>> \in ToSet(Those(windows, hits))
  <2>1. PICK i \in DOMAIN among : among[i] = d
    BY <1>4 DEF ToSet
  <2>2. lists[i][k] = <<d, k>> /\ k \in DOMAIN lists[i] /\ i \in DOMAIN lists
    BY <1>6, <1>7, <1>8, <2>1
  <2>3. PICK n \in DOMAIN windows : windows[n] = <<d, k>>
    BY <1>9, <2>2 DEF ToSet
  <2>4. windows[n][1] = d /\ windows[n][2] = k
    BY <2>3
  <2>5. n \in hits
    BY <1>12, <2>4
  <2> QED
    BY <1>11, <2>3, <2>5
<1> QED
  BY <1>1, <1>11, <1>12 DEF P

\* FoundIn has the passages of a document.
LEMMA FoundInIs ==
    ASSUME NEW S, NEW passages \in Seq(S), NEW d
    PROVE  /\ FoundIn(passages, d) \in Seq({p \in S : p.doc = d})
           /\ (\E p \in ToSet(passages) : p.doc = d) => FoundIn(passages, d) # <<>>
<1> DEFINE places == {k \in DOMAIN passages : passages[k].doc = d}
           t      == Those(passages, places)
           T      == {p \in S : p.doc = d}
<1>1. FoundIn(passages, d) = t
  BY DEF FoundIn
<1>2. places \in SUBSET DOMAIN passages
  OBVIOUS
<1>3. \A k \in places : passages[k] \in T
  <2>1. \A k \in DOMAIN passages : passages[k] \in S
    BY SeqIs
  <2> QED
    BY <2>1
<1>4. t \in Seq(T)
  <2> HIDE DEF places, T
  <2> QED
    BY <1>2, <1>3, ThoseHave
<1>5. \A k \in places : passages[k] \in ToSet(t)
  <2> HIDE DEF places
  <2> QED
    BY <1>2, ThoseHold
<1>6. ASSUME NEW p \in ToSet(passages), p.doc = d PROVE t # <<>>
  <2>1. PICK k \in DOMAIN passages : passages[k] = p
    BY DEF ToSet
  <2>2. k \in places
    BY <1>6, <2>1
  <2> HIDE DEF t
  <2>3. DOMAIN t # {}
    BY <1>5, <2>2 DEF ToSet
  <2> QED
    BY <2>3
<1> QED
  BY <1>1, <1>4, <1>6

\* dedupe_passage_indexes invents no passage.
LEMMA DedupePassagesAre ==
    ASSUME NEW S, NEW passages \in Seq(S)
    PROVE  DedupePassages(passages) \in Seq(S)
<1> DEFINE places == {i \in DOMAIN passages : i \in ToSet(Survivors(passages))}
<1>1. places \in SUBSET DOMAIN passages
  OBVIOUS
<1>2. DedupePassages(passages) = Those(passages, places)
  BY DEF DedupePassages
<1> HIDE DEF places
<1> QED
  BY <1>1, <1>2, ThoseAre

\* Guaranteed, of any policy.
LongEnough(policy) == Max({K + W - 1, policy.seed, policy.passage})

\* What is long enough is so for winnowing, for a seed and for a passage.
LEMMA LongEnoughIs ==
    ASSUME NEW policy, IsPolicy(policy)
    PROVE  /\ LongEnough(policy) \in Nat /\ LongEnough(policy) >= K + W - 1
           /\ policy.seed <= LongEnough(policy) /\ policy.passage <= LongEnough(policy)
<1> DEFINE a == K + W - 1
           b == policy.seed
           c == policy.passage
           S == {a, b, c}
           n == a + b + c
<1>1. a \in Nat /\ b \in Nat /\ c \in Nat
  BY ParamsAre DEF IsPolicy
<1> HIDE DEF a, b, c
<1>2. S \in SUBSET (0 .. n) /\ S # {} /\ 0 \in Int /\ n \in Int
  BY <1>1
<1>3. a \in S /\ b \in S /\ c \in S
  OBVIOUS
<1> DEFINE m == Max(S)
<1>5. LongEnough(policy) = m
  BY DEF LongEnough, a, b, c
<1> HIDE DEF S, n
<1>4. m \in S /\ \A x \in S : x <= m
  BY <1>2, GreatestAndLeast
<1> HIDE DEF m
<1>6. m \in Nat /\ a <= m /\ b <= m /\ c <= m
  BY <1>1, <1>2, <1>3, <1>4 DEF S
<1>7. m >= a
  BY <1>1, <1>6
<1> QED
  BY <1>5, <1>6, <1>7 DEF a, b, c

\* A window of the query, that is probed, shares a run with one of a document.
Shares(policy, text, chunk) ==
    IsDiscriminative(text) /\ Share(policy.profile, text, chunk.text, LongEnough(policy))

\* Such a window has a fingerprint in common with the document's.
LEMMA SharesPrints ==
    ASSUME NEW policy, IsPolicy(policy), NEW text \in Seq(Chars),
           NEW of, NEW chunk \in Probed(of), Shares(policy, text, chunk)
    PROVE  Fingerprint(policy.profile, text) \cap chunk.prints # {}
<1> DEFINE g == LongEnough(policy)
           profile == policy.profile
           other == chunk.text
<1>1. /\ profile \in {"zh", "generic"} /\ other \in Seq(Chars)
      /\ chunk.prints = ChunkFingerprints(other)
  BY ProbedIs DEF IsPolicy
<1>2. g \in Nat /\ g >= K + W - 1
  BY LongEnoughIs
<1>3. Runs(Plain(Normalize(profile, text)), Plain(Normalize(profile, other)), g) # {}
  BY DEF Shares, Share
<1> HIDE DEF g, profile, other
<1>4. Fingerprint(profile, text) \cap ChunkFingerprints(other) # {}
  BY <1>1, <1>2, <1>3, ChunkSharesPrints
<1> QED
  BY <1>1, <1>4 DEF profile

\* And align finds a passage of it.
LEMMA SharesAligns ==
    ASSUME NEW policy, IsPolicy(policy), NEW text \in Seq(Chars),
           NEW of, NEW chunk \in Probed(of), Shares(policy, text, chunk)
    PROVE  Align(policy, text, chunk.text) # <<>>
<1> DEFINE other == chunk.text
           g == LongEnough(policy)
<1>1. other \in Seq(Chars)
  BY ProbedIs
<1>2. Share(policy.profile, text, other, g)
  BY DEF Shares
<1>3. g \in Nat /\ policy.seed <= g /\ policy.passage <= g
  BY LongEnoughIs
<1> HIDE DEF other, g
<1>4. Align(policy, text, other) # <<>>
  BY <1>1, <1>2, <1>3, AlignIs
<1> QED
  BY <1>4 DEF other

-----------------------------------------------------------------------------
(* What one candidate adds to the report.                                  *)

\* Passages, and candidates not yet aligned, of a check of a document.
Hits(source, text) ==
    [doc : Documents \ {source}, score : Nat \X Nat, query : Extents(Len(text)),
     source : Nat \X Nat]

Tasks(source) == [doc : Documents \ {source}, chunk : UNION {Probed(t) : t \in Seq(Chars)}]

\* A list is its first element and the others.
LEMMA HeadTail ==
    ASSUME NEW S, NEW s \in Seq(S), s # <<>>
    PROVE  /\ Head(s) \in S /\ Tail(s) \in Seq(S)
           /\ ToSet(s) = {Head(s)} \cup ToSet(Tail(s))
<1> DEFINE n == Len(s)
           t == Tail(s)
<1>1. n \in Nat /\ n # 0 /\ DOMAIN s = 1 .. n /\ \A k \in DOMAIN s : s[k] \in S
  BY SeqIs, EmptySeq
<1>2. Head(s) = s[1] /\ 1 \in DOMAIN s
  BY <1>1
<1>3. t \in Seq(S) /\ Len(t) = n - 1 /\ \A i \in 1 .. n - 1 : t[i] = s[i + 1]
  BY HeadTailProperties
<1> HIDE DEF t, n
<1>4. DOMAIN t = 1 .. n - 1
  BY <1>3, SeqIs
<1>5. \A i \in DOMAIN t : i + 1 \in DOMAIN s /\ t[i] = s[i + 1]
  BY <1>1, <1>3, <1>4
<1>6. \A k \in DOMAIN s : k = 1 \/ (k - 1 \in DOMAIN t /\ t[k - 1] = s[k])
  <2> SUFFICES ASSUME NEW k \in DOMAIN s, k # 1 PROVE k - 1 \in DOMAIN t /\ t[k - 1] = s[k]
    OBVIOUS
  <2> DEFINE i == k - 1
  <2>1. i \in DOMAIN t /\ i + 1 = k
    BY <1>1, <1>4
  <2> HIDE DEF i
  <2>2. t[i] = s[k]
    BY <1>5, <2>1
  <2> QED
    BY <2>1, <2>2 DEF i
<1>7. ToSet(s) = {Head(s)} \cup ToSet(t)
  BY <1>2, <1>5, <1>6 DEF ToSet
<1> QED
  BY <1>1, <1>2, <1>3, <1>7 DEF t

\* An extent of a window is one of the text.
LEMMA ShiftedIs ==
    ASSUME NEW n \in Nat, NEW l \in Nat, NEW at \in Nat, at + l <= n, NEW x \in Extents(l)
    PROVE  <<at + x[1], at + x[2]>> \in Extents(n) /\ <<at + x[1], at + x[2]>> \in Nat \X Nat
<1>1. x[1] \in Nat /\ x[2] \in Nat /\ x[1] < x[2] /\ x[2] <= l
  BY DEF Extents
<1> DEFINE a == x[1]
           b == x[2]
<1>2. a \in Nat /\ b \in Nat /\ a < b /\ b <= l
  BY <1>1
<1> HIDE DEF a, b
<1>3. at + a \in Nat /\ at + b \in Nat /\ at + a < at + b /\ at + b <= n
  BY <1>2
<1>4. <<at + a, at + b>> \in Extents(n) /\ <<at + a, at + b>> \in Nat \X Nat
  BY <1>3 DEF Extents
<1> QED
  BY <1>4 DEF a, b

\* What a candidate's passages are in the two documents.
Added(w, task, passages) == [k \in DOMAIN passages |-> InDocuments(w, task, passages[k])]

\* The passages of a candidate lie in the query and in the document it is a
\* window of; if align found one, there is one of that document.
LEMMA AddedAre ==
    ASSUME NEW source, NEW text \in Seq(Chars), NEW w \in Windows(text), NEW task \in Tasks(source),
           NEW passages \in Seq(Found(w.text, task.chunk.text))
    PROVE  /\ Added(w, task, passages) \in Seq(Hits(source, text))
           /\ \A p \in ToSet(Added(w, task, passages)) : p.doc = task.doc
           /\ \A of \in Seq(Chars) : task.chunk \in Probed(of) =>
                 \A p \in ToSet(Added(w, task, passages)) : p.source \in Extents(Len(of))
           /\ passages # <<>> => \E p \in ToSet(Added(w, task, passages)) : p.doc = task.doc
<1> DEFINE added == [k \in DOMAIN passages |-> InDocuments(w, task, passages[k])]
           F == Found(w.text, task.chunk.text)
           H == Hits(source, text)
           n == Len(text)
           lw == Len(w.text)
           lc == Len(task.chunk.text)
<1>1. /\ Len(passages) \in Nat /\ DOMAIN passages = 1 .. Len(passages)
      /\ \A k \in DOMAIN passages : passages[k] \in F
  BY SeqIs
<1>2. w.text \in Seq(Chars) /\ w.start \in Nat /\ w.start + lw <= n
  BY DEF Windows
<1>3. n \in Nat /\ lw \in Nat
  BY <1>2, SeqIs
<1>4. task.doc \in Documents \ {source}
  BY DEF Tasks
<1>5. PICK t0 \in Seq(Chars) : task.chunk \in Probed(t0)
  BY DEF Tasks
<1>6. task.chunk.text \in Seq(Chars) /\ task.chunk.start \in Nat
  BY <1>5, ProbedIs
<1>7. lc \in Nat
  BY <1>6, SeqIs
<1>8. ASSUME NEW p \in F
      PROVE  /\ InDocuments(w, task, p) \in H
             /\ InDocuments(w, task, p).doc = task.doc
             /\ \A of \in Seq(Chars) : task.chunk \in Probed(of) =>
                   InDocuments(w, task, p).source \in Extents(Len(of))
  <2> DEFINE x == <<w.start + p.query[1], w.start + p.query[2]>>
             y == <<task.chunk.start + p.source[1], task.chunk.start + p.source[2]>>
             hit == [doc |-> task.doc, score |-> p.score, query |-> x, source |-> y]
  <2>1. p.query \in Extents(lw) /\ p.source \in Extents(lc) /\ p.score \in Nat \X Nat
    BY DEF Found
  <2>2. x \in Extents(n)
    <3> HIDE DEF lw, n
    <3> QED
      BY <1>2, <1>3, <2>1, ShiftedIs
  <2>3. \A of \in Seq(Chars) : task.chunk \in Probed(of) => y \in Extents(Len(of))
    <3> SUFFICES ASSUME NEW of \in Seq(Chars), task.chunk \in Probed(of)
                 PROVE  y \in Extents(Len(of))
      OBVIOUS
    <3>1. task.chunk.start + lc <= Len(of) /\ Len(of) \in Nat
      BY ProbedIs, SeqIs
    <3> HIDE DEF lc
    <3> QED
      BY <1>6, <1>7, <2>1, <3>1, ShiftedIs
  <2>4. y \in Nat \X Nat
    <3> DEFINE m == task.chunk.start + lc
    <3>1. m \in Nat /\ task.chunk.start + lc <= m
      BY <1>6, <1>7
    <3> HIDE DEF lc, m
    <3> QED
      BY <1>6, <1>7, <2>1, <3>1, ShiftedIs
  <2>5. InDocuments(w, task, p) = hit
    BY DEF InDocuments
  <2> HIDE DEF x, y
  <2>6. hit \in H /\ hit.doc = task.doc /\ hit.source = y
    BY <1>4, <2>1, <2>2, <2>4 DEF Hits
  <2> HIDE DEF hit
  <2> QED
    BY <2>3, <2>5, <2>6
<1>9. \A k \in DOMAIN passages :
         /\ added[k] \in H /\ added[k].doc = task.doc
         /\ \A of \in Seq(Chars) : task.chunk \in Probed(of) => added[k].source \in Extents(Len(of))
  BY <1>1, <1>8
<1>10. added \in [1 .. Len(passages) -> H]
  <2> HIDE DEF H
  <2> QED
    BY <1>1, <1>9
<1> HIDE DEF added
<1>11. added \in Seq(H) /\ DOMAIN added = DOMAIN passages
  <2> HIDE DEF H
  <2> QED
    BY <1>1, <1>10, FunctionIsSeq
<1>12. \A p \in ToSet(added) : \E k \in DOMAIN passages : p = added[k]
  BY <1>11 DEF ToSet
<1>13. passages # <<>> => \E p \in ToSet(added) : p.doc = task.doc
  <2> SUFFICES ASSUME passages # <<>> PROVE \E p \in ToSet(added) : p.doc = task.doc
    OBVIOUS
  <2>1. Len(passages) # 0
    BY EmptySeq, SeqIs
  <2>2. 1 \in DOMAIN passages
    BY <1>1, <2>1
  <2>3. added[1] \in ToSet(added)
    BY <1>11, <2>2 DEF ToSet
  <2> QED
    BY <1>9, <2>2, <2>3
<1>14. \A p \in ToSet(added) : p.doc = task.doc
  BY <1>9, <1>12
<1>15. \A of \in Seq(Chars) : task.chunk \in Probed(of) =>
          \A p \in ToSet(added) : p.source \in Extents(Len(of))
  BY <1>9, <1>12
<1> QED
  BY <1>11, <1>13, <1>14, <1>15 DEF added, Added

-----------------------------------------------------------------------------
(* The invariant.                                                          *)

Fields == {"stage", "text", "policy", "source", "chunks", "checked", "among",
           "stopped", "todo", "found", "cancelled"}

InLibrary(t) == t.doc \in Live => t.chunk \in ToSet(library[t.doc].chunks)

InSource(p) == p.doc \in Live => p.source \in Extents(Len(library[p.doc].text))

Named(d) == \E p \in ToSet(check.found) : p.doc = d

Pending(d, chunk) == \E t \in ToSet(check.todo) : t.doc = d /\ t.chunk = chunk

Copied(k, chunk) == Shares(check.policy, check.chunks[k].text, chunk)

\* What a check is given at its start and keeps.
Prepared ==
    /\ Fields \subseteq DOMAIN check
    /\ check.text \in Seq(Chars) /\ IsPolicy(check.policy)
    /\ check.chunks = SlidingChunks(check.text)
    /\ Live \subseteq check.among

\* How far it is, and what it has found.
Tried ==
    /\ check.checked \in 0 .. Len(check.chunks)
    /\ check.stage = "aligning" => check.checked < Len(check.chunks)
    /\ check.todo \in Seq(Tasks(check.source))
    /\ \A t \in ToSet(check.todo) : InLibrary(t)
    /\ check.found \in Seq(Hits(check.source, check.text))
    /\ \A p \in ToSet(check.found) : InSource(p)

\* The documents copied in the windows behind have been found.
CheckedAre ==
    lossy = {} => \A d \in Live \ {check.source} : \A chunk \in ToSet(library[d].chunks) :
        \A k \in 1 .. check.checked : Copied(k, chunk) => Named(d)

\* Those copied in this window have been found, or are still to be aligned.
CurrentIs ==
    lossy = {} /\ check.stage = "aligning" =>
        \A d \in Live \ {check.source} : \A chunk \in ToSet(library[d].chunks) :
            Copied(check.checked + 1, chunk) => Named(d) \/ Pending(d, chunk)

Working == check.stage \in {"probing", "aligning", "persisting"}

Underway == Working => Prepared /\ Tried /\ CheckedAre /\ CurrentIs

Waiting ==
    check.stage = "queued" /\ check.source = None =>
        check.text \in Queries /\ IsPolicy(check.policy)

IInv == LibraryOK /\ TypeOK /\ Waiting /\ Underway /\ CopiedDocumentIsNamed

-----------------------------------------------------------------------------

\* All that a step has to keep before the check is done.
LEMMA BeforeTheEnd ==
    ASSUME LibraryOK', Waiting', Underway', cancel' \in BOOLEAN, expired' \in BOOLEAN,
           lossy' \subseteq {"time", "common", "limit", "marks"},
           check'.stage \in {"none", "queued", "failed", "probing", "aligning", "persisting"}
    PROVE  IInv'
<1>1. ~Done'
  BY DEF Done
<1>2. TypeOK'
  <2>1. \A d \in Documents : library'[d] # None => library'[d].lines \in Drafts[d]
    BY DEF LibraryOK, Live
  <2> QED
    BY <1>1, <2>1 DEF TypeOK
<1>3. CopiedDocumentIsNamed'
  BY <1>1 DEF CopiedDocumentIsNamed, Thorough
<1> QED
  BY <1>2, <1>3 DEF IInv

\* Nothing happens to the library.
LEMMA LibraryKept ==
    ASSUME LibraryOK, UNCHANGED library
    PROVE  LibraryOK' /\ Live' = Live
<1>1. Live' = Live
  BY DEF Live
<1>2. LibraryOK'
  BY <1>1 DEF LibraryOK
<1> QED
  BY <1>1, <1>2

\* A library of built documents and no check.
LEMMA InitIs == Init => IInv
<1> SUFFICES ASSUME Init PROVE IInv
  OBVIOUS
<1>1. PICK f \in [Documents -> Texts] :
         (\A d \in Documents : f[d] \in Drafts[d]) /\ library = [d \in Documents |-> Version(f[d])]
  BY DEF Init
<1>2. \A d \in Documents : library[d].lines \in Drafts[d] /\ IsBook(library[d])
  <2> SUFFICES ASSUME NEW d \in Documents PROVE library[d].lines \in Drafts[d] /\ IsBook(library[d])
    OBVIOUS
  <2>1. f[d] \in Seq(Seq(Chars)) /\ f[d] \in Drafts[d]
    BY <1>1, ReportAssumption DEF Documents
  <2>2. library[d] = Version(f[d])
    BY <1>1
  <2> QED
    BY <2>1, <2>2, VersionIs
<1>3. library = [d \in Documents |-> library[d]]
  BY <1>1
<1>4. LibraryOK
  BY <1>2, <1>3 DEF LibraryOK, Live
<1>5. check.stage = "none" /\ cancel = FALSE /\ expired = FALSE /\ lossy = {}
  BY DEF Init, NoCheck
<1>6. TypeOK
  BY <1>2, <1>5 DEF TypeOK, Done
<1>7. Waiting /\ Underway /\ CopiedDocumentIsNamed
  BY <1>5 DEF Waiting, Underway, Working, CopiedDocumentIsNamed, Thorough, Done
<1> QED
  BY <1>4, <1>6, <1>7 DEF IInv

\* A window of the query.
LEMMA ChunkIs ==
    ASSUME Prepared, NEW k \in 1 .. Len(check.chunks)
    PROVE  /\ check.chunks[k] \in Windows(check.text)
           /\ check.chunks[k].text \in Seq(Chars)
<1>1. check.chunks \in Seq(Windows(check.text))
  BY SlidingChunksAre DEF Prepared
<1>2. check.chunks[k] \in Windows(check.text)
  BY <1>1, SeqIs
<1> QED
  BY <1>2 DEF Windows

\* The windows a document is given, and what the library has of them.
LEMMA BookIs ==
    ASSUME LibraryOK, NEW d \in Live
    PROVE  /\ d \in Documents /\ library[d].text \in Seq(Chars)
           /\ library[d].chunks \in Seq(Probed(library[d].text))
           /\ \A chunk \in ToSet(library[d].chunks) : chunk \in Probed(library[d].text)
<1>1. d \in Documents /\ library[d].text \in Seq(Chars) /\ library[d].chunks \in Seq(Probed(library[d].text))
  BY DEF LibraryOK, IsBook, Live
<1> DEFINE s == library[d].chunks
           S == Probed(library[d].text)
<1>2. s \in Seq(S)
  BY <1>1
<1>3. \A i \in DOMAIN s : s[i] \in S
  <2> HIDE DEF S, s
  <2> QED
    BY <1>2, SeqIs
<1> QED
  BY <1>1, <1>3 DEF ToSet

-----------------------------------------------------------------------------
(* The steps of the run.                                                   *)


\* run, up to the first window: nothing is checked yet.
LEMMA StartKeeps == ASSUME IInv, Start PROVE IInv'
<1>1. LibraryOK' /\ Live' = Live
  BY LibraryKept DEF IInv, Start
<1>2. /\ cancel' \in BOOLEAN /\ expired' \in BOOLEAN
      /\ lossy' \subseteq {"time", "common", "limit", "marks"}
  BY DEF IInv, TypeOK, Start
<1>3. CASE Unresolvable(check)
  <2>1. check'.stage = "failed"
    BY <1>3 DEF Start
  <2>2. Waiting' /\ Underway'
    BY <2>1 DEF Waiting, Underway, Working
  <2> QED
    BY <1>1, <1>2, <2>1, <2>2, BeforeTheEnd
<1>4. CASE ~Unresolvable(check)
  <2> DEFINE text   == IF check.source = None THEN check.text ELSE library[check.source].text
             policy == IF check.source = None THEN check.policy ELSE ResolvePolicy(text, "auto")
             next   == [stage   |-> "probing", text |-> text, policy |-> policy,
                        source  |-> check.source,
                        chunks  |-> SlidingChunks(text), checked |-> 0,
                        among   |-> Live, stopped |-> StopFingerprints(Cardinality(Live)),
                        todo    |-> <<>>, found |-> <<>>, cancelled |-> FALSE]
  <2>1. check' = next
    BY <1>4 DEF Start
  <2>2. text \in Seq(Chars) /\ IsPolicy(policy)
    <3>1. CASE check.source = None
      BY <3>1, ReportAssumption DEF IInv, Waiting, Start
    <3>2. CASE check.source # None
      <4>1. check.source \in Live
        BY <1>4, <3>2 DEF Unresolvable
      <4> QED
        BY <3>2, <4>1, BookIs, PolicyIs DEF IInv
    <3> QED
      BY <3>1, <3>2
  <2> HIDE DEF text, policy
  <2>3. /\ Fields \subseteq DOMAIN check' /\ check'.stage = "probing" /\ check'.text = text
        /\ check'.policy = policy /\ check'.chunks = SlidingChunks(text)
        /\ check'.checked = 0 /\ check'.among = Live /\ check'.todo = <<>> /\ check'.found = <<>>
    BY <2>1 DEF Fields
  <2> HIDE DEF next
  <2>4. Prepared'
    BY <1>1, <2>2, <2>3 DEF Prepared
  <2>5. Len(SlidingChunks(text)) \in Nat
    BY <2>2, SlidingChunksAre, SeqIs
  <2>6. Tried'
    <3>1. ToSet(<<>>) = {}
      BY DEF ToSet
    <3> QED
      BY <2>3, <2>5, <3>1 DEF Tried
  <2>7. CheckedAre'
    BY <2>3 DEF CheckedAre
  <2>8. CurrentIs'
    BY <2>3 DEF CurrentIs
  <2>9. Waiting' /\ Underway'
    BY <2>3, <2>4, <2>6, <2>7, <2>8 DEF Waiting, Underway
  <2> QED
    BY <1>1, <1>2, <2>3, <2>9, BeforeTheEnd
<1> QED
  BY <1>3, <1>4

\* What the steps between the first window and the report leave alone.
Unmoved ==
    /\ UNCHANGED <<library, cancel, expired>>
    /\ Fields \subseteq DOMAIN check'
    /\ check'.text = check.text /\ check'.policy = check.policy
    /\ check'.source = check.source /\ check'.chunks = check.chunks
    /\ check'.among = check.among
    /\ lossy \subseteq lossy' /\ lossy' \subseteq {"time", "common", "limit", "marks"}
    /\ check'.stage \in {"probing", "aligning", "persisting"}

\* It is enough to look at what was tried.
LEMMA UnmovedKeeps ==
    ASSUME IInv, Working, Unmoved, Tried', CheckedAre', CurrentIs'
    PROVE  IInv'
<1>1. LibraryOK' /\ Live' = Live
  BY LibraryKept DEF IInv, Unmoved
<1>2. Prepared'
  BY <1>1 DEF Prepared, Unmoved, IInv, Underway
<1>3. Waiting' /\ Underway'
  BY <1>2 DEF Unmoved, Waiting, Underway
<1>4. cancel' \in BOOLEAN /\ expired' \in BOOLEAN
  BY DEF IInv, TypeOK, Unmoved
<1> QED
  BY <1>1, <1>3, <1>4, BeforeTheEnd DEF Unmoved

\* A step that finds nothing.
LEMMA NothingFound ==
    ASSUME IInv, Working, Unmoved, check'.found = check.found
    PROVE  /\ Live' = Live /\ (lossy' = {} => lossy = {})
           /\ \A d : Named(d)' <=> Named(d)
           /\ \A k, chunk : Copied(k, chunk)' <=> Copied(k, chunk)
           /\ \A d : library'[d] = library[d]
           /\ check'.found \in Seq(Hits(check'.source, check'.text))
           /\ \A p \in ToSet(check'.found) : InSource(p)'
<1>1. LibraryOK' /\ Live' = Live
  BY LibraryKept DEF IInv, Unmoved
<1>2. Tried
  BY DEF IInv, Underway
<1>3. \A p : InSource(p)' <=> InSource(p)
  BY <1>1 DEF InSource, Unmoved
<1> QED
  BY <1>1, <1>2, <1>3 DEF Unmoved, Named, Copied, Tried

\* The worker stops, or has seen all windows.
LEMMA StopKeeps == ASSUME IInv, StopEarly \/ AllChecked PROVE IInv'
<1>1. Working /\ Prepared /\ Tried /\ CheckedAre
  BY DEF IInv, Underway, Working, StopEarly, AllChecked, More
<1>2. /\ Fields \subseteq DOMAIN check' /\ check'.stage = "persisting"
      /\ check'.text = check.text /\ check'.policy = check.policy
      /\ check'.source = check.source /\ check'.chunks = check.chunks
      /\ check'.among = check.among /\ check'.checked = check.checked
      /\ check'.todo = check.todo /\ check'.found = check.found
  BY <1>1 DEF StopEarly, AllChecked, Prepared, Fields
<1>3. UNCHANGED <<library, cancel, expired, lossy>>
  BY DEF StopEarly, AllChecked
<1>4. lossy \subseteq {"time", "common", "limit", "marks"}
  BY DEF IInv, TypeOK
<1>5. Unmoved
  BY <1>2, <1>3, <1>4 DEF Unmoved
<1>6. /\ Live' = Live /\ \A d : Named(d)' <=> Named(d)
      /\ \A k, chunk : Copied(k, chunk)' <=> Copied(k, chunk)
      /\ check'.found \in Seq(Hits(check'.source, check'.text))
      /\ \A p \in ToSet(check'.found) : InSource(p)'
  BY <1>1, <1>2, <1>5, NothingFound
<1>7. \A t : InLibrary(t)' <=> InLibrary(t)
  BY <1>3, <1>6 DEF InLibrary
<1>8. Tried'
  BY <1>1, <1>2, <1>6, <1>7 DEF Tried
<1>9. CheckedAre'
  BY <1>1, <1>2, <1>3, <1>6 DEF CheckedAre
<1>10. CurrentIs'
  BY <1>2 DEF CurrentIs
<1> QED
  BY <1>1, <1>5, <1>8, <1>9, <1>10, UnmovedKeeps

\* A window that is not probed shares no run that counts.
LEMMA SkipKeeps == ASSUME IInv, SkipChunk PROVE IInv'
<1>1. Working /\ Prepared /\ Tried /\ CheckedAre
  BY DEF IInv, Underway, Working, SkipChunk, More
<1>2. /\ Fields \subseteq DOMAIN check' /\ check'.stage = "probing" /\ check.stage = "probing"
      /\ check'.text = check.text /\ check'.policy = check.policy
      /\ check'.source = check.source /\ check'.chunks = check.chunks
      /\ check'.among = check.among /\ check'.checked = check.checked + 1
      /\ check'.todo = check.todo /\ check'.found = check.found
  BY <1>1 DEF SkipChunk, More, Prepared, Fields
<1>3. UNCHANGED <<library, cancel, expired, lossy>>
  BY DEF SkipChunk
<1>4. lossy \subseteq {"time", "common", "limit", "marks"}
  BY DEF IInv, TypeOK
<1>5. Unmoved
  BY <1>2, <1>3, <1>4 DEF Unmoved
<1>6. /\ Live' = Live /\ \A d : Named(d)' <=> Named(d)
      /\ \A k, chunk : Copied(k, chunk)' <=> Copied(k, chunk)
      /\ check'.found \in Seq(Hits(check'.source, check'.text))
      /\ \A p \in ToSet(check'.found) : InSource(p)'
  BY <1>1, <1>2, <1>5, NothingFound
<1>7. \A t : InLibrary(t)' <=> InLibrary(t)
  BY <1>3, <1>6 DEF InLibrary
<1>8. check.checked < Len(check.chunks) /\ check.checked \in Nat /\ Len(check.chunks) \in Nat
  <2>1. Len(check.chunks) \in Nat
    BY <1>1, SlidingChunksAre, SeqIs DEF Prepared
  <2> QED
    BY <1>1, <2>1 DEF SkipChunk, More, Tried
<1>9. Tried'
  BY <1>1, <1>2, <1>6, <1>7, <1>8 DEF Tried
<1>10. \A chunk : ~Copied(check.checked + 1, chunk)
  BY DEF SkipChunk, Chunk, Copied, Shares
<1>11. \A k \in 1 .. check'.checked : k \in 1 .. check.checked \/ k = check.checked + 1
  BY <1>2, <1>8
<1>12. CheckedAre'
  BY <1>1, <1>2, <1>3, <1>6, <1>10, <1>11 DEF CheckedAre
<1>13. CurrentIs'
  BY <1>2 DEF CurrentIs
<1> QED
  BY <1>1, <1>5, <1>9, <1>12, <1>13, UnmovedKeeps

\* With no candidate left, the window is checked.
LEMMA EndKeeps == ASSUME IInv, EndChunk PROVE IInv'
<1>1. Working /\ Prepared /\ Tried /\ CheckedAre /\ CurrentIs
  BY DEF IInv, Underway, Working, EndChunk
<1>2. /\ Fields \subseteq DOMAIN check' /\ check'.stage = "probing" /\ check.stage = "aligning"
      /\ check'.text = check.text /\ check'.policy = check.policy
      /\ check'.source = check.source /\ check'.chunks = check.chunks
      /\ check'.among = check.among /\ check'.checked = check.checked + 1
      /\ check'.todo = check.todo /\ check'.found = check.found
  BY <1>1 DEF EndChunk, Prepared, Fields
<1>3. UNCHANGED <<library, cancel, expired, lossy>> /\ check.todo = <<>>
  BY DEF EndChunk
<1>4. lossy \subseteq {"time", "common", "limit", "marks"}
  BY DEF IInv, TypeOK
<1>5. Unmoved
  BY <1>2, <1>3, <1>4 DEF Unmoved
<1>6. /\ Live' = Live /\ \A d : Named(d)' <=> Named(d)
      /\ \A k, chunk : Copied(k, chunk)' <=> Copied(k, chunk)
      /\ check'.found \in Seq(Hits(check'.source, check'.text))
      /\ \A p \in ToSet(check'.found) : InSource(p)'
  BY <1>1, <1>2, <1>5, NothingFound
<1>7. \A t : InLibrary(t)' <=> InLibrary(t)
  BY <1>3, <1>6 DEF InLibrary
<1>8. check.checked < Len(check.chunks) /\ check.checked \in Nat /\ Len(check.chunks) \in Nat
  <2>1. Len(check.chunks) \in Nat
    BY <1>1, SlidingChunksAre, SeqIs DEF Prepared
  <2> QED
    BY <1>1, <1>2, <2>1 DEF Tried
<1>9. Tried'
  BY <1>1, <1>2, <1>6, <1>7, <1>8 DEF Tried
<1>10. \A d, chunk : ~Pending(d, chunk)
  BY <1>3 DEF Pending, ToSet
<1>11. \A k \in 1 .. check'.checked : k \in 1 .. check.checked \/ k = check.checked + 1
  BY <1>2, <1>8
<1>12. CheckedAre'
  BY <1>1, <1>2, <1>3, <1>6, <1>10, <1>11 DEF CheckedAre, CurrentIs
<1>13. CurrentIs'
  BY <1>2 DEF CurrentIs
<1> QED
  BY <1>1, <1>5, <1>9, <1>12, <1>13, UnmovedKeeps

\* Out of time, the check is no longer thorough.
LEMMA AbandonKeeps == ASSUME IInv, Abandon PROVE IInv'
<1>1. Working /\ Prepared /\ Tried /\ CheckedAre
  BY DEF IInv, Underway, Working, Abandon
<1>2. /\ Fields \subseteq DOMAIN check' /\ check'.stage = "aligning" /\ check.stage = "aligning"
      /\ check'.text = check.text /\ check'.policy = check.policy
      /\ check'.source = check.source /\ check'.chunks = check.chunks
      /\ check'.among = check.among /\ check'.checked = check.checked
      /\ check'.todo = <<>> /\ check'.found = check.found
  BY <1>1 DEF Abandon, Prepared, Fields
<1>3. UNCHANGED <<library, cancel, expired>> /\ lossy' = lossy \cup {"time"}
  BY DEF Abandon
<1>4. lossy \subseteq {"time", "common", "limit", "marks"}
  BY DEF IInv, TypeOK
<1>5. Unmoved
  BY <1>2, <1>3, <1>4 DEF Unmoved
<1>6. /\ check'.found \in Seq(Hits(check'.source, check'.text))
      /\ \A p \in ToSet(check'.found) : InSource(p)'
  BY <1>1, <1>2, <1>5, NothingFound
<1>7. ToSet(<<>>) = {}
  BY DEF ToSet
<1>8. Tried'
  BY <1>1, <1>2, <1>6, <1>7 DEF Tried
<1>9. lossy' # {}
  BY <1>3
<1>10. CheckedAre' /\ CurrentIs'
  BY <1>9 DEF CheckedAre, CurrentIs
<1> QED
  BY <1>1, <1>5, <1>8, <1>10, UnmovedKeeps

\* The candidates of a window, each with the document's window it is.
LEMMA TasksAre ==
    ASSUME LibraryOK, NEW source, NEW D \in SUBSET (Live \ {source}), NEW all \in Seq(Shelved(D))
    PROVE  LET todo == [i \in DOMAIN Taken(all, TopK) |->
                          [doc |-> all[i][1], chunk |-> library[all[i][1]].chunks[all[i][2]]]]
           IN /\ todo \in Seq(Tasks(source))
              /\ \A t \in ToSet(todo) : InLibrary(t)
              /\ ~(Len(all) > TopK) => \A w \in ToSet(all) : \E t \in ToSet(todo) :
                    t.doc = w[1] /\ t.chunk = library[w[1]].chunks[w[2]]
<1> DEFINE Task(w) == [doc |-> w[1], chunk |-> library[w[1]].chunks[w[2]]]
           todo == [i \in DOMAIN Taken(all, TopK) |-> Task(all[i])]
           n == IF TopK < Len(all) THEN TopK ELSE Len(all)
           T == Tasks(source)
<1>1. Len(all) \in Nat /\ DOMAIN all = 1 .. Len(all) /\ \A i \in DOMAIN all : all[i] \in Shelved(D)
  <2> DEFINE S == Shelved(D)
  <2>1. all \in Seq(S)
    OBVIOUS
  <2> HIDE DEF S
  <2>2. Len(all) \in Nat /\ DOMAIN all = 1 .. Len(all) /\ \A i \in DOMAIN all : all[i] \in S
    BY <2>1, SeqIs
  <2> QED
    BY <2>2 DEF S
<1>2. TopK \in Nat
  BY MatchAssumption
<1>3. n \in Nat /\ DOMAIN Taken(all, TopK) = 1 .. n /\ \A i \in 1 .. n : i \in DOMAIN all
  BY <1>1, <1>2 DEF Taken
<1>4. ASSUME NEW w \in Shelved(D)
      PROVE  Task(w) \in T /\ InLibrary(Task(w))
  <2> DEFINE d == w[1]
             chunk == library[d].chunks[w[2]]
  <2>1. d \in Live /\ d # source /\ w[2] \in DOMAIN library[d].chunks
    BY DEF Shelved
  <2>2. chunk \in ToSet(library[d].chunks)
    BY <2>1 DEF ToSet
  <2>3. /\ d \in Documents /\ library[d].text \in Seq(Chars)
        /\ chunk \in Probed(library[d].text)
    <3> HIDE DEF d, chunk
    <3> QED
      BY <2>1, <2>2, BookIs
  <2>4. InLibrary([doc |-> d, chunk |-> chunk])
    <3> HIDE DEF chunk
    <3> QED
      BY <2>2 DEF InLibrary
  <2> HIDE DEF d, chunk
  <2>5. [doc |-> d, chunk |-> chunk] \in T
    BY <2>1, <2>3 DEF Tasks
  <2> QED
    BY <2>4, <2>5 DEF d, chunk
<1>5. \A i \in 1 .. n : all[i] \in Shelved(D)
  BY <1>1, <1>3
<1>6. \A i \in 1 .. n : todo[i] = Task(all[i])
  BY <1>3
<1>7. DOMAIN todo = 1 .. n /\ todo = [i \in 1 .. n |-> todo[i]]
  <2> HIDE DEF Task, n
  <2> QED
    BY <1>3
<1> HIDE DEF todo, T, Task, n
<1>8. todo \in [1 .. n -> T]
  BY <1>4, <1>5, <1>6, <1>7
<1>9. todo \in Seq(T)
  BY <1>3, <1>8, FunctionIsSeq
<1>10. \A t \in ToSet(todo) : InLibrary(t)
  BY <1>4, <1>5, <1>6, <1>7 DEF ToSet
<1>11. ASSUME ~(Len(all) > TopK), NEW w \in ToSet(all)
       PROVE  Task(w) \in ToSet(todo)
  <2>1. n = Len(all)
    BY <1>1, <1>2, <1>11 DEF n
  <2>2. PICK i \in DOMAIN all : all[i] = w
    BY <1>11 DEF ToSet
  <2> QED
    BY <1>1, <1>6, <1>7, <2>1, <2>2 DEF ToSet
<1>12. \A w : Task(w).doc = w[1] /\ Task(w).chunk = library[w[1]].chunks[w[2]]
  BY DEF Task
<1>13. ~(Len(all) > TopK) => \A w \in ToSet(all) : \E t \in ToSet(todo) :
          t.doc = w[1] /\ t.chunk = library[w[1]].chunks[w[2]]
  BY <1>11, <1>12
<1> QED
  BY <1>9, <1>10, <1>13 DEF todo, T, Task

\* Every document copied in this window is found already or becomes a candidate.
LEMMA FindKeeps == ASSUME IInv, FindCandidates PROVE IInv'
<1> DEFINE text   == Chunk.text
           raw    == Fingerprint(check.policy.profile, text)
           probe  == Probe(check.policy, check.stopped, text)
           D      == (check.among \cap Live) \ {check.source}
           all    == Matches(probe, check.among, check.source)
           todo   == [i \in DOMAIN Taken(all, TopK) |->
                        [doc |-> all[i][1], chunk |-> library[all[i][1]].chunks[all[i][2]]]]
           source == check.source
<1>1. Working /\ Prepared /\ Tried /\ CheckedAre /\ LibraryOK
  BY DEF IInv, Underway, Working, FindCandidates, More
<1>2. /\ Fields \subseteq DOMAIN check' /\ check'.stage = "aligning" /\ check.stage = "probing"
      /\ check'.text = check.text /\ check'.policy = check.policy
      /\ check'.source = check.source /\ check'.chunks = check.chunks
      /\ check'.among = check.among /\ check'.checked = check.checked
      /\ check'.todo = todo /\ check'.found = check.found
  <2> HIDE DEF all, probe, raw, text
  <2>1. check' = [check EXCEPT !.stage = "aligning", !.todo = todo]
    BY DEF FindCandidates, Propose, all, probe, raw, text
  <2> HIDE DEF todo
  <2> QED
    BY <1>1, <2>1 DEF FindCandidates, More, Prepared, Fields
<1>3. /\ UNCHANGED <<library, cancel, expired>> /\ lossy \subseteq lossy'
      /\ lossy' \subseteq lossy \cup {"common", "limit"}
      /\ probe # raw => lossy' # {}
      /\ Len(all) > TopK => lossy' # {}
  <2> HIDE DEF all, probe, raw, text
  <2>1. lossy' = lossy \cup (IF probe # raw THEN {"common"} ELSE {})
                       \cup (IF Len(all) > TopK THEN {"limit"} ELSE {})
    BY DEF FindCandidates, Propose, all, probe, raw, text
  <2>2. UNCHANGED <<library, cancel, expired>>
    BY DEF FindCandidates
  <2> QED
    BY <2>1, <2>2
<1>4. lossy \subseteq {"time", "common", "limit", "marks"}
  BY DEF IInv, TypeOK
<1>5. check.checked < Len(check.chunks) /\ check.checked \in Nat /\ Len(check.chunks) \in Nat
  <2>1. Len(check.chunks) \in Nat
    BY <1>1, SlidingChunksAre, SeqIs DEF Prepared
  <2> QED
    BY <1>1, <2>1 DEF FindCandidates, More, Tried
<1>6. text \in Seq(Chars) /\ text = check.chunks[check.checked + 1].text
  <2> DEFINE k == check.checked + 1
  <2>1. k \in 1 .. Len(check.chunks)
    BY <1>5
  <2> HIDE DEF k
  <2>2. check.chunks[k].text \in Seq(Chars)
    BY <1>1, <2>1, ChunkIs
  <2> QED
    BY <2>2 DEF k, Chunk
<1>7. /\ all \in Seq(Shelved(D))
      /\ \A d \in D : \A k \in DOMAIN library[d].chunks :
            library[d].chunks[k].prints \cap probe # {} => <<d, k>> \in ToSet(all)
  <2>1. D \in SUBSET Live /\ all = Sharing(probe, D)
    BY DEF Matches
  <2> HIDE DEF D, all, probe
  <2> QED
    BY <1>1, <2>1, SharingIs
<1>8. D \in SUBSET (Live \ {source})
  OBVIOUS
<1>9. /\ todo \in Seq(Tasks(source))
      /\ \A t \in ToSet(todo) : InLibrary(t)
      /\ ~(Len(all) > TopK) => \A w \in ToSet(all) : \E t \in ToSet(todo) :
            t.doc = w[1] /\ t.chunk = library[w[1]].chunks[w[2]]
  <2> HIDE DEF D, all, source
  <2> QED
    BY <1>1, <1>7, <1>8, TasksAre
<1>10. \A d \in Live \ {source} : d \in D
  BY <1>1 DEF Prepared
<1>11. ASSUME lossy' = {}, NEW d \in Live \ {source}, NEW chunk \in ToSet(library[d].chunks),
              Copied(check.checked + 1, chunk)
       PROVE  \E t \in ToSet(todo) : t.doc = d /\ t.chunk = chunk
  <2>1. IsPolicy(check.policy) /\ Shares(check.policy, text, chunk)
    BY <1>1, <1>6, <1>11 DEF Prepared, Copied
  <2>2. chunk \in Probed(library[d].text)
    BY <1>1, BookIs
  <2>3. raw \cap chunk.prints # {} /\ probe = raw
    <3> HIDE DEF text
    <3> QED
      BY <1>3, <1>6, <1>11, <2>1, <2>2, SharesPrints
  <2>4. PICK k \in DOMAIN library[d].chunks : library[d].chunks[k] = chunk
    BY DEF ToSet
  <2> HIDE DEF all, todo, probe, raw, D
  <2>5. <<d, k>> \in ToSet(all)
    BY <1>7, <1>10, <2>3, <2>4
  <2>6. \E t \in ToSet(todo) :
           t.doc = <<d, k>>[1] /\ t.chunk = library[<<d, k>>[1]].chunks[<<d, k>>[2]]
    BY <1>3, <1>9, <1>11, <2>5
  <2> QED
    BY <2>4, <2>6
<1> HIDE DEF todo, all, probe, raw, D, text
<1>12. Unmoved
  BY <1>2, <1>3, <1>4 DEF Unmoved
<1>13. /\ Live' = Live /\ \A d : Named(d)' <=> Named(d)
       /\ \A k, chunk : Copied(k, chunk)' <=> Copied(k, chunk)
       /\ check'.found \in Seq(Hits(check'.source, check'.text))
       /\ \A p \in ToSet(check'.found) : InSource(p)'
       /\ lossy' = {} => lossy = {}
  BY <1>1, <1>2, <1>12, NothingFound
<1>14. \A t : InLibrary(t)' <=> InLibrary(t)
  BY <1>3, <1>13 DEF InLibrary
<1>15. Tried'
  BY <1>1, <1>2, <1>5, <1>9, <1>13, <1>14 DEF Tried
<1>16. CheckedAre'
  BY <1>1, <1>2, <1>3, <1>13 DEF CheckedAre
<1>17. CurrentIs'
  BY <1>2, <1>3, <1>11, <1>13 DEF CurrentIs, Pending
<1> QED
  BY <1>1, <1>12, <1>15, <1>16, <1>17, UnmovedKeeps

\* A candidate that is aligned and copied is found.
LEMMA AlignKeeps == ASSUME IInv, AlignNext PROVE IInv'
<1> DEFINE text       == Chunk.text
           candidate  == Head(check.todo)
           aligned    == Align(check.policy, text, candidate.chunk.text)
           worthwhile == Worthwhile(text, aligned)
           added      == [k \in DOMAIN worthwhile |-> InDocuments(Chunk, candidate, worthwhile[k])]
           T          == Tasks(check.source)
           H          == Hits(check.source, check.text)
           F          == Found(text, candidate.chunk.text)
<1>1. Working /\ Prepared /\ Tried /\ CheckedAre /\ CurrentIs /\ LibraryOK
  BY DEF IInv, Underway, Working, AlignNext
<1>2. /\ Fields \subseteq DOMAIN check' /\ check'.stage = "aligning" /\ check.stage = "aligning"
      /\ check'.text = check.text /\ check'.policy = check.policy
      /\ check'.source = check.source /\ check'.chunks = check.chunks
      /\ check'.among = check.among /\ check'.checked = check.checked
      /\ check'.todo = Tail(check.todo) /\ check'.found = check.found \o added
  <2> HIDE DEF text, candidate, aligned, worthwhile
  <2>1. check' = [check EXCEPT !.todo = Tail(check.todo), !.found = check.found \o added]
    BY <1>1 DEF AlignNext, text, candidate, aligned, worthwhile, Prepared, Fields
  <2> HIDE DEF added
  <2> QED
    BY <1>1, <2>1 DEF AlignNext, Prepared, Fields
<1>3. /\ UNCHANGED <<library, cancel, expired>> /\ lossy \subseteq lossy'
      /\ lossy' \subseteq lossy \cup {"marks"}
      /\ worthwhile # aligned => lossy' # {}
      /\ check.todo # <<>>
  <2> HIDE DEF text, candidate, aligned, worthwhile
  <2>1. lossy' = lossy \cup (IF worthwhile # aligned THEN {"marks"} ELSE {})
    BY DEF AlignNext, text, candidate, aligned, worthwhile
  <2>2. UNCHANGED <<library, cancel, expired>> /\ check.todo # <<>>
    BY DEF AlignNext
  <2> QED
    BY <2>1, <2>2
<1>4. lossy \subseteq {"time", "common", "limit", "marks"}
  BY DEF IInv, TypeOK
<1>5. check.checked < Len(check.chunks) /\ check.checked \in Nat /\ Len(check.chunks) \in Nat
  <2>1. Len(check.chunks) \in Nat
    BY <1>1, SlidingChunksAre, SeqIs DEF Prepared
  <2> QED
    BY <1>1, <1>2, <2>1 DEF Tried
<1>6. /\ text \in Seq(Chars) /\ text = check.chunks[check.checked + 1].text
      /\ Chunk \in Windows(check.text)
  <2> DEFINE k == check.checked + 1
  <2>1. k \in 1 .. Len(check.chunks)
    BY <1>5
  <2> HIDE DEF k
  <2>2. check.chunks[k].text \in Seq(Chars) /\ check.chunks[k] \in Windows(check.text)
    BY <1>1, <2>1, ChunkIs
  <2> QED
    BY <2>2 DEF k, Chunk
<1>7. /\ candidate \in T /\ Tail(check.todo) \in Seq(T)
      /\ ToSet(check.todo) = {candidate} \cup ToSet(Tail(check.todo))
      /\ InLibrary(candidate)
  <2>1. check.todo \in Seq(T) /\ check.todo # <<>> /\ \A t \in ToSet(check.todo) : InLibrary(t)
    BY <1>1, <1>3 DEF Tried
  <2> HIDE DEF T
  <2>2. /\ candidate \in T /\ Tail(check.todo) \in Seq(T)
        /\ ToSet(check.todo) = {candidate} \cup ToSet(Tail(check.todo))
    BY <2>1, HeadTail
  <2> QED
    BY <2>1, <2>2
<1> HIDE DEF candidate
<1>8. candidate.chunk.text \in Seq(Chars)
  <2>1. PICK of \in Seq(Chars) : candidate.chunk \in Probed(of)
    BY <1>7 DEF Tasks
  <2> QED
    BY <2>1, ProbedIs
<1>9. aligned \in Seq(F)
  <2>1. IsPolicy(check.policy)
    BY <1>1 DEF Prepared
  <2> HIDE DEF text
  <2> QED
    BY <1>6, <1>8, <2>1, AlignIs
<1>10. worthwhile \in Seq(F)
  <2> DEFINE places == {k \in DOMAIN aligned :
                IsDiscriminative(Slice(text, aligned[k].query[1], aligned[k].query[2]))}
  <2>1. places \in SUBSET DOMAIN aligned /\ worthwhile = Those(aligned, places)
    BY DEF Worthwhile
  <2> HIDE DEF places, F, aligned, worthwhile
  <2> QED
    BY <1>9, <2>1, ThoseAre
<1>11. /\ added \in Seq(H)
       /\ \A p \in ToSet(added) : p.doc = candidate.doc
       /\ \A of \in Seq(Chars) : candidate.chunk \in Probed(of) =>
             \A p \in ToSet(added) : p.source \in Extents(Len(of))
       /\ worthwhile # <<>> => \E p \in ToSet(added) : p.doc = candidate.doc
  <2> DEFINE w == Chunk
             full == check.text
             source == check.source
             passages == worthwhile
  <2>1. full \in Seq(Chars)
    BY <1>1 DEF Prepared
  <2>2. w \in Windows(full) /\ candidate \in Tasks(source)
    BY <1>6, <1>7
  <2>3. passages \in Seq(Found(w.text, candidate.chunk.text))
    BY <1>10
  <2> HIDE DEF w, full, source, passages
  <2>4. /\ Added(w, candidate, passages) \in Seq(Hits(source, full))
        /\ \A p \in ToSet(Added(w, candidate, passages)) : p.doc = candidate.doc
        /\ \A of \in Seq(Chars) : candidate.chunk \in Probed(of) =>
              \A p \in ToSet(Added(w, candidate, passages)) : p.source \in Extents(Len(of))
        /\ passages # <<>> => \E p \in ToSet(Added(w, candidate, passages)) : p.doc = candidate.doc
    BY <2>1, <2>2, <2>3, AddedAre
  <2>5. Added(w, candidate, passages) = added
    BY DEF Added, w, passages
  <2> HIDE DEF added
  <2> QED
    BY <2>4, <2>5 DEF full, source, passages
<1>12. \A p \in ToSet(added) : InSource(p)
  <2> SUFFICES ASSUME NEW p \in ToSet(added), p.doc \in Live
               PROVE  p.source \in Extents(Len(library[p.doc].text))
    BY DEF InSource
  <2>1. p.doc = candidate.doc
    BY <1>11
  <2>2. candidate.chunk \in ToSet(library[p.doc].chunks)
    BY <1>7, <2>1 DEF InLibrary
  <2>3. library[p.doc].text \in Seq(Chars) /\ candidate.chunk \in Probed(library[p.doc].text)
    BY <1>1, <2>2, BookIs
  <2> HIDE DEF added
  <2> QED
    BY <1>11, <2>3
<1>13. /\ check'.found \in Seq(H)
       /\ ToSet(check'.found) = ToSet(check.found) \cup ToSet(added)
  <2>1. check.found \in Seq(H)
    BY <1>1 DEF Tried
  <2> HIDE DEF H, added
  <2> QED
    BY <1>2, <1>11, <2>1, JoinHolds
<1> HIDE DEF added
<1>14. ASSUME lossy' = {}, NEW d, NEW chunk \in ToSet(library[d].chunks), d \in Live,
              Copied(check.checked + 1, chunk), candidate.doc = d, candidate.chunk = chunk
       PROVE  \E p \in ToSet(added) : p.doc = d
  <2>1. IsPolicy(check.policy) /\ Shares(check.policy, text, chunk)
    BY <1>1, <1>6, <1>14 DEF Prepared, Copied
  <2>2. chunk \in Probed(library[d].text)
    BY <1>1, <1>14, BookIs
  <2>3. aligned # <<>>
    <3> HIDE DEF text
    <3> QED
      BY <1>6, <1>14, <2>1, <2>2, SharesAligns
  <2> HIDE DEF aligned, worthwhile
  <2>4. worthwhile # <<>>
    BY <1>3, <1>14, <2>3
  <2> QED
    BY <1>11, <1>14, <2>4
<1> HIDE DEF aligned, worthwhile, text, F
<1>15. Unmoved
  BY <1>2, <1>3, <1>4 DEF Unmoved
<1>16. LibraryOK' /\ Live' = Live
  BY <1>1, <1>3, LibraryKept
<1>17. /\ \A d : Named(d)' <=> Named(d) \/ \E p \in ToSet(added) : p.doc = d
       /\ \A k, chunk : Copied(k, chunk)' <=> Copied(k, chunk)
       /\ \A p : InSource(p)' <=> InSource(p)
       /\ \A t : InLibrary(t)' <=> InLibrary(t)
  BY <1>2, <1>3, <1>13, <1>16 DEF Named, Copied, InSource, InLibrary
<1>18. Tried'
  <2>1. \A p \in ToSet(check.found) : InSource(p)
    BY <1>1 DEF Tried
  <2>2. \A t \in ToSet(check'.todo) : InLibrary(t)'
    BY <1>1, <1>2, <1>7, <1>17 DEF Tried
  <2>3. \A p \in ToSet(check'.found) : InSource(p)'
    BY <1>12, <1>13, <1>17, <2>1
  <2> QED
    BY <1>1, <1>2, <1>5, <1>7, <1>13, <2>2, <2>3 DEF Tried
<1>19. CheckedAre'
  BY <1>1, <1>2, <1>3, <1>16, <1>17 DEF CheckedAre
<1>20. CurrentIs'
  <2> SUFFICES ASSUME lossy' = {}, NEW d \in Live \ {check.source},
                      NEW chunk \in ToSet(library[d].chunks), Copied(check.checked + 1, chunk)
               PROVE  Named(d)' \/ Pending(d, chunk)'
    BY <1>2, <1>3, <1>16, <1>17 DEF CurrentIs
  <2>1. lossy = {}
    BY <1>3
  <2>2. Named(d) \/ Pending(d, chunk)
    BY <1>1, <1>2, <2>1 DEF CurrentIs
  <2>3. CASE Named(d)
    BY <1>17, <2>3
  <2>4. CASE Pending(d, chunk)
    <3>1. PICK t \in ToSet(check.todo) : t.doc = d /\ t.chunk = chunk
      BY <2>4 DEF Pending
    <3>2. CASE t = candidate
      BY <1>14, <1>17, <3>1, <3>2
    <3>3. CASE t \in ToSet(Tail(check.todo))
      BY <1>2, <3>1, <3>3 DEF Pending
    <3> QED
      BY <1>7, <3>1, <3>2, <3>3
  <2> QED
    BY <2>2, <2>3, <2>4
<1> QED
  BY <1>1, <1>15, <1>18, <1>19, <1>20, UnmovedKeeps

\* The report names every document that was found and still exists.
LEMMA PersistKeeps == ASSUME IInv, Persist PROVE IInv'
<1> DEFINE text    == check.text
           source  == check.source
           good(d) == d \in Live /\ FoundIn(check.found, d) # <<>>
           at      == {i \in DOMAIN Titles : good(Titles[i])}
           sources == Those(Titles, at)
           L       == {d \in Live : FoundIn(check.found, d) # <<>>}
           row(d)  == [doc |-> d, book |-> library[d],
                       passages |-> DedupePassages(FoundIn(check.found, d))]
           rows    == [i \in DOMAIN sources |-> row(sources[i])]
           H       == Hits(source, text)
<1>1. Working /\ Prepared /\ Tried /\ CheckedAre /\ LibraryOK
  BY DEF IInv, Underway, Working, Persist
<1>2. /\ check'.stage = "done" /\ check'.text = text /\ check'.policy = check.policy
      /\ check'.source = source /\ check'.chunks = check.chunks
      /\ check'.sources = rows /\ check'.coverage = CoverageReason(check)
  BY DEF Persist
<1>3. UNCHANGED <<library, cancel, expired, lossy>>
  BY DEF Persist
<1>4. LibraryOK' /\ Live' = Live
  BY <1>1, <1>3, LibraryKept
<1>5. /\ sources \in Seq(L)
      /\ \A d \in L : d \in ToSet(sources)
  <2>1. Titles \in Seq(Documents) /\ \A d \in Documents : \E i \in DOMAIN Titles : Titles[i] = d
    BY ReportAssumption DEF Documents, ToSet
  <2>2. at \in SUBSET DOMAIN Titles /\ \A i \in at : Titles[i] \in L
    OBVIOUS
  <2>3. \A i \in DOMAIN Titles : Titles[i] \in L => i \in at
    OBVIOUS
  <2>4. \A d \in L : d \in Documents
    BY DEF Live
  <2> HIDE DEF at, L
  <2>5. sources \in Seq(L)
    BY <2>1, <2>2, ThoseHave
  <2>6. \A i \in at : Titles[i] \in ToSet(sources)
    BY <2>1, <2>2, ThoseHold
  <2> HIDE DEF sources
  <2> QED
    BY <2>1, <2>3, <2>4, <2>5, <2>6
<1> HIDE DEF sources
<1>6. DOMAIN sources = 1 .. Len(sources) /\ \A i \in DOMAIN sources : sources[i] \in L
  <2> HIDE DEF L
  <2> QED
    BY <1>5, SeqIs
<1>7. ASSUME NEW d \in L, NEW p \in ToSet(row(d).passages)
      PROVE  /\ p.doc = d /\ d # source
             /\ p.query \in Extents(Len(text))
             /\ p.source \in Extents(Len(library[d].text))
  <2> DEFINE S == {p_1 \in H : p_1.doc = d}
             found == FoundIn(check.found, d)
             I == {p_1 \in H : InSource(p_1)}
             J == {p_1 \in I : p_1.doc = d}
  <2>1. check.found \in Seq(H) /\ \A p_1 \in ToSet(check.found) : InSource(p_1)
    BY <1>1 DEF Tried
  <2>2. check.found \in Seq(I)
    <3> DEFINE s == check.found
    <3>1. s \in Seq(H) /\ \A k \in DOMAIN s : InSource(s[k])
      BY <2>1 DEF ToSet
    <3> HIDE DEF H, s
    <3>2. Len(s) \in Nat /\ DOMAIN s = 1 .. Len(s) /\ \A k \in DOMAIN s : s[k] \in H
      BY <3>1, SeqIs
    <3>3. s = [k \in 1 .. Len(s) |-> s[k]]
      BY <3>1, <3>2
    <3>4. s \in [1 .. Len(s) -> I]
      BY <3>1, <3>2, <3>3
    <3>5. s \in Seq(I)
      <4> HIDE DEF I
      <4> QED
        BY <3>2, <3>4, FunctionIsSeq
    <3> QED
      BY <3>5 DEF s
  <2>3. found \in Seq(J)
    <3> HIDE DEF I
    <3> QED
      BY <2>2, FoundInIs
  <2>4. DedupePassages(found) \in Seq(J)
    <3> HIDE DEF J, found
    <3> QED
      BY <2>3, DedupePassagesAre
  <2>5. p \in J
    <3> DEFINE t == DedupePassages(found)
    <3>1. p \in ToSet(t)
      BY <1>7
    <3>2. t \in Seq(J)
      BY <2>4
    <3> HIDE DEF t, J
    <3>3. \A k \in DOMAIN t : t[k] \in J
      BY <3>2, SeqIs
    <3> QED
      BY <3>1, <3>3 DEF ToSet
  <2>6. d \in Live
    BY <1>7
  <2>7. p \in H /\ p.doc = d /\ p.source \in Extents(Len(library[d].text))
    BY <2>5, <2>6 DEF InSource
  <2>8. p.doc # source /\ p.query \in Extents(Len(text))
    BY <2>7 DEF Hits
  <2> QED
    BY <2>7, <2>8
<1>8. \A d : row(d).doc = d /\ row(d).book = library[d]
  OBVIOUS
<1>9. DOMAIN rows = DOMAIN sources /\ \A i \in DOMAIN sources : rows[i] = row(sources[i])
  OBVIOUS
<1> HIDE DEF rows, row
<1>10. ASSUME NEW p \in Passages'
       PROVE  /\ p.doc # source /\ p.query \in Extents(Len(text))
              /\ p.source \in Extents(Len(TextAt(p)'))
  <2>1. PICK i \in DOMAIN rows : p \in ToSet(rows[i].passages)
    BY <1>2 DEF Passages
  <2>2. sources[i] \in L /\ p \in ToSet(row(sources[i]).passages)
    BY <1>6, <1>9, <2>1
  <2>3. /\ p.doc = sources[i] /\ p.doc # source
        /\ p.query \in Extents(Len(text))
        /\ p.source \in Extents(Len(library[p.doc].text))
    BY <1>7, <2>2
  <2> DEFINE j == CHOOSE j \in DOMAIN rows : rows[j].doc = p.doc
  <2>4. rows[i].doc = p.doc
    BY <1>8, <1>9, <2>1, <2>3
  <2>5. j \in DOMAIN rows /\ rows[j].doc = p.doc
    BY <2>1, <2>4
  <2>6. TextAt(p)' = rows[j].book.text
    BY <1>2 DEF TextAt, BookOf
  <2> HIDE DEF j
  <2>7. rows[j].book = library[p.doc]
    BY <1>8, <1>9, <2>5
  <2> QED
    BY <2>3, <2>6, <2>7
<1>11. TypeOK'
  <2>1. \A d \in Documents : library'[d] # None => library'[d].lines \in Drafts[d]
    BY <1>4 DEF LibraryOK, Live
  <2>2. /\ cancel' \in BOOLEAN /\ expired' \in BOOLEAN
        /\ lossy' \subseteq {"time", "common", "limit", "marks"}
    BY <1>3 DEF IInv, TypeOK
  <2>3. ASSUME NEW p \in Passages'
        PROVE  /\ p.doc # check'.source
               /\ 0 <= p.query[1] /\ p.query[1] < p.query[2] /\ p.query[2] <= Len(check'.text)
               /\ 0 <= p.source[1] /\ p.source[1] < p.source[2] /\ p.source[2] <= Len(TextAt(p)')
    <3>1. \A x, n : x \in Extents(n) => 0 <= x[1] /\ x[1] < x[2] /\ x[2] <= n
      BY DEF Extents
    <3> QED
      BY <1>2, <1>10, <3>1
  <2> QED
    BY <1>2, <2>1, <2>2, <2>3 DEF TypeOK
<1>12. CopiedDocumentIsNamed'
  <2> SUFFICES ASSUME Thorough', NEW d \in (Live \ {source}) \ Sources',
                      NEW k \in DOMAIN check.chunks, NEW j \in DOMAIN library[d].chunks,
                      ~(SharedRuns(k, library[d].chunks[j])' = {})
               PROVE  FALSE
    BY <1>2, <1>3, <1>4 DEF CopiedDocumentIsNamed
  <2> DEFINE chunk == library[d].chunks[j]
  <2>1. Copied(k, chunk)
    <3>1. SharedRuns(k, library[d].chunks[j])' # {} =>
            Shares(check'.policy, check'.chunks[k].text, library'[d].chunks[j])
      BY DEF SharedRuns, Shares, Share, Guaranteed, LongEnough
    <3> QED
      BY <1>2, <1>3, <3>1 DEF Copied
  <2>2. chunk \in ToSet(library[d].chunks)
    BY DEF ToSet
  <2>3. k \in 1 .. check.checked
    <3>1. CoverageReason(check) = "" /\ lossy = {}
      BY <1>2, <1>3 DEF Thorough
    <3>2. ~(check.checked < Len(check.chunks))
      BY <3>1 DEF CoverageReason
    <3>3. Len(check.chunks) \in Nat /\ DOMAIN check.chunks = 1 .. Len(check.chunks)
      BY <1>1, SlidingChunksAre, SeqIs DEF Prepared
    <3> QED
      BY <1>1, <3>2, <3>3 DEF Tried
  <2>4. Named(d)
    <3> HIDE DEF chunk
    <3> QED
      BY <1>1, <1>3, <2>1, <2>2, <2>3 DEF CheckedAre, Thorough
  <2>5. FoundIn(check.found, d) # <<>>
    <3>1. check.found \in Seq(H)
      BY <1>1 DEF Tried
    <3> HIDE DEF H
    <3> QED
      BY <2>4, <3>1, FoundInIs DEF Named
  <2>6. PICK i \in DOMAIN sources : sources[i] = d
    BY <1>5, <2>5 DEF ToSet
  <2>7. i \in DOMAIN check'.sources /\ check'.sources[i].doc = d
    BY <1>2, <1>8, <1>9, <2>6
  <2>8. d \in Sources'
    BY <2>7 DEF Sources
  <2> QED
    BY <2>8
<1>13. Waiting' /\ Underway'
  BY <1>2 DEF Waiting, Underway, Working
<1> QED
  BY <1>4, <1>11, <1>12, <1>13 DEF IInv

-----------------------------------------------------------------------------
(* What happens around the run.                                            *)

\* A check is admitted.
LEMMA SubmitKeeps ==
    ASSUME IInv, \/ \E text \in Queries, language \in Languages : SubmitText(text, language)
                 \/ \E d \in Documents : SubmitDocument(d)
    PROVE  IInv'
<1>1. UNCHANGED <<library, cancel, expired, lossy>> /\ check'.stage = "queued"
  BY DEF SubmitText, SubmitDocument, Requested
<1>2. Waiting'
  <2>1. ASSUME NEW text \in Queries, NEW language \in Languages, SubmitText(text, language)
        PROVE  Waiting'
    <3>1. check'.text = text /\ check'.policy = ResolvePolicy(text, language)
      BY <2>1 DEF SubmitText, Requested
    <3> QED
      BY <3>1, PolicyIs DEF Waiting
  <2>2. ASSUME NEW d \in Documents, SubmitDocument(d) PROVE Waiting'
    <3>1. check'.source = d
      BY <2>2 DEF SubmitDocument, Requested
    <3> QED
      BY <3>1, ReportAssumption DEF Waiting, Documents
  <2> QED
    BY <2>1, <2>2
<1>3. Underway'
  BY <1>1 DEF Underway, Working
<1>4. LibraryOK'
  BY <1>1, LibraryKept DEF IInv
<1>5. /\ cancel' \in BOOLEAN /\ expired' \in BOOLEAN
      /\ lossy' \subseteq {"time", "common", "limit", "marks"}
  BY <1>1 DEF IInv, TypeOK
<1> QED
  BY <1>1, <1>2, <1>3, <1>4, <1>5, BeforeTheEnd

\* A step that leaves the check alone, and takes at most documents away.
LEMMA AroundKeeps ==
    ASSUME IInv, UNCHANGED <<check, lossy>>, check.stage # "done",
           cancel' \in BOOLEAN, expired' \in BOOLEAN,
           library' = [d \in Documents |-> library'[d]],
           \A d \in Live' : d \in Live /\ library'[d] = library[d]
    PROVE  IInv'
<1>1. LibraryOK /\ TypeOK /\ Waiting /\ Underway
  BY DEF IInv
<1>2. LibraryOK'
  BY <1>1 DEF LibraryOK
<1>3. Waiting'
  BY <1>1 DEF Waiting
<1>4. ASSUME Working PROVE Prepared' /\ Tried' /\ CheckedAre' /\ CurrentIs'
  <2>1. Prepared /\ Tried /\ CheckedAre /\ CurrentIs
    BY <1>1, <1>4 DEF Underway
  <2>2. /\ \A d : Named(d)' <=> Named(d)
        /\ \A d, chunk : Pending(d, chunk)' <=> Pending(d, chunk)
        /\ \A k, chunk : Copied(k, chunk)' <=> Copied(k, chunk)
    BY DEF Named, Pending, Copied
  <2>3. Prepared'
    BY <2>1 DEF Prepared
  <2>4. /\ \A t : InLibrary(t) => InLibrary(t)'
        /\ \A p : InSource(p) => InSource(p)'
    BY DEF InLibrary, InSource
  <2>5. Tried'
    BY <2>1, <2>4 DEF Tried
  <2>6. CheckedAre'
    BY <2>1, <2>2 DEF CheckedAre
  <2>7. CurrentIs'
    BY <2>1, <2>2 DEF CurrentIs
  <2> QED
    BY <2>3, <2>5, <2>6, <2>7
<1>5. Underway'
  BY <1>4 DEF Underway, Working
<1>6. /\ lossy' \subseteq {"time", "common", "limit", "marks"}
      /\ check'.stage \in {"none", "queued", "failed", "probing", "aligning", "persisting"}
  BY <1>1 DEF TypeOK
<1> QED
  BY <1>2, <1>3, <1>5, <1>6, BeforeTheEnd

\* A request to cancel, the deadline, new frequencies, or a deletion.
LEMMA EnvironmentKeeps == ASSUME IInv, Environment PROVE IInv'
<1>1. cancel \in BOOLEAN /\ expired \in BOOLEAN /\ library = [d \in Documents |-> library[d]]
  BY DEF IInv, TypeOK, LibraryOK
<1>2. CASE RequestCancel \/ TimeUp \/ RebuildDf
  <2>1. /\ UNCHANGED <<library, check, lossy>> /\ check.stage # "done"
        /\ cancel' \in BOOLEAN /\ expired' \in BOOLEAN
    <3>1. CASE RequestCancel
      BY <1>1, <3>1 DEF RequestCancel, Busy
    <3>2. CASE TimeUp
      BY <1>1, <3>2 DEF TimeUp, Busy
    <3>3. CASE RebuildDf
      <4>1. check.stage = "none"
        BY <3>3 DEF RebuildDf, NoCheck
      <4> QED
        BY <1>1, <3>3, <4>1 DEF RebuildDf
    <3> QED
      BY <1>2, <3>1, <3>2, <3>3
  <2>2. \A d \in Live' : d \in Live /\ library'[d] = library[d]
    BY <2>1 DEF Live
  <2> QED
    BY <1>1, <2>1, <2>2, AroundKeeps
<1>3. ASSUME NEW e \in Documents, DeleteDocument(e) PROVE IInv'
  <2>1. /\ library' = [library EXCEPT ![e] = None]
        /\ UNCHANGED <<check, cancel, expired, lossy>> /\ check.stage # "done"
    BY <1>3 DEF DeleteDocument
  <2>2. library' = [d \in Documents |-> IF d = e THEN None ELSE library[d]]
    BY <1>1, <2>1
  <2>3. library' = [d \in Documents |-> library'[d]]
    BY <2>2
  <2>4. \A d \in Live' : d \in Live /\ library'[d] = library[d]
    BY <2>2 DEF Live
  <2> QED
    BY <1>1, <2>1, <2>3, <2>4, AroundKeeps
<1> QED
  BY <1>2, <1>3 DEF Environment

\* Every step keeps the invariant.
LEMMA NextKeeps == ASSUME IInv, [Next]_vars PROVE IInv'
<1>1. CASE Admit
  BY <1>1, SubmitKeeps DEF Admit
<1>2. CASE Run
  BY <1>2, StartKeeps, StopKeeps, SkipKeeps, FindKeeps, AlignKeeps, AbandonKeeps, EndKeeps,
     PersistKeeps DEF Run
<1>3. CASE Environment
  BY <1>3, EnvironmentKeeps
<1>4. CASE UNCHANGED vars
  <2>1. UNCHANGED library /\ UNCHANGED <<check, cancel, expired, lossy>>
    BY <1>4 DEF vars
  <2>2. LibraryOK' /\ Live' = Live
    BY <2>1, LibraryKept DEF IInv
  <2>3. CASE check.stage = "done"
    <3>1. TypeOK' <=> TypeOK
      BY <2>1 DEF TypeOK, Done, Passages, TextAt, BookOf
    <3>2. CopiedDocumentIsNamed' <=> CopiedDocumentIsNamed
      BY <2>1, <2>2 DEF CopiedDocumentIsNamed, Thorough, Done, Sources, SharedRuns, Guaranteed
    <3>3. Waiting' /\ Underway'
      BY <2>1, <2>3 DEF Waiting, Underway, Working
    <3> QED
      BY <2>2, <3>1, <3>2, <3>3 DEF IInv
  <2>4. CASE check.stage # "done"
    <3>1. cancel' \in BOOLEAN /\ expired' \in BOOLEAN
      BY <2>1 DEF IInv, TypeOK
    <3>2. library' = [d \in Documents |-> library'[d]]
      BY <2>1 DEF IInv, LibraryOK
    <3> QED
      BY <2>1, <2>2, <2>4, <3>1, <3>2, AroundKeeps
  <2> QED
    BY <2>3, <2>4
<1> QED
  BY <1>1, <1>2, <1>3, <1>4 DEF Next

\* The invariant holds throughout.
THEOREM ReportIsInvariant == Spec => []IInv
<1>1. Init => IInv
  BY InitIs
<1>2. IInv /\ [Next]_vars => IInv'
  BY NextKeeps
<1> QED
  BY <1>1, <1>2, PTL DEF Spec

\* TypeOK holds for every library, query and parameter: in particular, the
\* offsets of every passage CheckRunner._persist writes are not empty and lie within
\* the text that was checked and within the source's, and no passage is of the
\* document that is checked.
THEOREM TypesAreKept == Spec => []TypeOK
<1>1. IInv => TypeOK
  BY DEF IInv
<1> QED
  BY <1>1, ReportIsInvariant, PTL

\* CopiedDocumentIsNamed holds for every library, query and parameter: a
\* thorough check, one whose report is complete and that left out no candidate,
\* no common fingerprint and no span of mere marks, names every document that shares
\* with the query a run as long as winnowing, a seed and a passage need.
THEOREM CopiesAreNamed == Spec => []CopiedDocumentIsNamed
<1>1. IInv => CopiedDocumentIsNamed
  BY DEF IInv
<1> QED
  BY <1>1, ReportIsInvariant, PTL
=============================================================================
