------------------------------ MODULE Matching ------------------------------
(***************************************************************************)
(* The algorithms a plagiarism check is made of: normalization with its    *)
(* map back to the text, winnowing fingerprints, the windows of sentences  *)
(* a text is probed by, seed-and-extend alignment of two windows, and the  *)
(* merging of what it finds.  Spans are half-open and count from 0; a      *)
(* score is the fraction <<matching characters, characters>>.              *)
(***************************************************************************)
EXTENDS DocumentText

CONSTANTS
    K, W,            \* plag_kgram, plag_winnow_window
    Hash(_),         \* _hash_kgram
    Seed, Passage,   \* plag_min_seed_len, plag_min_passage_len
    ZhSeed, ZhPassage,
    MinEffective,    \* plag_min_effective_chars
    PerChunk,        \* plag_sentences_per_chunk
    Overlap,         \* plag_chunk_overlap
    Lookahead,       \* _EXTEND_LOOKAHEAD
    MergeGap,        \* _MERGE_GAP
    TopK             \* plag_candidate_top_k

\* _plag_thresholds_are_ordered and the validator of plag_chunk_overlap.
ASSUME MatchAssumption ==
    /\ {K, W, Seed, Passage, MinEffective, Lookahead, TopK} \subseteq Nat \ {0}
    /\ {MergeGap, ZhSeed, ZhPassage, PerChunk, Overlap} \subseteq Nat
    /\ MinEffective <= ZhSeed /\ ZhSeed < ZhPassage
    /\ Overlap < PerChunk

-----------------------------------------------------------------------------
(* Normalization.  Every character of the normalized text keeps the span   *)
(* of the original it stands for.                                          *)

Ignored == Spaces \cup Punctuation

Mapped(text, i) == [char |-> text[i], start |-> i - 1, end |-> i]

Uncited(text) ==
    LET kept == Ascending({i \in DOMAIN text : text[i] # Citation}, Len(text))
    IN Listed([k \in DOMAIN kept |-> Mapped(text, kept[k])])

IsSpace(chars, k) == chars[k].char \in Spaces

\* A run of white space becomes one space, which stands for all of it.
Collapsed(chars) ==
    LET RunEnd(k) == Max({j \in k .. Len(chars) : \A i \in k .. j : IsSpace(chars, i)})
        Short(k) == IF IsSpace(chars, k)
                      THEN [char |-> " ", start |-> chars[k].start, end |-> chars[RunEnd(k)].end]
                      ELSE chars[k]
    IN Those(Listed([k \in DOMAIN chars |-> Short(k)]), {k \in DOMAIN chars :
                       ~IsSpace(chars, k) \/ k = 1 \/ ~IsSpace(chars, k - 1)})

\* normalize_with_offsets
Normalize(profile, text) ==
    LET chars == Uncited(text) IN
    IF profile = "zh" THEN Those(chars, {k \in DOMAIN chars : chars[k].char \notin Ignored})
                      ELSE Collapsed(chars)

Plain(normalized) == Listed([k \in DOMAIN normalized |-> normalized[k].char])

EffectiveChars(text) == Cardinality({i \in DOMAIN text : text[i] \notin Ignored})

\* original_span_with_boundaries: the ignored characters around a match
\* belong to it, in front of it all of them, behind it those before the next
\* normalized character.
OriginalSpan(n, s, e, text) ==
    LET first == n[s + 1].start
        last  == n[e].end
        LeadsIn(i) == \A j \in i + 1 .. first : text[j] \in Ignored
        LeadsOut(i)  == \A j \in last + 1 .. i : text[j] \in Ignored
    IN <<IF s = 0 THEN 0 ELSE Min({i \in 0 .. first : LeadsIn(i)}),
         IF e = Len(n) THEN Len(text)
         ELSE Max({last} \cup {i \in last .. n[e + 1].start : LeadsOut(i)})>>

-----------------------------------------------------------------------------
(* Language and policy.                                                    *)

HasCjk(text) == \E i \in DOMAIN text : text[i] \in Letters

IsChineseDominant(text) ==
    LET said == {i \in DOMAIN text : text[i] \notin Spaces} IN
    /\ said # {}
    /\ 2 * Cardinality({i \in said : text[i] \in Letters}) >= Cardinality(said)

\* langdetect; it takes short classical Chinese for something else.
Detect(text) == "en"

ResolvePolicy(text, language) ==
    LET detected == IF language = "auto" THEN Detect(text) ELSE language
        profile  == IF detected = "zh" \/ (language = "auto" /\ IsChineseDominant(text))
                      THEN "zh" ELSE "generic"
        chars    == EffectiveChars(Plain(Normalize(profile, text)))
        passage  == IF profile = "zh" THEN ZhPassage ELSE Passage
    IN [profile |-> profile, effective |-> chars,
        seed    |-> IF profile = "zh" THEN ZhSeed ELSE Seed,
        passage |-> passage,
        short   |-> profile = "zh" /\ chars \in MinEffective .. passage - 1]

\* Half of the characters at least are word characters.
IsDiscriminative(text) ==
    /\ text # <<>>
    /\ 2 * Cardinality({i \in DOMAIN text : text[i] \in Letters \cup {Citation}}) >= Len(text)

-----------------------------------------------------------------------------
(* Fingerprints.                                                           *)

\* Mutant: the windows lie side by side.
Winnow_Apart(hashes) ==
    IF Len(hashes) <= W THEN {Min(ToSet(hashes))}
    ELSE {Min({hashes[j] : j \in i .. i + W - 1}) :
            i \in {i \in 1 .. Len(hashes) - W + 1 : i % W = 1}}

\* The minimum of every window; which of two equal hashes is selected does
\* not show in a set.
Winnow(hashes) ==
    IF Len(hashes) <= W THEN {Min(ToSet(hashes))}
    ELSE {Min({hashes[j] : j \in i .. i + W - 1}) : i \in 1 .. Len(hashes) - W + 1}

Fingerprint(profile, text) ==
    LET n == Plain(Normalize(profile, text)) IN
    IF Len(n) < K THEN {}
    ELSE Winnow([i \in 1 .. Len(n) - K + 1 |-> Hash(SubSeq(n, i, i + K - 1))])

\* Both profiles, so that a query of either finds the window.
ChunkFingerprints(text) ==
    UNION {Fingerprint(p, text) : p \in {"generic"} \cup (IF HasCjk(text) THEN {"zh"} ELSE {})}

\* chunk_document: windows of PerChunk sentences, the last one ends the text.
SlidingChunks(text) ==
    LET sentences == SentencesOf(text)
        n       == Len(sentences)
        stride  == PerChunk - Overlap
        starts  == Ascending({i \in 1 .. n : /\ (i - 1) % stride = 0
                                             /\ i = 1 \/ i - 1 - stride + PerChunk < n}, n)
        Window(i) == <<sentences[i][1], sentences[Min({i - 1 + PerChunk, n})][2]>>
        windows == Listed([k \in DOMAIN starts |-> Window(starts[k])])
    IN IF Strip(text) = <<>> THEN <<>>
       ELSE [k \in DOMAIN windows |->
               [start |-> windows[k][1], text |-> Slice(text, windows[k][1], windows[k][2])]]

-----------------------------------------------------------------------------
(* Alignment of a normalized query q and a normalized candidate c.  A      *)
(* match of length len puts q's qs .. qs + len on c's cs .. cs + len.      *)

Agree(q, c, qi, ci, n) == SubSeq(q, qi + 1, qi + n) = SubSeq(c, ci + 1, ci + n)

\* The maximal exact match through the window at qi and ci.
Maximal(q, c, qi, ci, min) ==
    LET left  == Max({n \in 0 .. Min({qi, ci}) : Agree(q, c, qi - n, ci - n, n)})
        right == Max({n \in 0 .. Min({Len(q) - qi, Len(c) - ci}) - min :
                        Agree(q, c, qi + min, ci + min, n)})
    IN [qs |-> qi - left, cs |-> ci - left, len |-> left + min + right]

Places(q, c, qi, min) ==
    LET at == Ascending({n \in 1 .. Len(c) - min + 1 : Agree(q, c, qi, n - 1, min)}, Len(c))
    IN [k \in DOMAIN at |-> at[k] - 1]

\* One round of _find_seeds; the next window looked up lies behind the
\* longest match of this one.
Seeded(q, c, min, acc, qi) ==
    LET places  == Places(q, c, qi, min)
        matches == [k \in DOMAIN places |-> Maximal(q, c, qi, places[k], min)]
        longest == Max({0} \cup {matches[k].len : k \in DOMAIN matches})
    IN IF qi < acc.next THEN acc
       ELSE [seeds |-> acc.seeds \o Those(matches, {k \in DOMAIN matches :
                                                     matches[k] \notin ToSet(acc.seeds)}),
             next  |-> qi + Max({1, longest - min + 1})]

FindSeeds(q, c, min) ==
    LET scan[n \in 0 .. Len(q) - min + 1] ==
          IF n = 0 THEN [seeds |-> <<>>, next |-> 0]
          ELSE Seeded(q, c, min, scan[n - 1], n - 1)
    IN scan[Len(q) - min + 1].seeds

Same(q, c, qi, ci, n) == Cardinality({i \in 1 .. n : q[qi + i] = c[ci + i]})

\* The windows beside a match count as long as half of their characters
\* agree (extend_tolerance).
Tolerable(q, c, qi, ci) ==
    /\ qi >= 0 /\ ci >= 0 /\ qi + Lookahead <= Len(q) /\ ci + Lookahead <= Len(c)
    /\ 2 * Same(q, c, qi, ci, Lookahead) >= Lookahead

Extend(q, c, m) ==
    LET At(k)  == IF k > 0 THEN m.len + (k - 1) * Lookahead ELSE k * Lookahead
        Far(S) == Max({n \in 0 .. Len(q) : \A k \in 1 .. n :
                         Tolerable(q, c, m.qs + At(S * k), m.cs + At(S * k))})
        left   == Far(-1) * Lookahead
    IN [qs |-> m.qs - left, cs |-> m.cs - left, len |-> left + m.len + Far(1) * Lookahead]

Diagonal(m) == m.cs - m.qs

Merged(acc, m) ==
    LET last   == Last(acc)
        longer == [last EXCEPT !.len = Max({@, m.qs + m.len - last.qs})]
    IN IF /\ acc # <<>> /\ Diagonal(m) = Diagonal(last)
          /\ m.qs <= last.qs + last.len + MergeGap
         THEN [acc EXCEPT ![Len(acc)] = longer] ELSE Append(acc, m)

\* By where they start in the query, then in the candidate.
ByPlace(matches) ==
    LET byCandidate == Sorted(matches, [k \in DOMAIN matches |-> matches[k].cs])
    IN Sorted(byCandidate, [k \in DOMAIN byCandidate |-> byCandidate[k].qs])

Merge(matches) ==
    LET sorted == ByPlace(matches)
        merged[i \in 0 .. Len(sorted)] ==
          IF i = 0 THEN <<>> ELSE Merged(merged[i - 1], sorted[i])
    IN merged[Len(sorted)]

Common(s1, e1, s2, e2) == Max({0, Min({e1, e2}) - Max({s1, s2})})

\* Longest first; one more than half covered by a kept one is dropped.
Uncovered(kept, m) ==
    IF \E k \in DOMAIN kept :
          2 * Common(m.qs, m.qs + m.len, kept[k].qs, kept[k].qs + kept[k].len) > m.len
      THEN kept ELSE Append(kept, m)

DedupeByQueryCoverage(matches) ==
    LET sorted == Sorted(matches, [k \in DOMAIN matches |-> -matches[k].len])
        kept[i \in 0 .. Len(sorted)] ==
          IF i = 0 THEN <<>> ELSE Uncovered(kept[i - 1], sorted[i])
    IN kept[Len(sorted)]

\* _score_and_build; a match that is the whole of a side is all of its text,
\* which OriginalSpan says already.
Build(nq, nc, query, candidate, m) ==
    [query  |-> OriginalSpan(nq, m.qs, m.qs + m.len, query),
     source |-> OriginalSpan(nc, m.cs, m.cs + m.len, candidate),
     score  |-> <<Same(Plain(nq), Plain(nc), m.qs, m.cs, m.len), m.len>>]

\* The whole query, wherever it occurs.
ShortExact(nq, nc, query, candidate) ==
    LET places == Places(Plain(nq), Plain(nc), 0, Len(nq))
    IN [k \in DOMAIN places |->
          [query  |-> <<0, Len(query)>>,
           source |-> OriginalSpan(nc, places[k], places[k] + Len(nq), candidate),
           score  |-> <<1, 1>>]]

\* One candidate's turn in align(), both sides normalized.
AlignNormal(policy, query, candidate, nq, nc) ==
    LET q  == Plain(nq)
        c  == Plain(nc)
        seeds == FindSeeds(q, c, policy.seed)
        runs  == DedupeByQueryCoverage(Merge(Listed([k \in DOMAIN seeds |-> Extend(q, c, seeds[k])])))
        long  == Those(runs, {k \in DOMAIN runs : runs[k].len >= policy.passage})
    IN IF \/ EffectiveChars(q) = 0 \/ Len(q) < policy.seed
          \/ EffectiveChars(c) = 0 \/ Len(c) < policy.seed THEN <<>>
       ELSE IF policy.profile = "zh" /\ EffectiveChars(q) \in policy.seed .. policy.passage - 1
         THEN ShortExact(nq, nc, query, candidate)
       ELSE Listed([k \in DOMAIN long |-> Build(nq, nc, query, candidate, long[k])])

Align(policy, query, candidate) ==
    AlignNormal(policy, query, candidate, Normalize(policy.profile, query),
                                          Normalize(policy.profile, candidate))

-----------------------------------------------------------------------------
(* dedupe_passage_indexes.                                                 *)

Length(span) == span[2] - span[1]

Higher(p, o) == p.score[1] * o.score[2] > o.score[1] * p.score[2]

\* Both sides overlap by 95% of the shorter one, on one diagonal.
SamePhysicalPassage(p, o) ==
    LET Nested(s, t) == 100 * Common(s[1], s[2], t[1], t[2]) >= 95 * Min({Length(s), Length(t)})
    IN /\ 0 < Min({Length(p.query), Length(o.query), Length(p.source), Length(o.source)})
       /\ Nested(p.query, o.query) /\ Nested(p.source, o.source)
       /\ p.source[1] - p.query[1] = o.source[1] - o.query[1]

\* The better of two copies of one passage stays, in the place of the first.
Kept(passages, kept, i) ==
    LET copies == {k \in DOMAIN kept : SamePhysicalPassage(passages[i], passages[kept[k]])} IN
    IF copies = {} THEN Append(kept, i)
    ELSE IF Higher(passages[i], passages[kept[Min(copies)]])
           THEN [kept EXCEPT ![Min(copies)] = i] ELSE kept

\* From the left to the right, the longer one first.
Survivors(passages) ==
    LET Key(i) == <<passages[i].query[1], -Length(passages[i].query),
                    passages[i].source[1], -Length(passages[i].source), i>>
        Earlier(i, j) == \E n \in 1 .. 5 : /\ Key(i)[n] < Key(j)[n]
                                           /\ \A o \in 1 .. n - 1 : Key(i)[o] = Key(j)[o]
    IN FoldLeft(LAMBDA acc, i : Kept(passages, acc, i), <<>>,
                SortSeq(Indices(passages), Earlier))

DedupePassages(passages) ==
    Those(passages, {i \in DOMAIN passages : i \in ToSet(Survivors(passages))})
=============================================================================
