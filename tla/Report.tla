------------------------------- MODULE Report -------------------------------
(***************************************************************************)
(* One plagiarism check over a library of documents, from its admission to *)
(* the report and the passages a reader opens from it.  CheckRunner.run    *)
(* probes the corpus by one window of the query after the other and aligns *)
(* the candidates of each; meanwhile the time may run out, the check may   *)
(* be cancelled, documents may be deleted and the document frequencies     *)
(* rebuilt.  What CorpusProjection builds and CheckLifecycle claims and    *)
(* settles is here the text that passes through.                           *)
(***************************************************************************)
EXTENDS Matching

CONSTANTS
    Titles,        \* the documents, in the order of their projection ids
    Drafts,        \* what may be written in each of them, a sequence of lines
    Queries,       \* texts submitted
    Languages,     \* languages declared with them
    RatioNum, RatioDen   \* plag_df_ratio_threshold

ASSUME ReportAssumption ==
    /\ RatioDen \in Nat \ {0} /\ RatioNum \in 0 .. RatioDen
    /\ Titles \in Seq(ToSet(Titles)) /\ None \notin ToSet(Titles)
    /\ Queries \subseteq Seq(Chars)
    /\ \A d \in ToSet(Titles) : Drafts[d] # {} /\ Drafts[d] \subseteq Seq(Seq(Chars))

VARIABLES
    library,   \* the current version of each document, or None once it is deleted
    df,        \* plag_fingerprint_df: document_count of each fingerprint
    check,     \* the check and its worker's progress
    cancel,    \* cancel_requested
    expired,   \* the budget's deadline has passed
    lossy      \* history: ways in which this check looked at less

vars == <<library, df, check, cancel, expired, lossy>>

Documents == ToSet(Titles)

Texts == UNION {Drafts[d] : d \in Documents}

\* ProjectionBuilder.build: the text joined from the rows of a version, and the
\* windows of it with their fingerprints.
Built(lines, rows) ==
    LET text   == LoadText(rows)
        chunks == SlidingChunks(text)
    IN [lines |-> lines, rows |-> rows, text |-> text,
        chunks |-> [k \in DOMAIN chunks |->
                      [start |-> chunks[k].start, text |-> chunks[k].text,
                       prints |-> ChunkFingerprints(chunks[k].text)]]]

Version(lines) == Built(lines, RowsOf(lines))

Live == {d \in Documents : library[d] # None}

PrintsOf(d) == UNION {c.prints : c \in ToSet(library[d].chunks)}

\* rebuild_fingerprint_df
Frequencies ==
    [fp \in UNION {PrintsOf(d) : d \in Live} |->
        Cardinality({d \in Live : fp \in PrintsOf(d)})]

-----------------------------------------------------------------------------
(* Stop fingerprints and candidates.                                       *)

Cutoff(size) == Max({1, (size * RatioNum) \div RatioDen})

StopFingerprints(size) ==
    IF size < 3 THEN {} ELSE {fp \in DOMAIN df : df[fp] >= Cutoff(size)}

\* stop_list.apply: never an empty probe for want of rarer fingerprints.
Probe(policy, stopped, text) ==
    LET raw == Fingerprint(policy.profile, text) IN
    IF policy.short \/ raw \subseteq stopped THEN raw ELSE raw \ stopped

\* Windows as pairs of a document and an index, in the order of both.
WindowsOf(d) == [k \in DOMAIN library[d].chunks |-> <<d, k>>]

\* The windows of some documents that share a fingerprint with the probe.
Sharing(probe, documents) ==
    LET among   == Those(Titles, {i \in DOMAIN Titles : Titles[i] \in documents})
        windows == FlattenSeq([i \in DOMAIN among |-> WindowsOf(among[i])])
    IN Those(windows, {k \in DOMAIN windows :
                library[windows[k][1]].chunks[windows[k][2]].prints \cap probe # {}})

\* Mutant: the excluded document is searched as well.
Matches_All(probe, documents, excluded) ==
    Sharing(probe, documents \cap Live)

Matches(probe, documents, excluded) ==
    Sharing(probe, (documents \cap Live) \ {excluded})

-----------------------------------------------------------------------------
(* The check.                                                              *)

NoCheck == [stage |-> "none"]

Requested(text, language, policy, source) ==
    [stage |-> "queued", text |-> text, language |-> language, policy |-> policy,
     source |-> source]

\* create_text_check: the policy is frozen, too short a text refused.
SubmitText(text, language) ==
    /\ check = NoCheck
    /\ ResolvePolicy(text, language).effective >= MinEffective
    /\ check' = Requested(text, language, ResolvePolicy(text, language), None)
    /\ UNCHANGED <<library, df, cancel, expired, lossy>>

\* create_document_check: the text is read when the check runs.
SubmitDocument(d) ==
    /\ check = NoCheck /\ d \in Live
    /\ check' = Requested(None, "auto", None, d)
    /\ UNCHANGED <<library, df, cancel, expired, lossy>>

\* The rows of the frozen version are gone, or hold too little text.
Unresolvable(c) ==
    /\ c.source # None
    /\ \/ c.source \notin Live
       \/ ResolvePolicy(library[c.source].text, "auto").effective < MinEffective

\* run, up to the first window.
Start ==
    /\ check.stage = "queued"
    /\ IF Unresolvable(check) THEN check' = [stage |-> "failed"]
       ELSE LET text   == IF check.source = None THEN check.text
                                                 ELSE library[check.source].text
                policy == IF check.source = None THEN check.policy
                                                 ELSE ResolvePolicy(text, "auto")
            IN check' = [stage   |-> "probing", text |-> text, policy |-> policy,
                         source  |-> check.source,
                         chunks  |-> SlidingChunks(text), checked |-> 0,
                         among   |-> Live, stopped |-> StopFingerprints(Cardinality(Live)),
                         todo    |-> <<>>, found |-> <<>>, cancelled |-> FALSE]
    /\ UNCHANGED <<library, df, cancel, expired, lossy>>

Chunk == check.chunks[check.checked + 1]

More == check.stage = "probing" /\ check.checked < Len(check.chunks)

\* The flag is read before every window.
StopEarly ==
    /\ More /\ (cancel \/ expired)
    /\ check' = [check EXCEPT !.stage = "persisting", !.cancelled = cancel]
    /\ UNCHANGED <<library, df, cancel, expired, lossy>>

\* A rule or a run of separators counts as checked.
SkipChunk ==
    /\ More /\ ~cancel /\ ~expired /\ ~IsDiscriminative(Chunk.text)
    /\ check' = [check EXCEPT !.checked = @ + 1]
    /\ UNCHANGED <<library, df, cancel, expired, lossy>>

Propose(raw, probe, all) ==
    /\ check' = [check EXCEPT !.stage = "aligning",
                   !.todo = [i \in DOMAIN Taken(all, TopK) |->
                               [doc |-> all[i][1],
                                chunk |-> library[all[i][1]].chunks[all[i][2]]]]]
    /\ lossy' = lossy \cup (IF probe # raw THEN {"common"} ELSE {})
                      \cup (IF Len(all) > TopK THEN {"limit"} ELSE {})

FindCandidates ==
    /\ More /\ ~cancel /\ ~expired /\ IsDiscriminative(Chunk.text)
    /\ LET probe == Probe(check.policy, check.stopped, Chunk.text) IN
       Propose(Fingerprint(check.policy.profile, Chunk.text), probe,
               Matches(probe, check.among, check.source))
    /\ UNCHANGED <<library, df, cancel, expired>>

\* Mutant: the source side keeps the offsets within its window.
InDocuments_Local(c, candidate, p) ==
    [doc |-> candidate.doc, score |-> p.score, source |-> p.source,
     query |-> <<c.start + p.query[1], c.start + p.query[2]>>]

\* Offsets into the two documents.
InDocuments(c, candidate, p) ==
    [doc |-> candidate.doc, score |-> p.score,
     query  |-> <<c.start + p.query[1], c.start + p.query[2]>>,
     source |-> <<candidate.chunk.start + p.source[1], candidate.chunk.start + p.source[2]>>]

\* if is_discriminative(chunk.text[p.query_start:p.query_end])
Worthwhile(text, passages) ==
    Those(passages, {k \in DOMAIN passages :
        IsDiscriminative(Slice(text, passages[k].query[1], passages[k].query[2]))})

\* align polls should_stop before each candidate.
AlignNext ==
    /\ check.stage = "aligning" /\ check.todo # <<>> /\ ~expired
    /\ LET candidate  == Head(check.todo)
           aligned    == Align(check.policy, Chunk.text, candidate.chunk.text)
           worthwhile == Worthwhile(Chunk.text, aligned)
       IN /\ check' = [check EXCEPT !.todo = Tail(@),
                         !.found = @ \o [k \in DOMAIN worthwhile |->
                                          InDocuments(Chunk, candidate, worthwhile[k])]]
          /\ lossy' = lossy \cup (IF worthwhile # aligned THEN {"marks"} ELSE {})
    /\ UNCHANGED <<library, df, cancel, expired>>

Abandon ==
    /\ check.stage = "aligning" /\ check.todo # <<>> /\ expired
    /\ check' = [check EXCEPT !.todo = <<>>]
    /\ lossy' = lossy \cup {"time"}
    /\ UNCHANGED <<library, df, cancel, expired>>

EndChunk ==
    /\ check.stage = "aligning" /\ check.todo = <<>>
    /\ check' = [check EXCEPT !.stage = "probing", !.checked = @ + 1]
    /\ UNCHANGED <<library, df, cancel, expired, lossy>>

AllChecked ==
    /\ check.stage = "probing" /\ check.checked = Len(check.chunks)
    /\ check' = [check EXCEPT !.stage = "persisting"]
    /\ UNCHANGED <<library, df, cancel, expired, lossy>>

Spans(passages) == [k \in DOMAIN passages |-> passages[k].query]

Covered(intervals) ==
    LET merged == MergeIntervals(intervals) IN
    FoldLeft(LAMBDA sum, i : sum + Length(i), 0, merged)

FoundIn(passages, d) == Those(passages, {k \in DOMAIN passages : passages[k].doc = d})

CoverageReason(c) ==
    IF c.cancelled THEN "cancelled"
    ELSE IF c.checked < Len(c.chunks) THEN "time_cap" ELSE ""

\* _persist: a document deleted meanwhile is left out.
Persist ==
    /\ check.stage = "persisting"
    /\ LET sources == Those(Titles, {i \in DOMAIN Titles :
                          Titles[i] \in Live /\ FoundIn(check.found, Titles[i]) # <<>>})
           rows    == [i \in DOMAIN sources |->
                         [doc |-> sources[i], book |-> library[sources[i]],
                          passages |-> DedupePassages(FoundIn(check.found, sources[i]))]]
       IN check' = [stage |-> "done", text |-> check.text, policy |-> check.policy,
                    source |-> check.source, chunks |-> check.chunks,
                    checked |-> check.checked, coverage |-> CoverageReason(check),
                    sources |-> rows,
                    matched |-> Covered(FlattenSeq([i \in DOMAIN rows |-> Spans(rows[i].passages)]))]
    /\ UNCHANGED <<library, df, cancel, expired, lossy>>

\* get_report: the spans of the sources, deduplicated and merged once more.
UniquePassages ==
    MergeIntervals(FlattenSeq(
        [i \in DOMAIN check.sources |-> Spans(DedupePassages(check.sources[i].passages))]))

-----------------------------------------------------------------------------
(* What happens around it.                                                 *)

Busy == check.stage \in {"probing", "aligning"}

RequestCancel ==
    /\ Busy /\ ~cancel
    /\ cancel' = TRUE
    /\ UNCHANGED <<library, df, check, expired, lossy>>

TimeUp ==
    /\ Busy /\ ~expired
    /\ expired' = TRUE
    /\ UNCHANGED <<library, df, check, cancel, lossy>>

\* At most one document is deleted.
DeleteDocument(d) ==
    /\ Live = Documents /\ check.stage \notin {"none", "failed", "done"}
    /\ library' = [library EXCEPT ![d] = None]
    /\ UNCHANGED <<df, check, cancel, expired, lossy>>

RebuildDf ==
    /\ check = NoCheck
    /\ df' = Frequencies
    /\ UNCHANGED <<library, check, cancel, expired, lossy>>

-----------------------------------------------------------------------------

\* Every document has been built; no frequencies have been counted yet.
Init ==
    /\ library \in {[d \in Documents |-> Version(f[d])] :
            f \in {f \in [Documents -> Texts] : \A d \in Documents : f[d] \in Drafts[d]}}
    /\ df = [fp \in {} |-> 0]
    /\ check = NoCheck
    /\ cancel = FALSE /\ expired = FALSE
    /\ lossy = {}

Admit == \/ \E text \in Queries, language \in Languages : SubmitText(text, language)
         \/ \E d \in Documents : SubmitDocument(d)

Run == Start \/ StopEarly \/ SkipChunk \/ FindCandidates \/ AlignNext \/ Abandon
       \/ EndChunk \/ AllChecked \/ Persist

Environment == RequestCancel \/ TimeUp \/ RebuildDf \/ \E d \in Documents : DeleteDocument(d)

Next == Admit \/ Run \/ Environment

Spec == Init /\ [][Next]_vars

-----------------------------------------------------------------------------
(* Properties.                                                             *)

Done == check.stage = "done"

Passages == UNION {ToSet(check.sources[i].passages) : i \in DOMAIN check.sources}

BookOf(p) ==
    LET source == CHOOSE i \in DOMAIN check.sources : check.sources[i].doc = p.doc
    IN check.sources[source].book

TextAt(p) == BookOf(p).text

\* Every passage lies within the two texts, and is a passage of another
\* document than the one that is checked.
TypeOK ==
    /\ \A d \in Documents : library[d] # None => library[d].lines \in Drafts[d]
    /\ check.stage \in {"none", "queued", "failed", "probing", "aligning", "persisting", "done"}
    /\ cancel \in BOOLEAN /\ expired \in BOOLEAN
    /\ lossy \subseteq {"time", "common", "limit", "marks"}
    /\ Done => \A p \in Passages :
         /\ p.doc # check.source
         /\ 0 <= p.query[1] /\ p.query[1] < p.query[2] /\ p.query[2] <= Len(check.text)
         /\ 0 <= p.source[1] /\ p.source[1] < p.source[2] /\ p.source[2] <= Len(TextAt(p))

Kernel(profile, text) ==
    LET n == Plain(Normalize(profile, text))
        said == {i \in DOMAIN n : n[i] \notin Ignored}
    IN IF said = {} THEN <<>> ELSE SubSeq(n, Min(said), Max(said))

\* A passage reported as verbatim, at a score of one, spells the same text in
\* the query and in the source, up to what normalization ignores: the offsets
\* survive normalization, the windows of both texts and the dedupe.
VerbatimMeansEqual ==
    Done => \A p \in Passages :
        p.score[1] = p.score[2] =>
            Kernel(check.policy.profile, Slice(check.text, p.query[1], p.query[2]))
              = Kernel(check.policy.profile, Slice(TextAt(p), p.source[1], p.source[2]))

\* The longest run that a window of the query shares with one of a document.
Runs(q, c, n) ==
    {i \in 0 .. Len(q) - n : \E j \in 0 .. Len(c) - n : Agree(q, c, i, j, n)}

Guaranteed == Max({K + W - 1, check.policy.seed, check.policy.passage})

\* Where the windows of query chunk k and of a document share a run long
\* enough for winnowing, for a seed and for a passage.
SharedRuns(k, chunk) ==
    LET q == Plain(Normalize(check.policy.profile, check.chunks[k].text))
        c == Plain(Normalize(check.policy.profile, chunk.text))
    IN IF /\ IsDiscriminative(check.chunks[k].text)
          /\ EffectiveChars(q) > 0 /\ EffectiveChars(c) > 0
         THEN Runs(q, c, Guaranteed) ELSE {}

Sources == {check.sources[i].doc : i \in DOMAIN check.sources}

\* Nothing was left out: neither candidates nor spans, nor a window.
Thorough == Done /\ lossy = {} /\ check.coverage = ""

\* winnowing.py promises a shared fingerprint for a run of K + W - 1: after a
\* thorough check every document that shares such a run is among the sources.
CopiedDocumentIsNamed ==
    Thorough => \A d \in (Live \ {check.source}) \ Sources :
        \A k \in DOMAIN check.chunks, j \in DOMAIN library[d].chunks :
            SharedRuns(k, library[d].chunks[j]) = {}

\* seed_extend.py finds "every maximal exact common substring": the run itself
\* overlaps a passage of that document.
SharedRunIsReported ==
    Thorough => \A d \in Live \ {check.source} :
        \A k \in DOMAIN check.chunks, j \in DOMAIN library[d].chunks :
            \A i \in SharedRuns(k, library[d].chunks[j]) :
                LET n    == Normalize(check.policy.profile, check.chunks[k].text)
                    from == check.chunks[k].start + n[i + 1].start
                    to   == check.chunks[k].start + n[i + Guaranteed].end
                IN \E p \in Passages :
                      p.doc = d /\ Common(p.query[1], p.query[2], from, to) > 0

\* matched_chars, stored with the check, is what the report shows: the length
\* of its unique passages, which are disjoint, in order, and cover exactly the
\* characters some passage covers.
MatchedIsWhatIsShown ==
    Done => LET unique == UniquePassages IN
        /\ check.matched = FoldLeft(LAMBDA sum, i : sum + Length(i), 0, unique)
        /\ \A i \in 1 .. Len(unique) - 1 : unique[i][2] < unique[i + 1][1]
        /\ UNION {u[1] .. u[2] - 1 : u \in ToSet(unique)}
             = UNION {p.query[1] .. p.query[2] - 1 : p \in Passages}

\* should_stop leaves it to the caller to label a partial result: a check that
\* has left candidates out says so in its report.
PartialIsLabelled == Done /\ "time" \in lossy => check.coverage # ""

\* All rows up to the end of the passage have the length their offsets say,
\* and neither end of it lies in the blanks between two rows.
Aligned(p) ==
    LET rows == BookOf(p).rows
        In(i) == \E k \in DOMAIN rows : rows[k].start <= i /\ i < rows[k].end
    IN /\ \A k \in DOMAIN rows : rows[k].start < p.source[2] => IsExact(rows[k])
       /\ In(p.source[1]) /\ In(p.source[2] - 1)

\* Each character is marked once, in a row that has it at this place of the
\* text the check has seen; what is not marked is a gap.
Spells(book, span, window) ==
    LET marked == FlattenSeq([i \in DOMAIN window.marks |->
                    [n \in DOMAIN window.marks[i].at |->
                       [row |-> book.rows[window.marks[i].row], at |-> window.marks[i].at[n]]]])
        InRow(m) == Slice(m.row.text, m.at[1] - m.row.start, m.at[2] - m.row.start)
        Covers(at) == at[1] .. at[2] - 1
    IN /\ \A u, v \in DOMAIN marked : u # v => Covers(marked[u].at) \cap Covers(marked[v].at) = {}
       /\ \A m \in ToSet(marked) : InRow(m) = Slice(book.text, m.at[1], m.at[2])
       /\ UNION {Covers(m.at) : m \in ToSet(marked)} \cup UNION {Covers(g) : g \in window.gaps}
            = Covers(span)

\* What is marked when the reader opens a passage is what matched.
MarksSpell(p) ==
    LET window == Locate(BookOf(p).rows, p.source[1], p.source[2], 1)
    IN window # None /\ Spells(BookOf(p), p.source, window)

\* Wherever the chunker kept the offsets, every passage of the report opens,
\* and what is marked is what matched.
PassagesOpen == Done => \A p \in Passages : Aligned(p) => MarksSpell(p)

\* projection.py pads "so every later offset still lines up with the parsed
\* text": what a passage spells in the text that was searched, the document
\* has at the same place.
OffsetsLineUp ==
    Done => \A i \in DOMAIN check.sources, p \in Passages :
        p.doc = check.sources[i].doc =>
            \A n \in p.source[1] + 1 .. p.source[2] :
                TextAt(p)[n] \in Letters => TextOf(BookOf(p).lines)[n] = TextAt(p)[n]

\* reading.py holds the blanks between neighbouring rows to be explainable: a
\* passage opens even if it ends in them.
EveryPassageOpens ==
    Done => \A p \in Passages :
        (\A row \in ToSet(BookOf(p).rows) : IsExact(row)) => MarksSpell(p)

\* Nothing of the text is lost on the way to the rows: each sentence of a
\* section that fits into a piece is whole in some row of that section.
NothingIsLost ==
    \A d \in Live : \A block \in ToSet(BlocksOf(library[d].lines)) :
        \A sentence \in ToSet(SentencesOf(block.text)) :
            LET text == Stripped(block.text, sentence) IN
            text # <<>> /\ Len(text) <= TargetChars =>
                \E row \in ToSet(library[d].rows) :
                    /\ row.section = block.section
                    /\ \E i \in 0 .. Len(row.text) - Len(text) :
                          Slice(row.text, i, i + Len(text)) = text
=============================================================================
