---------------------------- MODULE DocumentText ----------------------------
(***************************************************************************)
(* A document's text and the offsets into it, from the parser to the       *)
(* reader: build_from_markdown cuts the text into blocks, the structural   *)
(* chunker cuts blocks into overlapping chunk rows, the plagiarism corpus  *)
(* joins the rows into a text again, and the reader looks a range of that  *)
(* text up in the rows.  A text is a sequence of characters; offsets count *)
(* from 0, and a span <<s, e>> is half-open.                               *)
(***************************************************************************)
EXTENDS Lists, TLC, SequencesExt, FiniteSetsExt

CONSTANTS
    TargetChars,   \* chunk_target_tokens, in characters
    OverlapChars,  \* chunk_overlap_tokens, in characters
    MinChars,      \* chunk_min_chars
    MaxChars,      \* chunk_max_chars
    MaxWindow,     \* MAX_WINDOW_CHUNKS
    None

ASSUME ChunkAssumption ==
    /\ TargetChars \in Nat \ {0} /\ OverlapChars \in Nat /\ MinChars \in Nat
    /\ MaxChars \in Nat \ {0} /\ MaxWindow \in Nat \ {0}

\* Han characters, a full stop, a rule, a newline, a space, the mark of a
\* heading, and a citation marker such as [1] taken as one character.
Letters     == {"a", "b"}
Stop        == "."
Newline     == "n"
Spaces      == {Newline, " "}
Punctuation == {Stop, "-", "#"}
Citation    == "c"
Chars       == Letters \cup Spaces \cup Punctuation \cup {Citation}

Slice(text, s, e) == SubSeq(text, s + 1, e)

Indices(text) == [i \in 1 .. Len(text) |-> i]

Strip(text) ==
    LET kept == {i \in 1 .. Len(text) : text[i] \notin Spaces} IN
    IF kept = {} THEN <<>> ELSE SubSeq(text, Min(kept), Max(kept))

-----------------------------------------------------------------------------
(* Parsing: a document is a sequence of lines without spaces around them.  *)

TextOf(lines) ==
    LET joined[i \in 0 .. Len(lines)] ==
          IF i = 0 THEN <<>>
          ELSE joined[i - 1] \o (IF i = 1 THEN <<>> ELSE <<Newline>>) \o lines[i]
    IN joined[Len(lines)]

LineStart(lines, i) ==
    IF i = 1 THEN 0 ELSE Len(TextOf(SubSeq(lines, 1, i - 1))) + 1

IsHeading(line) == line # <<>> /\ line[1] = "#"

\* The lines under heading h that are not blank; 0 is the root section.
Body(lines, h) ==
    {i \in h + 1 .. Len(lines) :
        /\ lines[i] # <<>>
        /\ \A j \in h + 1 .. i : ~IsHeading(lines[j])}

BlockUnder(lines, h) ==
    LET body == Body(lines, h) IN
    [section |-> h,
     start   |-> LineStart(lines, Min(body)),
     text    |-> TextOf(SubSeq(lines, Min(body), Max(body)))]

BlocksOf(lines) ==
    LET sections == Ascending({n \in 1 .. Len(lines) + 1 :
                               /\ n = 1 \/ IsHeading(lines[n - 1])
                               /\ Body(lines, n - 1) # {}}, Len(lines) + 1)
    IN [k \in DOMAIN sections |-> BlockUnder(lines, sections[k] - 1)]

-----------------------------------------------------------------------------
(* StructuralChunker.                                                      *)

\* A sentence keeps its terminator; a line break is one.
SentencesOf(text) ==
    LET ends == Ascending({i \in DOMAIN text : text[i] \in {Stop, Newline} \/ i = Len(text)},
                        Len(text))
    IN Listed([k \in DOMAIN ends |-> <<IF k = 1 THEN 0 ELSE ends[k - 1], ends[k]>>])

HardSplit(s, e) ==
    [k \in 1 .. (e - s + TargetChars - 1) \div TargetChars |->
        <<s + (k - 1) * TargetChars, Min({s + k * TargetChars, e})>>]

\* The buffer is what lies between start and cursor.
Packed(acc, sentence) ==
    LET size   == sentence[2] - sentence[1]
        full   == acc.start < acc.cursor /\ acc.cursor - acc.start + size > TargetChars
        pieces == IF full THEN Append(acc.pieces, <<acc.start, acc.cursor>>) ELSE acc.pieces
    IN IF size > TargetChars
         THEN [pieces |-> pieces \o HardSplit(sentence[1], sentence[2]),
               start  |-> sentence[2], cursor |-> sentence[2]]
         ELSE [pieces |-> pieces,
               start  |-> IF full THEN acc.cursor ELSE acc.start,
               cursor |-> sentence[2]]

\* What is left in the buffer is the last piece.
Flushed(acc) ==
    IF acc.start < acc.cursor THEN Append(acc.pieces, <<acc.start, acc.cursor>>)
                              ELSE acc.pieces

Stripped(text, piece) == Strip(Slice(text, piece[1], piece[2]))

Pack(text) ==
    LET sentences == SentencesOf(text)
        packed[i \in 0 .. Len(sentences)] ==
          IF i = 0 THEN [pieces |-> <<>>, start |-> 0, cursor |-> 0]
          ELSE Packed(packed[i - 1], sentences[i])
        pieces == Flushed(packed[Len(sentences)])
    IN Those(pieces, {k \in DOMAIN pieces : Stripped(text, pieces[k]) # <<>>})

TailOf(text) == Slice(text, Max({Len(text) - OverlapChars, 0}), Len(text))

\* Each piece is stripped and takes the tail of the one before it along.
Chunked(block, pieces) ==
    [k \in DOMAIN pieces |->
        LET before == IF k = 1 THEN <<>> ELSE TailOf(Stripped(block.text, pieces[k - 1])) IN
        [section |-> block.section,
         text    |-> before \o Stripped(block.text, pieces[k]),
         start   |-> Max({block.start + pieces[k][1] - Len(before), 0}),
         end     |-> block.start + pieces[k][2]]]

\* Mutant: the last piece is forgotten.
ChunkBlock_Front(block) == Chunked(block, Front(Pack(block.text)))

ChunkBlock(block) == Chunked(block, Pack(block.text))

Absorbed(result, chunk) ==
    LET last   == Last(result)
        longer == [last EXCEPT !.text = @ \o <<Newline>> \o chunk.text,
                               !.end = Max({@, chunk.end})]
    IN IF /\ Len(chunk.text) < MinChars
          /\ result # <<>>
          /\ last.section = chunk.section
          /\ Len(last.text) + Len(chunk.text) <= MaxChars
         THEN [result EXCEPT ![Len(result)] = longer]
         ELSE Append(result, chunk)

\* The rows of a version, in the order of their ordinals.
RowsOf(lines) ==
    LET blocks == BlocksOf(lines)
        chunks == FlattenSeq([k \in DOMAIN blocks |-> ChunkBlock(blocks[k])])
        rows[i \in 0 .. Len(chunks)] ==
          IF i = 0 THEN <<>> ELSE Absorbed(rows[i - 1], chunks[i])
    IN rows[Len(chunks)]

-----------------------------------------------------------------------------
(* ProjectionBuilder._load_text.                                           *)

Blanks(n) == [i \in 1 .. n |-> " "]

\* Mutant: a gap between two rows is not padded.
Joined_Unpadded(acc, row) ==
    LET cursor == Max({acc.cursor, row.start}) IN
    IF row.end <= cursor THEN [acc EXCEPT !.cursor = cursor]
    ELSE [text |-> acc.text \o Slice(row.text, cursor - row.start, Len(row.text)),
          cursor |-> row.end]

Joined(acc, row) ==
    LET cursor == Max({acc.cursor, row.start})
        padded == acc.text \o Blanks(cursor - acc.cursor)
    IN IF row.end <= cursor
         THEN [text |-> padded, cursor |-> cursor]
         ELSE [text |-> padded \o Slice(row.text, cursor - row.start, Len(row.text)),
               cursor |-> row.end]

ByStart(rows) == Sorted(rows, [k \in DOMAIN rows |-> rows[k].start])

LoadText(rows) ==
    LET sorted == ByStart(rows)
        joined[i \in 0 .. Len(sorted)] ==
          IF i = 0 THEN [text |-> <<>>, cursor |-> 0] ELSE Joined(joined[i - 1], sorted[i])
    IN joined[Len(sorted)].text

-----------------------------------------------------------------------------
(* Intervals: plagiarism/intervals.py and reading.py merge them alike.     *)

Before(i, j) == i[1] < j[1] \/ (i[1] = j[1] /\ i[2] < j[2])

\* Mutant: an interval that ends inside the last one cuts it short.
Extended_Latest(merged, interval) ==
    IF merged # <<>> /\ interval[1] <= Last(merged)[2]
      THEN [merged EXCEPT ![Len(merged)] = <<@[1], interval[2]>>]
      ELSE Append(merged, interval)

Extended(merged, interval) ==
    IF merged # <<>> /\ interval[1] <= Last(merged)[2]
      THEN [merged EXCEPT ![Len(merged)] = <<@[1], Max({@[2], interval[2]})>>]
      ELSE Append(merged, interval)

MergeIntervals(intervals) == FoldLeft(Extended, <<>>, SortSeq(intervals, Before))

\* What one covered interval leaves of a piece.
Without(piece, covered) ==
    IF covered[2] <= piece[1] \/ covered[1] >= piece[2] THEN <<piece>>
    ELSE (IF piece[1] < covered[1] THEN <<<<piece[1], covered[1]>>>> ELSE <<>>)
      \o (IF covered[2] < piece[2] THEN <<<<covered[2], piece[2]>>>> ELSE <<>>)

SubtractIntervals(s, e, covered) ==
    FoldLeft(LAMBDA pieces, c : FlattenSeq([k \in DOMAIN pieces |-> Without(pieces[k], c)]),
             <<<<s, e>>>>, covered)

-----------------------------------------------------------------------------
(* reading.py: rows are those of one version, in the order of ordinals.    *)

IsExact(row) == row.end = row.start + Len(row.text)

Overlapping(rows, s, e) ==
    Ascending({k \in DOMAIN rows : rows[k].end > s /\ rows[k].start < e}, Len(rows))

\* One row of resolve_highlights: what no earlier row has marked.
Marked(rows, s, e, acc, k) ==
    LET from   == Max({s, rows[k].start})
        to     == Min({e, rows[k].end})
        pieces == SubtractIntervals(from, to, acc.covered)
    IN IF ~IsExact(rows[k]) \/ from >= to \/ pieces = <<>> THEN acc
       ELSE [marks   |-> Append(acc.marks, [row |-> k, at |-> pieces]),
             covered |-> MergeIntervals(acc.covered \o pieces)]

\* The blanks _load_text puts between two neighbouring rows.
KnownGaps(rows, hits) ==
    {<<rows[hits[i]].end, rows[hits[i + 1]].start>> :
        i \in {i \in 1 .. Len(hits) - 1 :
                 /\ IsExact(rows[hits[i]]) /\ IsExact(rows[hits[i + 1]])
                 /\ hits[i + 1] = hits[i] + 1
                 /\ rows[hits[i]].end < rows[hits[i + 1]].start}}

Highlights(rows, s, e) ==
    LET hits == Overlapping(rows, s, e)
        end  == FoldLeft(LAMBDA acc, k : Marked(rows, s, e, acc, k),
                         [marks |-> <<>>, covered |-> <<>>], hits)
        left == ToSet(SubtractIntervals(s, e, end.covered))
        gaps == {u \in left : \E g \in KnownGaps(rows, hits) : g[1] <= u[1] /\ u[2] <= g[2]}
    IN [marks |-> end.marks, gaps |-> gaps, uncovered |-> left \ gaps]

\* The rows that are shown around those with a mark.
Around(rows, found, context) ==
    LET marked == {found.marks[i].row : i \in DOMAIN found.marks}
        last   == Min({Len(rows), Max(marked) + context})
    IN [focus |-> Min(marked), first |-> Max({1, Min(marked) - context}), last |-> last,
        more  |-> last < Len(rows), marks |-> found.marks, gaps |-> found.gaps]

Located(rows, found, s, e, context) ==
    IF \/ Len(Overlapping(rows, s, e)) > MaxWindow
       \/ found.uncovered # {} \/ found.marks = <<>>
      THEN None ELSE Around(rows, found, context)

\* PassageLocator.locate, or None where it raises.
Locate(rows, s, e, context) == Located(rows, Highlights(rows, s, e), s, e, context)
=============================================================================
