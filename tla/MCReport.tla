------------------------------ MODULE MCReport ------------------------------
(* Small instances of Report for TLC.                                      *)
EXTENDS Report

CONSTANTS d1, d2, d3

Three == <<d1, d2, d3>>

\* An injective hash, in no order of the alphabet.
Rank == [b |-> 1, a |-> 5, c |-> 6] @@ ("." :> 3) @@ ("-" :> 7) @@ ("#" :> 4) @@ (" " :> 2)
RankOf(gram) == FoldLeft(LAMBDA n, ch : 8 * n + Rank[ch], 0, gram)

\* Lines.
ab    == <<"a", "b">>
aba   == <<"a", "b", "a">>
abba  == <<"a", "b", "b", "a">>
abbab == <<"a", "b", "b", "a", "b">>
baaba == <<"b", "a", "a", "b", "a">>
Rule  == <<"-", "-", "-", "-">>
Title == <<"#", " ", "a">>
Stop_ == <<".">>

\* A heading between two blocks, a citation, a rule, white space within a
\* line, line breaks that end sentences, a text that repeats itself, a
\* sentence longer than a chunk, and a last line too short for a chunk.
Articles ==
    { <<abbab \o Stop_ \o aba \o Stop_>>,
      <<ab \o Stop_ \o abba, Title, baaba \o Stop_>>,
      <<<<"a", "b", "c", "b", "a", "b">>, <<>>, Rule, abba \o <<" ", "a">> >>,
      <<ab \o ab \o ab \o ab \o Stop_>>,
      <<abba \o Stop_, ab \o Stop_ \o abba, <<"b">> >>,
      <<abba \o <<"-">> \o abba \o Stop_ \o baaba \o Stop_ \o abba>> }

Books  == { <<abba \o Stop_ \o abbab>>, <<aba \o baaba, abba \o Stop_>> }
Others == { <<abba \o Stop_>>, <<aba \o Stop_ \o abbab \o Stop_ \o aba>> }

ThreeDrafts == d1 :> Articles @@ d2 :> Books @@ d3 :> Others

SomeQueries ==
    { abba, abbab \o Stop_ \o baaba, ab \o <<" ", "c">> \o baaba, Rule \o <<"n">> \o abba,
      <<"a", "-", "b", "-", "b", "-", "a">> \o Stop_ \o aba,
      abba \o Stop_ \o abbab \o Stop_ \o baaba, abbab \o ab \o baaba \o Stop_ }

\* The query leaves the run it has in common with the document, abab, after
\* longer ones on other diagonals.
Repeated == d1 :> {<<ab \o ab \o ab \o ab>>}
Repeating == {<<"b">> \o aba \o ab \o <<"b">> \o aba \o <<"b">>,
              <<"b", "a">> \o <<"b", "a">> \o <<"b", "a">> \o <<"b", "a">> \o ab \o ab}
One == <<d1>>

OnlyZh == {"zh"}
AllLanguages == {"zh", "en", "auto"}
=============================================================================
