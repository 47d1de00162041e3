------------------------------ MODULE MCSearch ------------------------------
(* Small instances of SearchPipeline for TLC.                              *)
EXTENDS SearchPipeline, TLC

CONSTANTS d1, d2, d3

\* Chunks 1 and 2 are two versions of one document.
FourChunks == 1 .. 4
Docs == 1 :> d1 @@ 2 :> d1 @@ 3 :> d2 @@ 4 :> d3
Tags == 1 :> {"hr"} @@ 2 :> {"hr-only"} @@ 3 :> {"public"} @@ 4 :> {"hr", "public"}
WordsOf == "hr" :> <<"hr">> @@ "hr-only" :> <<"hr", "only">> @@ "public" :> <<"public">>
ColumnOf == 1 :> <<"hr">> @@ 2 :> <<"hr", "only">> @@ 3 :> <<"public">>
              @@ 4 :> <<"hr", "public">>
UnderOne == {1, 4}

BothWeights == [dense |-> 2, sparse |-> 1]
BothKinds == {"sqlite", "postgres"}
SqliteOnly == {"sqlite"}
AllRerankers == {"none", "lexical", "cross-encoder"}

\* Near to the first document, with a variant that ranks the others in another
\* way; a query whose terms and vectors disagree; and a blank one.
Question == [near |-> <<<<9, 8, 7, 2>>, <<8, 5, 7, 3>>>>, bm25 |-> <<5, 4, 2, 1>>,
             cover |-> <<1, 1, 2, 2>>, sem |-> <<1, 2, 3, 4>>]
Plain    == [near |-> <<<<5, 6, 4, 2>>>>, bm25 |-> <<3, 0, 4, 0>>,
             cover |-> <<2, 0, 1, 0>>, sem |-> <<4, 3, 2, 1>>]
Blank    == [near |-> <<>>, bm25 |-> <<0, 0, 0, 0>>,
             cover |-> <<0, 0, 0, 0>>, sem |-> <<0, 0, 0, 0>>]

Request(q, rewrites, mode, acl, docs, heading, rerank, k) ==
    [query |-> q, rewrite |-> rewrites, mode |-> mode, acl |-> acl, docs |-> docs,
     heading |-> heading, rerank |-> rerank, topK |-> k]

\* No filter, one document (which the HNSW index may answer), and two.
Everything == {}

\* Every mode, with tags and without; and the other parameters a few at a time.
SomeRequests ==
    {Request(Question, TRUE, "dense", {"hr"}, Everything, FALSE, FALSE, 2)}
    \cup {Request(Question, TRUE, "sparse", acl, Everything, FALSE, FALSE, 2) :
        acl \in {{}, {"hr"}}}
    \cup {Request(Question, TRUE, "hybrid", acl, Everything, FALSE, k = 1, k) :
        acl \in {{}, {"hr"}}, k \in {1, 2}}
    \cup {Request(Plain, FALSE, "hybrid", {"public"}, Everything, FALSE, TRUE, 1)}
    \cup {Request(Plain, FALSE, "hybrid", {}, docs, heading, heading, 2) :
        docs \in {{d1}, {d1, d2}}, heading \in BOOLEAN}
    \cup {Request(Blank, TRUE, "hybrid", {}, Everything, FALSE, TRUE, 1)}
=============================================================================
