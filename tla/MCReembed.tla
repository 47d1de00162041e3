------------------------------ MODULE MCReembed ------------------------------
(* Small instances of Reembed for TLC.                                     *)
EXTENDS Reembed, TLC

CONSTANTS v1, v2, w1, small, large, large2, d1, d2, none

TwoDocuments == v1 :> d1 @@ v2 :> d1 @@ w1 :> d2

ThreeVersions == {v1, v2, w1}

\* v1 is cut in one of two ways, before and after the chunking parameters
\* change; the ids of the others lie among its own.
Cuts == v1 :> {{1, 4}, {4, 6}} @@ v2 :> {{2}} @@ w1 :> {{5}}

\* Two models of one dimension and one of another.
ThreeModels == {small, large, large2}
TwoModels   == {small, large}
Dims        == small :> 512 @@ large :> 1024 @@ large2 :> 1024

BothKinds  == {"sqlite", "postgres"}
SqliteOnly == {"sqlite"}
PostgresOnly == {"postgres"}
=============================================================================
