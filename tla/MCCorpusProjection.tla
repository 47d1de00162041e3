------------------------- MODULE MCCorpusProjection -------------------------
(* Small instances of CorpusProjection for TLC.                            *)
EXTENDS CorpusProjection

CONSTANTS v1, v2, w1, c1

OneVersion  == {v1}
TwoVersions == {v1, v2}
OneWorker   == {w1}
NoChecks    == {}
OneCheck    == {c1}
=============================================================================
