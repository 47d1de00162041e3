-------------------------- MODULE MCIngestPipeline --------------------------
(* Small instances of IngestPipeline for TLC.                              *)
EXTENDS IngestPipeline

CONSTANTS v1, v2, j1, j2, j3, w1, w2

TwoVersions == {v1, v2}
TwoJobs   == {j1, j2}
ThreeJobs == {j1, j2, j3}
OneWorker  == {w1}
TwoWorkers == {w1, w2}
=============================================================================
