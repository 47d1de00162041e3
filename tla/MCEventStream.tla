---------------------------- MODULE MCEventStream ----------------------------
(* Small instances of EventStream for TLC.                                 *)
EXTENDS EventStream

CONSTANTS w1, w2, p1, p2

OneWorker  == {w1}
TwoWorkers == {w1, w2}
OnePage    == {p1}
TwoPages   == {p1, p2}
=============================================================================
