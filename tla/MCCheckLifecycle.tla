-------------------------- MODULE MCCheckLifecycle --------------------------
(* Small instances of CheckLifecycle for TLC.                              *)
EXTENDS CheckLifecycle

CONSTANTS c1, c2, c3, w1, w2, d1, d2, alice, once, noKey, book, essay

OneCheck    == {c1}
ThreeChecks == {c1, c2, c3}
OneWorker   == {w1}
TwoWorkers  == {w1, w2}
NoDelete    == {}
OneDelete   == {d1}
TwoDeletes  == {d1, d2}
NoChecks    == {}
TwoSources  == {book, essay}

\* Every check of one credential, none with an Idempotency-Key.
OwnedByAlice == [c \in Checks |-> alice]
Unkeyed      == [c \in Checks |-> noKey]

\* c1 and c2 repeat one keyed request, c3 has no key.
PairKeyed == [c \in Checks |-> IF c = c3 THEN noKey ELSE once]
=============================================================================
