-------------------------- MODULE DocumentPromise --------------------------
(***************************************************************************)
(* What ingestion promises the readers of one document: a search finds one *)
(* version of it or none, never two and never a part of one; the version   *)
(* it finds was uploaded, and it is replaced in one step.                  *)
(***************************************************************************)
CONSTANT Versions

VARIABLES uploaded, searchable

vars == <<uploaded, searchable>>

Init == uploaded = {} /\ searchable = {}

Accept(v) ==
    /\ uploaded' = uploaded \cup {v}
    /\ UNCHANGED searchable

Replace(v) ==
    /\ v \in uploaded
    /\ searchable' = {v}
    /\ UNCHANGED uploaded

Remove ==
    /\ searchable' = {}
    /\ UNCHANGED uploaded

Next == Remove \/ \E v \in Versions : Accept(v) \/ Replace(v)

Spec == Init /\ [][Next]_vars
=============================================================================
