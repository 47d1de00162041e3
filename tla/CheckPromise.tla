---------------------------- MODULE CheckPromise ----------------------------
(***************************************************************************)
(* What the check API promises its callers, without leases, attempts,      *)
(* transactions or workers: a credential has at most MaxActive open checks *)
(* and one check per idempotency key; an open check is settled once, and   *)
(* with the outcome its report becomes readable and its event stream       *)
(* closes; a settled check can be removed, and then nothing of its report  *)
(* is left.                                                                *)
(***************************************************************************)
EXTENDS Naturals, Sequences, FiniteSets

CONSTANTS Checks, Owner, MaxActive, IdemKey, NoKey

VARIABLES
    outcome,   \* absent, open, one of Outcomes, or gone
    reported,  \* does the check hold findings?
    closing    \* the terminal events a subscriber can read, in order

vars == <<outcome, reported, closing>>

Outcomes == {"completed", "completed_partial", "failed", "cancelled"}

OpenOf(k) == {c \in Checks : Owner[c] = k /\ outcome[c] = "open"}

\* Has this request already made another check?
Repeated(c) ==
    /\ IdemKey[c] # NoKey
    /\ \E d \in Checks \ {c} : /\ Owner[d] = Owner[c] /\ IdemKey[d] = IdemKey[c]
                               /\ outcome[d] \in Outcomes \cup {"open"}

Init ==
    /\ outcome = [c \in Checks |-> "absent"]
    /\ reported = [c \in Checks |-> FALSE]
    /\ closing = [c \in Checks |-> <<>>]

Admit(c) ==
    /\ outcome[c] = "absent"
    /\ ~Repeated(c)
    /\ Cardinality(OpenOf(Owner[c])) < MaxActive
    /\ outcome' = [outcome EXCEPT ![c] = "open"]
    /\ UNCHANGED <<reported, closing>>

SettleAs(c, o) ==
    /\ outcome[c] = "open"
    /\ outcome' = [outcome EXCEPT ![c] = o]
    /\ \E found \in BOOLEAN :
         /\ found => o \in {"completed", "completed_partial"}
         /\ reported' = [reported EXCEPT ![c] = found]
    /\ closing' = [closing EXCEPT ![c] = Append(@, o)]

Remove(c) ==
    /\ outcome[c] \in Outcomes
    /\ outcome' = [outcome EXCEPT ![c] = "gone"]
    /\ reported' = [reported EXCEPT ![c] = FALSE]
    /\ UNCHANGED closing

Next == \E c \in Checks :
    Admit(c) \/ Remove(c) \/ \E o \in Outcomes : SettleAs(c, o)

Spec == Init /\ [][Next]_vars
=============================================================================
