------------------------ MODULE CheckLifecycle_proofs ------------------------
(***************************************************************************)
(* Theorems about CheckLifecycle for every number of checks, workers and   *)
(* requests and every value of the limits: the types, the workers of one   *)
(* check, the rows its runs store, the event that closes its stream, what  *)
(* is left when it ends, and the promise to the caller.                    *)
(***************************************************************************)
EXTENDS CheckLifecycle, FiniteSetTheorems, TLAPS

-----------------------------------------------------------------------------
(* Types.                                                                  *)

\* The initial state is well typed.
LEMMA InitTypeOK == Init => TypeOK
  BY LimitsAssumption DEF Init, TypeOK, WorkerState, DeleterState, Idle

\* Admission, deletion and the passing of time keep the types.
LEMMA RequestTypeOK ==
    ASSUME TypeOK,
           \/ \E c \in Checks : Create(c) \/ LeaseExpires(c)
           \/ \E d \in Deleters : Delete(d) \/ AbandonDelete(d)
           \/ \E d \in Deleters, c \in Checks : LoadForDelete(d, c)
    PROVE  TypeOK'
<1> USE DEF TypeOK, Status, Active, Terminal
<1>1. CASE \E c \in Checks : Create(c)
  <2>1. PICK c \in Checks : Create(c)
    BY <1>1
  <2>2. CASE LookUpKey(c)
    BY <2>2 DEF LookUpKey, rows
  <2>3. CASE CountActive(c)
    BY <2>3 DEF CountActive, rows
  <2>4. CASE InsertCheck(c)
    BY <2>4 DEF InsertCheck
  <2>5. CASE AbandonCreate(c)
    BY <2>5 DEF AbandonCreate, rows
  <2> QED
    BY <2>1, <2>2, <2>3, <2>4, <2>5 DEF Create
<1>2. CASE \E c \in Checks : LeaseExpires(c)
  BY <1>2 DEF LeaseExpires
<1>3. CASE \E d \in Deleters : Delete(d)
  <2>1. PICK d \in Deleters : Delete(d)
    BY <1>3
  <2>2. Idle \in DeleterState
    BY DEF DeleterState
  <2>3. deleter[d] \in DeleterState /\ Idle.pc = "idle"
    BY DEF Idle
  <2>4. CASE DeleteRunning(d)
    BY <2>2, <2>4 DEF DeleteRunning
  <2>5. CASE DeletePending(d)
    <3>1. deleter[d].check \in Checks
      BY <2>3, <2>5 DEF DeletePending, DeleterState
    <3>2. Append(terminalEvents[deleter[d].check], "cancelled") \in Seq(Terminal)
      BY <3>1
    <3>3. terminalEvents' \in [Checks -> Seq(Terminal)]
      BY <2>5, <3>1, <3>2 DEF DeletePending
    <3> QED
      BY <2>2, <2>5, <3>3 DEF DeletePending
  <2>6. CASE ClearForDelete(d)
    <3>1. deleter[d].check \in Checks
      BY <2>3, <2>6 DEF ClearForDelete, DeleterState
    <3>2. [pc |-> "cleared", check |-> deleter[d].check,
           cleared |-> ClearedByDelete(d)] \in DeleterState
      BY <3>1 DEF DeleterState, ClearedByDelete
    <3> QED
      BY <2>6, <3>2 DEF ClearForDelete, rows
  <2>7. CASE DeleteOutright(d)
    <3>1. deleter[d].check \in Checks
      BY <2>3, <2>7 DEF DeleteOutright, DeleterState
    <3> QED
      BY <2>2, <2>7, <3>1 DEF DeleteOutright
  <2> QED
    BY <2>1, <2>4, <2>5, <2>6, <2>7 DEF Delete
<1>4. CASE \E d \in Deleters, c \in Checks : LoadForDelete(d, c)
  <2>1. PICK d \in Deleters, c \in Checks : LoadForDelete(d, c)
    BY <1>4
  <2>2. [pc |-> "loaded", check |-> c, seen |-> status[c]] \in DeleterState
    BY <2>1 DEF LoadForDelete, RowExists, DeleterState
  <2> QED
    BY <2>1, <2>2 DEF LoadForDelete, rows
<1>5. CASE \E d \in Deleters : AbandonDelete(d)
  <2>1. Idle \in DeleterState
    BY DEF DeleterState
  <2> QED
    BY <1>5, <2>1 DEF AbandonDelete, rows
<1> QED
  BY <1>1, <1>2, <1>3, <1>4, <1>5

\* The step a worker takes to another state of its own is well typed.
LEMMA RaisedTypeOK ==
    ASSUME TypeOK, NEW w \in Workers, NEW fatal \in BOOLEAN,
           worker[w].pc \notin {"idle"}
    PROVE  Raised(w, fatal) \in [Workers -> WorkerState]
<1>1. worker[w].check \in Checks
  BY DEF TypeOK, WorkerState, Idle
<1>2. [pc |-> "raised", check |-> worker[w].check, fatal |-> fatal] \in WorkerState
  BY <1>1 DEF WorkerState
<1> QED
  BY <1>2 DEF TypeOK, Raised

\* Every step of a worker keeps the types.
LEMMA WorkerTypeOK ==
    ASSUME TypeOK, NEW w \in Workers,
           Run(w) \/ Reclaim(w) \/ Crash(w) \/ \E c \in Checks : ClaimCheck(w, c)
    PROVE  TypeOK'
<1> USE DEF TypeOK, Status, Active, Terminal
<1>1. worker[w] \in WorkerState /\ Idle \in WorkerState /\ Idle.pc = "idle"
  BY DEF WorkerState, Idle
<1>2. worker[w].pc # "idle" => worker[w].check \in Checks
  BY <1>1 DEF WorkerState
<1>3. CASE LoadCheck(w)
  <2> DEFINE c == worker[w].check
  <2>1. c \in Checks /\ worker[w].run \in Nat
    BY <1>1, <1>3 DEF LoadCheck, WorkerState
  <2>2. ASSUME RowExists(c)
        PROVE  [pc |-> "loaded", check |-> c, run |-> worker[w].run,
                seen |-> status[c], cleared |-> sources[c]] \in WorkerState
    BY <2>1, <2>2 DEF RowExists, WorkerState
  <2>3. Raised(w, FALSE) \in [Workers -> WorkerState]
    BY <1>3, RaisedTypeOK DEF LoadCheck
  <2> QED
    BY <1>3, <2>2, <2>3 DEF LoadCheck, rows
<1>4. CASE FlushCheck(w)
  <2>1. [worker[w] EXCEPT !.pc = "locked"] \in WorkerState
    BY <1>1, <1>4 DEF FlushCheck, WorkerState, Idle
  <2>2. Raised(w, FALSE) \in [Workers -> WorkerState]
    BY <1>4, RaisedTypeOK DEF FlushCheck
  <2> QED
    BY <1>4, <2>1, <2>2 DEF FlushCheck, rows
<1>5. CASE RunRaises(w)
  BY <1>5, RaisedTypeOK DEF RunRaises, rows
<1>6. CASE Settle(w)
  <2>1. PICK found \in SUBSET Documents, target \in SettleTargets(worker[w].check) :
            LET c == worker[w].check IN
            /\ status' = [status EXCEPT ![c] = target]
            /\ lease' = [lease EXCEPT ![c] = "none"]
            /\ text' = [text EXCEPT ![c] =
                   target # "cancelled" /\ (@ \/ c \in DocumentMode)]
            /\ sources' = [sources EXCEPT ![c] = SourcesAfter(w, target, found)]
            /\ terminalEvents' = [terminalEvents EXCEPT ![c] = Append(@, target)]
    BY <1>6 DEF Settle
  <2>2. worker[w].check \in Checks /\ worker[w].run \in Nat
    BY <1>1, <1>6 DEF Settle, WorkerState
  <2>3. target \in Terminal
    BY DEF SettleTargets
  <2>4. Append(terminalEvents[worker[w].check], target) \in Seq(Terminal)
    BY <2>2, <2>3
  <2>5. SourcesAfter(w, target, found) \in SUBSET SourceRow
    BY <2>2 DEF SourcesAfter, SourceRow
  <2>6. terminalEvents' \in [Checks -> Seq(Terminal)]
    BY <2>1, <2>2, <2>4
  <2>7. status' \in [Checks -> Status \cup {"absent", "gone"}]
    BY <2>1, <2>2, <2>3
  <2>8. /\ sources' \in [Checks -> SUBSET SourceRow]
        /\ lease' \in [Checks -> {"none", "live", "expired"}]
    BY <2>1, <2>2, <2>5
  <2>9. text' \in [Checks -> BOOLEAN]
    BY <2>1, <2>2
  <2> QED
    BY <1>1, <1>6, <2>6, <2>7, <2>8, <2>9 DEF Settle
<1>7. CASE SettleRaises(w)
  BY <1>7, RaisedTypeOK DEF SettleRaises, rows
<1>8. CASE LoadForFail(w)
  <2> DEFINE c == worker[w].check
  <2>1. c \in Checks /\ worker[w].fatal \in BOOLEAN
    BY <1>1, <1>8 DEF LoadForFail, WorkerState
  <2>2. ASSUME RowExists(c)
        PROVE  [pc |-> "failing", check |-> c, fatal |-> worker[w].fatal,
                seen |-> status[c], leaseSeen |-> lease[c],
                tries |-> attempts[c]] \in WorkerState
    BY <2>1, <2>2 DEF RowExists, WorkerState
  <2> QED
    BY <1>1, <1>8, <2>2 DEF LoadForFail, rows
<1>9. CASE WriteFail(w)
  <2> DEFINE c == worker[w].check
  <2>1. c \in Checks
    BY <1>2, <1>9 DEF WriteFail
  <2>2. EventsAfterFail(w) \in Seq(Terminal)
    BY <2>1 DEF EventsAfterFail
  <2>3. FailTarget(w) \in Status
    BY DEF FailTarget
  <2>4. LeaseAfterFail(w) \in {"none", "live", "expired"}
    BY <2>1 DEF LeaseAfterFail
  <2>5. terminalEvents' \in [Checks -> Seq(Terminal)]
    BY <1>9, <2>1, <2>2 DEF WriteFail
  <2>6. status' \in [Checks -> Status \cup {"absent", "gone"}]
    <3>1. CASE RowExists(c)
      <4>1. status' = [status EXCEPT ![c] =
                IF FailTarget(w) = worker[w].seen THEN status[c]
                                                  ELSE FailTarget(w)]
        BY <1>9, <3>1 DEF WriteFail
      <4>2. status[c] \in Status \cup {"absent", "gone"}
        BY <2>1
      <4> QED
        BY <2>3, <4>1, <4>2
    <3>2. CASE ~RowExists(c)
      BY <1>9, <3>2 DEF WriteFail
    <3> QED
      BY <3>1, <3>2
  <2>7. lease' \in [Checks -> {"none", "live", "expired"}]
    BY <1>9, <2>1, <2>4 DEF WriteFail
  <2> QED
    BY <1>1, <1>9, <2>5, <2>6, <2>7 DEF WriteFail
<1>10. CASE Reclaim(w)
  BY <1>10 DEF Reclaim
<1>11. CASE Crash(w)
  BY <1>1, <1>11 DEF Crash, rows
<1>12. CASE \E c \in Checks : ClaimCheck(w, c)
  <2>1. PICK c \in Checks : ClaimCheck(w, c)
    BY <1>12
  <2>2. [pc |-> "claimed", check |-> c, run |-> attempts[c] + 1] \in WorkerState
    BY DEF WorkerState
  <2> QED
    BY <2>1, <2>2 DEF ClaimCheck
<1> QED
  BY <1>3, <1>4, <1>5, <1>6, <1>7, <1>8, <1>9, <1>10, <1>11, <1>12 DEF Run

\* CheckLifecycle is well typed: statuses are those of the status table,
\* terminal events carry terminal stages, and a worker or a request is in one
\* of the states its transaction can be in.
THEOREM TypeCorrect == Spec => []TypeOK
<1>1. TypeOK /\ [Next]_vars => TypeOK'
  <2> SUFFICES ASSUME TypeOK, [Next]_vars
               PROVE  TypeOK'
    OBVIOUS
  <2>1. CASE UNCHANGED vars
    BY <2>1 DEF TypeOK, vars
  <2>2. CASE Next
    BY <2>2, RequestTypeOK, WorkerTypeOK DEF Next
  <2> QED
    BY <2>1, <2>2
<1> QED
  BY <1>1, InitTypeOK, PTL DEF Spec

-----------------------------------------------------------------------------
(* One worker per check.  The strengthening says what the columns nobody   *)
(* compares with the worker's name stand for, as long as no lease runs out *)
(* under a live worker.                                                    *)

Admitted ==
    \A c \in Checks : /\ admission[c] # "none" => status[c] = "absent"
                      /\ status[c] = "absent" => lease[c] = "none"

DeletesAdmitted ==
    \A d \in Deleters :
        deleter[d].pc # "idle" => status[deleter[d].check] # "absent"

WorkIsLeased ==
    \A w \in Workers : worker[w].pc # "idle" =>
        /\ status[worker[w].check] # "absent"
        /\ lease[worker[w].check] # "expired"

FailureIsCurrent ==
    \A w \in Workers : worker[w].pc = "failing" =>
        /\ worker[w].seen # "pending"
        /\ worker[w].leaseSeen = "none" => lease[worker[w].check] = "none"
        /\ status[worker[w].check] = "running" => worker[w].seen = "running"

Exclusive ==
    /\ Admitted /\ DeletesAdmitted /\ WorkIsLeased /\ FailureIsCurrent
    /\ OneWorkerEach /\ RunningIsReclaimable

\* Requests and the clock keep it: they never make a row pending that has a
\* worker, and a lease expires only once its worker has gone.
LEMMA RequestExclusive ==
    ASSUME TypeOK, Exclusive, ~SlowWorkers,
           \/ \E c \in Checks : Create(c) \/ LeaseExpires(c)
           \/ \E d \in Deleters : Delete(d) \/ AbandonDelete(d)
           \/ \E d \in Deleters, c \in Checks : LoadForDelete(d, c)
    PROVE  Exclusive'
<1> USE DEF Exclusive, Admitted, DeletesAdmitted, WorkIsLeased, FailureIsCurrent,
            OneWorkerEach, RunningIsReclaimable, WorksOn
<1> DEFINE StatusType == Status \cup {"absent", "gone"}
<1>0. /\ status \in [Checks -> StatusType]
      /\ lease \in [Checks -> {"none", "live", "expired"}]
      /\ admission \in [Checks -> {"none", "looked_up", "counted"}]
      /\ worker \in [Workers -> WorkerState]
      /\ deleter \in [Deleters -> DeleterState]
  BY DEF TypeOK
<1> HIDE DEF StatusType
<1>a. \A v \in Workers : worker[v].pc # "idle" => worker[v].check \in Checks
  BY <1>0 DEF WorkerState, Idle
<1>b. \A d \in Deleters : deleter[d].pc # "idle" => deleter[d].check \in Checks
  BY <1>0 DEF DeleterState, Idle
<1>1. CASE \E c \in Checks : LookUpKey(c) \/ CountActive(c) \/ AbandonCreate(c)
  BY <1>0, <1>1 DEF LookUpKey, CountActive, AbandonCreate, rows
<1>2. CASE \E c \in Checks : InsertCheck(c)
  <2>1. PICK c \in Checks : InsertCheck(c)
    BY <1>2
  <2>2. status[c] = "absent" /\ lease[c] = "none"
    BY <2>1 DEF InsertCheck
  <2>3. /\ status' = [status EXCEPT ![c] = "pending"] \/ status' = status
        /\ admission' = [admission EXCEPT ![c] = "none"]
        /\ lease' = lease /\ worker' = worker /\ deleter' = deleter
    BY <2>1 DEF InsertCheck
  <2> QED
    BY <1>0, <1>a, <1>b, <2>2, <2>3
<1>3. CASE \E c \in Checks : LeaseExpires(c)
  BY <1>0, <1>3 DEF LeaseExpires
<1>4. CASE \E d \in Deleters, c \in Checks : LoadForDelete(d, c)
  <2>1. PICK d \in Deleters, c \in Checks : LoadForDelete(d, c)
    BY <1>4
  <2>2. status[c] # "absent"
    BY <1>0, <2>1 DEF LoadForDelete, RowExists, Status, Active, Terminal
  <2> QED
    BY <1>0, <2>1, <2>2 DEF LoadForDelete, rows
<1>5. CASE \E d \in Deleters : Delete(d)
  <2>1. PICK d \in Deleters : Delete(d)
    BY <1>5
  <2>2. Idle.pc = "idle" /\ deleter[d] \in DeleterState
    BY <1>0 DEF Idle
  <2>3. deleter[d].pc # "idle" => deleter[d].check \in Checks
    BY <2>2 DEF DeleterState
  <2>4. CASE DeleteRunning(d)
    <3>1. /\ \/ status' = [status EXCEPT ![deleter[d].check] = "cancel_requested"]
             \/ status' = status
          /\ deleter' = [deleter EXCEPT ![d] = Idle]
          /\ lease' = lease /\ worker' = worker /\ admission' = admission
          /\ deleter[d].pc # "idle"
      BY <2>4 DEF DeleteRunning
    <3> QED
      BY <1>0, <1>a, <1>b, <2>2, <2>3, <3>1
  <2>5. CASE DeletePending(d)
    <3>1. /\ \/ status' = [status EXCEPT ![deleter[d].check] = "cancelled"]
             \/ status' = status
          /\ deleter' = [deleter EXCEPT ![d] = Idle]
          /\ lease' = lease /\ worker' = worker /\ admission' = admission
          /\ deleter[d].pc # "idle"
      BY <2>5 DEF DeletePending
    <3> QED
      BY <1>0, <1>a, <1>b, <2>2, <2>3, <3>1
  <2>6. CASE ClearForDelete(d)
    BY <1>0, <2>2, <2>3, <2>6 DEF ClearForDelete, rows
  <2>7. CASE DeleteOutright(d)
    BY <1>0, <1>a, <2>2, <2>3, <2>7 DEF DeleteOutright
  <2> QED
    BY <2>1, <2>4, <2>5, <2>6, <2>7 DEF Delete
<1>6. CASE \E d \in Deleters : AbandonDelete(d)
  <2>1. Idle.pc = "idle"
    BY DEF Idle
  <2> QED
    BY <1>0, <1>6, <2>1 DEF AbandonDelete, rows
<1> QED
  BY <1>1, <1>2, <1>3, <1>4, <1>5, <1>6 DEF Create

\* So do the workers: a claim takes a pending row, which has no worker, and
\* whatever ends a run gives the lease up with the status.
LEMMA WorkerExclusive ==
    ASSUME TypeOK, Exclusive, NEW w \in Workers,
           Run(w) \/ Reclaim(w) \/ Crash(w) \/ \E c \in Checks : ClaimCheck(w, c)
    PROVE  Exclusive'
<1> USE DEF Exclusive, Admitted, DeletesAdmitted, WorkIsLeased, FailureIsCurrent,
            OneWorkerEach, RunningIsReclaimable, WorksOn
<1> DEFINE StatusType == Status \cup {"absent", "gone"}
<1>0. /\ status \in [Checks -> StatusType]
      /\ lease \in [Checks -> {"none", "live", "expired"}]
      /\ worker \in [Workers -> WorkerState]
      /\ deleter \in [Deleters -> DeleterState]
  BY DEF TypeOK
<1> HIDE DEF StatusType
<1>1. worker[w] \in WorkerState /\ Idle.pc = "idle"
  BY <1>0 DEF Idle
<1>2. worker[w].pc # "idle" => worker[w].check \in Checks
  BY <1>1 DEF WorkerState
<1>3. \A d \in Deleters : deleter[d].pc # "idle" => deleter[d].check \in Checks
  BY <1>0 DEF DeleterState, Idle
<1>4. \A v \in Workers : worker[v].pc # "idle" => worker[v].check \in Checks
  BY <1>0 DEF WorkerState, Idle
<1>5. CASE LoadCheck(w)
  BY <1>0, <1>2, <1>5 DEF LoadCheck, Raised, rows
<1>6. CASE FlushCheck(w)
  BY <1>0, <1>2, <1>6 DEF FlushCheck, Raised, rows
<1>7. CASE RunRaises(w)
  BY <1>0, <1>2, <1>7 DEF RunRaises, Raised, rows
<1>8. CASE Settle(w)
  <2> DEFINE c == worker[w].check
  <2>1. PICK target \in SettleTargets(c) :
            /\ status' = [status EXCEPT ![c] = target]
            /\ lease' = [lease EXCEPT ![c] = "none"]
            /\ worker' = [worker EXCEPT ![w] = Idle]
            /\ deleter' = deleter /\ admission' = admission
            /\ worker[w].pc # "idle"
    BY <1>8 DEF Settle
  <2>2. target \notin {"absent", "pending", "running"}
    BY DEF SettleTargets
  <2> QED
    BY <1>0, <1>1, <1>2, <1>3, <1>4, <2>1, <2>2
<1>9. CASE SettleRaises(w)
  BY <1>0, <1>2, <1>9 DEF SettleRaises, Raised, rows
<1>10. CASE LoadForFail(w)
  <2> DEFINE c == worker[w].check
  <2>1. /\ \/ worker' = [worker EXCEPT ![w] = Idle]
           \/ /\ worker' = [worker EXCEPT ![w] = worker'[w]]
              /\ worker'[w].pc = "failing" /\ worker'[w].check = c
              /\ worker'[w].seen = status[c]
              /\ worker'[w].leaseSeen = lease[c]
        /\ status' = status /\ lease' = lease
        /\ deleter' = deleter /\ admission' = admission
        /\ worker[w].pc = "raised"
    BY <1>0, <1>10 DEF LoadForFail, rows
  <2>2. c \in Checks /\ status[c] # "pending"
    BY <1>2, <2>1
  <2>3. FailureIsCurrent'
    BY <1>0, <1>1, <1>2, <1>4, <2>1, <2>2
  <2>4. \A v \in Workers :
            worker'[v].pc # "idle" => /\ worker[v].pc # "idle"
                                      /\ worker'[v].check = worker[v].check
    BY <1>0, <1>1, <2>1
  <2>5. OneWorkerEach' /\ WorkIsLeased'
    BY <2>1, <2>4
  <2> QED
    BY <2>1, <2>3, <2>5
<1>11. CASE WriteFail(w)
  <2> DEFINE c == worker[w].check
             new == IF FailTarget(w) = worker[w].seen THEN status[c]
                                                      ELSE FailTarget(w)
  <2>1. /\ \/ /\ status' = [status EXCEPT ![c] = new]
              /\ lease' = [lease EXCEPT ![c] = LeaseAfterFail(w)]
           \/ status' = status /\ lease' = lease
        /\ worker' = [worker EXCEPT ![w] = Idle]
        /\ deleter' = deleter /\ admission' = admission
        /\ worker[w].pc = "failing"
    BY <1>11 DEF WriteFail
  <2>2. /\ LeaseAfterFail(w) = "none"
        /\ new \notin {"absent", "running"}
    BY <1>2, <2>1 DEF LeaseAfterFail, FailTarget
  <2> QED
    BY <1>0, <1>1, <1>2, <1>3, <1>4, <2>1, <2>2
<1>12. CASE Reclaim(w)
  BY <1>0, <1>3, <1>4, <1>12 DEF Reclaim, Reclaimable
<1>13. CASE Crash(w)
  BY <1>0, <1>1, <1>13 DEF Crash, rows
<1>14. CASE \E c \in Checks : ClaimCheck(w, c)
  BY <1>0, <1>3, <1>4, <1>14 DEF ClaimCheck, Claimable
<1> QED
  BY <1>5, <1>6, <1>7, <1>8, <1>9, <1>10, <1>11, <1>12, <1>13, <1>14 DEF Run

LEMMA ExclusiveInvariant == ASSUME ~SlowWorkers PROVE Spec => []Exclusive
<1>1. Init => Exclusive
  BY DEF Init, Exclusive, Admitted, DeletesAdmitted, WorkIsLeased,
         FailureIsCurrent, OneWorkerEach, RunningIsReclaimable, WorksOn, Idle
<1>2. TypeOK /\ Exclusive /\ [Next]_vars => Exclusive'
  <2> SUFFICES ASSUME TypeOK, Exclusive, [Next]_vars
               PROVE  Exclusive'
    OBVIOUS
  <2>1. CASE UNCHANGED vars
    BY <2>1 DEF vars, Exclusive, Admitted, DeletesAdmitted, WorkIsLeased,
                FailureIsCurrent, OneWorkerEach, RunningIsReclaimable, WorksOn
  <2>2. CASE Next
    BY <2>2, RequestExclusive, WorkerExclusive DEF Next
  <2> QED
    BY <2>1, <2>2
<1> QED
  BY <1>1, <1>2, TypeCorrect, PTL DEF Spec

\* As long as no lease runs out under a live worker, at most one worker runs
\* a check and none runs one that is queued - although neither _settle nor
\* _fail asks whose lease it is.
THEOREM OneWorkerPerCheck == ASSUME ~SlowWorkers PROVE Spec => []OneWorkerEach
<1>1. Exclusive => OneWorkerEach
  BY DEF Exclusive
<1> QED
  BY <1>1, ExclusiveInvariant, PTL

\* reclaim_expired_checks: under the same condition every running check has
\* a lease, so the worker that has it is relieved when it dies; a check that
\* is queued again has none.
THEOREM RunningCanBeReclaimed == ASSUME ~SlowWorkers PROVE Spec => []RunningIsReclaimable
<1>1. Exclusive => RunningIsReclaimable
  BY DEF Exclusive
<1> QED
  BY <1>1, ExclusiveInvariant, PTL

-----------------------------------------------------------------------------
(* The outcome of a check.                                                 *)

RequestStep ==
    \/ \E c \in Checks : Create(c) \/ LeaseExpires(c)
    \/ \E d \in Deleters : Delete(d) \/ AbandonDelete(d)
    \/ \E d \in Deleters, c \in Checks : LoadForDelete(d, c)

WorkerStep(w) ==
    Run(w) \/ Reclaim(w) \/ Crash(w) \/ \E c \in Checks : ClaimCheck(w, c)

\* Every step is one of the callers' or of a worker's.
LEMMA NextSteps == Next <=> RequestStep \/ \E w \in Workers : WorkerStep(w)
BY DEF Next, RequestStep, WorkerStep

\* What the proofs below use of the types.
LEMMA RowTypes ==
    ASSUME TypeOK
    PROVE  /\ status \in [Checks -> Status \cup {"absent", "gone"}]
           /\ cancelRequested \in [Checks -> BOOLEAN]
           /\ lease \in [Checks -> {"none", "live", "expired"}]
           /\ text \in [Checks -> BOOLEAN]
           /\ sources \in [Checks -> SUBSET SourceRow]
           /\ terminalEvents \in [Checks -> Seq(Terminal)]
           /\ admission \in [Checks -> {"none", "looked_up", "counted"}]
           /\ worker \in [Workers -> WorkerState]
           /\ deleter \in [Deleters -> DeleterState]
           /\ \A w \in Workers : worker[w].pc # "idle" => worker[w].check \in Checks
           /\ \A d \in Deleters : deleter[d].pc # "idle" => deleter[d].check \in Checks
           /\ \A w \in Workers : worker[w].pc \in {"loaded", "locked"} =>
                 worker[w].cleared \in SUBSET SourceRow /\ worker[w].run \in Nat
           /\ \A d \in Deleters : deleter[d].pc = "cleared" =>
                 deleter[d].cleared \in SUBSET SourceRow
<1>1. /\ worker \in [Workers -> WorkerState]
      /\ deleter \in [Deleters -> DeleterState]
  BY DEF TypeOK
<1>2. \A w \in Workers : worker[w].pc # "idle" => worker[w].check \in Checks
  BY <1>1 DEF WorkerState, Idle
<1>3. \A d \in Deleters : deleter[d].pc # "idle" => deleter[d].check \in Checks
  BY <1>1 DEF DeleterState, Idle
<1>4. \A w \in Workers : worker[w].pc \in {"loaded", "locked"} =>
          worker[w].cleared \in SUBSET SourceRow /\ worker[w].run \in Nat
  BY <1>1 DEF WorkerState, Idle
<1>5. \A d \in Deleters : deleter[d].pc = "cleared" => deleter[d].cleared \in SUBSET SourceRow
  BY <1>1 DEF DeleterState, Idle
<1> QED
  BY <1>1, <1>2, <1>3, <1>4, <1>5 DEF TypeOK

-----------------------------------------------------------------------------
(* The row lock.                                                           *)

\* A locked row has one holder, and is still there.
Locks ==
    /\ \A w, v \in Workers :
          (worker[w].pc = "locked" /\ worker[v].pc = "locked"
             /\ worker[w].check = worker[v].check) => w = v
    /\ \A w \in Workers : worker[w].pc = "locked" => RowExists(worker[w].check)

\* Whoever deletes a row or changes its status has waited for the lock.
LEMMA LocksKept == ASSUME TypeOK, Locks, [Next]_vars PROVE Locks'
<1> USE DEF Locks, RowExists, RowLocked
<1>0. /\ status \in [Checks -> Status \cup {"absent", "gone"}]
      /\ worker \in [Workers -> WorkerState]
      /\ deleter \in [Deleters -> DeleterState]
      /\ \A w \in Workers : worker[w].pc # "idle" => worker[w].check \in Checks
      /\ \A d \in Deleters : deleter[d].pc # "idle" => deleter[d].check \in Checks
      /\ Idle.pc = "idle"
  BY RowTypes DEF Idle
<1>1. CASE UNCHANGED vars
  BY <1>1 DEF vars
<1>2. CASE \E c \in Checks : Create(c) \/ LeaseExpires(c)
  <2>1. PICK c \in Checks : Create(c) \/ LeaseExpires(c)
    BY <1>2
  <2>2. /\ worker' = worker
        /\ status' = status \/ status' = [status EXCEPT ![c] = "pending"]
    BY <2>1 DEF Create, LookUpKey, CountActive, InsertCheck, AbandonCreate, LeaseExpires, rows
  <2> QED
    BY <1>0, <2>2 DEF Status, Active
<1>3. CASE \E d \in Deleters : \/ Delete(d) \/ AbandonDelete(d)
                                 \/ \E c \in Checks : LoadForDelete(d, c)
  <2>1. PICK d \in Deleters : \/ Delete(d) \/ AbandonDelete(d)
                              \/ \E c \in Checks : LoadForDelete(d, c)
    BY <1>3
  <2>2. /\ worker' = worker
        /\ \/ status' = status
           \/ /\ deleter[d].pc # "idle" /\ ~RowLocked(deleter[d].check)
              /\ \E s : status' = [status EXCEPT ![deleter[d].check] = s]
    BY <2>1 DEF Delete, DeleteRunning, DeletePending, ClearForDelete, DeleteOutright,
                AbandonDelete, LoadForDelete, rows
  <2> QED
    BY <1>0, <2>2
<1>4. CASE \E w \in Workers : WorkerStep(w)
  <2>1. PICK w \in Workers : WorkerStep(w)
    BY <1>4
  <2>2. CASE LoadCheck(w) \/ RunRaises(w) \/ SettleRaises(w) \/ LoadForFail(w) \/ Crash(w)
    <3>1. /\ status' = status
          /\ \E s : worker' = [worker EXCEPT ![w] = s] /\ s.pc # "locked"
      BY <1>0, <2>2 DEF LoadCheck, RunRaises, SettleRaises, LoadForFail, Crash, Raised, rows
    <3> QED
      BY <1>0, <3>1
  <2>3. CASE FlushCheck(w)
    BY <1>0, <2>3 DEF FlushCheck, Raised, rows
  <2>4. CASE Settle(w) \/ WriteFail(w)
    <3>1. /\ worker' = [worker EXCEPT ![w] = Idle]
          /\ \E s : \/ status' = status
                    \/ status' = [status EXCEPT ![worker[w].check] = s]
          /\ worker[w].pc # "idle"
          /\ worker[w].pc = "locked" \/ ~RowLocked(worker[w].check)
      BY <2>4 DEF Settle, WriteFail
    <3> QED
      BY <1>0, <3>1
  <2>5. CASE Reclaim(w)
    <3>1. worker' = worker /\ \A c \in Checks : c \in Reclaimable => ~RowLocked(c)
      BY <2>5 DEF Reclaim, Reclaimable
    <3>2. \A c \in Checks : c \notin Reclaimable => status'[c] = status[c]
      BY <2>5 DEF Reclaim
    <3> QED
      BY <1>0, <3>1, <3>2
  <2>6. CASE \E c \in Checks : ClaimCheck(w, c)
    BY <1>0, <2>6 DEF ClaimCheck, Claimable
  <2> QED
    BY <2>1, <2>2, <2>3, <2>4, <2>5, <2>6 DEF WorkerStep, Run
<1> QED
  BY <1>1, <1>2, <1>3, <1>4, NextSteps DEF RequestStep

LEMMA LocksInvariant == Spec => [](TypeOK /\ Locks)
<1>1. Init => Locks
  BY DEF Init, Locks, Idle
<1>2. TypeOK /\ Locks /\ [Next]_vars => Locks'
  BY LocksKept
<1> QED
  BY <1>1, <1>2, TypeCorrect, PTL DEF Spec

-----------------------------------------------------------------------------
(* The rows of one run, as long as no lease runs out under a live worker.  *)

\* While a worker runs a check no rows appear that its run did not clear.
RowsAreSeen ==
    \A w \in Workers : worker[w].pc \in {"loaded", "locked"} =>
        sources[worker[w].check] \subseteq worker[w].cleared

OneReport == RowsAreSeen /\ ResultsOfOneRun

\* Requests only remove rows.
LEMMA RequestReport ==
    ASSUME TypeOK, OneReport, RequestStep PROVE OneReport'
<1> USE DEF OneReport, RowsAreSeen, ResultsOfOneRun
<1>0. /\ sources \in [Checks -> SUBSET SourceRow]
      /\ \A w \in Workers : worker[w].pc # "idle" => worker[w].check \in Checks
      /\ \A d \in Deleters : deleter[d].pc # "idle" => deleter[d].check \in Checks
  BY RowTypes
<1>1. worker' = worker
  BY DEF RequestStep, Create, LookUpKey, CountActive, InsertCheck, AbandonCreate,
         LeaseExpires, Delete, DeleteRunning, DeletePending, ClearForDelete,
         DeleteOutright, AbandonDelete, LoadForDelete
<1>2. \A c \in Checks : sources'[c] \subseteq sources[c]
  <2>1. CASE sources' = sources
    BY <2>1
  <2>2. ASSUME NEW d \in Deleters, DeletePending(d)
        PROVE  sources' = sources \/ sources' = [sources EXCEPT ![deleter[d].check] = {}]
    BY <2>2 DEF DeletePending
  <2>3. ASSUME NEW d \in Deleters, DeleteOutright(d)
        PROVE  sources' = [sources EXCEPT ![deleter[d].check] =
                              sources[deleter[d].check] \ deleter[d].cleared]
    BY <2>3 DEF DeleteOutright
  <2>4. sources' = sources \/ \E d \in Deleters : DeletePending(d) \/ DeleteOutright(d)
    BY DEF RequestStep, Create, LookUpKey, CountActive, InsertCheck, AbandonCreate,
           LeaseExpires, Delete, DeleteRunning, ClearForDelete, AbandonDelete,
           LoadForDelete, rows
  <2> QED
    BY <1>0, <2>1, <2>2, <2>3, <2>4
<1> QED
  BY <1>0, <1>1, <1>2

\* A worker adds rows only at the end of a run, and nobody else runs the check.
LEMMA WorkerReport ==
    ASSUME TypeOK, Exclusive, OneReport, NEW w \in Workers, WorkerStep(w)
    PROVE  OneReport'
<1> USE DEF OneReport, RowsAreSeen, ResultsOfOneRun
<1>0. /\ sources \in [Checks -> SUBSET SourceRow]
      /\ worker \in [Workers -> WorkerState]
      /\ \A v \in Workers : worker[v].pc # "idle" => worker[v].check \in Checks
      /\ Idle.pc = "idle"
  BY RowTypes DEF Idle
<1>1. CASE LoadCheck(w)
  <2> DEFINE c == worker[w].check
  <2>1. PICK s : /\ worker' = [worker EXCEPT ![w] = s]
                 /\ s.pc = "loaded" => s.check = c /\ s.cleared = sources[c]
                 /\ s.pc # "locked"
    <3> DEFINE new == [pc |-> "loaded", check |-> c, run |-> worker[w].run,
                       seen |-> status[c], cleared |-> sources[c]]
               old == [pc |-> "raised", check |-> c, fatal |-> FALSE]
    <3>1. worker' = [worker EXCEPT ![w] = new] \/ worker' = [worker EXCEPT ![w] = old]
      BY <1>1 DEF LoadCheck, Raised
    <3>2. /\ new.pc = "loaded" /\ new.check = c /\ new.cleared = sources[c]
          /\ old.pc = "raised"
      OBVIOUS
    <3> HIDE DEF new, old
    <3> QED
      BY <3>1, <3>2
  <2>2. sources' = sources /\ worker'[w] = s
    BY <1>0, <1>1, <2>1 DEF LoadCheck, rows
  <2>3. ASSUME NEW v \in Workers, worker'[v].pc \in {"loaded", "locked"}
        PROVE  sources'[worker'[v].check] \subseteq worker'[v].cleared
    <3>1. CASE v = w
      BY <2>1, <2>2, <2>3, <3>1
    <3>2. CASE v # w
      <4>1. worker'[v] = worker[v]
        BY <1>0, <2>1, <3>2
      <4> QED
        BY <2>2, <2>3, <4>1
    <3> QED
      BY <3>1, <3>2
  <2> QED
    BY <2>2, <2>3
<1>2. CASE FlushCheck(w)
  <2>1. CASE worker' = [worker EXCEPT ![w].pc = "locked"]
    <3>1. worker' = [worker EXCEPT ![w] = [worker[w] EXCEPT !.pc = "locked"]]
      BY <2>1
    <3>2. worker[w] \in [pc : {"loaded", "locked"}, check : Checks, run : Nat,
                         seen : Status, cleared : SUBSET SourceRow]
      BY <1>0, <1>2 DEF FlushCheck, WorkerState, Idle
    <3>3. /\ [worker[w] EXCEPT !.pc = "locked"].check = worker[w].check
          /\ [worker[w] EXCEPT !.pc = "locked"].cleared = worker[w].cleared
      BY <3>2
    <3>4. sources' = sources /\ worker[w].pc = "loaded"
      BY <1>2 DEF FlushCheck, rows
    <3> QED
      BY <1>0, <3>1, <3>3, <3>4
  <2>2. CASE worker' = Raised(w, FALSE)
    BY <1>0, <1>2, <2>2 DEF FlushCheck, Raised, rows
  <2> QED
    BY <1>2, <2>1, <2>2 DEF FlushCheck
<1>3. CASE Settle(w)
  <2> DEFINE c == worker[w].check
  <2>1. PICK found \in SUBSET Documents, target \in SettleTargets(c) :
            sources' = [sources EXCEPT ![c] = SourcesAfter(w, target, found)]
    BY <1>3 DEF Settle
  <2>2. /\ worker' = [worker EXCEPT ![w] = Idle]
        /\ worker[w].pc = "locked" /\ c \in Checks
    BY <1>0, <1>3 DEF Settle
  <2>3. SourcesAfter(w, target, found) \subseteq [run : {worker[w].run}, document : found]
    BY <2>2 DEF SourcesAfter
  <2>4. \A row, other \in SourcesAfter(w, target, found) : row.run = other.run
    BY <2>3
  <2>5. ResultsOfOneRun'
    BY <1>0, <2>1, <2>2, <2>4
  <2>6. \A v \in Workers : v # w /\ worker[v].pc # "idle" => worker[v].check # c
    BY <2>2 DEF Exclusive, OneWorkerEach, WorksOn
  <2>7. RowsAreSeen'
    BY <1>0, <2>1, <2>2, <2>6
  <2> QED
    BY <2>5, <2>7
<1>4. CASE \/ RunRaises(w) \/ SettleRaises(w) \/ LoadForFail(w) \/ WriteFail(w)
           \/ Crash(w) \/ Reclaim(w) \/ \E c \in Checks : ClaimCheck(w, c)
  <2>1. /\ sources' = sources
        /\ \/ worker' = worker
           \/ \E s : worker' = [worker EXCEPT ![w] = s] /\ s.pc \notin {"loaded", "locked"}
    BY <1>0, <1>4 DEF RunRaises, SettleRaises, LoadForFail, WriteFail, Crash, Reclaim,
                      ClaimCheck, Raised, rows
  <2> QED
    BY <1>0, <2>1
<1> QED
  BY <1>1, <1>2, <1>3, <1>4 DEF WorkerStep, Run

\* CheckRunner.run: if leases outlive runs, a report never adds up the rows of
\* two runs, whatever documents they name and however failures, crashes and
\* deletions are interleaved.
THEOREM OneRunPerReport == ASSUME ~SlowWorkers PROVE Spec => []ResultsOfOneRun
<1>1. Init => OneReport
  BY DEF Init, OneReport, RowsAreSeen, ResultsOfOneRun, Idle
<1>2. TypeOK /\ Exclusive /\ OneReport /\ [Next]_vars => OneReport'
  <2> SUFFICES ASSUME TypeOK, Exclusive, OneReport, [Next]_vars
               PROVE  OneReport'
    OBVIOUS
  <2>1. CASE UNCHANGED vars
    BY <2>1 DEF vars, OneReport, RowsAreSeen, ResultsOfOneRun
  <2>2. CASE Next
    BY <2>2, NextSteps, RequestReport, WorkerReport
  <2> QED
    BY <2>1, <2>2
<1>3. OneReport => ResultsOfOneRun
  BY DEF OneReport
<1> QED
  BY <1>1, <1>2, <1>3, TypeCorrect, ExclusiveInvariant, PTL DEF Spec

-----------------------------------------------------------------------------
(* What an ended check holds, and the event that closes it, as long as no  *)
(* lease runs out under a live worker.                                     *)

Finished == {"completed", "completed_partial", "failed"}

\* Nobody works on a finished check, so a failure is never recorded twice.
WorkIsOpen ==
    \A w \in Workers : worker[w].pc # "idle" =>
        /\ status[worker[w].check] \notin Finished
        /\ worker[w].pc = "failing" => worker[w].seen # "failed"

CancelIsMarked ==
    \A c \in Checks :
        status[c] \in {"cancel_requested", "cancelled"} => cancelRequested[c]

\* No run will store anything for such a check any more.
Doomed(c) == cancelRequested[c] \/ status[c] \in Finished \cup {"gone"}

\* A request that deletes outright has such a check, and what it selected is
\* all there is to delete.
DeletesAll ==
    \A d \in Deleters :
        /\ (deleter[d].pc = "loaded" /\ deleter[d].seen \notin {"running", "pending"})
             => Doomed(deleter[d].check)
        /\ deleter[d].pc = "cleared" =>
             /\ Doomed(deleter[d].check)
             /\ sources[deleter[d].check] \subseteq deleter[d].cleared

Outcome ==
    /\ WorkIsOpen /\ CancelIsMarked /\ DeletesAll
    /\ EndedHoldsNothing /\ ClosedByItsEvent

LEMMA LastAppended ==
    ASSUME NEW s \in Seq(Terminal), NEW e \in Terminal
    PROVE  Append(s, e) # <<>> /\ Append(s, e)[Len(Append(s, e))] = e
OBVIOUS

\* Requests keep it: a cancel that takes effect at once leaves nothing and
\* closes the stream.
LEMMA RequestOutcome ==
    ASSUME TypeOK, Exclusive, Outcome, RequestStep PROVE Outcome'
<1> USE DEF Outcome, WorkIsOpen, CancelIsMarked, DeletesAll, Doomed, EndedHoldsNothing,
            ClosedByItsEvent, Finished
<1>0. /\ status \in [Checks -> Status \cup {"absent", "gone"}]
      /\ cancelRequested \in [Checks -> BOOLEAN]
      /\ text \in [Checks -> BOOLEAN]
      /\ sources \in [Checks -> SUBSET SourceRow]
      /\ terminalEvents \in [Checks -> Seq(Terminal)]
      /\ admission \in [Checks -> {"none", "looked_up", "counted"}]
      /\ deleter \in [Deleters -> DeleterState]
      /\ \A w \in Workers : worker[w].pc # "idle" => worker[w].check \in Checks
      /\ \A d \in Deleters : deleter[d].pc # "idle" => deleter[d].check \in Checks
      /\ Idle.pc = "idle"
  BY RowTypes DEF Idle
<1>1. CASE \E c \in Checks : LookUpKey(c) \/ CountActive(c) \/ AbandonCreate(c)
                              \/ LeaseExpires(c)
  BY <1>1 DEF LookUpKey, CountActive, AbandonCreate, LeaseExpires, rows
<1>2. CASE \E c \in Checks : InsertCheck(c)
  <2>1. PICK c \in Checks : InsertCheck(c)
    BY <1>2
  <2>2. /\ status' = status \/ status' = [status EXCEPT ![c] = "pending"]
        /\ \A x \in Checks \ {c} : text'[x] = text[x]
        /\ UNCHANGED <<cancelRequested, sources, terminalEvents, worker, deleter>>
        /\ status[c] = "absent"
        /\ status' = status => text' = text
    BY <1>0, <2>1 DEF InsertCheck, Exclusive, Admitted
  <2>3. \A d \in Deleters : deleter[d].pc # "idle" => deleter[d].check # c
    BY <2>2 DEF Exclusive, DeletesAdmitted
  <2>4. \A w \in Workers : worker[w].pc # "idle" => worker[w].check # c
    BY <2>2 DEF Exclusive, WorkIsLeased
  <2>5. WorkIsOpen'
    BY <1>0, <2>2, <2>3, <2>4 DEF Terminal
  <2>6. CancelIsMarked'
    BY <1>0, <2>2, <2>3, <2>4 DEF Terminal
  <2>7. DeletesAll'
    BY <1>0, <2>2, <2>3, <2>4 DEF Terminal
  <2>8. EndedHoldsNothing'
    BY <1>0, <2>2, <2>3, <2>4 DEF Terminal
  <2>9. ClosedByItsEvent'
    BY <1>0, <2>2, <2>3, <2>4 DEF Terminal
  <2> QED
    BY <2>5, <2>6, <2>7, <2>8, <2>9
<1>3. CASE \E d \in Deleters, c \in Checks : LoadForDelete(d, c)
  <2>1. PICK d \in Deleters, c \in Checks : LoadForDelete(d, c)
    BY <1>3
  <2>2. /\ UNCHANGED <<status, cancelRequested, text, sources, terminalEvents, worker>>
        /\ status[c] \in Status
        /\ deleter' = [deleter EXCEPT ![d] =
              [pc |-> "loaded", check |-> c, seen |-> status[c]]]
    BY <2>1 DEF LoadForDelete, RowExists, rows
  <2>3. status[c] \notin {"running", "pending"} => Doomed(c)
    BY <2>2 DEF Status, Active, Terminal
  <2> QED
    BY <1>0, <2>2, <2>3
<1>4. ASSUME NEW d \in Deleters, DeleteRunning(d) PROVE Outcome'
  <2> DEFINE c == deleter[d].check
  <2>1. /\ \/ UNCHANGED <<status, cancelRequested>>
           \/ /\ status' = [status EXCEPT ![c] = "cancel_requested"]
              /\ cancelRequested' = [cancelRequested EXCEPT ![c] = TRUE]
        /\ UNCHANGED <<text, sources, terminalEvents, worker>>
        /\ deleter' = [deleter EXCEPT ![d] = Idle]
        /\ c \in Checks
    BY <1>0, <1>4 DEF DeleteRunning
  <2>5. WorkIsOpen'
    BY <1>0, <2>1 DEF Terminal
  <2>6. CancelIsMarked'
    BY <1>0, <2>1 DEF Terminal
  <2>7. DeletesAll'
    <3>1. \A e \in Deleters : e # d => deleter'[e] = deleter[e]
      BY <2>1
    <3>2. deleter'[d].pc \notin {"loaded", "cleared"}
      <4>1. deleter'[d] = Idle
        BY <1>0, <2>1
      <4> QED
        BY <4>1 DEF Idle
    <3>3. \A e \in Checks : Doomed(e) => Doomed(e)'
      <4> TAKE e \in Checks
      <4>1. cancelRequested[e] => cancelRequested'[e]
        BY <1>0, <2>1
      <4>2. status[e] \in Finished \cup {"gone"} => cancelRequested'[e] \/ status'[e] = status[e]
        BY <1>0, <2>1
      <4> QED
        BY <4>1, <4>2
    <3> QED
      BY <1>0, <2>1, <3>1, <3>2, <3>3
  <2>8. EndedHoldsNothing'
    BY <1>0, <2>1 DEF Terminal
  <2>9. ClosedByItsEvent'
    BY <1>0, <2>1 DEF Terminal
  <2> QED
    BY <2>5, <2>6, <2>7, <2>8, <2>9
<1>5. ASSUME NEW d \in Deleters, DeletePending(d) PROVE Outcome'
  <2> DEFINE c == deleter[d].check
  <2>1. /\ \/ UNCHANGED <<status, cancelRequested, text, sources, terminalEvents>>
           \/ /\ status' = [status EXCEPT ![c] = "cancelled"]
              /\ cancelRequested' = [cancelRequested EXCEPT ![c] = TRUE]
              /\ text' = [text EXCEPT ![c] = FALSE]
              /\ sources' = [sources EXCEPT ![c] = {}]
              /\ terminalEvents' =
                    [terminalEvents EXCEPT ![c] = Append(terminalEvents[c], "cancelled")]
        /\ UNCHANGED worker
        /\ deleter' = [deleter EXCEPT ![d] = Idle]
        /\ c \in Checks
    BY <1>0, <1>5 DEF DeletePending
  <2>2. /\ Append(terminalEvents[c], "cancelled") # <<>>
        /\ Append(terminalEvents[c], "cancelled")
              [Len(Append(terminalEvents[c], "cancelled"))] = "cancelled"
    BY <1>0, <2>1, LastAppended DEF Terminal
  <2>3. ClosedByItsEvent'
    BY <1>0, <2>1, <2>2
  <2>4. WorkIsOpen'
    BY <1>0, <2>1
  <2>5. CancelIsMarked'
    BY <1>0, <2>1
  <2>6. DeletesAll'
    BY <1>0, <2>1
  <2>7. EndedHoldsNothing'
    BY <1>0, <2>1
  <2> QED
    BY <2>3, <2>4, <2>5, <2>6, <2>7
<1>6. ASSUME NEW d \in Deleters, ClearForDelete(d) PROVE Outcome'
  <2>1. /\ deleter' = [deleter EXCEPT ![d] =
              [pc |-> "cleared", check |-> deleter[d].check,
               cleared |-> sources[deleter[d].check]]]
        /\ deleter[d].pc = "loaded" /\ deleter[d].seen \notin {"running", "pending"}
        /\ UNCHANGED <<status, cancelRequested, text, sources, terminalEvents, worker>>
    BY <1>6 DEF ClearForDelete, ClearedByDelete, rows
  <2> QED
    BY <1>0, <2>1
<1>7. ASSUME NEW d \in Deleters, DeleteOutright(d) PROVE Outcome'
  <2> DEFINE c == deleter[d].check
  <2>1. /\ status' = [status EXCEPT ![c] = "gone"]
        /\ cancelRequested' = [cancelRequested EXCEPT ![c] = FALSE]
        /\ text' = [text EXCEPT ![c] = FALSE]
        /\ sources' = [sources EXCEPT ![c] = sources[c] \ deleter[d].cleared]
        /\ deleter' = [deleter EXCEPT ![d] = Idle]
        /\ UNCHANGED <<terminalEvents, worker>>
        /\ deleter[d].pc = "cleared" /\ c \in Checks
    BY <1>0, <1>7 DEF DeleteOutright
  <2>2. sources[c] \ deleter[d].cleared = {}
    BY <2>1
  <2> QED
    BY <1>0, <2>1, <2>2 DEF Terminal
<1>8. ASSUME NEW d \in Deleters, AbandonDelete(d) PROVE Outcome'
  BY <1>0, <1>8 DEF AbandonDelete, rows
<1> QED
  BY <1>1, <1>2, <1>3, <1>4, <1>5, <1>6, <1>7, <1>8 DEF RequestStep, Create, Delete

\* So do workers: the only worker of a check ends its run as cancelled once a
\* cancel is marked, and no worker is left to store anything afterwards.
LEMMA WorkerOutcome ==
    ASSUME TypeOK, Exclusive, Locks, Outcome, NEW w \in Workers, WorkerStep(w)
    PROVE  Outcome'
<1> USE DEF Outcome, WorkIsOpen, CancelIsMarked, DeletesAll, Doomed, EndedHoldsNothing,
            ClosedByItsEvent, Finished
<1>0. /\ status \in [Checks -> Status \cup {"absent", "gone"}]
      /\ cancelRequested \in [Checks -> BOOLEAN]
      /\ text \in [Checks -> BOOLEAN]
      /\ sources \in [Checks -> SUBSET SourceRow]
      /\ terminalEvents \in [Checks -> Seq(Terminal)]
      /\ worker \in [Workers -> WorkerState]
      /\ \A v \in Workers : worker[v].pc # "idle" => worker[v].check \in Checks
      /\ \A d \in Deleters : deleter[d].pc # "idle" => deleter[d].check \in Checks
      /\ Idle.pc = "idle"
  BY RowTypes DEF Idle
<1>1. \A v \in Workers : (worker[v].pc # "idle" /\ worker[w].pc # "idle"
                            /\ worker[v].check = worker[w].check) => v = w
  BY <1>0 DEF Exclusive, OneWorkerEach, WorksOn
<1>2. CASE LoadCheck(w) \/ FlushCheck(w) \/ RunRaises(w) \/ SettleRaises(w) \/ Crash(w)
  <2> DEFINE Later == /\ UNCHANGED <<status, cancelRequested, text, sources,
                                     terminalEvents, deleter>>
                      /\ worker' = [worker EXCEPT ![w] = worker'[w]]
                      /\ worker'[w].pc # "idle" =>
                           /\ worker[w].pc # "idle"
                           /\ worker'[w].check = worker[w].check
                           /\ worker'[w].pc # "failing"
  <2>1. ASSUME LoadCheck(w) PROVE Later
    BY <1>0, <2>1 DEF LoadCheck, Raised, rows
  <2>2. ASSUME FlushCheck(w) PROVE Later
    <3>1. \E s : /\ worker' = [worker EXCEPT ![w] = s]
                  /\ s.check = worker[w].check /\ s.pc \in {"locked", "raised"}
      <4>1. CASE worker' = [worker EXCEPT ![w].pc = "locked"]
        <5>1. worker' = [worker EXCEPT ![w] = [worker[w] EXCEPT !.pc = "locked"]]
          BY <4>1
        <5>2. worker[w] \in [pc : {"loaded", "locked"}, check : Checks, run : Nat,
                             seen : Status, cleared : SUBSET SourceRow]
          BY <1>0, <2>2 DEF FlushCheck, WorkerState, Idle
        <5>3. /\ [worker[w] EXCEPT !.pc = "locked"].check = worker[w].check
              /\ [worker[w] EXCEPT !.pc = "locked"].pc = "locked"
          BY <5>2
        <5> QED
          BY <5>1, <5>3
      <4>2. CASE worker' = Raised(w, FALSE)
        <5> DEFINE r == [pc |-> "raised", check |-> worker[w].check, fatal |-> FALSE]
        <5>1. worker' = [worker EXCEPT ![w] = r]
          BY <4>2 DEF Raised
        <5>2. r.check = worker[w].check /\ r.pc = "raised"
          OBVIOUS
        <5> HIDE DEF r
        <5> QED
          BY <5>1, <5>2
      <4> QED
        BY <2>2, <4>1, <4>2 DEF FlushCheck
    <3> QED
      BY <1>0, <2>2, <3>1 DEF FlushCheck, rows
  <2>3. ASSUME RunRaises(w) \/ SettleRaises(w) \/ Crash(w) PROVE Later
    BY <1>0, <2>3 DEF RunRaises, SettleRaises, Crash, Raised, rows
  <2>4. Later
    BY <1>2, <2>1, <2>2, <2>3
  <2> QED
    BY <1>0, <2>4
<1>3. CASE LoadForFail(w)
  <2>1. /\ UNCHANGED <<status, cancelRequested, text, sources, terminalEvents, deleter>>
        /\ worker' = [worker EXCEPT ![w] = worker'[w]]
        /\ worker'[w].pc # "idle" =>
              /\ worker[w].pc # "idle" /\ worker'[w].check = worker[w].check
              /\ worker'[w].seen = status[worker[w].check]
    BY <1>0, <1>3 DEF LoadForFail, rows
  <2>2. WorkIsOpen'
    <3> SUFFICES ASSUME NEW v \in Workers, worker'[v].pc # "idle"
                 PROVE  /\ status[worker'[v].check] \notin Finished
                        /\ worker'[v].pc = "failing" => worker'[v].seen # "failed"
      BY <2>1
    <3>1. CASE v = w
      BY <2>1, <3>1
    <3>2. CASE v # w
      <4>1. worker'[v] = worker[v]
        BY <1>0, <2>1, <3>2
      <4> QED
        BY <4>1
    <3> QED
      BY <3>1, <3>2
  <2>3. CancelIsMarked' /\ DeletesAll' /\ EndedHoldsNothing' /\ ClosedByItsEvent'
    BY <2>1
  <2> QED
    BY <2>2, <2>3
<1>4. CASE Settle(w)
  <2> DEFINE c == worker[w].check
  <2>1. PICK found \in SUBSET Documents, target \in SettleTargets(c) :
            /\ status' = [status EXCEPT ![c] = target]
            /\ text' = [text EXCEPT ![c] =
                   target # "cancelled" /\ (text[c] \/ c \in DocumentMode)]
            /\ sources' = [sources EXCEPT ![c] = SourcesAfter(w, target, found)]
            /\ terminalEvents' =
                  [terminalEvents EXCEPT ![c] = Append(terminalEvents[c], target)]
    BY <1>4 DEF Settle
  <2>2. /\ worker' = [worker EXCEPT ![w] = Idle]
        /\ UNCHANGED <<cancelRequested, deleter>>
        /\ worker[w].pc = "locked" /\ c \in Checks /\ status[c] \in Status \ Finished
        /\ terminalEvents[c] \in Seq(Terminal)
    BY <1>0, <1>4 DEF Settle, Locks, RowExists
  <2>3. CASE cancelRequested[c]
    <3>1. /\ target = "cancelled" /\ SourcesAfter(w, target, found) = {}
          /\ target \in Terminal
      BY <2>3 DEF SettleTargets, SourcesAfter, Terminal
    <3>2. /\ Append(terminalEvents[c], target) # <<>>
          /\ Append(terminalEvents[c], target)[Len(Append(terminalEvents[c], target))]
               = target
      BY <2>2, <3>1, LastAppended
    <3>3. WorkIsOpen'
      BY <1>0, <1>1, <2>1, <2>2, <3>1
    <3>4. CancelIsMarked' /\ DeletesAll'
      BY <1>0, <2>1, <2>2, <2>3, <3>1
    <3>5. EndedHoldsNothing'
      BY <1>0, <2>1, <2>2, <3>1
    <3>6. ClosedByItsEvent'
      BY <1>0, <2>1, <2>2, <3>2
    <3> QED
      BY <3>3, <3>4, <3>5, <3>6
  <2>4. CASE ~cancelRequested[c]
    <3>1. target \in {"completed", "completed_partial"} /\ target \in Terminal
      BY <2>4 DEF SettleTargets, Terminal
    <3>2. /\ Append(terminalEvents[c], target) # <<>>
          /\ Append(terminalEvents[c], target)[Len(Append(terminalEvents[c], target))]
               = target
      BY <2>2, <3>1, LastAppended
    <3>3. ~Doomed(c)
      BY <2>2, <2>4 DEF Status, Active, Terminal
    <3>4. WorkIsOpen'
      BY <1>0, <1>1, <2>1, <2>2, <3>1
    <3>5. CancelIsMarked'
      BY <1>0, <2>1, <2>2, <3>1
    <3>6. DeletesAll'
      BY <1>0, <2>1, <2>2, <3>1, <3>3
    <3>7. EndedHoldsNothing'
      BY <1>0, <2>1, <2>2, <3>1
    <3>8. ClosedByItsEvent'
      BY <1>0, <2>1, <2>2, <3>2
    <3> QED
      BY <3>4, <3>5, <3>6, <3>7, <3>8
  <2> QED
    BY <2>3, <2>4
<1>5. CASE WriteFail(w)
  <2> DEFINE c == worker[w].check
  <2>1. /\ worker' = [worker EXCEPT ![w] = Idle]
        /\ UNCHANGED <<cancelRequested, text, sources, deleter>>
        /\ worker[w].pc = "failing" /\ c \in Checks
    BY <1>0, <1>5 DEF WriteFail
  <2>2. CASE UNCHANGED <<status, terminalEvents>>
    BY <1>0, <2>1, <2>2
  <2>3. CASE ~UNCHANGED <<status, terminalEvents>>
    <3>1. /\ status' = [status EXCEPT ![c] =
                 IF FailTarget(w) = worker[w].seen THEN status[c] ELSE FailTarget(w)]
          /\ terminalEvents' = [terminalEvents EXCEPT ![c] = EventsAfterFail(w)]
          /\ status[c] \in Status
      BY <1>5, <2>3 DEF WriteFail, RowExists
    <3>2. FailTarget(w) \in {"pending", "failed"} /\ worker[w].seen \notin {"pending", "failed"}
      BY <1>0, <2>1 DEF FailTarget, Exclusive, FailureIsCurrent
    <3>3. status' = [status EXCEPT ![c] = FailTarget(w)]
      BY <3>1, <3>2
    <3>4. FailTarget(w) = "failed" =>
            EventsAfterFail(w) # <<>> /\ EventsAfterFail(w)[Len(EventsAfterFail(w))] = "failed"
      BY <1>0, <2>1, LastAppended DEF EventsAfterFail, Terminal
    <3>5. Doomed(c) <=> cancelRequested[c]
      BY <2>1, <3>1 DEF Status, Active, Terminal
    <3>6. WorkIsOpen'
      BY <1>0, <1>1, <2>1, <3>2, <3>3
    <3>7. CancelIsMarked'
      BY <1>0, <2>1, <3>2, <3>3
    <3>8. DeletesAll'
      BY <1>0, <2>1, <3>2, <3>3, <3>5
    <3>9. EndedHoldsNothing'
      BY <1>0, <2>1, <3>2, <3>3
    <3>10. ClosedByItsEvent'
      BY <1>0, <2>1, <3>1, <3>2, <3>3, <3>4 DEF Terminal
    <3> QED
      BY <3>6, <3>7, <3>8, <3>9, <3>10
  <2> QED
    BY <2>2, <2>3
<1>6. CASE Reclaim(w)
  <2>1. /\ status' = [c \in Checks |-> IF c \in Reclaimable THEN "pending" ELSE status[c]]
        /\ \A c \in Reclaimable : status[c] = "running"
        /\ UNCHANGED <<cancelRequested, text, sources, terminalEvents, worker, deleter>>
    BY <1>6 DEF Reclaim, Reclaimable
  <2> QED
    BY <1>0, <2>1 DEF Terminal
<1>7. ASSUME NEW c \in Checks, ClaimCheck(w, c) PROVE Outcome'
  <2>1. /\ status' = [status EXCEPT ![c] = "running"] /\ status[c] = "pending"
        /\ worker' = [worker EXCEPT ![w] = worker'[w]]
        /\ worker'[w].check = c /\ worker'[w].pc = "claimed"
        /\ UNCHANGED <<cancelRequested, text, sources, terminalEvents, deleter>>
    BY <1>0, <1>7 DEF ClaimCheck, Claimable
  <2>2. WorkIsOpen'
    BY <1>0, <2>1
  <2>3. CancelIsMarked' /\ DeletesAll'
    BY <1>0, <2>1
  <2>4. EndedHoldsNothing' /\ ClosedByItsEvent'
    BY <1>0, <2>1 DEF Terminal
  <2> QED
    BY <2>2, <2>3, <2>4
<1> QED
  BY <1>2, <1>3, <1>4, <1>5, <1>6, <1>7 DEF WorkerStep, Run

LEMMA OutcomeInvariant == ASSUME ~SlowWorkers PROVE Spec => []Outcome
<1>1. Init => Outcome
  BY DEF Init, Outcome, WorkIsOpen, CancelIsMarked, DeletesAll, EndedHoldsNothing,
         ClosedByItsEvent, Idle, Terminal
<1>2. TypeOK /\ Locks /\ Exclusive /\ Outcome /\ [Next]_vars => Outcome'
  <2> SUFFICES ASSUME TypeOK, Locks, Exclusive, Outcome, [Next]_vars
               PROVE  Outcome'
    OBVIOUS
  <2>1. CASE UNCHANGED vars
    BY <2>1 DEF vars, Outcome, WorkIsOpen, CancelIsMarked, DeletesAll, Doomed,
                EndedHoldsNothing, ClosedByItsEvent
  <2>2. CASE Next
    BY <2>2, NextSteps, RequestOutcome, WorkerOutcome
  <2> QED
    BY <2>1, <2>2
<1> QED
  BY <1>1, <1>2, LocksInvariant, ExclusiveInvariant, PTL DEF Spec

\* purge_sensitive_content and delete_check: whatever requests, runs,
\* failures and crashes overlap, a cancelled check holds neither text nor
\* findings, and a deleted one leaves no source or passage rows behind.
THEOREM EndedIsPurged == ASSUME ~SlowWorkers PROVE Spec => []EndedHoldsNothing
<1>1. Outcome => EndedHoldsNothing
  BY DEF Outcome
<1> QED
  BY <1>1, OutcomeInvariant, PTL

\* append_event: a check that ended has the terminal event of its status as
\* its last one, whoever ended it.
THEOREM EndedIsClosed == ASSUME ~SlowWorkers PROVE Spec => []ClosedByItsEvent
<1>1. Outcome => ClosedByItsEvent
  BY DEF Outcome
<1> QED
  BY <1>1, OutcomeInvariant, PTL

\* _settle: whatever status the run began with and whatever DELETEs wrote
\* while it waited for its row, a check is completed only if it is running and
\* no cancel has been accepted.
THEOREM CancelledIsNotCompleted == ASSUME ~SlowWorkers PROVE Spec => CancelIsHonoured
<1> DEFINE Honours == \A c \in Checks :
              status'[c] \in {"completed", "completed_partial"} /\ status'[c] # status[c]
                => status[c] = "running" /\ ~cancelRequested[c]
<1>1. TypeOK /\ Locks /\ Exclusive /\ Outcome /\ [Next]_vars => [Honours]_vars
  <2> SUFFICES ASSUME TypeOK, Locks, Exclusive, Outcome, Next,
                      NEW c \in Checks, status'[c] \in {"completed", "completed_partial"},
                      status'[c] # status[c]
               PROVE  status[c] = "running" /\ ~cancelRequested[c]
    OBVIOUS
  <2>0. /\ status \in [Checks -> Status \cup {"absent", "gone"}]
        /\ \A v \in Workers : worker[v].pc # "idle" => worker[v].check \in Checks
        /\ \A d \in Deleters : deleter[d].pc # "idle" => deleter[d].check \in Checks
    BY RowTypes
  <2>1. ~RequestStep
    <3> SUFFICES ASSUME RequestStep PROVE FALSE
      OBVIOUS
    <3>1. \/ status' = status
          \/ \E d \in Deleters : DeleteRunning(d) \/ DeletePending(d) \/ DeleteOutright(d)
          \/ \E e \in Checks : InsertCheck(e)
      BY DEF RequestStep, Create, LookUpKey, CountActive, AbandonCreate, LeaseExpires,
             Delete, ClearForDelete, AbandonDelete, LoadForDelete, rows
    <3>2. \/ status' = status
          \/ \E e \in Checks, t \in {"cancel_requested", "cancelled", "gone", "pending"} :
                status' = [status EXCEPT ![e] = t]
      BY <2>0, <3>1 DEF DeleteRunning, DeletePending, DeleteOutright, InsertCheck
    <3> QED
      BY <2>0, <3>2
  <2>2. PICK w \in Workers : WorkerStep(w)
    BY <2>1, NextSteps
  <2>3. CASE Settle(w)
    <3>1. PICK target \in SettleTargets(worker[w].check) :
              status' = [status EXCEPT ![worker[w].check] = target]
      BY <2>3 DEF Settle
    <3>2. /\ worker[w].check = c /\ target \in {"completed", "completed_partial"}
          /\ worker[w].pc = "locked"
      BY <2>0, <2>3, <3>1 DEF Settle
    <3>3. ~cancelRequested[c]
      BY <3>2 DEF SettleTargets
    <3>4. /\ status[c] \in Status \ Finished
          /\ status[c] \notin {"cancel_requested", "cancelled"}
      BY <3>2, <3>3 DEF Locks, RowExists, Outcome, WorkIsOpen, CancelIsMarked
    <3>5. status[c] # "pending"
      BY <3>2 DEF Exclusive, OneWorkerEach, WorksOn
    <3> QED
      BY <3>3, <3>4, <3>5 DEF Status, Active, Terminal, Finished
  <2>4. CASE ~Settle(w)
    <3>1. \/ status' = status
          \/ \E e \in Checks, t \in {"pending", "failed", "running"} :
                status' = [status EXCEPT ![e] = t]
          \/ \A e \in Checks : status'[e] \in {status[e], "pending"}
      <4>1. CASE WriteFail(w)
        BY <2>0, <4>1 DEF WriteFail, FailTarget
      <4>2. CASE Reclaim(w)
        BY <4>2 DEF Reclaim
      <4>3. CASE \E e \in Checks : ClaimCheck(w, e)
        BY <4>3 DEF ClaimCheck
      <4> QED
        BY <2>2, <2>4, <4>1, <4>2, <4>3 DEF WorkerStep, Run, LoadCheck, FlushCheck,
           RunRaises, SettleRaises, LoadForFail, Crash, rows
    <3> QED
      BY <2>0, <3>1
  <2> QED
    BY <2>3, <2>4
<1> QED
  BY <1>1, LocksInvariant, ExclusiveInvariant, OutcomeInvariant, PTL DEF Spec, CancelIsHonoured

-----------------------------------------------------------------------------
(* The promise to the caller, where a check is only deleted once it ended. *)

\* No request found the check it deletes still active.
DeletesOfEnded ==
    \A d \in Deleters : deleter[d].pc = "loaded" => deleter[d].seen \in Terminal

\* Nothing is cancelled, and what a worker has is running.
Undisturbed ==
    /\ \A c \in Checks : ~cancelRequested[c]
    /\ \A c \in Checks : status[c] \notin {"cancel_requested", "cancelled"}
    /\ \A w \in Workers : worker[w].pc # "idle" =>
         /\ status[worker[w].check] = "running"
         /\ worker[w].pc \in {"loaded", "locked", "failing"} => worker[w].seen = "running"
    /\ \A c \in Checks : status[c] \in Active \cup {"absent"} => sources[c] = {}

\* The creator that holds the owner's lock has room for its check.
Room ==
    /\ IsFiniteSet({c \in Checks : status[c] # "absent"})
    /\ \A c, d \in Checks :
          (admission[c] = "counted" /\ admission[d] = "counted" /\ Owner[c] = Owner[d])
            => c = d
    /\ \A c \in Checks : admission[c] = "counted" =>
          Cardinality(ActiveChecksOf(Owner[c])) < MaxActive

\* What a step can look like to a caller.
Unnoticed ==
    /\ UNCHANGED <<sources, terminalEvents>>
    /\ \A c \in Checks : \/ status'[c] = status[c]
                         \/ /\ status[c] \in {"pending", "running"}
                            /\ status'[c] \in {"pending", "running"}
                            /\ status'[c] # status[c]

AdmitStep(c) ==
    /\ status[c] = "absent" /\ admission[c] = "counted" /\ SameKey(c) = {}
    /\ status' = [status EXCEPT ![c] = "pending"]
    /\ admission' = [admission EXCEPT ![c] = "none"]
    /\ UNCHANGED <<sources, terminalEvents>>

SettleStep(c, o) ==
    /\ status[c] = "running"
    /\ status' = [status EXCEPT ![c] = o]
    /\ \E S : /\ sources' = [sources EXCEPT ![c] = S]
              /\ S # {} => o \in {"completed", "completed_partial"}
    /\ terminalEvents' = [terminalEvents EXCEPT ![c] = Append(terminalEvents[c], o)]

RemoveStep(c) ==
    /\ status[c] \in Finished \cup {"gone"}
    /\ status' = [status EXCEPT ![c] = "gone"]
    /\ sources' = [sources EXCEPT ![c] = {}]
    /\ UNCHANGED terminalEvents

CallerStep ==
    \/ Unnoticed
    \/ \E c \in Checks : AdmitStep(c) \/ RemoveStep(c)
    \/ \E c \in Checks, o \in Finished : SettleStep(c, o)

LEMMA RequestCaller ==
    ASSUME TypeOK, Exclusive, Outcome, Undisturbed, DeletesOfEnded, RequestStep
    PROVE  CallerStep /\ Undisturbed'
<1> USE DEF Undisturbed
<1>0. /\ status \in [Checks -> Status \cup {"absent", "gone"}]
      /\ cancelRequested \in [Checks -> BOOLEAN]
      /\ sources \in [Checks -> SUBSET SourceRow]
      /\ \A w \in Workers : worker[w].pc # "idle" => worker[w].check \in Checks
      /\ \A d \in Deleters : deleter[d].pc # "idle" => deleter[d].check \in Checks
  BY RowTypes
<1>1. ASSUME UNCHANGED <<status, cancelRequested, sources, terminalEvents, worker>>
      PROVE  CallerStep /\ Undisturbed'
  BY <1>1 DEF CallerStep, Unnoticed
<1>2. ASSUME NEW c \in Checks, InsertCheck(c) PROVE CallerStep /\ Undisturbed'
  <2>1. CASE ~UniqueKey(c)
    BY <1>1, <1>2, <2>1 DEF InsertCheck
  <2>2. CASE UniqueKey(c)
    <3>1. /\ AdmitStep(c)
          /\ UNCHANGED <<cancelRequested, worker, sources>>
      BY <1>2, <2>2 DEF InsertCheck, UniqueKey, AdmitStep, Exclusive, Admitted
    <3>2. \A w \in Workers : worker[w].pc # "idle" => worker[w].check # c
      BY <3>1 DEF AdmitStep
    <3>3. Undisturbed'
      BY <1>0, <3>1, <3>2 DEF AdmitStep, Active
    <3> QED
      BY <3>1, <3>3 DEF CallerStep
  <2> QED
    BY <2>1, <2>2
<1>3. ASSUME NEW d \in Deleters, DeleteOutright(d) PROVE CallerStep /\ Undisturbed'
  <2> DEFINE c == deleter[d].check
  <2>1. /\ deleter[d].pc = "cleared" /\ c \in Checks
        /\ status' = [status EXCEPT ![c] = "gone"]
        /\ cancelRequested' = [cancelRequested EXCEPT ![c] = FALSE]
        /\ sources' = [sources EXCEPT ![c] = sources[c] \ deleter[d].cleared]
        /\ UNCHANGED <<terminalEvents, worker>>
    BY <1>0, <1>3 DEF DeleteOutright
  <2>2. /\ status[c] \in Finished \cup {"gone"}
        /\ sources[c] \ deleter[d].cleared = {}
    BY <2>1 DEF Outcome, DeletesAll, Doomed
  <2>3. RemoveStep(c)
    BY <2>1, <2>2 DEF RemoveStep
  <2>4. \A w \in Workers : worker[w].pc # "idle" => worker[w].check # c
    BY <2>2 DEF Finished
  <2>5. Undisturbed'
    BY <1>0, <2>1, <2>2, <2>4
  <2> QED
    BY <2>1, <2>3, <2>5 DEF CallerStep
<1>4. ~\E d \in Deleters : DeleteRunning(d) \/ DeletePending(d)
  BY DEF DeleteRunning, DeletePending, DeletesOfEnded, Terminal
<1> QED
  BY <1>1, <1>2, <1>3, <1>4 DEF RequestStep, Create, LookUpKey, CountActive, AbandonCreate,
     LeaseExpires, Delete, ClearForDelete, AbandonDelete, LoadForDelete, rows

LEMMA WorkerCaller ==
    ASSUME TypeOK, Exclusive, Locks, Outcome, Undisturbed, NEW w \in Workers, WorkerStep(w)
    PROVE  CallerStep /\ Undisturbed'
<1> USE DEF Undisturbed
<1>0. /\ status \in [Checks -> Status \cup {"absent", "gone"}]
      /\ sources \in [Checks -> SUBSET SourceRow]
      /\ terminalEvents \in [Checks -> Seq(Terminal)]
      /\ worker \in [Workers -> WorkerState]
      /\ \A v \in Workers : worker[v].pc # "idle" => worker[v].check \in Checks
      /\ Idle.pc = "idle"
  BY RowTypes DEF Idle
<1>1. \A v \in Workers : (worker[v].pc # "idle" /\ worker[w].pc # "idle"
                            /\ worker[v].check = worker[w].check) => v = w
  BY <1>0 DEF Exclusive, OneWorkerEach, WorksOn
<1>2. ASSUME UNCHANGED <<status, cancelRequested, sources, terminalEvents>>, Undisturbed'
      PROVE  CallerStep /\ Undisturbed'
  BY <1>2 DEF CallerStep, Unnoticed
<1>3. CASE LoadCheck(w)
  BY <1>0, <1>2, <1>3 DEF LoadCheck, Raised, rows
<1>4. CASE FlushCheck(w)
  <2>1. /\ worker' = [worker EXCEPT ![w].pc = "locked"]
        /\ worker[w].pc = "loaded"
        /\ UNCHANGED <<status, cancelRequested, sources, terminalEvents>>
    BY <1>0, <1>4 DEF FlushCheck, RowExists, Status, Active, rows
  <2>2. worker' = [worker EXCEPT ![w] = [worker[w] EXCEPT !.pc = "locked"]]
    BY <2>1
  <2>3. worker[w] \in [pc : {"loaded", "locked"}, check : Checks, run : Nat,
                       seen : Status, cleared : SUBSET SourceRow]
    BY <1>0, <2>1 DEF WorkerState, Idle
  <2>4. /\ [worker[w] EXCEPT !.pc = "locked"].check = worker[w].check
        /\ [worker[w] EXCEPT !.pc = "locked"].seen = worker[w].seen
    BY <2>3
  <2>5. Undisturbed'
    BY <1>0, <2>1, <2>2, <2>4
  <2> QED
    BY <1>2, <2>1, <2>5
<1>5. CASE RunRaises(w) \/ SettleRaises(w) \/ Crash(w)
  <2>1. UNCHANGED <<status, cancelRequested, sources, terminalEvents>>
    BY <1>5 DEF RunRaises, SettleRaises, Crash, rows
  <2>2. /\ worker' = [worker EXCEPT ![w] = worker'[w]]
        /\ worker'[w].pc \in {"raised", "idle"}
        /\ worker'[w].pc = "raised" =>
              worker[w].pc # "idle" /\ worker'[w].check = worker[w].check
    BY <1>0, <1>5 DEF RunRaises, SettleRaises, Crash, Raised
  <2>3. Undisturbed'
    BY <1>0, <2>1, <2>2
  <2> QED
    BY <1>2, <2>1, <2>3
<1>6. CASE LoadForFail(w)
  BY <1>0, <1>2, <1>6 DEF LoadForFail, rows
<1>7. CASE Settle(w)
  <2> DEFINE c == worker[w].check
  <2>1. PICK found \in SUBSET Documents, target \in SettleTargets(c) :
            /\ status' = [status EXCEPT ![c] = target]
            /\ sources' = [sources EXCEPT ![c] = SourcesAfter(w, target, found)]
            /\ terminalEvents' =
                  [terminalEvents EXCEPT ![c] = Append(terminalEvents[c], target)]
    BY <1>7 DEF Settle
  <2>2. /\ worker' = [worker EXCEPT ![w] = Idle]
        /\ UNCHANGED cancelRequested
        /\ worker[w].pc = "locked" /\ c \in Checks /\ status[c] = "running"
    BY <1>0, <1>7 DEF Settle
  <2>3. target \in {"completed", "completed_partial"}
    BY <2>2 DEF SettleTargets
  <2>4. SettleStep(c, target) /\ target \in Finished
    BY <2>1, <2>2, <2>3 DEF SettleStep, Finished
  <2>5. Undisturbed'
    BY <1>0, <1>1, <2>1, <2>2, <2>3 DEF Active
  <2> QED
    BY <2>2, <2>4, <2>5 DEF CallerStep
<1>8. CASE WriteFail(w)
  <2> DEFINE c == worker[w].check
  <2>1. /\ worker' = [worker EXCEPT ![w] = Idle]
        /\ UNCHANGED <<cancelRequested, sources>>
        /\ worker[w].pc = "failing" /\ c \in Checks /\ status[c] = "running"
        /\ worker[w].seen = "running"
    BY <1>0, <1>8 DEF WriteFail
  <2>2. /\ status' = [status EXCEPT ![c] = FailTarget(w)]
        /\ terminalEvents' = [terminalEvents EXCEPT ![c] = EventsAfterFail(w)]
    BY <1>8, <2>1 DEF WriteFail, RowExists, Status, Active, FailTarget
  <2>3. sources[c] = {}
    BY <2>1 DEF Active
  <2>4. Undisturbed'
    BY <1>0, <1>1, <2>1, <2>2, <2>3 DEF FailTarget
  <2>5. CASE FailTarget(w) = "failed"
    <3>1. sources' = [sources EXCEPT ![c] = {}]
      BY <1>0, <2>1, <2>3
    <3>2. SettleStep(c, "failed")
      BY <2>1, <2>2, <2>5, <3>1 DEF SettleStep, EventsAfterFail
    <3> QED
      BY <2>1, <2>4, <3>2 DEF CallerStep, Finished
  <2>6. CASE FailTarget(w) = "pending"
    <3>1. terminalEvents' = terminalEvents
      BY <1>0, <2>2, <2>6 DEF EventsAfterFail
    <3>2. Unnoticed
      BY <1>0, <2>1, <2>2, <2>6, <3>1 DEF Unnoticed
    <3> QED
      BY <2>4, <3>2 DEF CallerStep
  <2> QED
    BY <2>5, <2>6 DEF FailTarget
<1>9. CASE Reclaim(w)
  <2>1. /\ status' = [c \in Checks |-> IF c \in Reclaimable THEN "pending" ELSE status[c]]
        /\ \A c \in Reclaimable : status[c] = "running" /\ lease[c] = "expired"
        /\ UNCHANGED <<cancelRequested, sources, terminalEvents, worker>>
    BY <1>9 DEF Reclaim, Reclaimable
  <2>2. \A v \in Workers : worker[v].pc # "idle" => worker[v].check \notin Reclaimable
    BY <2>1 DEF Exclusive, WorkIsLeased
  <2>3. Undisturbed'
    BY <1>0, <2>1, <2>2 DEF Active
  <2>4. Unnoticed
    BY <1>0, <2>1 DEF Unnoticed
  <2> QED
    BY <2>3, <2>4 DEF CallerStep
<1>10. ASSUME NEW c \in Checks, ClaimCheck(w, c) PROVE CallerStep /\ Undisturbed'
  <2>1. /\ status' = [status EXCEPT ![c] = "running"] /\ status[c] = "pending"
        /\ worker' = [worker EXCEPT ![w] = worker'[w]]
        /\ worker'[w].check = c /\ worker'[w].pc = "claimed"
        /\ UNCHANGED <<cancelRequested, sources, terminalEvents>>
    BY <1>0, <1>10 DEF ClaimCheck, Claimable
  <2>2. Undisturbed'
    BY <1>0, <2>1 DEF Active
  <2>3. Unnoticed
    BY <1>0, <2>1 DEF Unnoticed
  <2> QED
    BY <2>2, <2>3 DEF CallerStep
<1> QED
  BY <1>3, <1>4, <1>5, <1>6, <1>7, <1>8, <1>9, <1>10 DEF WorkerStep, Run

\* Only an insert brings an active check, and the lock lets one creator of
\* an owner come to it at a time.
LEMMA RoomKept ==
    ASSUME TypeOK, Exclusive, Undisturbed, CallerStep, Room, RequestStep \/ UNCHANGED admission
    PROVE  Room'
<1> DEFINE Present == {c \in Checks : status[c] # "absent"}
<1>0. /\ status \in [Checks -> Status \cup {"absent", "gone"}]
      /\ admission \in [Checks -> {"none", "looked_up", "counted"}]
  BY RowTypes
<1>1. IsFiniteSet(Present')
  <2>1. CASE \E c \in Checks : AdmitStep(c)
    <3>1. PICK c \in Checks : AdmitStep(c)
      BY <2>1
    <3>2. Present' = Present \cup {c}
      BY <1>0, <3>1 DEF AdmitStep
    <3> QED
      BY <3>2, FS_AddElement DEF Room
  <2>2. CASE ~\E c \in Checks : AdmitStep(c)
    <3>1. Present' \subseteq Present
      BY <1>0, <2>2 DEF CallerStep, Unnoticed, RemoveStep, SettleStep, Finished
    <3> QED
      BY <3>1, FS_Subset DEF Room
  <2> QED
    BY <2>1, <2>2
<1>2. \A k : ActiveChecksOf(k) \subseteq Present /\ ActiveChecksOf(k) \in SUBSET Present
  BY DEF ActiveChecksOf, Active
<1>3. \A k : IsFiniteSet(ActiveChecksOf(k)) /\ Cardinality(ActiveChecksOf(k)) \in Nat
  BY <1>2, FS_Subset, FS_CardinalityType DEF Room
<1>4. ASSUME NEW c \in Checks, CountActive(c), status' = status PROVE Room'
  <2>1. /\ ~CreatorLocked(Owner[c])
        /\ \/ admission' = [admission EXCEPT ![c] = "none"]
           \/ /\ admission' = [admission EXCEPT ![c] = "counted"]
              /\ ~(Cardinality(ActiveChecksOf(Owner[c])) >= MaxActive)
    BY <1>4 DEF CountActive
  <2>2. Cardinality(ActiveChecksOf(Owner[c])) >= MaxActive
          \/ Cardinality(ActiveChecksOf(Owner[c])) < MaxActive
    BY <1>3, LimitsAssumption
  <2>3. \A d \in Checks : admission[d] = "counted" => Owner[d] # Owner[c]
           \/ admission' = [admission EXCEPT ![c] = "none"]
    BY <2>1 DEF CreatorLocked
  <2>4. ActiveChecksOf(Owner[c])' = ActiveChecksOf(Owner[c])
    BY <1>4 DEF ActiveChecksOf
  <2>5. \A d \in Checks : ActiveChecksOf(Owner[d])' = ActiveChecksOf(Owner[d])
    BY <1>4 DEF ActiveChecksOf
  <2>6. \A d, e \in Checks :
           (admission'[d] = "counted" /\ admission'[e] = "counted" /\ Owner[d] = Owner[e])
             => d = e
    BY <1>0, <2>1 DEF Room, CreatorLocked
  <2>7. \A d \in Checks : admission'[d] = "counted" =>
           Cardinality(ActiveChecksOf(Owner[d])) < MaxActive
    BY <1>0, <2>1, <2>2 DEF Room
  <2> QED
    BY <1>1, <2>5, <2>6, <2>7 DEF Room
<1>5. ASSUME NEW c \in Checks, AdmitStep(c) PROVE Room'
  <2>1. \A d \in Checks : admission'[d] = "counted" =>
           admission[d] = "counted" /\ Owner[d] # Owner[c]
    BY <1>0, <1>5 DEF AdmitStep, Room
  <2>2. \A d \in Checks : Owner[d] # Owner[c] =>
           ActiveChecksOf(Owner[d])' = ActiveChecksOf(Owner[d])
    BY <1>0, <1>5 DEF AdmitStep, ActiveChecksOf
  <2> QED
    BY <1>1, <2>1, <2>2 DEF Room
<1>6. ASSUME \A c \in Checks : status'[c] \in Active => status[c] \in Active,
             \A c \in Checks : admission'[c] = "counted" => admission[c] = "counted"
      PROVE  Room'
  <2>1. \A k : ActiveChecksOf(k)' \in SUBSET ActiveChecksOf(k)
    BY <1>6 DEF ActiveChecksOf
  <2>2. \A k : /\ Cardinality(ActiveChecksOf(k)') \in Nat
               /\ Cardinality(ActiveChecksOf(k)') <= Cardinality(ActiveChecksOf(k))
    BY <1>3, <2>1, FS_Subset, FS_CardinalityType
  <2>3. \A c \in Checks : admission'[c] = "counted" =>
            Cardinality(ActiveChecksOf(Owner[c]))' < MaxActive
    BY <1>3, <1>6, <2>2, LimitsAssumption DEF Room
  <2> QED
    BY <1>1, <1>6, <2>3 DEF Room
<1>7. ASSUME ~\E c \in Checks : AdmitStep(c)
      PROVE  \A c \in Checks : status'[c] \in Active => status[c] \in Active
  BY <1>0, <1>7 DEF CallerStep, Unnoticed, RemoveStep, SettleStep, Finished, Active
<1>8. CASE \E c \in Checks : CountActive(c)
  BY <1>4, <1>8 DEF CountActive, rows
<1>9. CASE \E c \in Checks : AdmitStep(c)
  BY <1>5, <1>9
<1>10. CASE /\ ~\E c \in Checks : AdmitStep(c)
            /\ ~\E c \in Checks : CountActive(c)
  <2>1. CASE UNCHANGED admission
    BY <1>6, <1>7, <1>10, <2>1
  <2>2. CASE \E c \in Checks : LookUpKey(c) \/ AbandonCreate(c) \/ InsertCheck(c)
    <3>1. \A c \in Checks : admission'[c] = "counted" => admission[c] = "counted"
      BY <1>0, <2>2 DEF LookUpKey, AbandonCreate, InsertCheck
    <3> QED
      BY <1>6, <1>7, <1>10, <3>1
  <2> QED
    BY <1>10, <2>1, <2>2 DEF RequestStep, Create, LeaseExpires, Delete, DeleteRunning,
       DeletePending, ClearForDelete, DeleteOutright, AbandonDelete, LoadForDelete
<1> QED
  BY <1>8, <1>9, <1>10

LEMMA WorkerAdmission == ASSUME NEW w \in Workers, WorkerStep(w) PROVE UNCHANGED admission
BY DEF WorkerStep, Run, LoadCheck, FlushCheck, RunRaises, Settle, SettleRaises, LoadForFail,
       WriteFail, Reclaim, Crash, ClaimCheck

\* The instance has a name of its own for the number of elements.
LEMMA PromiseCounts == \A S : Promise!Cardinality(S) = Cardinality(S)
BY DEF Promise!Cardinality, Cardinality

\* What the abstract specification sees of such a step.
LEMMA CallerRefines ==
    ASSUME TypeOK, Outcome, Room, CallerStep
    PROVE  [Promise!Next]_(Promise!vars)
<1> USE DEF Promise!Next, Promise!vars, Promise!Admit, Promise!SettleAs, Promise!Remove,
            Promise!Outcomes, Promise!Repeated
<1> DEFINE outcome == [c \in Checks |-> IF status[c] \in Active THEN "open" ELSE status[c]]
           reported == [c \in Checks |-> sources[c] # {}]
<1>0. /\ status \in [Checks -> Status \cup {"absent", "gone"}]
      /\ sources \in [Checks -> SUBSET SourceRow]
      /\ terminalEvents \in [Checks -> Seq(Terminal)]
  BY RowTypes
<1>1. CASE Unnoticed
  <2>1. outcome' = outcome
    BY <1>1 DEF Unnoticed, Active
  <2>2. reported' = reported /\ terminalEvents' = terminalEvents
    BY <1>1 DEF Unnoticed
  <2> QED
    BY <2>1, <2>2
<1>2. ASSUME NEW c \in Checks, AdmitStep(c) PROVE Promise!Admit(c)
  <2>1. outcome[c] = "absent" /\ outcome' = [outcome EXCEPT ![c] = "open"]
    BY <1>0, <1>2 DEF AdmitStep, Active
  <2>2. reported' = reported /\ terminalEvents' = terminalEvents
    BY <1>2 DEF AdmitStep
  <2>3. Promise!OpenOf(Owner[c]) = ActiveChecksOf(Owner[c])
    BY <1>0 DEF ActiveChecksOf, Promise!OpenOf, Status, Active, Terminal
  <2>4. Cardinality(ActiveChecksOf(Owner[c])) < MaxActive
    BY <1>2 DEF Room, AdmitStep
  <2>5. Cardinality(Promise!OpenOf(Owner[c])) < MaxActive
    BY <2>3, <2>4
  <2>6. Promise!Cardinality(Promise!OpenOf(Owner[c])) < MaxActive
    BY <2>5, PromiseCounts
  <2>7. ~Promise!Repeated(c)
    BY <1>0, <1>2 DEF AdmitStep, SameKey, RowExists, Status, Active, Terminal
  <2> QED
    BY <2>1, <2>2, <2>6, <2>7
<1>3. ASSUME NEW c \in Checks, RemoveStep(c)
      PROVE  Promise!Remove(c) \/ UNCHANGED <<outcome, reported, terminalEvents>>
  <2>1. /\ status[c] \in Finished \cup {"gone"}
        /\ outcome[c] = status[c]
        /\ outcome' = [outcome EXCEPT ![c] = "gone"]
    BY <1>0, <1>3 DEF RemoveStep, Finished, Active
  <2>2. reported' = [reported EXCEPT ![c] = FALSE]
    BY <1>0, <1>3 DEF RemoveStep
  <2>3. UNCHANGED terminalEvents
    BY <1>3 DEF RemoveStep
  <2>4. CASE status[c] \in Finished
    BY <2>1, <2>2, <2>3, <2>4 DEF Finished
  <2>5. CASE status[c] = "gone"
    <3>1. outcome' = outcome
      BY <2>1, <2>5
    <3>2. sources[c] = {}
      BY <2>5 DEF Outcome, EndedHoldsNothing
    <3>3. reported' = reported
      BY <2>2, <3>2
    <3> QED
      BY <2>3, <3>1, <3>3
  <2> QED
    BY <2>1, <2>4, <2>5
<1>4. ASSUME NEW c \in Checks, NEW o \in Finished, SettleStep(c, o)
      PROVE  Promise!SettleAs(c, o)
  <2>1. outcome[c] = "open" /\ outcome' = [outcome EXCEPT ![c] = o]
    BY <1>0, <1>4 DEF SettleStep, Finished, Active
  <2>2. PICK S : /\ sources' = [sources EXCEPT ![c] = S]
                 /\ S # {} => o \in {"completed", "completed_partial"}
    BY <1>4 DEF SettleStep
  <2>3. reported' = [reported EXCEPT ![c] = S # {}]
    BY <1>0, <2>2
  <2>4. terminalEvents' = [terminalEvents EXCEPT ![c] = Append(terminalEvents[c], o)]
    BY <1>4 DEF SettleStep
  <2> QED
    BY <2>1, <2>2, <2>3, <2>4
<1> QED
  BY <1>1, <1>2, <1>3, <1>4 DEF CallerStep, Finished

CalmInv == Undisturbed /\ Room

LEMMA CalmStep ==
    ASSUME TypeOK, Exclusive, Locks, Outcome, DeletesOfEnded, CalmInv, [Next]_vars
    PROVE  CalmInv' /\ (CallerStep \/ UNCHANGED vars)
<1> USE DEF CalmInv
<1>1. CASE UNCHANGED vars
  <2>1. Undisturbed'
    BY <1>1 DEF vars, Undisturbed
  <2>2. \A c \in Checks : ActiveChecksOf(Owner[c])' = ActiveChecksOf(Owner[c])
    BY <1>1 DEF vars, ActiveChecksOf
  <2>3. Room'
    BY <1>1, <2>2 DEF vars, Room
  <2> QED
    BY <1>1, <2>1, <2>3
<1>2. CASE RequestStep
  BY <1>2, RequestCaller, RoomKept
<1>3. ASSUME NEW w \in Workers, WorkerStep(w) PROVE CalmInv' /\ CallerStep
  <2>1. CallerStep /\ Undisturbed'
    BY <1>3, WorkerCaller
  <2>2. UNCHANGED admission
    BY <1>3, WorkerAdmission
  <2> QED
    BY <2>1, <2>2, RoomKept
<1> QED
  BY <1>1, <1>2, <1>3, NextSteps

LEMMA CalmInvariant == ASSUME ~SlowWorkers PROVE Spec /\ []DeletesOfEnded => []CalmInv
<1>1. Init => CalmInv
  <2> SUFFICES ASSUME Init PROVE CalmInv
    OBVIOUS
  <2>1. Undisturbed
    BY DEF Init, Undisturbed, Idle
  <2>2. {c \in Checks : status[c] # "absent"} = {}
    BY DEF Init
  <2>3. \A c \in Checks : admission[c] # "counted"
    BY DEF Init
  <2> QED
    BY <2>1, <2>2, <2>3, FS_EmptySet DEF CalmInv, Room
<1>2. TypeOK /\ Exclusive /\ Locks /\ Outcome /\ DeletesOfEnded /\ CalmInv /\ [Next]_vars => CalmInv'
  BY CalmStep
<1> QED
  BY <1>1, <1>2, TypeCorrect, ExclusiveInvariant, LocksInvariant, OutcomeInvariant, PTL DEF Spec

\* Where no request deletes a check it found active, and no lease runs out
\* under a live worker, the service implements CheckPromise for any number
\* of checks, keys and workers: the limit of open checks, one settlement,
\* findings and closing event together with it - through failed attempts,
\* retries, reclaims and crashes.
THEOREM CheckKeepsPromise ==
    ASSUME ~SlowWorkers PROVE Spec /\ []DeletesOfEnded => KeepsPromise
<1>1. Init => Promise!Init
  BY DEF Init, Promise!Init, Active
<1>2. /\ TypeOK /\ Exclusive /\ Locks /\ Outcome /\ DeletesOfEnded /\ CalmInv
      /\ [Next]_vars
      => [Promise!Next]_(Promise!vars)
  <2> SUFFICES ASSUME TypeOK, Exclusive, Locks, Outcome, DeletesOfEnded, CalmInv, [Next]_vars
               PROVE  [Promise!Next]_(Promise!vars)
    OBVIOUS
  <2>1. CASE UNCHANGED vars
    BY <2>1 DEF vars, Promise!vars
  <2>2. CASE CallerStep
    BY <2>2, CallerRefines DEF CalmInv
  <2> QED
    BY <2>1, <2>2, CalmStep
<1> QED
  BY <1>1, <1>2, TypeCorrect, ExclusiveInvariant, LocksInvariant, OutcomeInvariant, CalmInvariant, PTL
     DEF Spec, KeepsPromise, Promise!Spec
=============================================================================
