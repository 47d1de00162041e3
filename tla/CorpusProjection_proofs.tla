----------------------- MODULE CorpusProjection_proofs -----------------------
(***************************************************************************)
(* Theorems about CorpusProjection, for every number of versions, workers, *)
(* checks, crashes and deletions; those about the windows of a document's  *)
(* projections are for one plagiarism worker, the number                   *)
(* docker-compose.yml starts.                                              *)
(***************************************************************************)
EXTENDS CorpusProjection, FiniteSetTheorems, TLAPS

\* The second half of a concatenation is read past the end of the first: how a
\* poll's requeued jobs (reclaim_expired) stand behind those already queued.
LEMMA Concatenated ==
  \A s, t \in Seq(Versions) :
    /\ Len(s) \in Nat /\ Len(s \o t) = Len(s) + Len(t)
    /\ \A i \in 1..Len(s) : (s \o t)[i] = s[i]
    /\ \A i \in 1..Len(t) : (s \o t)[Len(s) + i] = t[i]
<1> TAKE s, t \in Seq(Versions)
<1>1. Len(s) \in Nat /\ Len(t) \in Nat /\ Len(s \o t) = Len(s) + Len(t)
  OBVIOUS
<1>2. ASSUME NEW i \in 1..Len(s)
      PROVE  (s \o t)[i] = s[i]
  BY <1>1
<1>3. ASSUME NEW i \in 1..Len(t)
      PROVE  (s \o t)[Len(s) + i] = t[i]
  <2>1. Len(s) + i \in 1..(Len(s) + Len(t)) /\ Len(s) + i > Len(s)
    BY <1>1
  <2>2. (Len(s) + i) - Len(s) = i
    BY <1>1
  <2> QED
    BY <1>1, <2>1, <2>2
<1> QED
  BY <1>1, <1>2, <1>3

\* Facts about types that many steps use.
LEMMA Types ==
    ASSUME TypeOK
    PROVE  /\ Idle.pc = "idle" /\ Idle \in WorkerState
           /\ \A w \in Workers : worker[w] \in WorkerState
           /\ \A w \in Workers : worker[w].pc # "idle" => worker[w].job \in Versions
           /\ \A w \in Workers : worker[w].pc = "idle" => worker[w] = Idle
           /\ \A w \in Workers : worker[w].pc = "activating" =>
                /\ worker[w].moment \in Nat /\ worker[w].text \in BOOLEAN
                /\ worker[w].retired \in SUBSET Versions
           /\ \A w \in Workers : worker[w].pc = "loaded" => worker[w].text \in BOOLEAN
           /\ \A c \in Checks : HasSnapshot(c) => check[c].snapshot \in Nat
           /\ \A v \in Versions : Stored(v) => projection[v] \in Row
<1>1. Idle.pc = "idle" /\ worker \in [Workers -> WorkerState]
  BY DEF Idle, TypeOK
<1>2. \A r \in WorkerState :
        /\ r.pc # "idle" => r.job \in Versions
        /\ r.pc = "idle" => r = Idle
        /\ r.pc = "activating" => /\ r.moment \in Nat /\ r.text \in BOOLEAN
                                  /\ r.retired \in SUBSET Versions
        /\ r.pc = "loaded" => r.text \in BOOLEAN
  BY DEF WorkerState, Idle
<1>3. \A r \in CheckState : r.pc \in {"active", "done"} => r.snapshot \in Nat
  BY DEF CheckState, NoCheck
<1>4. Idle \in WorkerState
  BY DEF WorkerState
<1>5. check \in [Checks -> CheckState]
  BY DEF TypeOK
<1>6. \A c \in Checks : HasSnapshot(c) => check[c].snapshot \in Nat
  BY <1>3, <1>5 DEF HasSnapshot
<1>7. \A v \in Versions : Stored(v) => projection[v] \in Row
  BY DEF TypeOK, Stored
<1> QED
  BY <1>1, <1>2, <1>4, <1>6, <1>7

\* The registration of a build keeps the job columns' types.
LEMMA RegisterTypes ==
    ASSUME TypeOK, NEW v \in Versions, Register(v)
    PROVE  /\ jobStatus' \in [Versions -> JobStatus \cup {"absent"}]
           /\ attempts' \in [Versions -> Nat]
           /\ lease' \in [Versions -> {"none", "live", "expired"}]
           /\ queue' \in Seq(Versions)
<1>1. CASE jobStatus[v] \in {"absent", "failed"}
  <2>1. /\ jobStatus' = [jobStatus EXCEPT ![v] = "pending"]
        /\ attempts' = [attempts EXCEPT ![v] = 0]
        /\ queue' = Append(queue, v) /\ lease' = lease
    BY <1>1 DEF Register
  <2> QED
    BY <2>1 DEF TypeOK, JobStatus
<1>2. CASE jobStatus[v] \notin {"absent", "failed"}
  BY <1>2 DEF Register, TypeOK, jobVars
<1> QED
  BY <1>1, <1>2

LEMMA RequestTypes ==
    ASSUME TypeOK, \/ \E v \in Versions : Publish(v)
                   \/ \E rebuild \in BOOLEAN : Backfill(rebuild)
                   \/ BeginDeletion \/ EndDeletion
    PROVE  TypeOK'
<1>1. CASE \E v \in Versions : Publish(v)
  <2>1. PICK v \in Versions : Publish(v)
    BY <1>1
  <2>2. CASE Register(v)
    BY <2>1, <2>2, RegisterTypes DEF Publish, TypeOK, bounds
  <2>3. CASE UNCHANGED jobVars
    BY <2>1, <2>3 DEF Publish, TypeOK, jobVars, bounds
  <2> QED
    BY <2>1, <2>2, <2>3 DEF Publish
<1>2. CASE \E rebuild \in BOOLEAN : Backfill(rebuild)
  <2>1. current \in Versions /\ Register(current)
    BY <1>2 DEF Backfill, TypeOK
  <2> QED
    BY <1>2, <2>1, RegisterTypes DEF Backfill, TypeOK, bounds
<1>3. CASE BeginDeletion
  BY <1>3 DEF BeginDeletion, TypeOK, jobVars
<1>4. CASE EndDeletion
  <2>1. projection' \in [Versions -> Row \cup {NoRow}]
    BY <1>4 DEF EndDeletion, TypeOK
  <2> QED
    BY <1>4, <2>1 DEF EndDeletion, TypeOK, jobVars, bounds
<1> QED
  BY <1>1, <1>2, <1>3, <1>4

LEMMA WorkerTypes ==
    ASSUME TypeOK, NEW w \in Workers,
           Reclaim(w) \/ ClaimJob(w) \/ Build(w) \/ Crash(w)
    PROVE  TypeOK'
<1>0. /\ Idle \in WorkerState /\ worker \in [Workers -> WorkerState]
      /\ worker[w].pc # "idle" => worker[w].job \in Versions
  BY Types DEF TypeOK
<1>1. CASE Reclaim(w)
  <2>1. PICK order \in [1..Cardinality(Reclaimable) -> Reclaimable] :
          queue' = queue \o order
    BY <1>1 DEF Reclaim
  <2>2. Cardinality(Reclaimable) \in Nat
    <3>1. IsFiniteSet(Reclaimable)
      BY LimitsAssumption, FS_Subset DEF Reclaimable
    <3> QED
      BY <3>1, FS_CardinalityType
  <2>3. order \in Seq(Versions)
    BY <2>1, <2>2 DEF Reclaimable
  <2>4. queue' \in Seq(Versions)
    BY <2>1, <2>3 DEF TypeOK
  <2>5. /\ jobStatus' \in [Versions -> JobStatus \cup {"absent"}]
        /\ lease' \in [Versions -> {"none", "live", "expired"}]
    BY <1>1 DEF Reclaim, TypeOK, JobStatus
  <2> QED
    BY <1>1, <2>4, <2>5 DEF Reclaim, TypeOK, bounds
<1>2. CASE ClaimJob(w)
  <2>1. Head(queue) \in Versions /\ Tail(queue) \in Seq(Versions)
    BY <1>2 DEF ClaimJob, TypeOK
  <2>2. [pc |-> "claimed", job |-> Head(queue)] \in WorkerState
    BY <2>1 DEF WorkerState
  <2> QED
    BY <1>2, <2>1, <2>2 DEF ClaimJob, TypeOK, JobStatus, bounds
<1>3. CASE LoadText(w)
  <2>1. worker[w].job \in Versions
    BY <1>0, <1>3 DEF LoadText
  <2> DEFINE text == worker[w].job = current
  <2>2. text \in BOOLEAN
    OBVIOUS
  <2>3. [pc |-> "loaded", job |-> worker[w].job, text |-> text] \in WorkerState
    <3> HIDE DEF text
    <3> QED
      BY <2>1, <2>2 DEF WorkerState
  <2>4. worker' \in [Workers -> WorkerState]
    BY <1>0, <1>3, <2>3 DEF LoadText
  <2> QED
    BY <1>3, <2>4 DEF LoadText, TypeOK, jobVars, bounds
<1>4. CASE Activate(w)
  <2>1. worker[w].job \in Versions /\ worker[w].text \in BOOLEAN
    BY <1>0, <1>4, Types DEF Activate
  <2>2. Predecessors(worker[w].job) \in SUBSET Versions
    BY DEF Predecessors
  <2>3. [pc |-> "activating", job |-> worker[w].job, text |-> worker[w].text,
         moment |-> clock, retired |-> Predecessors(worker[w].job)] \in WorkerState
    BY <2>1, <2>2 DEF WorkerState, TypeOK
  <2>4. worker' \in [Workers -> WorkerState]
    BY <1>0, <1>4, <2>3 DEF Activate
  <2> QED
    BY <1>4, <2>4 DEF Activate, TypeOK, jobVars, bounds
<1>5. CASE CommitBuild(w)
  <2>1. /\ worker[w].job \in Versions /\ worker[w].moment \in Nat
        /\ worker[w].text \in BOOLEAN
    BY <1>0, <1>5, Types DEF CommitBuild
  <2>2. [from |-> From(w), until |-> None, text |-> worker[w].text] \in Row
    BY <2>1 DEF Row, From
  <2>3. \A u \in Versions : Live(u) =>
          [projection[u] EXCEPT !.until = worker[w].moment] \in Row
    <3>1. \A r \in Row : [r EXCEPT !.until = worker[w].moment] \in Row
      BY <2>1 DEF Row
    <3> QED
      BY <3>1, Types DEF Live
  <2>4. projection' \in [Versions -> Row \cup {NoRow}]
    BY <1>5, <2>2, <2>3 DEF CommitBuild, TypeOK
  <2> QED
    BY <1>0, <1>5, <2>1, <2>4 DEF CommitBuild, TypeOK, JobStatus, bounds
<1>6. CASE BuildRaises(w)
  <2>1. [pc |-> "raised", job |-> worker[w].job] \in WorkerState
    BY <1>0, <1>6 DEF BuildRaises, WorkerState
  <2> QED
    BY <1>0, <1>6, <2>1 DEF BuildRaises, TypeOK, jobVars, bounds
<1>7. CASE FailJob(w)
  BY <1>0, <1>7 DEF FailJob, TypeOK, JobStatus, bounds
<1>8. CASE Crash(w)
  BY <1>0, <1>8 DEF Crash, TypeOK, jobVars
<1> QED
  BY <1>1, <1>2, <1>3, <1>4, <1>5, <1>6, <1>7, <1>8 DEF Build

LEMMA OtherTypes ==
    ASSUME TypeOK, \/ \E v \in Versions : BackoffEnds(v) \/ LeaseExpires(v)
                   \/ Cleanup \/ Tick
                   \/ \E c \in Checks : FindReady(c) \/ Admit(c) \/ Complete(c)
    PROVE  TypeOK'
<1>1. CASE \E v \in Versions : BackoffEnds(v)
  BY <1>1 DEF BackoffEnds, TypeOK, bounds
<1>2. CASE \E v \in Versions : LeaseExpires(v)
  BY <1>2 DEF LeaseExpires, TypeOK, bounds
<1>3. CASE Cleanup
  <2>1. NoCheck \in CheckState
    BY DEF CheckState
  <2>2. check' \in [Checks -> CheckState]
    BY <1>3, <2>1 DEF Cleanup, TypeOK
  <2>3. projection' \in [Versions -> Row \cup {NoRow}]
    BY <1>3 DEF Cleanup, TypeOK
  <2> QED
    BY <1>3, <2>2, <2>3 DEF Cleanup, TypeOK, jobVars, bounds
<1>4. CASE Tick
  BY <1>4 DEF Tick, TypeOK, jobVars, bounds
<1>5. ASSUME NEW c \in Checks, FindReady(c) \/ Admit(c) \/ Complete(c)
      PROVE  TypeOK'
  <2>1. /\ [pc |-> "ready"] \in CheckState
        /\ \A t \in Nat : /\ [pc |-> "active", snapshot |-> t] \in CheckState
                          /\ [pc |-> "done", snapshot |-> t] \in CheckState
    BY DEF CheckState
  <2>2. check[c].pc = "active" => check[c].snapshot \in Nat
    BY Types DEF HasSnapshot
  <2>3. check' \in [Checks -> CheckState]
    BY <1>5, <2>1, <2>2 DEF FindReady, Admit, Complete, TypeOK
  <2> QED
    BY <1>5, <2>3 DEF FindReady, Admit, Complete, TypeOK, jobVars, bounds
<1> QED
  BY <1>1, <1>2, <1>3, <1>4, <1>5

\* Every state of the corpus is of the types TypeOK names: a projection is
\* published with a window that has begun, a job is never without a status.
THEOREM TypeCorrect == Spec => []TypeOK
<1>1. Init => TypeOK
  BY DEF Init, TypeOK, WorkerState, CheckState, JobStatus
<1>2. TypeOK /\ [Next]_vars => TypeOK'
  <2> SUFFICES ASSUME TypeOK, [Next]_vars PROVE TypeOK'
    OBVIOUS
  <2>1. CASE Next
    BY <2>1, RequestTypes, WorkerTypes, OtherTypes DEF Next
  <2>2. CASE UNCHANGED vars
    BY <2>2 DEF vars, TypeOK
  <2> QED
    BY <2>1, <2>2
<1> QED
  BY <1>1, <1>2, PTL DEF Spec
-----------------------------------------------------------------------------
(* Jobs, for any number of workers: a worker's job is marked and leased,   *)
(* and nobody else's; what is queued is pending, once; a job that waits or *)
(* was left behind has attempts to spare; only what was completed is       *)
(* stored.                                                                 *)

Working(v) == \E w \in Workers : WorksOn(w, v)

Exclusive ==
    /\ \A w \in Workers :
         worker[w].pc # "idle" => /\ jobStatus[worker[w].job] = "running"
                                  /\ lease[worker[w].job] = "live"
    /\ \A w, x \in Workers :
         (/\ worker[w].pc # "idle" /\ worker[x].pc # "idle"
          /\ worker[w].job = worker[x].job) => w = x

Queued ==
    /\ \A i \in 1..Len(queue) : jobStatus[queue[i]] = "pending"
    /\ \A i, k \in 1..Len(queue) : queue[i] = queue[k] => i = k

AttemptsToSpare ==
    \A v \in Versions :
        /\ jobStatus[v] = "pending" => attempts[v] < MaxAttempts + crashes
        /\ (jobStatus[v] = "running" /\ ~Working(v))
             => attempts[v] < MaxAttempts + crashes
        /\ attempts[v] <= MaxAttempts + crashes

StoredIsCompleted == \A v \in Versions : Stored(v) => jobStatus[v] = "completed"

JobInv == Exclusive /\ Queued /\ AttemptsToSpare /\ StoredIsCompleted

\* Steps that leave the jobs alone and store nothing.
Aside ==
    /\ UNCHANGED <<jobVars, crashes>>
    /\ \A v \in Versions : Stored(v)' => Stored(v)

\* A worker goes on with its job.
GoesOn(w) ==
    /\ Aside
    /\ worker[w].pc # "idle" /\ worker'[w].pc # "idle"
    /\ worker'[w].job = worker[w].job
    /\ \A x \in Workers : x # w => worker'[x] = worker[x]

LEMMA AsideKeeps ==
    ASSUME TypeOK, JobInv, Aside,
           UNCHANGED worker \/ \E w \in Workers : GoesOn(w)
    PROVE  JobInv'
<1>1. Exclusive' /\ \A v \in Versions : Working(v)' <=> Working(v)
  <2>1. CASE UNCHANGED worker
    BY <2>1 DEF JobInv, Exclusive, Aside, jobVars, Working, WorksOn
  <2>2. CASE \E w \in Workers : GoesOn(w)
    <3>1. PICK w \in Workers : GoesOn(w)
      BY <2>2
    <3>2. \A x \in Workers : /\ worker'[x].pc # "idle" <=> worker[x].pc # "idle"
                             /\ worker[x].pc # "idle" => worker'[x].job = worker[x].job
      BY <3>1 DEF GoesOn
    <3>3. UNCHANGED <<jobStatus, lease>>
      BY DEF Aside, jobVars
    <3> QED
      BY <3>2, <3>3 DEF JobInv, Exclusive, Working, WorksOn
  <2> QED
    BY <2>1, <2>2
<1>2. Queued'
  BY DEF JobInv, Queued, Aside, jobVars
<1>3. AttemptsToSpare'
  BY <1>1 DEF JobInv, AttemptsToSpare, Aside, jobVars
<1>4. StoredIsCompleted'
  BY DEF JobInv, StoredIsCompleted, Aside, jobVars
<1> QED
  BY <1>1, <1>2, <1>3, <1>4 DEF JobInv

\* Appending a pending job that was not queued keeps the queue in order.
LEMMA AppendQueued ==
    ASSUME TypeOK, Queued, NEW v \in Versions,
           \A i \in 1..Len(queue) : queue[i] # v,
           queue' = Append(queue, v), jobStatus'[v] = "pending",
           \A u \in Versions : u # v => jobStatus'[u] = jobStatus[u]
    PROVE  Queued'
<1>1. queue \in Seq(Versions) /\ Len(queue) \in Nat
  BY DEF TypeOK
<1>2. /\ Len(queue') = Len(queue) + 1 /\ queue'[Len(queue) + 1] = v
      /\ \A i \in 1..Len(queue) : queue'[i] = queue[i] /\ queue[i] \in Versions
  BY <1>1
<1>3. \A i \in 1..Len(queue') : i \in 1..Len(queue) \/ i = Len(queue) + 1
  BY <1>1, <1>2
<1>4. \A i \in 1..Len(queue') : jobStatus'[queue'[i]] = "pending"
  BY <1>2, <1>3 DEF Queued
<1>5. \A i, k \in 1..Len(queue') : queue'[i] = queue'[k] => i = k
  BY <1>2, <1>3 DEF Queued
<1> QED
  BY <1>4, <1>5 DEF Queued

LEMMA RegisterKeeps ==
    ASSUME TypeOK, JobInv, NEW v \in Versions, Register(v),
           UNCHANGED <<worker, projection, crashes>>
    PROVE  JobInv'
<1>0. \A w \in Workers : worker[w].pc # "idle" => worker[w].job \in Versions
  BY Types
<1>1. CASE jobStatus[v] \notin {"absent", "failed"}
  <2>1. Aside
    BY <1>1 DEF Register, Aside, Stored, jobVars
  <2> QED
    BY <2>1, AsideKeeps
<1>2. CASE jobStatus[v] \in {"absent", "failed"}
  <2>1. /\ jobStatus' = [jobStatus EXCEPT ![v] = "pending"]
        /\ attempts' = [attempts EXCEPT ![v] = 0]
        /\ queue' = Append(queue, v) /\ lease' = lease
    BY <1>2 DEF Register
  <2>2. \A w \in Workers : worker[w].pc # "idle" => worker[w].job # v
    BY <1>2 DEF JobInv, Exclusive
  <2>3. Exclusive'
    BY <1>0, <2>1, <2>2 DEF JobInv, Exclusive, TypeOK
  <2>4. Queued'
    <3>1. \A i \in 1..Len(queue) : queue[i] # v
      BY <1>2 DEF JobInv, Queued
    <3> QED
      BY <2>1, <3>1, AppendQueued DEF JobInv, TypeOK
  <2>5. AttemptsToSpare'
    <3>1. 0 < MaxAttempts + crashes
      BY LimitsAssumption DEF TypeOK
    <3>2. \A u \in Versions : Working(u)' <=> Working(u)
      BY DEF Working, WorksOn
    <3>3. /\ attempts'[v] = 0 /\ jobStatus'[v] = "pending"
          /\ \A u \in Versions : u # v => /\ attempts'[u] = attempts[u]
                                         /\ jobStatus'[u] = jobStatus[u]
      BY <2>1 DEF TypeOK
    <3>4. MaxAttempts + crashes \in Nat /\ crashes' = crashes
      BY LimitsAssumption DEF TypeOK
    <3>5. \A u \in Versions : u # v =>
            /\ jobStatus'[u] = "pending" => attempts'[u] < MaxAttempts + crashes
            /\ (jobStatus'[u] = "running" /\ ~Working(u))
                 => attempts'[u] < MaxAttempts + crashes
            /\ attempts'[u] <= MaxAttempts + crashes
      BY <3>3 DEF JobInv, AttemptsToSpare
    <3> QED
      BY <3>1, <3>2, <3>3, <3>4, <3>5 DEF AttemptsToSpare
  <2>6. StoredIsCompleted'
    BY <1>2, <2>1 DEF JobInv, StoredIsCompleted, Stored, TypeOK
  <2> QED
    BY <2>3, <2>4, <2>5, <2>6 DEF JobInv
<1> QED
  BY <1>1, <1>2

LEMMA ClaimKeeps ==
    ASSUME TypeOK, JobInv, NEW w \in Workers, ClaimJob(w) PROVE JobInv'
<1>v. PICK v : v = Head(queue)
  OBVIOUS
<1>0. /\ Idle.pc = "idle"
      /\ \A x \in Workers : worker[x].pc # "idle" => worker[x].job \in Versions
  BY Types
<1>1. /\ queue \in Seq(Versions) /\ queue # <<>> /\ worker[w] = Idle
      /\ jobStatus' = [jobStatus EXCEPT ![v] = "running"]
      /\ attempts' = [attempts EXCEPT ![v] = @ + 1]
      /\ lease' = [lease EXCEPT ![v] = "live"] /\ queue' = Tail(queue)
      /\ worker' = [worker EXCEPT ![w] = [pc |-> "claimed", job |-> v]]
      /\ UNCHANGED <<projection, crashes>>
  BY <1>v DEF ClaimJob, TypeOK, bounds
<1>2. /\ v = queue[1] /\ v \in Versions /\ 1 \in 1..Len(queue)
      /\ Len(queue) \in Nat /\ Len(queue') = Len(queue) - 1
      /\ \A i \in 1..Len(queue') : queue'[i] = queue[i + 1] /\ i + 1 \in 1..Len(queue)
      /\ \A i \in 1..Len(queue) : queue[i] \in Versions
  BY <1>v, <1>1
<1>3. /\ jobStatus[v] = "pending"
      /\ \A i \in 1..Len(queue) : i # 1 => queue[i] # v
  BY <1>2 DEF JobInv, Queued
<1>4. \A x \in Workers : worker[x].pc # "idle" => worker[x].job # v
  BY <1>3 DEF JobInv, Exclusive
<1>5. /\ worker'[w].pc = "claimed" /\ worker'[w].job = v
      /\ \A x \in Workers : x # w => worker'[x] = worker[x]
  BY <1>1 DEF TypeOK
<1>6. Exclusive'
  BY <1>0, <1>1, <1>2, <1>4, <1>5 DEF JobInv, Exclusive, TypeOK
<1>7. Queued'
  <2>1. \A i \in 1..Len(queue') : i \in Nat /\ i + 1 # 1 /\ queue'[i] # v
    BY <1>2, <1>3
  <2>2. \A u \in Versions : u # v => jobStatus'[u] = jobStatus[u]
    BY <1>1 DEF TypeOK
  <2>3. \A i \in 1..Len(queue') : jobStatus'[queue'[i]] = "pending"
    BY <1>2, <2>1, <2>2 DEF JobInv, Queued
  <2>4. \A i, k \in 1..Len(queue') : queue'[i] = queue'[k] => i = k
    <3> SUFFICES ASSUME NEW i \in 1..Len(queue'), NEW k \in 1..Len(queue'),
                        queue'[i] = queue'[k]
                 PROVE  i = k
      OBVIOUS
    <3>1. /\ queue[i + 1] = queue[k + 1]
          /\ i + 1 \in 1..Len(queue) /\ k + 1 \in 1..Len(queue)
      BY <1>2
    <3>2. \A a, b \in 1..Len(queue) : queue[a] = queue[b] => a = b
      BY DEF JobInv, Queued
    <3> DEFINE a == i + 1
               b == k + 1
    <3>3. /\ queue[a] = queue[b] /\ a \in 1..Len(queue) /\ b \in 1..Len(queue)
      BY <3>1
    <3> HIDE DEF a, b
    <3>4. a = b
      BY <3>2, <3>3, Zenon
    <3> USE DEF a, b
    <3> QED
      BY <2>1, <3>4
  <2> QED
    BY <2>3, <2>4 DEF Queued
<1>8. AttemptsToSpare'
  <2>1. \A u \in Versions : u # v => Working(u)' <=> Working(u)
    BY <1>0, <1>1, <1>5 DEF Working, WorksOn
  <2>2. Working(v)'
    BY <1>5 DEF Working, WorksOn
  <2>3. attempts'[v] = attempts[v] + 1 /\ attempts[v] < MaxAttempts + crashes
    BY <1>1, <1>2, <1>3 DEF TypeOK, JobInv, AttemptsToSpare
  <2>4. attempts'[v] <= MaxAttempts + crashes
    BY <1>2, <2>3, LimitsAssumption DEF TypeOK
  <2>5. jobStatus'[v] = "running" /\ crashes' = crashes
    BY <1>1, <1>2 DEF TypeOK
  <2>6. \A u \in Versions : u # v =>
          jobStatus'[u] = jobStatus[u] /\ attempts'[u] = attempts[u]
    BY <1>1 DEF TypeOK
  <2> QED
    BY <2>1, <2>2, <2>4, <2>5, <2>6 DEF JobInv, AttemptsToSpare
<1>9. StoredIsCompleted'
  BY <1>1, <1>3 DEF JobInv, StoredIsCompleted, Stored, TypeOK
<1> QED
  BY <1>6, <1>7, <1>8, <1>9 DEF JobInv

\* What the two ways a job is settled have in common.
LEMMA SettleKeeps ==
    ASSUME TypeOK, JobInv, NEW w \in Workers, worker[w].pc # "idle",
           NEW status \in {"completed", "failed", "pending"},
           status = "pending" => attempts[worker[w].job] < MaxAttempts,
           jobStatus' = [jobStatus EXCEPT ![worker[w].job] = status],
           lease' = [lease EXCEPT ![worker[w].job] = "none"],
           worker' = [worker EXCEPT ![w] = Idle],
           UNCHANGED <<attempts, queue, crashes>>,
           \A u \in Versions : Stored(u)' =>
               Stored(u) \/ (u = worker[w].job /\ status = "completed")
    PROVE  JobInv'
<1> DEFINE v == worker[w].job
<1>0. /\ Idle.pc = "idle" /\ v \in Versions
      /\ \A x \in Workers : worker[x].pc # "idle" => worker[x].job \in Versions
  BY Types
<1>1. /\ worker'[w] = Idle
      /\ \A x \in Workers : x # w => worker'[x] = worker[x]
      /\ jobStatus'[v] = status
      /\ \A u \in Versions : u # v => /\ jobStatus'[u] = jobStatus[u]
                                     /\ lease'[u] = lease[u]
  BY <1>0 DEF TypeOK
<1>2. \A x \in Workers : x # w /\ worker[x].pc # "idle" => worker[x].job # v
  BY DEF JobInv, Exclusive
<1>3. jobStatus[v] = "running"
  BY DEF JobInv, Exclusive
<1>4. Exclusive'
  BY <1>0, <1>1, <1>2 DEF JobInv, Exclusive
<1>5. Queued'
  <2>1. \A i \in 1..Len(queue) : queue[i] \in Versions /\ queue[i] # v
    BY <1>3 DEF JobInv, Queued, TypeOK
  <2> QED
    BY <1>1, <2>1 DEF JobInv, Queued
<1>6. AttemptsToSpare'
  <2>1. \A u \in Versions : u # v => Working(u)' <=> Working(u)
    BY <1>0, <1>1 DEF Working, WorksOn
  <2>2. attempts[v] < MaxAttempts => attempts[v] < MaxAttempts + crashes
    BY <1>0, LimitsAssumption DEF TypeOK
  <2> QED
    BY <1>1, <2>1, <2>2 DEF JobInv, AttemptsToSpare
<1>7. StoredIsCompleted'
  BY <1>1, <1>3 DEF JobInv, StoredIsCompleted
<1> QED
  BY <1>4, <1>5, <1>6, <1>7 DEF JobInv

LEMMA CrashKeeps ==
    ASSUME TypeOK, JobInv, NEW w \in Workers, Crash(w) PROVE JobInv'
<1>0. /\ Idle.pc = "idle" /\ worker[w].pc # "idle" /\ worker[w].job \in Versions
  BY Types DEF Crash
<1>1. /\ worker'[w] = Idle
      /\ \A x \in Workers : x # w => worker'[x] = worker[x]
      /\ UNCHANGED <<jobStatus, attempts, lease, queue, projection>>
      /\ crashes' = crashes + 1
  BY DEF Crash, TypeOK, jobVars
<1>2. Exclusive'
  BY <1>0, <1>1 DEF JobInv, Exclusive
<1>3. AttemptsToSpare'
  <2>1. \A v \in Versions : attempts[v] <= MaxAttempts + crashes
    BY DEF JobInv, AttemptsToSpare
  <2>2. \A v \in Versions : /\ attempts[v] < MaxAttempts + (crashes + 1)
                            /\ attempts[v] <= MaxAttempts + (crashes + 1)
    BY <2>1, LimitsAssumption DEF TypeOK
  <2> QED
    BY <1>1, <2>2 DEF AttemptsToSpare
<1> QED
  BY <1>1, <1>2, <1>3 DEF JobInv, Queued, StoredIsCompleted, Stored

\* What is queued again was running, so it was not in the queue.
LEMMA ReclaimKeeps ==
    ASSUME TypeOK, JobInv, NEW w \in Workers, Reclaim(w) PROVE JobInv'
<1>0. \A x \in Workers : worker[x].pc # "idle" => worker[x].job \in Versions
  BY Types
<1>1. /\ jobStatus' = [v \in Versions |-> IF v \in Reclaimable THEN "pending"
                                                              ELSE jobStatus[v]]
      /\ lease' = [v \in Versions |-> IF v \in Reclaimable THEN "none"
                                                          ELSE lease[v]]
      /\ UNCHANGED <<attempts, worker, projection, crashes>>
  BY DEF Reclaim, bounds
<1>2. Reclaimable \subseteq Versions
  BY DEF Reclaimable
<1>3. \A v \in Reclaimable : ~Working(v)
  BY DEF JobInv, Exclusive, Reclaimable, Working, WorksOn
<1>4. Exclusive'
  BY <1>0, <1>1, <1>3 DEF JobInv, Exclusive, Working, WorksOn
<1>5. Queued'
  <2>1. PICK order \in [1..Cardinality(Reclaimable) -> Reclaimable] :
          /\ \A i, k \in DOMAIN order : order[i] = order[k] => i = k
          /\ queue' = queue \o order
    BY DEF Reclaim
  <2> DEFINE n == Cardinality(Reclaimable)
  <2>2. n \in Nat
    <3>1. IsFiniteSet(Reclaimable)
      BY <1>2, LimitsAssumption, FS_Subset
    <3> QED
      BY <3>1, FS_CardinalityType
  <2>3. /\ queue \in Seq(Versions) /\ order \in Seq(Versions) /\ Len(order) = n
        /\ DOMAIN order = 1..n
    <3>1. order \in [1..n -> Versions]
      BY <1>2, <2>1
    <3> HIDE DEF n
    <3>2. DOMAIN order = 1..n
      BY <3>1
    <3>3. order \in Seq(Versions)
      BY <2>2, <3>1
    <3>4. Len(order) = n
      BY <2>2, <3>2, <3>3
    <3> QED
      BY <3>2, <3>3, <3>4 DEF TypeOK
  <2> HIDE DEF n
  <2>4. /\ Len(queue') = Len(queue) + n /\ Len(queue) \in Nat
        /\ \A i \in 1..Len(queue) : queue'[i] = queue[i] /\ queue[i] \in Versions
        /\ \A i \in 1..n : queue'[Len(queue) + i] = order[i]
    <3>1. queue' = queue \o order
      BY <2>1
    <3>2. /\ queue \in Seq(Versions) /\ order \in Seq(Versions) /\ Len(order) = n
      BY <2>3
    <3>3. /\ Len(queue) \in Nat /\ Len(queue \o order) = Len(queue) + Len(order)
          /\ \A i \in 1..Len(queue) : (queue \o order)[i] = queue[i]
          /\ \A i \in 1..Len(order) : (queue \o order)[Len(queue) + i] = order[i]
      BY <3>2, Concatenated, Zenon
    <3>4. \A i \in 1..Len(queue) : queue[i] \in Versions
      BY <3>2
    <3>5. Len(queue') = Len(queue) + n
      BY <3>1, <3>2, <3>3
    <3>6. \A i \in 1..Len(queue) : queue'[i] = queue[i]
      BY <3>1, <3>3
    <3>7. \A i \in 1..n : queue'[Len(queue) + i] = order[i]
      <4>1. \A i \in 1..n : (queue \o order)[Len(queue) + i] = order[i]
        BY <3>2, <3>3
      <4> QED
        BY <3>1, <4>1
    <3> QED
      BY <3>3, <3>4, <3>5, <3>6, <3>7
  <2>5. \A i \in 1..Len(queue') :
          \/ i \in 1..Len(queue)
          \/ i - Len(queue) \in 1..n /\ queue'[i] = order[i - Len(queue)]
    <3> SUFFICES ASSUME NEW i \in 1..Len(queue'), i \notin 1..Len(queue)
                 PROVE  i - Len(queue) \in 1..n /\ queue'[i] = order[i - Len(queue)]
      OBVIOUS
    <3>1. i - Len(queue) \in 1..n
      BY <2>2, <2>4
    <3>2. Len(queue) + (i - Len(queue)) = i
      BY <2>2, <2>4
    <3> QED
      BY <2>4, <3>1, <3>2
  <2>6. \A i \in 1..n : order[i] \in Reclaimable
    BY <2>1 DEF n
  <2>7. \A i \in 1..Len(queue) : queue[i] \notin Reclaimable
    BY DEF JobInv, Queued, Reclaimable
  <2>8. \A i \in 1..Len(queue') : jobStatus'[queue'[i]] = "pending"
    BY <1>1, <1>2, <2>4, <2>5, <2>6 DEF JobInv, Queued
  <2>9. \A i, k \in 1..Len(queue') : queue'[i] = queue'[k] => i = k
    <3> SUFFICES ASSUME NEW i \in 1..Len(queue'), NEW k \in 1..Len(queue'),
                        queue'[i] = queue'[k]
                 PROVE  i = k
      OBVIOUS
    <3>1. CASE i \in 1..Len(queue) /\ k \in 1..Len(queue)
      BY <2>4, <3>1 DEF JobInv, Queued
    <3>2. CASE i \notin 1..Len(queue) /\ k \notin 1..Len(queue)
      <4>1. i - Len(queue) = k - Len(queue)
        BY <2>1, <2>3, <2>5, <3>2
      <4> QED
        BY <2>2, <2>4, <4>1
    <3>3. CASE i \in 1..Len(queue) /\ k \notin 1..Len(queue)
      BY <2>4, <2>5, <2>6, <2>7, <3>3
    <3>4. CASE i \notin 1..Len(queue) /\ k \in 1..Len(queue)
      BY <2>4, <2>5, <2>6, <2>7, <3>4
    <3> QED
      BY <3>1, <3>2, <3>3, <3>4
  <2> QED
    BY <2>8, <2>9 DEF Queued
<1>6. AttemptsToSpare'
  <2>1. \A v \in Versions : Working(v)' <=> Working(v)
    BY <1>1 DEF Working, WorksOn
  <2>2. \A v \in Reclaimable : attempts[v] < MaxAttempts + crashes
    BY <1>2, <1>3 DEF JobInv, AttemptsToSpare, Reclaimable
  <2> QED
    BY <1>1, <2>1, <2>2 DEF JobInv, AttemptsToSpare
<1>7. StoredIsCompleted'
  BY <1>1 DEF JobInv, StoredIsCompleted, Stored, Reclaimable
<1> QED
  BY <1>4, <1>5, <1>6, <1>7 DEF JobInv

LEMMA BackoffKeeps ==
    ASSUME TypeOK, JobInv, NEW v \in Versions, BackoffEnds(v) PROVE JobInv'
<1>1. /\ jobStatus[v] = "pending" /\ queue' = Append(queue, v)
      /\ \A i \in 1..Len(queue) : queue[i] # v
  BY DEF BackoffEnds, Enqueued, TypeOK
<1>2. UNCHANGED <<jobStatus, attempts, lease, worker, projection, crashes>>
  BY DEF BackoffEnds, bounds
<1>3. Queued'
  BY <1>1, <1>2, AppendQueued DEF JobInv
<1>4. \A u \in Versions : Working(u)' <=> Working(u)
  BY <1>2 DEF Working, WorksOn
<1>5. AttemptsToSpare'
  BY <1>2, <1>4 DEF JobInv, AttemptsToSpare
<1> QED
  BY <1>2, <1>3, <1>5 DEF JobInv, Exclusive, StoredIsCompleted, Stored

LEMMA LeaseKeeps ==
    ASSUME TypeOK, JobInv, NEW v \in Versions, LeaseExpires(v) PROVE JobInv'
<1>1. /\ \A w \in Workers : worker[w].pc # "idle" =>
           worker[w].job # v /\ worker[w].job \in Versions
      /\ lease' = [lease EXCEPT ![v] = "expired"]
  BY Types DEF LeaseExpires, WorksOn
<1>2. UNCHANGED <<jobStatus, attempts, queue, worker, projection, crashes>>
  BY DEF LeaseExpires, bounds
<1>3. Exclusive'
  BY <1>1, <1>2 DEF JobInv, Exclusive, TypeOK
<1>4. \A u \in Versions : Working(u)' <=> Working(u)
  BY <1>2 DEF Working, WorksOn
<1>5. AttemptsToSpare'
  BY <1>2, <1>4 DEF JobInv, AttemptsToSpare
<1> QED
  BY <1>2, <1>3, <1>5 DEF JobInv, Queued, StoredIsCompleted, Stored

LEMMA CommitKeeps ==
    ASSUME TypeOK, JobInv, NEW w \in Workers, CommitBuild(w) PROVE JobInv'
<1>1. \A u \in Versions : Stored(u)' => Stored(u) \/ u = worker[w].job
  BY DEF CommitBuild, Stored, Live
<1>2. /\ worker[w].pc # "idle"
      /\ jobStatus' = [jobStatus EXCEPT ![worker[w].job] = "completed"]
      /\ lease' = [lease EXCEPT ![worker[w].job] = "none"]
      /\ worker' = [worker EXCEPT ![w] = Idle]
      /\ UNCHANGED <<attempts, queue, crashes>>
  BY DEF CommitBuild, bounds
<1> QED
  BY <1>1, <1>2, SettleKeeps

LEMMA FailKeeps ==
    ASSUME TypeOK, JobInv, NEW w \in Workers, FailJob(w) PROVE JobInv'
<1>1. PICK status : status = IF AttemptsLeft(worker[w].job) THEN "pending" ELSE "failed"
  OBVIOUS
<1>2. /\ status \in {"completed", "failed", "pending"}
      /\ status = "pending" => attempts[worker[w].job] < MaxAttempts
  BY <1>1 DEF AttemptsLeft
<1>3. /\ worker[w].pc # "idle"
      /\ jobStatus' = [jobStatus EXCEPT ![worker[w].job] = status]
      /\ lease' = [lease EXCEPT ![worker[w].job] = "none"]
      /\ worker' = [worker EXCEPT ![w] = Idle]
      /\ UNCHANGED <<attempts, queue, crashes, projection>>
  BY <1>1 DEF FailJob, bounds
<1>4. \A u \in Versions : Stored(u)' =>
        Stored(u) \/ (u = worker[w].job /\ status = "completed")
  BY <1>3 DEF Stored
<1> QED
  BY <1>2, <1>3, <1>4, SettleKeeps

\* Steps of a build that leave the jobs alone.
LEMMA BuildGoesOn ==
    ASSUME TypeOK, JobInv, NEW w \in Workers,
           LoadText(w) \/ Activate(w) \/ BuildRaises(w)
    PROVE  JobInv'
<1>1. worker[w].pc # "idle" /\ UNCHANGED <<jobVars, crashes, projection>>
  BY DEF LoadText, Activate, BuildRaises, bounds
<1>2. /\ worker'[w].pc # "idle" /\ worker'[w].job = worker[w].job
      /\ \A x \in Workers : x # w => worker'[x] = worker[x]
  BY DEF LoadText, Activate, BuildRaises, TypeOK
<1>3. GoesOn(w)
  BY <1>1, <1>2 DEF GoesOn, Aside, Stored
<1> QED
  BY <1>3, AsideKeeps DEF GoesOn

\* Steps that neither touch a job nor a worker.
LEMMA OthersKeep ==
    ASSUME TypeOK, JobInv,
           \/ BeginDeletion \/ EndDeletion \/ Cleanup \/ Tick
           \/ \E c \in Checks : FindReady(c) \/ Admit(c) \/ Complete(c)
    PROVE  JobInv'
<1>1. UNCHANGED <<jobVars, worker, crashes>>
  BY DEF BeginDeletion, EndDeletion, Cleanup, Tick, FindReady, Admit,
         Complete, bounds
<1>2. \A v \in Versions : Stored(v)' => Stored(v)
  BY DEF BeginDeletion, EndDeletion, Cleanup, Tick, FindReady, Admit,
         Complete, Stored
<1> QED
  BY <1>1, <1>2, AsideKeeps DEF Aside

LEMMA JobStep == TypeOK /\ JobInv /\ [Next]_vars => JobInv'
<1> SUFFICES ASSUME TypeOK, JobInv, [Next]_vars PROVE JobInv'
  OBVIOUS
<1>1. CASE \E v \in Versions : Publish(v)
  <2>1. PICK v \in Versions : Publish(v)
    BY <1>1
  <2>2. UNCHANGED <<worker, projection, crashes>>
    BY <2>1 DEF Publish, bounds
  <2>3. CASE Register(v)
    BY <2>2, <2>3, RegisterKeeps
  <2>4. CASE UNCHANGED jobVars
    BY <2>2, <2>4, AsideKeeps DEF Aside, Stored
  <2> QED
    BY <2>1, <2>3, <2>4 DEF Publish
<1>2. CASE \E rebuild \in BOOLEAN : Backfill(rebuild)
  <2>1. /\ current \in Versions /\ Register(current)
        /\ UNCHANGED <<worker, projection, crashes>>
    BY <1>2 DEF Backfill, TypeOK, bounds
  <2> QED
    BY <2>1, RegisterKeeps
<1>3. CASE \E v \in Versions : BackoffEnds(v) \/ LeaseExpires(v)
  BY <1>3, BackoffKeeps, LeaseKeeps
<1>4. CASE \/ BeginDeletion \/ EndDeletion \/ Cleanup \/ Tick
           \/ \E c \in Checks : FindReady(c) \/ Admit(c) \/ Complete(c)
  BY <1>4, OthersKeep
<1>5. CASE \E w \in Workers : Reclaim(w) \/ ClaimJob(w) \/ Crash(w)
  BY <1>5, ReclaimKeeps, ClaimKeeps, CrashKeeps
<1>6. CASE \E w \in Workers : Build(w)
  BY <1>6, BuildGoesOn, CommitKeeps, FailKeeps DEF Build
<1>7. CASE UNCHANGED vars
  BY <1>7, AsideKeeps DEF vars, Aside, jobVars, Stored
<1> QED
  BY <1>1, <1>2, <1>3, <1>4, <1>5, <1>6, <1>7 DEF Next

\* However many workers there are, what is known of the jobs holds.
LEMMA JobsInvariant == Spec => []JobInv
<1>1. Init => JobInv
  <2> SUFFICES ASSUME Init PROVE JobInv
    OBVIOUS
  <2>1. /\ \A w \in Workers : worker[w].pc = "idle"
        /\ \A v \in Versions : jobStatus[v] = "absent" /\ attempts[v] = 0 /\ ~Stored(v)
        /\ queue = <<>> /\ crashes = 0
    BY DEF Init, Idle, Stored
  <2>2. Exclusive /\ Queued /\ StoredIsCompleted
    BY <2>1 DEF Exclusive, Queued, StoredIsCompleted
  <2>3. AttemptsToSpare
    BY <2>1, LimitsAssumption DEF AttemptsToSpare
  <2> QED
    BY <2>2, <2>3 DEF JobInv
<1> QED
  BY <1>1, TypeCorrect, JobStep, PTL DEF Spec

\* finish_corpus_job and reclaim_expired_corpus_jobs: with any number of
\* workers and versions, a job is claimed at most max_attempts times, plus
\* once for each crash.
THEOREM AttemptsBound == Spec => []AttemptsAreBounded
<1>1. JobInv => AttemptsAreBounded
  BY DEF JobInv, AttemptsToSpare, AttemptsAreBounded
<1> QED
  BY <1>1, JobsInvariant, PTL

-----------------------------------------------------------------------------
(* With one worker the windows of a document's projections are disjoint    *)
(* and a check's snapshot resolves.  Any number of versions and checks,    *)
(* any clock, any mixture of failures, crashes and cleanups.               *)

OneWorkerAssumption == \A w, x \in Workers : w = x

\* A window has begun, and ends after it began.
Begun ==
    \A v \in Versions : Stored(v) =>
        /\ projection[v].from <= clock
        /\ projection[v].until # None =>
             /\ projection[v].from <= projection[v].until
             /\ projection[v].until <= clock

Before(u, v) ==
    projection[u].until # None /\ projection[u].until <= projection[v].from

Ordered ==
    \A u, v \in Versions :
        (u # v /\ Stored(u) /\ Stored(v)) => Before(u, v) \/ Before(v, u)

\* What activate_projection read is still so at its commit.
Current(w) ==
    worker[w].pc = "activating" =>
        /\ worker[w].moment <= clock
        /\ \A v \in Versions : Stored(v) =>
             /\ projection[v].from <= worker[w].moment
             /\ projection[v].until # None => projection[v].until <= worker[w].moment
        /\ \A v \in Versions : (Live(v) /\ v # worker[w].job)
                                 => v \in worker[w].retired

WindowInv == Begun /\ Ordered /\ \A w \in Workers : Current(w)

Resolves(t) ==
    \E v \in Versions : /\ Stored(v) /\ projection[v].from <= t
                        /\ Live(v) \/ projection[v].until > t

\* Until the document is deleted a check that was admitted resolves.
SnapshotInv ==
    deletions = 0 =>
        /\ deletion = None
        /\ \A c \in Checks : check[c].pc = "ready" => \E v \in Versions : Live(v)
        /\ \A c \in Checks : HasSnapshot(c) =>
             check[c].snapshot <= clock /\ Resolves(check[c].snapshot)

LEMMA RowTypes ==
    ASSUME TypeOK, NEW v \in Versions, Stored(v)
    PROVE  /\ projection[v].from \in Nat
           /\ projection[v].until # None => projection[v].until \in Nat
           /\ clock \in Nat /\ None \notin Nat
BY Types, LimitsAssumption DEF Row, TypeOK

\* Rows may go, time may pass and a build may end without storing anything.
LEMMA ShrinkingKeeps ==
    ASSUME TypeOK, WindowInv, clock' \in Nat, clock <= clock',
           \A v \in Versions : Stored(v)' => Stored(v) /\ projection'[v] = projection[v],
           \A w \in Workers : worker'[w].pc = "activating" => worker'[w] = worker[w]
    PROVE  WindowInv'
<1>1. Begun'
  <2> SUFFICES ASSUME NEW v \in Versions, Stored(v)'
               PROVE  /\ projection'[v].from <= clock'
                      /\ projection'[v].until # None =>
                           /\ projection'[v].from <= projection'[v].until
                           /\ projection'[v].until <= clock'
    BY DEF Begun
  <2>1. /\ Stored(v) /\ projection'[v] = projection[v]
        /\ projection[v].from <= clock
        /\ projection[v].until # None =>
             /\ projection[v].from <= projection[v].until
             /\ projection[v].until <= clock
    BY DEF WindowInv, Begun
  <2> QED
    BY <2>1, RowTypes
<1>2. Ordered'
  BY DEF WindowInv, Ordered, Before
<1>3. ASSUME NEW w \in Workers PROVE Current(w)'
  <2> SUFFICES ASSUME worker'[w].pc = "activating" PROVE Current(w)'
    BY DEF Current
  <2>1. /\ worker'[w] = worker[w] /\ worker[w].pc = "activating"
        /\ worker[w].moment \in Nat
    BY Types
  <2>2. worker[w].moment <= clock /\ clock \in Nat
    BY <2>1 DEF WindowInv, Current, TypeOK
  <2>3. worker[w].moment <= clock'
    BY <2>1, <2>2
  <2>4. \A v \in Versions : Live(v)' => Live(v)
    BY DEF Live
  <2> QED
    BY <2>1, <2>3, <2>4 DEF WindowInv, Current
<1> QED
  BY <1>1, <1>2, <1>3 DEF WindowInv

LEMMA ActivateWindows ==
    ASSUME TypeOK, WindowInv, NEW w \in Workers, Activate(w), OneWorkerAssumption
    PROVE  WindowInv'
<1>1. UNCHANGED <<projection, clock>>
  BY DEF Activate
<1>2. worker'[w] = [pc |-> "activating", job |-> worker[w].job, text |-> worker[w].text,
                    moment |-> clock, retired |-> Predecessors(worker[w].job)]
  BY DEF Activate, TypeOK
<1>3. clock <= clock
  BY DEF TypeOK
<1>4. Current(w)'
  BY <1>1, <1>2, <1>3 DEF Current, WindowInv, Begun, Predecessors, Stored, Live
<1> QED
  BY <1>1, <1>4 DEF WindowInv, Begun, Ordered, Before, Stored, OneWorkerAssumption

\* The rows after the commit of a build.
LEMMA Committed ==
    ASSUME TypeOK, WindowInv, JobInv, NEW w \in Workers, CommitBuild(w)
    PROVE  /\ worker[w].job \in Versions /\ ~Stored(worker[w].job)
           /\ projection'[worker[w].job] # NoRow
           /\ projection'[worker[w].job].from = worker[w].moment
           /\ projection'[worker[w].job].until = None
           /\ worker[w].moment \in Nat /\ worker[w].moment <= clock
           /\ \A u \in Versions : u # worker[w].job =>
                /\ Stored(u)' <=> Stored(u)
                /\ Stored(u) => /\ projection'[u].from = projection[u].from
                                /\ projection[u].from <= worker[w].moment
                                /\ projection'[u].until =
                                     IF projection[u].until = None
                                       THEN worker[w].moment
                                       ELSE projection[u].until
                                /\ projection'[u].until <= worker[w].moment
<1>1. /\ worker[w].pc = "activating" /\ worker[w].job \in Versions
      /\ worker[w].moment \in Nat /\ worker[w].text \in BOOLEAN
  BY Types DEF CommitBuild
<1>2. ~Stored(worker[w].job)
  BY <1>1 DEF JobInv, Exclusive, StoredIsCompleted
<1>3. projection'[worker[w].job]
        = [from |-> worker[w].moment, until |-> None, text |-> worker[w].text]
  BY <1>1 DEF CommitBuild, From
<1>4. /\ projection'[worker[w].job] # NoRow
      /\ projection'[worker[w].job].from = worker[w].moment
      /\ projection'[worker[w].job].until = None
  <2>1. worker[w].moment # None
    BY <1>1, LimitsAssumption
  <2> QED
    BY <1>3, <2>1 DEF NoRow
<1>5. worker[w].moment <= clock
  BY <1>1 DEF WindowInv, Current
<1>6. ASSUME NEW u \in Versions, u # worker[w].job
      PROVE  /\ Stored(u)' <=> Stored(u)
             /\ Stored(u) => /\ projection'[u].from = projection[u].from
                             /\ projection[u].from <= worker[w].moment
                             /\ projection'[u].until =
                                  IF projection[u].until = None
                                    THEN worker[w].moment
                                    ELSE projection[u].until
                             /\ projection'[u].until <= worker[w].moment
  <2>1. CASE Live(u)
    <3>1. u \in worker[w].retired /\ projection[u] \in Row
      BY <1>1, <1>6, <2>1, Types DEF WindowInv, Current, Live
    <3>2. projection'[u] = [projection[u] EXCEPT !.until = worker[w].moment]
      BY <1>6, <2>1, <3>1 DEF CommitBuild
    <3>3. /\ projection'[u].from = projection[u].from
          /\ projection'[u].until = worker[w].moment
      BY <3>1, <3>2 DEF Row
    <3>4. projection[u].from \in Nat /\ None \notin Nat
      BY <2>1, RowTypes DEF Live
    <3>5. Stored(u)' /\ projection[u].from <= worker[w].moment
      BY <1>1, <2>1, <3>3, <3>4 DEF Stored, NoRow, WindowInv, Current, Live
    <3> QED
      BY <1>1, <2>1, <3>3, <3>5 DEF Live
  <2>2. CASE ~Live(u)
    <3>1. projection'[u] = projection[u]
      BY <1>6, <2>2 DEF CommitBuild
    <3>2. Stored(u) => projection[u].until # None
      BY <2>2 DEF Live
    <3> QED
      BY <1>1, <3>1, <3>2 DEF Stored, WindowInv, Current
  <2> QED
    BY <2>1, <2>2
<1> QED
  BY <1>1, <1>2, <1>4, <1>5, <1>6

LEMMA CommitWindows ==
    ASSUME TypeOK, WindowInv, JobInv, NEW w \in Workers, CommitBuild(w),
           OneWorkerAssumption
    PROVE  WindowInv'
<1> DEFINE v == worker[w].job
           m == worker[w].moment
<1>1. clock' = clock /\ clock \in Nat /\ None \notin Nat
  BY LimitsAssumption DEF CommitBuild, TypeOK
<1>2. /\ v \in Versions /\ m \in Nat /\ m <= clock
      /\ projection'[v].from = m /\ projection'[v].until = None
  BY Committed
<1>3. \A u \in Versions : (u # v /\ Stored(u)') =>
        /\ projection'[u].from \in Nat /\ projection'[u].from <= m
        /\ projection'[u].until \in Nat /\ projection'[u].until <= m
        /\ projection'[u].from <= projection'[u].until
  <2> SUFFICES ASSUME NEW u \in Versions, u # v, Stored(u)'
               PROVE  /\ projection'[u].from \in Nat /\ projection'[u].from <= m
                      /\ projection'[u].until \in Nat /\ projection'[u].until <= m
                      /\ projection'[u].from <= projection'[u].until
    OBVIOUS
  <2>1. /\ Stored(u) /\ projection'[u].from = projection[u].from
        /\ projection[u].from <= m /\ projection'[u].until <= m
        /\ projection'[u].until = IF projection[u].until = None THEN m
                                                               ELSE projection[u].until
    BY Committed
  <2>2. /\ projection[u].from \in Nat
        /\ projection[u].until # None =>
             projection[u].until \in Nat /\ projection[u].from <= projection[u].until
    BY <2>1, RowTypes DEF WindowInv, Begun
  <2> QED
    BY <1>2, <2>1, <2>2
<1>4. Begun'
  <2> SUFFICES ASSUME NEW u \in Versions, Stored(u)'
               PROVE  /\ projection'[u].from <= clock'
                      /\ projection'[u].until # None =>
                           /\ projection'[u].from <= projection'[u].until
                           /\ projection'[u].until <= clock'
    BY DEF Begun
  <2>1. CASE u = v
    BY <1>1, <1>2, <2>1
  <2>2. CASE u # v
    <3>1. /\ projection'[u].from \in Nat /\ projection'[u].from <= m
          /\ projection'[u].until \in Nat /\ projection'[u].until <= m
          /\ projection'[u].from <= projection'[u].until
      BY <1>3, <2>2
    <3> QED
      BY <1>1, <1>2, <3>1
  <2> QED
    BY <2>1, <2>2
<1>5. Ordered'
  <2> SUFFICES ASSUME NEW u \in Versions, NEW x \in Versions, u # x,
                      Stored(u)', Stored(x)'
               PROVE  Before(u, x)' \/ Before(x, u)'
    BY DEF Ordered
  <2>1. CASE u = v
    BY <1>1, <1>2, <1>3, <2>1 DEF Before
  <2>2. CASE x = v
    BY <1>1, <1>2, <1>3, <2>2 DEF Before
  <2>3. CASE u # v /\ x # v
    <3>1. Stored(u) /\ Stored(x)
      BY <2>3, Committed
    <3>2. /\ projection'[u].from = projection[u].from
          /\ projection'[x].from = projection[x].from
          /\ projection[u].until # None => projection'[u].until = projection[u].until
          /\ projection[x].until # None => projection'[x].until = projection[x].until
      BY <2>3, <3>1, Committed
    <3>3. Before(u, x) \/ Before(x, u)
      BY <3>1 DEF WindowInv, Ordered
    <3> QED
      BY <3>2, <3>3 DEF Before
  <2> QED
    BY <2>1, <2>2, <2>3
<1>6. \A x \in Workers : Current(x)'
  <2>1. worker'[w] = Idle /\ Idle.pc = "idle"
    BY Types DEF CommitBuild, TypeOK
  <2> QED
    BY <2>1 DEF OneWorkerAssumption, Current
<1> QED
  BY <1>4, <1>5, <1>6 DEF WindowInv

\* Steps that change no row, read no clock for one and end no build wrongly.
LEMMA OtherWindows ==
    ASSUME TypeOK, WindowInv,
           \/ \E v \in Versions : Publish(v) \/ BackoffEnds(v) \/ LeaseExpires(v)
           \/ \E rebuild \in BOOLEAN : Backfill(rebuild)
           \/ BeginDeletion \/ EndDeletion \/ Cleanup \/ Tick
           \/ \E w \in Workers : Reclaim(w) \/ ClaimJob(w) \/ LoadText(w)
                                  \/ BuildRaises(w) \/ FailJob(w) \/ Crash(w)
           \/ \E c \in Checks : FindReady(c) \/ Admit(c) \/ Complete(c)
           \/ UNCHANGED vars
    PROVE  WindowInv'
<1>0. /\ Idle.pc = "idle" /\ worker \in [Workers -> WorkerState]
      /\ clock \in Nat /\ clock <= clock
  BY DEF Idle, TypeOK
<1>1. clock' \in Nat /\ clock <= clock'
  BY <1>0 DEF Publish, BackoffEnds, LeaseExpires, Backfill, BeginDeletion,
       EndDeletion, Cleanup, Tick, Reclaim, ClaimJob, LoadText, BuildRaises,
       FailJob, Crash, FindReady, Admit, Complete, vars
<1>2. \A v \in Versions : Stored(v)' => Stored(v) /\ projection'[v] = projection[v]
  BY DEF Publish, BackoffEnds, LeaseExpires, Backfill, BeginDeletion,
       EndDeletion, Cleanup, Tick, Reclaim, ClaimJob, LoadText, BuildRaises,
       FailJob, Crash, FindReady, Admit, Complete, vars, Stored
<1>3. \A x \in Workers : worker'[x].pc = "activating" => worker'[x] = worker[x]
  <2>1. CASE UNCHANGED worker
    BY <2>1
  <2>2. ASSUME NEW w \in Workers,
               ClaimJob(w) \/ LoadText(w) \/ BuildRaises(w) \/ FailJob(w) \/ Crash(w)
        PROVE  /\ worker'[w].pc # "activating"
               /\ \A x \in Workers : x # w => worker'[x] = worker[x]
    BY <1>0, <2>2 DEF ClaimJob, LoadText, BuildRaises, FailJob, Crash
  <2> QED
    BY <2>1, <2>2 DEF Publish, BackoffEnds, LeaseExpires, Backfill, BeginDeletion,
       EndDeletion, Cleanup, Tick, Reclaim, FindReady, Admit, Complete, vars
<1> QED
  BY <1>1, <1>2, <1>3, ShrinkingKeeps

LEMMA WindowStep ==
    OneWorkerAssumption /\ TypeOK /\ JobInv /\ WindowInv /\ [Next]_vars => WindowInv'
<1> SUFFICES ASSUME OneWorkerAssumption, TypeOK, JobInv, WindowInv, [Next]_vars
             PROVE  WindowInv'
  OBVIOUS
<1> QED
  BY OtherWindows, ActivateWindows, CommitWindows DEF Next, Build

LEMMA WindowsInvariant ==
    ASSUME OneWorkerAssumption PROVE Spec => []WindowInv
<1>1. Init => WindowInv
  BY DEF Init, WindowInv, Begun, Ordered, Current, Stored, Live, Idle
<1>2. TypeOK /\ JobInv /\ WindowInv /\ [Next]_vars => WindowInv'
  BY WindowStep
<1> QED
  BY <1>1, <1>2, TypeCorrect, JobsInvariant, PTL DEF Spec

\* activate_projection: one plagiarism worker, however many versions it builds
\* in whatever order, leaves no instant that resolves to two projections.
THEOREM WindowsDisjoint ==
    ASSUME OneWorkerAssumption PROVE Spec => []WindowsAreDisjoint
<1>1. TypeOK /\ WindowInv => WindowsAreDisjoint
  <2> SUFFICES ASSUME TypeOK, WindowInv, NEW t \in 0..clock,
                      NEW u \in ActiveAt(t), NEW v \in ActiveAt(t), u # v
               PROVE  FALSE
    BY DEF WindowsAreDisjoint
  <2>1. /\ u \in Versions /\ Stored(u) /\ projection[u].from <= t
        /\ v \in Versions /\ Stored(v) /\ projection[v].from <= t
        /\ projection[u].until # None => projection[u].until > t
        /\ projection[v].until # None => projection[v].until > t
    BY DEF ActiveAt, Live
  <2>2. Before(u, v) \/ Before(v, u)
    BY <2>1 DEF WindowInv, Ordered
  <2>3. t \in Nat
    BY DEF TypeOK
  <2> QED
    BY <2>1, <2>2, <2>3, RowTypes DEF Before
<1> QED
  BY <1>1, TypeCorrect, WindowsInvariant, PTL
-----------------------------------------------------------------------------
(* A check that was admitted keeps its corpus.                             *)

LEMMA AdmitSnapshots ==
    ASSUME TypeOK, WindowInv, SnapshotInv, NEW c \in Checks,
           FindReady(c) \/ Admit(c) \/ Complete(c)
    PROVE  SnapshotInv'
<1> SUFFICES ASSUME deletions = 0 PROVE SnapshotInv'
  BY DEF FindReady, Admit, Complete, bounds, SnapshotInv
<1>1. /\ UNCHANGED <<projection, clock, deletion, deletions>>
      /\ \A d \in Checks : d # c => check'[d] = check[d]
  BY DEF FindReady, Admit, Complete, bounds, TypeOK
<1>2. /\ deletion = None
      /\ \A d \in Checks : check[d].pc = "ready" => \E v \in Versions : Live(v)
      /\ \A d \in Checks : HasSnapshot(d) =>
           check[d].snapshot <= clock /\ Resolves(check[d].snapshot)
  BY DEF SnapshotInv
<1>3. /\ check'[c].pc = "ready" => \E v \in Versions : Live(v)
      /\ HasSnapshot(c)' =>
           check'[c].snapshot <= clock /\ Resolves(check'[c].snapshot)
  <2>1. CASE FindReady(c)
    BY <2>1 DEF FindReady, HasSnapshot, TypeOK
  <2>2. CASE Admit(c)
    <3>1. check'[c] = [pc |-> "active", snapshot |-> clock]
      BY <2>2 DEF Admit, TypeOK
    <3>2. Resolves(clock) /\ clock <= clock
      BY <1>2, <2>2 DEF Admit, Resolves, WindowInv, Begun, Live, TypeOK
    <3> QED
      BY <3>1, <3>2
  <2>3. CASE Complete(c)
    BY <1>2, <2>3 DEF Complete, HasSnapshot, TypeOK
  <2> QED
    BY <2>1, <2>2, <2>3
<1>4. \A d \in Checks :
        /\ check'[d].pc = "ready" => \E v \in Versions : Live(v)
        /\ HasSnapshot(d)' =>
             check'[d].snapshot <= clock /\ Resolves(check'[d].snapshot)
  BY <1>1, <1>2, <1>3 DEF HasSnapshot
<1> QED
  BY <1>1, <1>2, <1>4 DEF SnapshotInv, Resolves, Live, Stored, HasSnapshot

LEMMA CommitSnapshots ==
    ASSUME TypeOK, WindowInv, JobInv, SnapshotInv, NEW w \in Workers, CommitBuild(w)
    PROVE  SnapshotInv'
<1> DEFINE v == worker[w].job
           m == worker[w].moment
<1>1. UNCHANGED <<check, clock, deletion, deletions>>
  BY DEF CommitBuild, bounds
<1>2. /\ v \in Versions /\ ~Stored(v) /\ m \in Nat /\ m <= clock
      /\ projection'[v] # NoRow /\ projection'[v].from = m
      /\ projection'[v].until = None
  BY Committed
<1>3. \E x \in Versions : Live(x)'
  BY <1>2 DEF Live, Stored
<1>4. ASSUME NEW t \in Nat, Resolves(t) PROVE Resolves(t)'
  <2>1. CASE m <= t
    BY <1>2, <2>1 DEF Resolves, Live, Stored
  <2>2. CASE ~(m <= t)
    <3>1. PICK u \in Versions : /\ Stored(u) /\ projection[u].from <= t
                                /\ Live(u) \/ projection[u].until > t
      BY <1>4 DEF Resolves
    <3>2. u # v
      BY <1>2, <3>1
    <3>3. /\ Stored(u)' /\ projection'[u].from = projection[u].from
          /\ projection'[u].until = IF projection[u].until = None THEN m
                                      ELSE projection[u].until
      BY <3>1, <3>2, Committed
    <3>4. projection'[u].until > t
      BY <1>2, <2>2, <3>1, <3>3 DEF Live
    <3> QED
      BY <3>1, <3>3, <3>4 DEF Resolves
  <2> QED
    BY <2>1, <2>2
<1>5. \A c \in Checks : HasSnapshot(c) => check[c].snapshot \in Nat
  BY Types
<1> QED
  BY <1>1, <1>3, <1>4, <1>5 DEF SnapshotInv, HasSnapshot

\* What cleanup removes no check that is kept asks for.
LEMMA CleanupSnapshots ==
    ASSUME TypeOK, WindowInv, SnapshotInv, Cleanup PROVE SnapshotInv'
<1> SUFFICES ASSUME deletions = 0 PROVE SnapshotInv'
  BY DEF Cleanup, bounds, SnapshotInv
<1>1. /\ UNCHANGED <<clock, deletion, deletions>> /\ deletion = None
      /\ \A c \in Checks : check'[c] = IF Outdated(c) THEN NoCheck ELSE check[c]
      /\ \A v \in Versions : projection'[v] = IF Removable(v) THEN NoRow
                                                             ELSE projection[v]
  BY DEF Cleanup, bounds, SnapshotInv
<1>2. \A v \in Versions : Live(v) => Live(v)'
  BY <1>1 DEF Removable, Live, Stored
<1>3. ASSUME NEW c \in Checks, check'[c].pc = "ready"
      PROVE  \E v \in Versions : Live(v)'
  <2>1. check'[c] = check[c]
    BY <1>1, <1>3 DEF NoCheck
  <2> QED
    BY <1>2, <1>3, <2>1 DEF SnapshotInv
<1>4. ASSUME NEW c \in Checks, HasSnapshot(c)'
      PROVE  check'[c].snapshot <= clock' /\ Resolves(check[c].snapshot)'
             /\ check'[c] = check[c]
  <2>1. ~Outdated(c) /\ check'[c] = check[c] /\ HasSnapshot(c)
    BY <1>1, <1>4 DEF NoCheck, HasSnapshot
  <2>2. check[c].snapshot <= clock /\ Resolves(check[c].snapshot)
        /\ check[c].snapshot \in Nat
    BY <2>1, Types DEF SnapshotInv
  <2>3. PICK v \in Versions : /\ Stored(v) /\ projection[v].from <= check[c].snapshot
                              /\ Live(v) \/ projection[v].until > check[c].snapshot
    BY <2>2 DEF Resolves
  <2>4. ~Removable(v)
    <3>1. CASE Live(v)
      BY <3>1 DEF Removable
    <3>2. CASE ~Live(v)
      <4>1. /\ projection[v].until \in Nat /\ clock \in Nat /\ Retention \in Nat
            /\ projection[v].until > check[c].snapshot
        BY <2>3, <3>2, RowTypes, LimitsAssumption DEF Live
      <4>2. CASE check[c].pc = "active"
        <5>1. ~(projection[v].until < check[c].snapshot)
          BY <2>2, <4>1
        <5> QED
          BY <4>2, <5>1 DEF Removable
      <4>3. CASE check[c].pc = "done"
        <5>1. ~(check[c].snapshot + Retention < clock)
          BY <2>1, <4>3 DEF Outdated
        <5>2. ~(projection[v].until + Retention < clock)
          BY <2>2, <4>1, <5>1
        <5> QED
          BY <5>2 DEF Removable
      <4> QED
        BY <2>1, <4>2, <4>3 DEF HasSnapshot
    <3> QED
      BY <3>1, <3>2
  <2>5. projection'[v] = projection[v]
    BY <1>1, <2>4
  <2> QED
    BY <1>1, <2>1, <2>2, <2>3, <2>5 DEF Resolves, Live, Stored
<1> QED
  BY <1>1, <1>3, <1>4 DEF SnapshotInv

LEMMA OtherSnapshots ==
    ASSUME TypeOK, SnapshotInv,
           \/ \E v \in Versions : Publish(v) \/ BackoffEnds(v) \/ LeaseExpires(v)
           \/ \E rebuild \in BOOLEAN : Backfill(rebuild)
           \/ BeginDeletion \/ EndDeletion \/ Tick
           \/ \E w \in Workers : Reclaim(w) \/ ClaimJob(w) \/ LoadText(w) \/ Activate(w)
                                  \/ BuildRaises(w) \/ FailJob(w) \/ Crash(w)
           \/ UNCHANGED vars
    PROVE  SnapshotInv'
<1> SUFFICES ASSUME deletions' = 0 PROVE SnapshotInv'
  BY DEF SnapshotInv
<1>1. deletions = 0 /\ ~BeginDeletion
  BY DEF Publish, BackoffEnds, LeaseExpires, Backfill, BeginDeletion,
       EndDeletion, Tick, Reclaim, ClaimJob, LoadText, Activate, BuildRaises,
       FailJob, Crash, vars, bounds, TypeOK
<1>2. deletion = None /\ ~EndDeletion
  BY <1>1 DEF SnapshotInv, EndDeletion
<1>3. UNCHANGED <<projection, check, deletion>> /\ clock <= clock' /\ clock' \in Nat
  BY <1>1, <1>2 DEF Publish, BackoffEnds, LeaseExpires, Backfill, Tick, Reclaim,
       ClaimJob, LoadText, Activate, BuildRaises, FailJob, Crash, vars, TypeOK
<1>4. \A c \in Checks : HasSnapshot(c) => check[c].snapshot <= clock'
  <2>1. \A c \in Checks : HasSnapshot(c) =>
          check[c].snapshot \in Nat /\ check[c].snapshot <= clock
    BY <1>1, Types DEF SnapshotInv
  <2> QED
    BY <1>3, <2>1 DEF TypeOK
<1> QED
  BY <1>1, <1>2, <1>3, <1>4 DEF SnapshotInv, HasSnapshot, Resolves, Live, Stored

\* run_check and cleanup_expired: with one plagiarism worker a check of a
\* document that is not deleted finds the corpus of its snapshot in every
\* attempt and for as long as its report is kept.
THEOREM SnapshotsResolve ==
    ASSUME OneWorkerAssumption PROVE Spec => []SnapshotResolves
<1>1. Init => SnapshotInv
  BY DEF Init, SnapshotInv, HasSnapshot, NoCheck
<1>2. TypeOK /\ JobInv /\ WindowInv /\ SnapshotInv /\ [Next]_vars => SnapshotInv'
  BY AdmitSnapshots, CommitSnapshots, CleanupSnapshots, OtherSnapshots DEF Next, Build
<1>3. SnapshotInv => SnapshotResolves
  BY DEF SnapshotInv, SnapshotResolves, Resolves, ActiveAt
<1> QED
  BY <1>1, <1>2, <1>3, TypeCorrect, JobsInvariant, WindowsInvariant, PTL DEF Spec
=============================================================================
