------------------------- MODULE EventStream_proofs -------------------------
(***************************************************************************)
(* That the stream of a check loses, repeats and reorders nothing, proved  *)
(* for any number of workers, pages and events: first what the order of    *)
(* the ids gives, then whose events become visible when, then the pages.   *)
(***************************************************************************)
EXTENDS EventStream, OrderedIds_proofs, SequenceTheorems

-----------------------------------------------------------------------------
(* The order of the ids.                                                   *)

\* InOrder lists every id once, the n-th one at its place.
LEMMA Ordered ==
    ASSUME NEW ids \in SUBSET Nat, IsFiniteSet(ids)
    PROVE  /\ InOrder(ids) \in Seq(ids)
           /\ Len(InOrder(ids)) = Cardinality(ids)
           /\ \A n \in 1 .. Cardinality(ids) :
                 /\ InOrder(ids)[n] \in ids
                 /\ Cardinality(UpTo(ids, InOrder(ids)[n])) = n
           /\ \A i \in ids : InOrder(ids)[Cardinality(UpTo(ids, i))] = i
<1>1. Cardinality(ids) \in Nat
  BY PlacesOfIds
<1>2. InOrder(ids) = [n \in 1 .. Cardinality(ids) |->
                        CHOOSE i \in ids : Cardinality(UpTo(ids, i)) = n]
  BY DEF InOrder, UpTo
<1>3. \A n \in 1 .. Cardinality(ids) :
         /\ InOrder(ids)[n] \in ids
         /\ Cardinality(UpTo(ids, InOrder(ids)[n])) = n
  BY <1>2, PlacesOfIds
<1>4. InOrder(ids) \in [1 .. Cardinality(ids) -> ids]
  BY <1>2, <1>3
<1>5. \A i \in ids : InOrder(ids)[Cardinality(UpTo(ids, i))] = i
  <2> SUFFICES ASSUME NEW i \in ids
               PROVE  InOrder(ids)[Cardinality(UpTo(ids, i))] = i
    OBVIOUS
  <2> DEFINE j == InOrder(ids)[Cardinality(UpTo(ids, i))]
  <2>1. j \in ids /\ Cardinality(UpTo(ids, j)) = Cardinality(UpTo(ids, i))
    BY <1>3, PlacesOfIds
  <2>2. \A k \in ids : Cardinality(UpTo(ids, k)) = Cardinality(UpTo(ids, i)) => k = i
    BY PlacesOfIds
  <2> HIDE DEF j
  <2>3. j = i
    BY <2>1, <2>2
  <2> QED
    BY <2>3 DEF j
<1> QED
  BY <1>1, <1>3, <1>4, <1>5

\* Ids that are all higher than those listed do not move any of these.
LEMMA HigherIdsAppend ==
    ASSUME NEW more \in SUBSET Nat, IsFiniteSet(more), NEW ids \in SUBSET more,
           \A i \in ids, j \in more \ ids : i < j
    PROVE  /\ IsFiniteSet(ids)
           /\ Cardinality(ids) <= Cardinality(more)
           /\ \A n \in 1 .. Cardinality(ids) : InOrder(more)[n] = InOrder(ids)[n]
<1>1. /\ IsFiniteSet(ids) /\ ids \in SUBSET Nat
      /\ Cardinality(ids) <= Cardinality(more)
  BY FS_Subset
<1>2. ASSUME NEW n \in 1 .. Cardinality(ids) PROVE InOrder(more)[n] = InOrder(ids)[n]
  <2> DEFINE i == InOrder(ids)[n]
  <2>1. i \in ids /\ Cardinality(UpTo(ids, i)) = n
    BY <1>1, Ordered
  <2> HIDE DEF i
  <2>2. UpTo(more, i) = UpTo(ids, i)
    <3>1. \A j \in more : j <= i => j \in ids
      BY <1>1, <2>1
    <3> QED
      BY <3>1 DEF UpTo
  <2>3. InOrder(more)[Cardinality(UpTo(more, i))] = i
    BY <2>1, Ordered
  <2> QED
    BY <2>1, <2>2, <2>3 DEF i
<1> QED
  BY <1>1, <1>2

\* The last of the first n ids, which is what a reader of n events keeps.
Reached(ids, n) == IF n = 0 THEN 0 ELSE InOrder(ids)[n]

LEMMA ReachedIsNat ==
    ASSUME NEW ids \in SUBSET Nat, IsFiniteSet(ids), NEW n \in 0 .. Cardinality(ids)
    PROVE  Reached(ids, n) \in Nat
<1>1. Cardinality(ids) \in Nat
  BY PlacesOfIds
<1>2. n # 0 => n \in 1 .. Cardinality(ids)
  BY <1>1
<1>3. n # 0 => InOrder(ids)[n] \in ids
  BY <1>2, Ordered
<1> QED
  BY <1>3 DEF Reached

\* An id is passed exactly if it is one of these n.
LEMMA PassedIds ==
    ASSUME NEW ids \in SUBSET (Nat \ {0}), IsFiniteSet(ids),
           NEW n \in 0 .. Cardinality(ids)
    PROVE  /\ \A i \in ids : i <= Reached(ids, n) <=> Cardinality(UpTo(ids, i)) <= n
           /\ UpTo(ids, Reached(ids, n)) = {InOrder(ids)[k] : k \in 1 .. n}
<1>0. ids \in SUBSET Nat /\ Cardinality(ids) \in Nat /\ n \in Nat /\ ids \subseteq Nat
  BY PlacesOfIds
<1>1. ASSUME NEW i \in ids
      PROVE  i <= Reached(ids, n) <=> Cardinality(UpTo(ids, i)) <= n
  <2>1. Cardinality(UpTo(ids, i)) \in 1 .. Cardinality(ids)
    BY <1>0, PlacesOfIds
  <2>2. CASE n = 0
    BY <2>1, <2>2 DEF Reached
  <2>3. CASE n # 0
    <3> DEFINE r == InOrder(ids)[n]
    <3>1. r \in ids /\ Cardinality(UpTo(ids, r)) = n
      BY <1>0, <2>3, Ordered
    <3> HIDE DEF r
    <3>2. /\ i < r => Cardinality(UpTo(ids, i)) < n
          /\ r < i => n < Cardinality(UpTo(ids, i))
      BY <1>0, <3>1, PlacesOfIds
    <3>3. i \in Nat /\ r \in Nat
      BY <3>1
    <3>4. i <= r <=> Cardinality(UpTo(ids, i)) <= n
      BY <1>0, <2>1, <3>1, <3>2, <3>3
    <3> QED
      BY <2>3, <3>4 DEF Reached, r
  <2> QED
    BY <2>2, <2>3
<1>2. ASSUME NEW i \in ids, Cardinality(UpTo(ids, i)) <= n
      PROVE  \E k \in 1 .. n : i = InOrder(ids)[k]
  <2>1. Cardinality(UpTo(ids, i)) \in 1 .. n
    BY <1>0, <1>2, PlacesOfIds
  <2>2. InOrder(ids)[Cardinality(UpTo(ids, i))] = i
    BY <1>0, Ordered
  <2> QED
    BY <2>1, <2>2
<1>3. ASSUME NEW k \in 1 .. n
      PROVE  InOrder(ids)[k] \in ids /\ Cardinality(UpTo(ids, InOrder(ids)[k])) <= n
  BY <1>0, Ordered
<1>4. UpTo(ids, Reached(ids, n)) = {i \in ids : Cardinality(UpTo(ids, i)) <= n}
  BY <1>1 DEF UpTo
<1>5. {i \in ids : Cardinality(UpTo(ids, i)) <= n} = {InOrder(ids)[k] : k \in 1 .. n}
  BY <1>2, <1>3
<1> QED
  BY <1>1, <1>4, <1>5

\* What comes strictly after them are the others, in the same order.
LEMMA RemainingIds ==
    ASSUME NEW ids \in SUBSET (Nat \ {0}), IsFiniteSet(ids),
           NEW n \in 0 .. Cardinality(ids)
    PROVE  LET rest == {i \in ids : i > Reached(ids, n)} IN
           /\ IsFiniteSet(rest) /\ rest \in SUBSET Nat
           /\ Cardinality(rest) = Cardinality(ids) - n
           /\ \A k \in 1 .. Cardinality(rest) : InOrder(rest)[k] = InOrder(ids)[n + k]
<1> DEFINE after == Reached(ids, n)
           rest == {i \in ids : i > after}
           read == UpTo(ids, after)
<1>0. /\ ids \in SUBSET Nat /\ Cardinality(ids) \in Nat /\ n \in Nat /\ ids \subseteq Nat
      /\ after \in Nat
  BY PlacesOfIds, ReachedIsNat
<1>1. /\ IsFiniteSet(read) /\ IsFiniteSet(rest) /\ rest \in SUBSET Nat /\ read \in SUBSET ids
      /\ rest \in SUBSET ids
  BY <1>0, FS_Subset DEF UpTo
<1>2. Cardinality(read) = n
  <2>1. CASE n = 0
    <3>1. \A i \in ids : ~(i <= after)
      BY <1>0, <2>1 DEF Reached
    <3>2. read = {}
      BY <3>1 DEF UpTo
    <3> QED
      BY <2>1, <3>2, FS_EmptySet
  <2>2. CASE n # 0
    <3>1. n \in 1 .. Cardinality(ids)
      BY <1>0, <2>2
    <3>2. Cardinality(UpTo(ids, InOrder(ids)[n])) = n
      BY <1>0, <3>1, Ordered
    <3> QED
      BY <2>2, <3>2 DEF Reached
  <2> QED
    BY <2>1, <2>2
<1> HIDE DEF after
<1>3. ids = read \cup rest /\ read \cap rest = {}
  <2>1. \A i \in ids : i <= after <=> ~(i > after)
    BY <1>0
  <2> QED
    BY <2>1 DEF UpTo
<1> HIDE DEF rest, read
<1>4. Cardinality(rest) = Cardinality(ids) - n
  <2>1. Cardinality(ids) = Cardinality(read) + Cardinality(rest) - Cardinality({})
    BY <1>1, <1>3, FS_Union
  <2>2. Cardinality({}) = 0 /\ Cardinality(rest) \in Nat
    BY <1>1, FS_EmptySet, FS_CardinalityType
  <2> QED
    BY <1>0, <1>2, <2>1, <2>2
<1>5. ASSUME NEW k \in 1 .. Cardinality(rest) PROVE InOrder(rest)[k] = InOrder(ids)[n + k]
  <2> DEFINE i == InOrder(rest)[k]
  <2>1. i \in rest /\ Cardinality(UpTo(rest, i)) = k
    BY <1>1, Ordered
  <2> HIDE DEF i
  <2>2. i \in ids /\ i > after
    BY <2>1 DEF rest
  <2>3. UpTo(ids, i) = read \cup UpTo(rest, i) /\ read \cap UpTo(rest, i) = {}
    <3>1. \A j \in ids : j <= after => j <= i
      BY <1>0, <2>2
    <3> QED
      BY <1>3, <3>1 DEF UpTo, read
  <2>4. IsFiniteSet(UpTo(rest, i))
    BY <1>1, FS_Subset DEF UpTo
  <2>5. Cardinality(UpTo(ids, i)) = Cardinality(read) + Cardinality(UpTo(rest, i)) - Cardinality({})
    BY <1>1, <2>3, <2>4, FS_Union
  <2>6. Cardinality(UpTo(ids, i)) = n + k
    BY <1>0, <1>2, <2>1, <2>5, FS_EmptySet
  <2>7. InOrder(ids)[Cardinality(UpTo(ids, i))] = i
    BY <1>0, <2>2, Ordered
  <2> QED
    BY <2>6, <2>7 DEF i
<1> QED
  BY <1>1, <1>4, <1>5 DEF rest, after

-----------------------------------------------------------------------------
(* The event table.                                                        *)

\* Committing and rolling back change the state of rows, not their order.
LEMMA EndedRun ==
    ASSUME NEW events \in Seq(Event), NEW w \in Workers
    PROVE  /\ Commit(events, w) \in Seq(Event) /\ RollBack(events, w) \in Seq(Event)
           /\ Len(Commit(events, w)) = Len(events)
           /\ Len(RollBack(events, w)) = Len(events)
           /\ \A i \in 1 .. Len(events) :
                 /\ Commit(events, w)[i].by =
                       IF events[i].by = w THEN "table" ELSE events[i].by
                 /\ RollBack(events, w)[i].by =
                       IF events[i].by = w THEN "nobody" ELSE events[i].by
<1>1. /\ Len(events) \in Nat /\ DOMAIN events = 1 .. Len(events)
      /\ \A i \in 1 .. Len(events) : events[i] \in Event
  OBVIOUS
<1>2. ASSUME NEW i \in 1 .. Len(events), events[i].by = w
      PROVE  /\ [events[i] EXCEPT !.by = "table"] \in Event
             /\ [events[i] EXCEPT !.by = "table"].by = "table"
  <2>1. events[i] \in [stage : Stage, by : Workers \cup {"table"}]
    BY <1>1, <1>2, StreamAssumption DEF Event, Undone
  <2>2. /\ [events[i] EXCEPT !.by = "table"] \in [stage : Stage, by : Workers \cup {"table"}]
        /\ [events[i] EXCEPT !.by = "table"].by = "table"
    BY <2>1
  <2> QED
    BY <2>2 DEF Event
<1>3. Undone \in Event /\ Undone.by = "nobody"
  BY DEF Event, Undone
<1>4. /\ Commit(events, w) \in [1 .. Len(events) -> Event]
      /\ RollBack(events, w) \in [1 .. Len(events) -> Event]
  BY <1>1, <1>2, <1>3 DEF Commit, RollBack
<1>5. \A i \in 1 .. Len(events) :
         /\ Commit(events, w)[i].by = IF events[i].by = w THEN "table" ELSE events[i].by
         /\ RollBack(events, w)[i].by = IF events[i].by = w THEN "nobody" ELSE events[i].by
  BY <1>1, <1>2, <1>3 DEF Commit, RollBack
<1> QED
  BY <1>1, <1>4, <1>5

LEMMA InsertType ==
    ASSUME log \in Seq(Event), NEW stage \in Stage, NEW by \in Workers \cup {"table"}
    PROVE  /\ Inserted(stage, by) \in Seq(Event)
           /\ Len(Inserted(stage, by)) = Len(log) + 1
           /\ \A i \in 1 .. Len(log) : Inserted(stage, by)[i] = log[i]
           /\ Inserted(stage, by)[Len(log) + 1].by = by
<1>1. [stage |-> stage, by |-> by] \in Event
  BY DEF Event
<1> QED
  BY <1>1 DEF Inserted

LEMMA CommittedIsFinite ==
    ASSUME log \in Seq(Event)
    PROVE  /\ Committed \in SUBSET (Nat \ {0}) /\ Committed \in SUBSET Nat
           /\ Committed \in SUBSET (1 .. Len(log)) /\ IsFiniteSet(Committed)
           /\ Cardinality(Committed) \in Nat
<1>1. Committed \in SUBSET (1 .. Len(log)) /\ Len(log) \in Nat
  BY DEF Committed
<1>2. IsFiniteSet(1 .. Len(log))
  BY <1>1, FS_Interval
<1>3. IsFiniteSet(Committed)
  BY <1>1, <1>2, FS_Subset
<1>4. Committed \in SUBSET Nat /\ Committed \in SUBSET (Nat \ {0})
  BY <1>1
<1> QED
  BY <1>1, <1>3, <1>4, FS_CardinalityType

-----------------------------------------------------------------------------
(* Types.                                                                  *)

LEMMA WorkerTypes ==
    ASSUME TypeOK, NEW w \in Workers, Claim(w) \/ Work(w) \/ Die(w)
    PROVE  TypeOK'
<1> USE DEF TypeOK, RunState, Idle, Active, TerminalStages
<1>0. /\ log \in Seq(Event) /\ run \in [Workers -> RunState] /\ attempts \in Nat
      /\ status \in Active \cup TerminalStages \cup {"gone"}
  OBVIOUS
<1>1. RollBack(log, w) \in Seq(Event)
  BY EndedRun
<1>2. ASSUME Raised(w) PROVE run' \in [Workers -> RunState] /\ log' \in Seq(Event)
  BY <1>1, <1>2 DEF Raised
<1>3. CASE Claim(w)
  BY <1>3 DEF Claim
<1>4. CASE Start(w)
  <2>1. CASE RowExists
    <3>1. Inserted("started", w) \in Seq(Event)
      BY InsertType DEF Stage
    <3>2. status \in Active \cup TerminalStages
      BY <2>1 DEF RowExists
    <3>3. run' \in [Workers -> RunState] /\ log' \in Seq(Event)
      BY <1>4, <2>1, <3>1, <3>2 DEF Start
    <3> QED
      BY <1>4, <3>3 DEF Start, checkVars
  <2>2. CASE ~RowExists
    BY <1>2, <1>4, <2>2 DEF Start, checkVars
  <2> QED
    BY <2>1, <2>2
<1>5. CASE Chunk(w)
  <2>1. CASE RowExists
    <3>1. Inserted("chunking", w) \in Seq(Event)
      BY InsertType DEF Stage
    <3>2. run' \in [Workers -> RunState] /\ log' \in Seq(Event)
      BY <1>5, <2>1, <3>1, SMTT(20) DEF Chunk
    <3> QED
      BY <1>5, <3>2 DEF Chunk, checkVars
  <2>2. CASE ~RowExists
    BY <1>2, <1>5, <2>2 DEF Chunk, checkVars
  <2> QED
    BY <2>1, <2>2
<1>6. CASE Persist(w)
  <2>1. Inserted("retrieving", w) \in Seq(Event)
    BY InsertType DEF Stage
  <2>2. [stage |-> "persisting", by |-> w] \in Event
    BY DEF Event, Stage
  <2>3. log' \in Seq(Event)
    BY <1>6, <2>1, <2>2 DEF Persist
  <2>4. run' \in [Workers -> RunState]
    BY <1>6, SMTT(20) DEF Persist
  <2> QED
    BY <1>6, <2>3, <2>4 DEF Persist, checkVars
<1>7. CASE Settle(w)
  <2>1. PICK target \in SettleTargets :
           IF MayEnd(run[w].seen, target)
             THEN /\ status' = target
                  /\ log' = SettleEvents(w, target)
                  /\ run' = [run EXCEPT ![w] = Idle]
             ELSE Raised(w) /\ UNCHANGED status
    BY <1>7 DEF Settle
  <2>2. target \in TerminalStages
    BY DEF SettleTargets
  <2>3. Inserted(target, w) \in Seq(Event)
    BY <2>2, InsertType DEF Stage
  <2>4. SettleEvents(w, target) \in Seq(Event)
    BY <2>3, EndedRun DEF SettleEvents
  <2> QED
    BY <1>2, <1>7, <2>1, <2>2, <2>4 DEF Settle
<1>8. CASE RunRaises(w)
  BY <1>2, <1>8 DEF RunRaises, checkVars
<1>9. CASE Fail(w)
  <2>1. Published("failed") \in Seq(Event)
    BY InsertType DEF Stage, Published
  <2>2. FailStatus \in {"pending", "failed"}
    BY DEF FailStatus
  <2> QED
    BY <1>9, <2>1, <2>2 DEF Fail
<1>10. CASE Die(w)
  BY <1>1, <1>10 DEF Die, checkVars
<1> QED
  BY <1>3, <1>4, <1>5, <1>6, <1>7, <1>8, <1>9, <1>10 DEF Work

LEMMA RequestTypes == ASSUME TypeOK, Reclaim \/ ReadForDelete \/ Delete PROVE TypeOK'
<1> USE DEF TypeOK, Active, TerminalStages
<1>1. CASE Reclaim
  BY <1>1 DEF Reclaim
<1>2. CASE ReadForDelete
  BY <1>2 DEF ReadForDelete, RowExists, checkVars
<1>3. CASE Delete
  <2>1. Published("cancelled") \in Seq(Event)
    BY InsertType DEF Stage, Published
  <2> QED
    BY <1>3, <2>1 DEF Delete, RowExists
<1> QED
  BY <1>1, <1>2, <1>3

\* A page is sent a beginning of what was read, and something if it is not
\* empty.
LEMMA SentIsPrefix ==
    ASSUME NEW ids \in Seq(Nat)
    PROVE  \E m \in 0 .. Len(ids) : /\ UpToTerminal(ids) = SubSeq(ids, 1, m)
                                    /\ ids # <<>> => m > 0
<1> DEFINE ends == {i \in DOMAIN ids : IsTerminal(ids[i])}
<1>1. Len(ids) \in Nat /\ DOMAIN ids = 1 .. Len(ids)
  OBVIOUS
<1>2. CASE ends = {}
  <2>1. UpToTerminal(ids) = SubSeq(ids, 1, Len(ids))
    BY <1>2, SubSeqFull DEF UpToTerminal
  <2>2. Len(ids) \in 0 .. Len(ids) /\ (ids # <<>> => Len(ids) > 0)
    BY <1>1, EmptySeq
  <2> WITNESS Len(ids) \in 0 .. Len(ids)
  <2> QED
    BY <2>1, <2>2
<1>3. CASE ends # {}
  <2>1. ends \subseteq Nat
    BY <1>1
  <2>2. PICK least \in ends : \A i \in ends : <<i, least>> \notin OpToRel(<, Nat)
    BY <1>3, <2>1, NatLessThanWellFounded, WFMin
  <2>3. \A i \in ends : ~(i < least)
    BY <2>1, <2>2 DEF OpToRel
  <2>4. \A j \in 1 .. least - 1 : ~IsTerminal(ids[j])
    BY <1>1, <2>3
  <2> DEFINE First(i) == IsTerminal(ids[i]) /\ \A j \in 1 .. i - 1 : ~IsTerminal(ids[j])
             first == CHOOSE i \in DOMAIN ids : First(i)
  <2>5. first \in DOMAIN ids
    <3>1. \E i \in DOMAIN ids : First(i)
      BY <2>4
    <3> HIDE DEF First
    <3> QED
      BY <3>1
  <2>6. UpToTerminal(ids) = SubSeq(ids, 1, first)
    BY <1>3 DEF UpToTerminal
  <2> HIDE DEF first, First
  <2>7. first \in 0 .. Len(ids) /\ first > 0
    BY <1>1, <2>5
  <2> QED
    BY <2>6, <2>7
<1> QED
  BY <1>2, <1>3

\* The first of a list.
LEMMA AtMostIsPrefix ==
    ASSUME NEW n \in Nat \ {0}, NEW ids \in Seq(Nat)
    PROVE  \E m \in 0 .. Len(ids) : AtMost(n, ids) = SubSeq(ids, 1, m)
BY DEF AtMost

LEMMA PrefixOfIds ==
    ASSUME NEW ids \in Seq(Nat), NEW m \in 0 .. Len(ids)
    PROVE  /\ SubSeq(ids, 1, m) \in Seq(Nat) /\ Len(SubSeq(ids, 1, m)) = m
           /\ \A k \in 1 .. m : SubSeq(ids, 1, m)[k] = ids[k]
OBVIOUS

LEMMA ReplayType == ASSUME log \in Seq(Event), NEW after PROVE Replay(after) \in Seq(Nat)
<1> DEFINE ids == {i \in Committed : i > after}
<1>1. ids \in SUBSET Committed
  OBVIOUS
<1>2. ids \in SUBSET Nat /\ IsFiniteSet(ids)
  BY <1>1, CommittedIsFinite, FS_Subset
<1>3. InOrder(ids) \in Seq(ids)
  BY <1>2, Ordered
<1>4. InOrder(ids) \in Seq(Nat)
  BY <1>2, <1>3, SeqMonotonic
<1> HIDE DEF ids
<1>5. AtMost(Limit, InOrder(ids)) \in Seq(Nat)
  <2> DEFINE all == InOrder(ids)
  <2> HIDE DEF all
  <2>1. all \in Seq(Nat)
    BY <1>4 DEF all
  <2>2. PICK m \in 0 .. Len(all) : AtMost(Limit, all) = SubSeq(all, 1, m)
    BY <2>1, AtMostIsPrefix, StreamAssumption
  <2>3. AtMost(Limit, all) \in Seq(Nat)
    BY <2>1, <2>2, PrefixOfIds
  <2> QED
    BY <2>3 DEF all
<1> QED
  BY <1>5 DEF Replay, ids

LEMMA PageTypes ==
    ASSUME TypeOK, NEW r \in Pages,
           Load(r) \/ Connect(r) \/ Poll(r) \/ Deliver(r) \/ Break(r) \/ Fallback(r)
    PROVE  TypeOK'
<1> USE DEF PageState, Away
<1>0. page \in [Pages -> PageState] /\ log \in Seq(Event) /\ breaks \in Nat
  BY DEF TypeOK
<1>1. /\ UNCHANGED <<checkVars, log, run, request>>
      /\ breaks' \in Nat
  BY <1>0 DEF Load, Connect, Poll, Deliver, Break, Fallback
<1>2. ASSUME NEW q \in PageState, page' = [page EXCEPT ![r] = q] PROVE TypeOK'
  <2>1. page' \in [Pages -> PageState]
    BY <1>0, <1>2
  <2> HIDE DEF PageState, Away
  <2> QED
    BY <1>1, <2>1 DEF TypeOK, checkVars
<1>3. CASE Load(r)
  <2>1. <<>> \in Seq(Nat)
    OBVIOUS
  <2>2. [at |-> "waiting", got |-> <<>>, last |-> 0] \in PageState
    BY <2>1
  <2> QED
    BY <1>2, <1>3, <2>2 DEF Load
<1>4. CASE Connect(r)
  <2>1. page[r] \in [at : {"waiting"}, got : Seq(Nat), last : Nat]
    BY <1>0, <1>4 DEF Connect
  <2>2. <<>> \in Seq(Nat)
    OBVIOUS
  <2>3. [at |-> "streaming", got |-> page[r].got, last |-> page[r].last,
         cursor |-> page[r].last, frames |-> <<>>] \in PageState
    BY <2>1, <2>2
  <2> QED
    BY <1>0, <1>2, <1>4, <2>3 DEF Connect
<1>5. CASE page[r].at = "streaming"
  <2>1. page[r] \in [at : {"streaming"}, got : Seq(Nat), last : Nat, cursor : Nat,
                     frames : Seq(Nat)]
    BY <1>0, <1>5
  <2>2. CASE Break(r)
    <3>1. [at |-> "waiting", got |-> page[r].got, last |-> page[r].last] \in PageState
      BY <2>1
    <3> QED
      BY <1>0, <1>2, <2>2, <3>1 DEF Break
  <2>3. CASE Poll(r)
    <3> DEFINE new == UpToTerminal(Replay(page[r].cursor))
    <3>1. new \in Seq(Nat)
      BY <1>0, ReplayType, SentIsPrefix, PrefixOfIds
    <3>2. [at |-> "waiting", got |-> page[r].got, last |-> page[r].last] \in PageState
      BY <2>1
    <3>3. [page[r] EXCEPT !.frames = <<KeepaliveId>>] \in PageState
      <4>1. <<KeepaliveId>> \in Seq(Nat)
        BY DEF KeepaliveId, NoId
      <4> QED
        BY <2>1, <4>1
    <3> HIDE DEF new
    <3>4. new # <<>> => [page[r] EXCEPT !.frames = new, !.cursor = new[Len(new)]] \in PageState
      <4>1. new # <<>> => new[Len(new)] \in Nat
        BY <3>1
      <4> QED
        BY <2>1, <3>1, <4>1
    <3>5. \E q \in PageState : page' = [page EXCEPT ![r] = q]
      BY <1>0, <2>3, <3>2, <3>3, <3>4 DEF Poll, new
    <3> QED
      BY <1>2, <3>5
  <2>4. CASE Deliver(r)
    <3> DEFINE id == Head(page[r].frames)
    <3>1. id \in Nat /\ Tail(page[r].frames) \in Seq(Nat)
      BY <2>1, <2>4 DEF Deliver
    <3>2. [page[r] EXCEPT !.frames = Tail(page[r].frames)] \in PageState
      BY <2>1, <3>1
    <3>3. \A s \in Seq(Nat) :
             [page[r] EXCEPT !.frames = Tail(page[r].frames), !.last = id, !.got = s] \in PageState
      BY <2>1, <3>1
    <3>4. Append(page[r].got, id) \in Seq(Nat) /\ page[r].got \in Seq(Nat)
      BY <2>1, <3>1
    <3>5. [page[r] EXCEPT !.frames = Tail(page[r].frames), !.last = id,
                          !.got = IF id \in Committed THEN Append(page[r].got, id)
                                                      ELSE page[r].got] \in PageState
      BY <3>3, <3>4
    <3>6. Away \in PageState
      OBVIOUS
    <3> HIDE DEF PageState, Away
    <3>7. CASE IsTerminal(id)
      <4>1. page' = [page EXCEPT ![r] = Away]
        BY <2>4, <3>7 DEF Deliver
      <4> QED
        BY <1>2, <3>6, <4>1
    <3>8. CASE ~IsTerminal(id) /\ id = NoId
      <4>1. page' = [page EXCEPT ![r] =
                [page[r] EXCEPT !.frames = Tail(page[r].frames)]]
        BY <2>4, <3>8 DEF Deliver
      <4> QED
        BY <1>2, <3>2, <4>1
    <3>9. CASE ~IsTerminal(id) /\ id # NoId
      <4>1. page' = [page EXCEPT ![r] =
                [page[r] EXCEPT !.frames = Tail(page[r].frames), !.last = id,
                          !.got = IF id \in Committed THEN Append(page[r].got, id)
                                                      ELSE page[r].got]]
        BY <2>4, <3>9 DEF Deliver
      <4> QED
        BY <1>2, <3>5, <4>1
    <3> QED
      BY <3>7, <3>8, <3>9
  <2> QED
    BY <1>5, <2>2, <2>3, <2>4 DEF Load, Connect, Fallback
<1>6. CASE Fallback(r)
  BY <1>2, <1>6 DEF Fallback
<1> QED
  BY <1>3, <1>4, <1>5, <1>6 DEF Poll, Deliver, Break

\* Every status, row, run and page the actions leave behind is one that they
\* expect.
THEOREM TypesHold == Spec => []TypeOK
<1>1. Init => TypeOK
  <2> SUFFICES ASSUME Init PROVE TypeOK
    OBVIOUS
  <2>1. log \in Seq(Event)
    BY DEF Init, Event, Stage
  <2> QED
    BY <2>1 DEF Init, TypeOK, RunState, PageState, Active, Idle, Away
<1>2. TypeOK /\ [Next]_vars => TypeOK'
  <2> SUFFICES ASSUME TypeOK, [Next]_vars PROVE TypeOK'
    OBVIOUS
  <2>1. CASE UNCHANGED vars
    BY <2>1 DEF vars, TypeOK
  <2> QED
    BY <2>1, WorkerTypes, RequestTypes, PageTypes DEF Next
<1> QED
  BY <1>1, <1>2, PTL DEF Spec

-----------------------------------------------------------------------------
(* Whose events become visible when.                                       *)

\* The rows inserted by one writer, or committed ("table").
By(events, who) == {i \in DOMAIN events : events[i].by = who}

LEMMA AppendedBy ==
    ASSUME NEW events \in Seq(Event), NEW e \in Event
    PROVE  \A who : By(Append(events, e), who) =
              By(events, who) \cup (IF e.by = who THEN {Len(events) + 1} ELSE {})
<1>1. /\ DOMAIN Append(events, e) = 1 .. Len(events) + 1 /\ DOMAIN events = 1 .. Len(events)
      /\ Len(events) \in Nat
      /\ \A i \in 1 .. Len(events) : Append(events, e)[i] = events[i]
      /\ Append(events, e)[Len(events) + 1] = e
  OBVIOUS
<1>2. 1 .. Len(events) + 1 = (1 .. Len(events)) \cup {Len(events) + 1}
  BY <1>1
<1> QED
  BY <1>1, <1>2 DEF By

LEMMA EndedBy ==
    ASSUME NEW events \in Seq(Event), NEW w \in Workers, NEW who \in Workers \cup {"table"}
    PROVE  /\ By(Commit(events, w), who) =
                 IF who = "table" THEN By(events, "table") \cup By(events, w)
                 ELSE IF who = w THEN {} ELSE By(events, who)
           /\ By(RollBack(events, w), who) = IF who = w THEN {} ELSE By(events, who)
<1>1. /\ DOMAIN events = 1 .. Len(events)
      /\ DOMAIN Commit(events, w) = 1 .. Len(events)
      /\ DOMAIN RollBack(events, w) = 1 .. Len(events)
  BY EndedRun
<1>2. w # "table" /\ w # "nobody" /\ who # "nobody"
  BY StreamAssumption
<1>3. \A i \in 1 .. Len(events) :
         /\ Commit(events, w)[i].by = IF events[i].by = w THEN "table" ELSE events[i].by
         /\ RollBack(events, w)[i].by = IF events[i].by = w THEN "nobody" ELSE events[i].by
  BY EndedRun
<1>4. By(RollBack(events, w), who) = IF who = w THEN {} ELSE By(events, who)
  BY <1>1, <1>2, <1>3 DEF By
<1>5. CASE who = "table"
  <2>1. By(Commit(events, w), "table") = By(events, "table") \cup By(events, w)
    BY <1>1, <1>2, <1>3 DEF By
  <2> QED
    BY <1>4, <1>5, <2>1
<1>6. CASE who # "table"
  <2>1. By(Commit(events, w), who) = IF who = w THEN {} ELSE By(events, who)
    BY <1>1, <1>2, <1>3, <1>6 DEF By
  <2> QED
    BY <1>4, <1>6, <2>1
<1> QED
  BY <1>5, <1>6

LEMMA WithinLog ==
    ASSUME NEW events \in Seq(Event)
    PROVE  /\ Len(events) \in Nat
           /\ \A who : By(events, who) \subseteq 1 .. Len(events)
BY DEF By

\* A run with events it has not committed.
Busy(w) == run[w].pc \in {"started", "locked", "persisted"}

\* One worker at a time has the check; a request that found it pending does
\* not meet one that is being cancelled.
Turns ==
    /\ \A w, v \in Workers : run[w].pc # "idle" /\ run[v].pc # "idle" => w = v
    /\ status = "pending" => \A w \in Workers : run[w].pc = "idle"
    /\ status = "cancel_requested" => request # "pending"
    /\ \A w \in Workers : Busy(w) /\ run[w].seen = "cancel_requested" => request # "pending"

\* What a run can still commit comes after everything that is committed: a
\* cancel between its inserts and its end publishes an event, but then the
\* transition table refuses its end.
LateAreHigher ==
    \A w \in Workers :
        /\ ~Busy(w) => By(log, w) = {}
        /\ Busy(w) => \/ cancelRequested /\ run[w].seen # "cancel_requested"
                      \/ \A i \in By(log, w), j \in Committed : j < i

\* The table only grows, and only at its end.
GrowsAtEnd ==
    /\ Committed \subseteq Committed'
    /\ \A i \in Committed, j \in Committed' \ Committed : i < j

LEMMA TurnsKept ==
    ASSUME ~SlowWorkers, TypeOK, Turns, [Next]_vars
    PROVE  Turns'
<1> USE DEF Turns, Busy, Idle
<1>0. run \in [Workers -> RunState]
  BY DEF TypeOK
<1>1. CASE UNCHANGED vars
  BY <1>1 DEF vars
<1>2. ASSUME NEW w \in Workers, Claim(w) PROVE Turns'
  BY <1>0, <1>2 DEF Claim
<1>3. ASSUME NEW w \in Workers, Start(w) PROVE Turns'
  BY <1>0, <1>3 DEF Start, Raised, checkVars
<1>4. ASSUME NEW w \in Workers, Chunk(w) \/ Persist(w) \/ RunRaises(w) PROVE Turns'
  <2>1. /\ status' = status /\ request' = request
        /\ Busy(w)
        /\ \/ run' = [run EXCEPT ![w] = [pc |-> "raised"]]
           \/ run' = [run EXCEPT ![w].pc = "locked"]
           \/ run' = [run EXCEPT ![w].pc = "persisted"]
    BY <1>4 DEF Chunk, Persist, RunRaises, Raised, checkVars
  <2>2. run[w] \in [pc : {"started", "locked", "persisted"}, seen : Active \cup TerminalStages]
    BY <1>0, <2>1 DEF RunState
  <2> QED
    BY <1>0, <2>1, <2>2
<1>5. ASSUME NEW w \in Workers, Settle(w) PROVE Turns'
  <2>1. PICK target \in SettleTargets :
           IF MayEnd(run[w].seen, target)
             THEN status' = target /\ run' = [run EXCEPT ![w] = Idle]
             ELSE Raised(w) /\ UNCHANGED status
    BY <1>5 DEF Settle
  <2>2. target \notin {"pending", "cancel_requested"}
    BY DEF SettleTargets
  <2>3. request' = request /\ run[w].pc = "persisted"
    BY <1>5 DEF Settle
  <2> QED
    BY <1>0, <2>1, <2>2, <2>3 DEF Raised
<1>6. ASSUME NEW w \in Workers, Fail(w) \/ Die(w) PROVE Turns'
  <2>1. /\ run' = [run EXCEPT ![w] = Idle] /\ request' = request /\ run[w].pc # "idle"
        /\ status' \in {status, "pending", "failed"}
        /\ status' = "pending" => status # "pending" \/ status' = status
    BY <1>0, <1>6 DEF Fail, Die, FailStatus, checkVars, RunState
  <2> QED
    BY <1>0, <2>1
<1>7. CASE Reclaim
  BY <1>0, <1>7 DEF Reclaim
<1>8. CASE ReadForDelete
  BY <1>0, <1>8 DEF ReadForDelete, checkVars
<1>9. CASE Delete
  BY <1>0, <1>9 DEF Delete
<1>10. ASSUME NEW r \in Pages,
              Load(r) \/ Connect(r) \/ Poll(r) \/ Deliver(r) \/ Break(r) \/ Fallback(r)
       PROVE  Turns'
  BY <1>10 DEF Load, Connect, Poll, Deliver, Break, Fallback, checkVars
<1> QED
  BY <1>1, <1>2, <1>3, <1>4, <1>5, <1>6, <1>7, <1>8, <1>9, <1>10 DEF Next, Work

LEMMA LateStayHigher ==
    ASSUME TypeOK, Turns, LateAreHigher, [Next]_vars
    PROVE  LateAreHigher' /\ GrowsAtEnd
<1> USE DEF LateAreHigher, Busy, Idle
<1>0. /\ log \in Seq(Event) /\ run \in [Workers -> RunState]
      /\ Committed = By(log, "table") /\ Committed' = By(log', "table")
  BY DEF TypeOK, Committed, By
<1>1. /\ Len(log) \in Nat
      /\ \A who : \A i \in By(log, who) : i \in Nat /\ i < Len(log) + 1
  BY <1>0, WithinLog
<1>2. ASSUME UNCHANGED log PROVE GrowsAtEnd /\ \A w : By(log', w) = By(log, w)
  BY <1>0, <1>2 DEF GrowsAtEnd
<1>3. ASSUME NEW w \in Workers, log' = RollBack(log, w)
      PROVE  /\ GrowsAtEnd /\ Committed' = Committed
             /\ \A v \in Workers : By(log', v) = IF v = w THEN {} ELSE By(log, v)
  <2>1. By(log', "table") = By(log, "table")
    BY <1>0, <1>3, EndedBy, StreamAssumption
  <2>2. \A v \in Workers : By(log', v) = IF v = w THEN {} ELSE By(log, v)
    BY <1>0, <1>3, EndedBy
  <2> QED
    BY <1>0, <2>1, <2>2 DEF GrowsAtEnd
<1>4. ASSUME NEW stage \in Stage, log' = Published(stage)
      PROVE  GrowsAtEnd /\ \A w \in Workers : By(log', w) = By(log, w)
  <2>1. /\ [stage |-> stage, by |-> "table"] \in Event
        /\ log' = Append(log, [stage |-> stage, by |-> "table"])
    BY <1>4 DEF Published, Inserted, Event
  <2>2. \A who : By(log', who) =
           By(log, who) \cup (IF "table" = who THEN {Len(log) + 1} ELSE {})
    BY <1>0, <2>1, AppendedBy
  <2>3. By(log', "table") = By(log, "table") \cup {Len(log) + 1}
    BY <2>2
  <2>4. \A w \in Workers : By(log', w) = By(log, w)
    BY <2>2, StreamAssumption
  <2> QED
    BY <1>0, <1>1, <2>3, <2>4 DEF GrowsAtEnd
<1>5. ASSUME NEW w \in Workers, NEW stage \in Stage
      PROVE  /\ Inserted(stage, w) \in Seq(Event)
             /\ Len(Inserted(stage, w)) = Len(log) + 1
             /\ By(Inserted(stage, w), "table") = By(log, "table")
             /\ By(Inserted(stage, w), w) = By(log, w) \cup {Len(log) + 1}
             /\ \A v \in Workers : v # w => By(Inserted(stage, w), v) = By(log, v)
  <2>1. [stage |-> stage, by |-> w] \in Event
    BY DEF Event
  <2>2. /\ Inserted(stage, w) \in Seq(Event)
        /\ Len(Inserted(stage, w)) = Len(log) + 1
    BY <1>0, InsertType
  <2>3. \A who : By(Inserted(stage, w), who) =
           By(log, who) \cup (IF w = who THEN {Len(log) + 1} ELSE {})
    BY <1>0, <2>1, AppendedBy DEF Inserted
  <2> QED
    BY <2>2, <2>3, StreamAssumption
<1>6. ASSUME NEW w \in Workers, log' = RollBack(log, w), run' = [run EXCEPT ![w] = run'[w]],
             run'[w].pc \in {"idle", "raised"}, UNCHANGED cancelRequested
      PROVE  LateAreHigher' /\ GrowsAtEnd
  BY <1>0, <1>3, <1>6
<1>7. ASSUME NEW w \in Workers, Raised(w), UNCHANGED cancelRequested
      PROVE  LateAreHigher' /\ GrowsAtEnd
  BY <1>0, <1>6, <1>7 DEF Raised
<1>8. ASSUME NEW w \in Workers, Claim(w) PROVE LateAreHigher' /\ GrowsAtEnd
  <2>1. /\ UNCHANGED <<log, cancelRequested>> /\ run[w].pc = "idle"
        /\ run' = [run EXCEPT ![w] = [pc |-> "claimed"]]
    BY <1>8 DEF Claim
  <2> QED
    BY <1>0, <1>2, <2>1
<1>9. ASSUME NEW w \in Workers, Start(w) PROVE LateAreHigher' /\ GrowsAtEnd
  <2>1. CASE ~RowExists
    BY <1>7, <1>9, <2>1 DEF Start, checkVars
  <2>2. CASE RowExists
    <3>1. /\ run' = [run EXCEPT ![w] = [pc |-> "started", seen |-> status]]
          /\ log' = Inserted("started", w) /\ UNCHANGED cancelRequested
          /\ run[w].pc = "claimed"
      BY <1>9, <2>2 DEF Start, checkVars
    <3>2. /\ By(log', "table") = By(log, "table")
          /\ By(log', w) = {Len(log) + 1}
          /\ \A v \in Workers : v # w => By(log', v) = By(log, v)
      BY <1>5, <3>1 DEF Stage
    <3>3. LateAreHigher'
      BY <1>0, <1>1, <3>1, <3>2
    <3>4. GrowsAtEnd
      BY <1>0, <3>2 DEF GrowsAtEnd
    <3> QED
      BY <3>3, <3>4
  <2> QED
    BY <2>1, <2>2
\* A run that is under way inserts.
<1>10. ASSUME NEW w \in Workers, Busy(w), NEW new, \A i \in new : i = Len(log) + 1 \/ i = Len(log) + 2,
              run' = [run EXCEPT ![w] = run'[w]], run'[w].pc \in {"locked", "persisted"},
              run'[w].seen = run[w].seen, UNCHANGED cancelRequested,
              By(log', "table") = By(log, "table"),
              By(log', w) = By(log, w) \cup new,
              \A v \in Workers : v # w => By(log', v) = By(log, v)
       PROVE  LateAreHigher' /\ GrowsAtEnd
  <2>1. GrowsAtEnd
    BY <1>0, <1>10 DEF GrowsAtEnd
  <2>2. \A j \in Committed, i \in new : j < i
    BY <1>0, <1>1, <1>10
  <2>3. LateAreHigher'
    BY <1>0, <1>10, <2>2
  <2> QED
    BY <2>1, <2>3
<1>11. ASSUME NEW w \in Workers, Chunk(w) PROVE LateAreHigher' /\ GrowsAtEnd
  <2>1. CASE ~RowExists
    BY <1>7, <1>11, <2>1 DEF Chunk, checkVars
  <2>2. CASE RowExists
    <3>1. /\ run' = [run EXCEPT ![w].pc = "locked"] /\ run[w].pc = "started"
          /\ log' = Inserted("chunking", w) /\ UNCHANGED cancelRequested
      BY <1>11, <2>2 DEF Chunk, checkVars
    <3>2. /\ By(log', "table") = By(log, "table")
          /\ By(log', w) = By(log, w) \cup {Len(log) + 1}
          /\ \A v \in Workers : v # w => By(log', v) = By(log, v)
      BY <1>5, <3>1 DEF Stage
    <3>3. run[w] \in [pc : {"started", "locked", "persisted"}, seen : Active \cup TerminalStages]
      BY <1>0, <3>1 DEF RunState
    <3>4. /\ run' = [run EXCEPT ![w] = run'[w]] /\ run'[w].pc = "locked"
          /\ run'[w].seen = run[w].seen
      BY <1>0, <3>1, <3>3
    <3> QED
      BY <1>10, <3>1, <3>2, <3>4
  <2> QED
    BY <2>1, <2>2
<1>12. ASSUME NEW w \in Workers, Persist(w) PROVE LateAreHigher' /\ GrowsAtEnd
  <2> DEFINE last == [stage |-> "persisting", by |-> w]
  <2>1. /\ run' = [run EXCEPT ![w].pc = "persisted"] /\ run[w].pc = "locked"
        /\ UNCHANGED cancelRequested
        /\ \/ log' = Inserted("persisting", w)
           \/ log' = Append(Inserted("retrieving", w), last)
    BY <1>12 DEF Persist, checkVars, Inserted
  <2>2. run[w] \in [pc : {"started", "locked", "persisted"}, seen : Active \cup TerminalStages]
    BY <1>0, <2>1 DEF RunState
  <2>3. /\ run' = [run EXCEPT ![w] = run'[w]] /\ run'[w].pc = "persisted"
        /\ run'[w].seen = run[w].seen
    BY <1>0, <2>1, <2>2
  <2>4. CASE log' = Inserted("persisting", w)
    <3>1. /\ By(log', "table") = By(log, "table")
          /\ By(log', w) = By(log, w) \cup {Len(log) + 1}
          /\ \A v \in Workers : v # w => By(log', v) = By(log, v)
      BY <1>5, <2>4 DEF Stage
    <3> QED
      BY <1>10, <2>1, <2>3, <3>1
  <2>5. CASE log' = Append(Inserted("retrieving", w), last)
    <3> DEFINE probed == Inserted("retrieving", w)
    <3>1. /\ probed \in Seq(Event) /\ Len(probed) = Len(log) + 1
          /\ By(probed, "table") = By(log, "table")
          /\ By(probed, w) = By(log, w) \cup {Len(log) + 1}
          /\ \A v \in Workers : v # w => By(probed, v) = By(log, v)
      BY <1>5 DEF Stage
    <3> HIDE DEF probed
    <3>2. last \in Event /\ last.by = w
      BY DEF Event, Stage
    <3>3. \A who : By(log', who) =
             By(probed, who) \cup (IF w = who THEN {Len(log) + 2} ELSE {})
      BY <1>1, <2>5, <3>1, <3>2, AppendedBy DEF probed
    <3>4. /\ By(log', "table") = By(log, "table")
          /\ By(log', w) = By(log, w) \cup {Len(log) + 1, Len(log) + 2}
          /\ \A v \in Workers : v # w => By(log', v) = By(log, v)
      BY <3>1, <3>3, StreamAssumption
    <3> QED
      BY <1>10, <2>1, <2>3, <3>4
  <2> QED
    BY <2>1, <2>4, <2>5
<1>13. ASSUME NEW w \in Workers, Settle(w) PROVE LateAreHigher' /\ GrowsAtEnd
  <2>1. PICK target \in SettleTargets :
           IF MayEnd(run[w].seen, target)
             THEN /\ status' = target
                  /\ log' = SettleEvents(w, target)
                  /\ run' = [run EXCEPT ![w] = Idle]
             ELSE Raised(w) /\ UNCHANGED status
    BY <1>13 DEF Settle
  <2>2. run[w].pc = "persisted" /\ UNCHANGED cancelRequested /\ target \in Stage
    BY <1>13 DEF Settle, SettleTargets, Stage, TerminalStages
  <2>3. CASE ~MayEnd(run[w].seen, target)
    BY <1>7, <2>1, <2>2, <2>3
  <2>4. CASE MayEnd(run[w].seen, target)
    <3> DEFINE all == Inserted(target, w)
    <3>1. log' = Commit(all, w) /\ run' = [run EXCEPT ![w] = Idle]
      BY <2>1, <2>4 DEF SettleEvents
    <3>2. ~(cancelRequested /\ run[w].seen # "cancel_requested")
      BY <2>4 DEF MayEnd, SettleTargets
    <3>3. \A i \in By(log, w), j \in Committed : j < i
      BY <2>2, <3>2
    <3>4. /\ all \in Seq(Event)
          /\ By(all, "table") = By(log, "table")
          /\ By(all, w) = By(log, w) \cup {Len(log) + 1}
          /\ \A v \in Workers : v # w => By(all, v) = By(log, v)
      BY <1>5, <2>2
    <3> HIDE DEF all
    <3>5. /\ By(log', "table") = By(log, "table") \cup By(log, w) \cup {Len(log) + 1}
          /\ \A v \in Workers : By(log', v) = IF v = w THEN {} ELSE By(log, v)
      BY <3>1, <3>4, EndedBy, StreamAssumption
    <3>6. GrowsAtEnd
      BY <1>0, <1>1, <3>3, <3>5 DEF GrowsAtEnd
    <3>7. LateAreHigher'
      BY <1>0, <2>2, <3>1, <3>5 DEF Turns
    <3> QED
      BY <3>6, <3>7
  <2> QED
    BY <2>3, <2>4
<1>14. ASSUME NEW w \in Workers, RunRaises(w) PROVE LateAreHigher' /\ GrowsAtEnd
  BY <1>7, <1>14 DEF RunRaises, checkVars
<1>15. ASSUME NEW w \in Workers, Fail(w) PROVE LateAreHigher' /\ GrowsAtEnd
  <2>1. /\ run[w].pc = "raised" /\ run' = [run EXCEPT ![w] = Idle]
        /\ log' = Published("failed") \/ log' = log
    BY <1>15 DEF Fail
  <2>2. GrowsAtEnd /\ \A v \in Workers : By(log', v) = By(log, v)
    BY <1>2, <1>4, <2>1 DEF Stage, TerminalStages
  <2>3. \A v \in Workers : v # w => run[v].pc = "idle"
    BY <2>1 DEF Turns
  <2> QED
    BY <1>0, <2>1, <2>2, <2>3
<1>16. ASSUME NEW w \in Workers, Die(w) PROVE LateAreHigher' /\ GrowsAtEnd
  BY <1>0, <1>6, <1>16 DEF Die, checkVars
<1>17. CASE Reclaim \/ ReadForDelete \/ UNCHANGED vars
  <2>1. UNCHANGED <<log, cancelRequested, run>>
    BY <1>17 DEF Reclaim, ReadForDelete, vars, checkVars
  <2> QED
    BY <1>0, <1>2, <2>1
<1>18. CASE Delete
  <2>1. run' = run
    BY <1>18 DEF Delete
  <2>2. CASE log' = log /\ (cancelRequested' = cancelRequested \/ cancelRequested' = TRUE)
    BY <1>0, <1>2, <2>1, <2>2
  <2>3. CASE request = "pending" /\ cancelRequested' = TRUE /\ log' = Published("cancelled")
    BY <1>0, <1>4, <2>1, <2>3 DEF Turns, Stage, TerminalStages
  <2> QED
    BY <1>18, <2>2, <2>3 DEF Delete
<1>19. ASSUME NEW r \in Pages,
              Load(r) \/ Connect(r) \/ Poll(r) \/ Deliver(r) \/ Break(r) \/ Fallback(r)
       PROVE  LateAreHigher' /\ GrowsAtEnd
  <2>1. UNCHANGED <<log, cancelRequested, run>>
    BY <1>19 DEF Load, Connect, Poll, Deliver, Break, Fallback, checkVars
  <2> QED
    BY <1>0, <1>2, <2>1
<1> QED
  BY <1>8, <1>9, <1>11, <1>12, <1>13, <1>14, <1>15, <1>16, <1>17, <1>18, <1>19
     DEF Next, Work

-----------------------------------------------------------------------------
(* The pages.                                                              *)

\* What is read after the first n events is sent as the next ones.
LEMMA SentIsNext ==
    ASSUME log \in Seq(Event), NEW n \in 0 .. Cardinality(Committed)
    PROVE  LET new == UpToTerminal(Replay(Reached(Committed, n))) IN
           /\ new \in Seq(Nat)
           /\ n + Len(new) <= Cardinality(Committed)
           /\ \A k \in 1 .. Len(new) : new[k] = InOrder(Committed)[n + k]
<1> DEFINE after == Reached(Committed, n)
           ids == {i \in Committed : i > after}
           all == InOrder(ids)
           new == UpToTerminal(Replay(after))
<1>1. /\ IsFiniteSet(ids) /\ ids \in SUBSET Nat
      /\ Cardinality(ids) = Cardinality(Committed) - n
      /\ \A k \in 1 .. Cardinality(ids) : all[k] = InOrder(Committed)[n + k]
      /\ Cardinality(Committed) \in Nat
  BY CommittedIsFinite, RemainingIds
<1> HIDE DEF after, ids
<1>2. /\ all \in Seq(ids) /\ Len(all) = Cardinality(ids)
  BY <1>1, Ordered
<1>3. all \in Seq(Nat)
  BY <1>1, <1>2, SeqMonotonic
<1> HIDE DEF all
<1>4. PICK m \in 0 .. Len(all) : Replay(after) = SubSeq(all, 1, m)
  BY <1>3, AtMostIsPrefix, StreamAssumption DEF Replay, all, ids
<1>5. /\ Replay(after) \in Seq(Nat) /\ Len(Replay(after)) = m
      /\ \A k \in 1 .. m : Replay(after)[k] = all[k]
  BY <1>3, <1>4, PrefixOfIds
<1>6. PICK l \in 0 .. m : new = SubSeq(Replay(after), 1, l)
  BY <1>5, SentIsPrefix
<1>7. /\ new \in Seq(Nat) /\ Len(new) = l
      /\ \A k \in 1 .. l : new[k] = Replay(after)[k]
  BY <1>5, <1>6, PrefixOfIds
<1> HIDE DEF new
<1>8. Len(all) \in Nat /\ m \in Nat /\ l \in Nat /\ l <= m /\ m <= Len(all) /\ n \in Nat
  BY <1>3
<1>9. n + Len(new) <= Cardinality(Committed)
  BY <1>1, <1>2, <1>7, <1>8
<1>10. ASSUME NEW k \in 1 .. Len(new) PROVE new[k] = InOrder(Committed)[n + k]
  <2>1. k \in 1 .. l /\ k \in 1 .. m /\ k \in 1 .. Cardinality(ids)
    BY <1>2, <1>7, <1>8
  <2> QED
    BY <1>1, <1>5, <1>7, <2>1
<1> QED
  BY <1>7, <1>9, <1>10 DEF new, after

\* A page that listens has received the first events of the table, and what
\* is on its way are the next ones, or a keepalive.
Follows(p) ==
    /\ Len(p.got) <= Cardinality(Committed)
    /\ \A k \in 1 .. Len(p.got) : p.got[k] = InOrder(Committed)[k]
    /\ p.last = Reached(Committed, Len(p.got))
    /\ p.at = "streaming" =>
         \/ p.frames = <<NoId>> /\ p.cursor = p.last
         \/ /\ Len(p.got) + Len(p.frames) <= Cardinality(Committed)
            /\ \A k \in 1 .. Len(p.frames) :
                  p.frames[k] = InOrder(Committed)[Len(p.got) + k]
            /\ p.cursor = Reached(Committed, Len(p.got) + Len(p.frames))

PagesFollow == \A r \in Pages : page[r].at \in Listening => Follows(page[r])

\* New rows, all of them higher, change nothing for what was received.
LEMMA GrowthIsHarmless ==
    ASSUME TypeOK, TypeOK', GrowsAtEnd, PagesFollow, UNCHANGED page
    PROVE  PagesFollow'
<1>1. /\ log \in Seq(Event) /\ log' \in Seq(Event) /\ page \in [Pages -> PageState]
  BY DEF TypeOK
<1>2. /\ Committed' \in SUBSET Nat /\ IsFiniteSet(Committed') /\ Cardinality(Committed') \in Nat
  <2>1. Committed' \in SUBSET (1 .. Len(log')) /\ Len(log') \in Nat
    BY <1>1 DEF Committed
  <2>2. IsFiniteSet(1 .. Len(log'))
    BY <2>1, FS_Interval
  <2>3. IsFiniteSet(Committed')
    BY <2>1, <2>2, FS_Subset
  <2> QED
    BY <2>1, <2>3, FS_CardinalityType
<1>3. /\ Cardinality(Committed) <= Cardinality(Committed') /\ Cardinality(Committed) \in Nat
      /\ \A n \in 1 .. Cardinality(Committed) : InOrder(Committed')[n] = InOrder(Committed)[n]
  BY <1>1, <1>2, HigherIdsAppend, CommittedIsFinite DEF GrowsAtEnd
<1>4. \A n \in 0 .. Cardinality(Committed) : Reached(Committed', n) = Reached(Committed, n)
  BY <1>3 DEF Reached
<1>5. ASSUME NEW r \in Pages, page[r].at \in Listening PROVE Follows(page[r])'
  <2> DEFINE p == page[r]
  <2>1. /\ page' = page /\ Follows(p)
    BY <1>5 DEF PagesFollow
  <2>2. /\ Len(p.got) \in Nat
        /\ p.at = "streaming" => Len(p.frames) \in Nat
    BY <1>1, <1>5 DEF PageState, Away, Listening
  <2>3. /\ Len(p.got) <= Cardinality(Committed')
        /\ \A k \in 1 .. Len(p.got) : p.got[k] = InOrder(Committed')[k]
        /\ p.last = Reached(Committed', Len(p.got))
    BY <1>2, <1>3, <1>4, <2>1, <2>2 DEF Follows
  <2>4. ASSUME p.at = "streaming", ~(p.frames = <<NoId>> /\ p.cursor = p.last)
        PROVE  /\ Len(p.got) + Len(p.frames) <= Cardinality(Committed')
               /\ \A k \in 1 .. Len(p.frames) :
                     p.frames[k] = InOrder(Committed')[Len(p.got) + k]
               /\ p.cursor = Reached(Committed', Len(p.got) + Len(p.frames))
    <3>1. /\ Len(p.got) + Len(p.frames) <= Cardinality(Committed)
          /\ \A k \in 1 .. Len(p.frames) :
                p.frames[k] = InOrder(Committed)[Len(p.got) + k]
          /\ p.cursor = Reached(Committed, Len(p.got) + Len(p.frames))
          /\ Len(p.frames) \in Nat
      BY <2>1, <2>2, <2>4 DEF Follows
    <3>2. /\ \A k \in 1 .. Len(p.frames) : Len(p.got) + k \in 1 .. Cardinality(Committed)
          /\ Len(p.got) + Len(p.frames) \in 0 .. Cardinality(Committed)
      <4>1. \A g, f, n \in Nat : g + f <= n =>
               (\A k \in 1 .. f : g + k \in 1 .. n) /\ g + f \in 0 .. n
        OBVIOUS
      <4> QED
        BY <1>3, <2>2, <3>1, <4>1
    <3>3. Len(p.got) + Len(p.frames) <= Cardinality(Committed')
      <4>1. \A g, f, c, d \in Nat : g + f <= c /\ c <= d => g + f <= d
        OBVIOUS
      <4> QED
        BY <1>2, <1>3, <2>2, <3>1, <4>1
    <3>4. \A k \in 1 .. Len(p.frames) :
             p.frames[k] = InOrder(Committed')[Len(p.got) + k]
      BY <1>3, <3>1, <3>2
    <3> QED
      BY <1>4, <3>1, <3>2, <3>3, <3>4
  <2> QED
    BY <2>1, <2>3, <2>4 DEF Follows
<1> QED
  BY <1>5 DEF PagesFollow

Received == [r \in Pages |-> IF page[r].at \in Listening THEN page[r].got ELSE <<>>]

\* A page receives the next event, starts over, or receives nothing.
PageStep(r) ==
    \/ UNCHANGED Received
    \/ Received' = [Received EXCEPT ![r] = <<>>]
    \/ /\ Len(Received[r]) < Cardinality(Committed)
       /\ Received' = [Received EXCEPT ![r] =
              Append(Received[r], InOrder(Committed)[Len(Received[r]) + 1])]

LEMMA PageFollows ==
    ASSUME TypeOK, PagesFollow, NEW r \in Pages,
           Load(r) \/ Connect(r) \/ Poll(r) \/ Deliver(r) \/ Break(r) \/ Fallback(r)
    PROVE  PagesFollow' /\ PageStep(r)
<1> DEFINE p == page[r]
           n == Len(p.got)
<1>0. page \in [Pages -> PageState] /\ log \in Seq(Event)
  BY DEF TypeOK
<1>1. Committed' = Committed
  BY DEF Load, Connect, Poll, Deliver, Break, Fallback, Committed
<1>2. ASSUME NEW q, page' = [page EXCEPT ![r] = q], q.at \in Listening => Follows(q)
      PROVE  /\ PagesFollow'
             /\ Received' = [Received EXCEPT ![r] =
                                IF q.at \in Listening THEN q.got ELSE <<>>]
  <2>1. \A t \in Pages : page'[t] = IF t = r THEN q ELSE page[t]
    BY <1>0, <1>2
  <2>2. ASSUME NEW t \in Pages, page'[t].at \in Listening PROVE Follows(page[t])'
    <3>1. Follows(page'[t])
      BY <1>2, <2>1, <2>2 DEF PagesFollow
    <3> QED
      BY <1>1, <3>1 DEF Follows
  <2> QED
    BY <2>1, <2>2 DEF PagesFollow, Received
<1>3. ASSUME p.at \in Listening
      PROVE  /\ Follows(p) /\ p.got \in Seq(Nat) /\ n \in Nat /\ n <= Cardinality(Committed)
             /\ Received[r] = p.got
             /\ Cardinality(Committed) \in Nat
  <2>1. Follows(p)
    BY <1>3 DEF PagesFollow
  <2>2. p.got \in Seq(Nat)
    BY <1>0, <1>3 DEF PageState, Away, Listening
  <2>3. n \in Nat /\ n <= Cardinality(Committed)
    BY <2>1, <2>2 DEF Follows
  <2> QED
    BY <1>0, <1>3, <2>1, <2>2, <2>3, CommittedIsFinite DEF Received
<1>4. Received \in [Pages -> UNION {{Received[t]} : t \in Pages}]
  BY DEF Received
<1>5. CASE Load(r)
  <2> DEFINE fresh == [at |-> "waiting", got |-> <<>>, last |-> 0]
  <2>1. page' = [page EXCEPT ![r] = fresh] \/ page' = [page EXCEPT ![r] = [at |-> "shown"]]
    BY <1>5 DEF Load
  <2>2. Follows(fresh)
    BY <1>0, CommittedIsFinite DEF Follows, Reached
  <2>3. Received' = [Received EXCEPT ![r] = <<>>] /\ PagesFollow'
    BY <1>2, <2>1, <2>2 DEF Listening
  <2> QED
    BY <2>3 DEF PageStep
<1>6. ASSUME page' = [page EXCEPT ![r] = Away] PROVE PagesFollow' /\ PageStep(r)
  <2>1. Away.at \notin Listening
    BY DEF Away, Listening
  <2>2. Received' = [Received EXCEPT ![r] = <<>>] /\ PagesFollow'
    BY <1>2, <1>6, <2>1
  <2> QED
    BY <2>2 DEF PageStep
\* A step after which the page has what it had.
<1>7. ASSUME NEW q, page' = [page EXCEPT ![r] = q], q.at \in Listening, Follows(q),
             p.at \in Listening, q.got = p.got
      PROVE  PagesFollow' /\ PageStep(r)
  <2>1. PagesFollow' /\ Received' = [Received EXCEPT ![r] = p.got]
    BY <1>2, <1>7
  <2>2. Received' = Received
    BY <1>3, <1>4, <1>7, <2>1
  <2> QED
    BY <2>1, <2>2 DEF PageStep
<1>8. CASE Connect(r)
  <2> DEFINE q == [at |-> "streaming", got |-> p.got, last |-> p.last,
                   cursor |-> p.last, frames |-> <<>>]
  <2>1. p.at = "waiting" /\ page' = [page EXCEPT ![r] = q]
    BY <1>8 DEF Connect
  <2>2. Follows(q)
    BY <1>3, <2>1 DEF Follows, Listening
  <2> QED
    BY <1>7, <2>1, <2>2 DEF Listening
<1>9. ASSUME p.at = "streaming",
             page' = [page EXCEPT ![r] = [at |-> "waiting", got |-> p.got, last |-> p.last]]
      PROVE  PagesFollow' /\ PageStep(r)
  <2> DEFINE q == [at |-> "waiting", got |-> p.got, last |-> p.last]
  <2>1. Follows(q)
    BY <1>3, <1>9 DEF Follows, Listening
  <2> QED
    BY <1>7, <1>9, <2>1 DEF Listening
<1>10. CASE Break(r)
  BY <1>9, <1>10 DEF Break
<1>11. ASSUME p.at = "streaming"
       PROVE  p \in [at : {"streaming"}, got : Seq(Nat), last : Nat, cursor : Nat,
                     frames : Seq(Nat)]
  BY <1>0, <1>11 DEF PageState, Away
<1>12. CASE Poll(r)
  <2> DEFINE new == UpToTerminal(Replay(p.cursor))
  <2>1. /\ p.at = "streaming" /\ p.frames = <<>>
        /\ \/ page' = [page EXCEPT ![r] =
                         [at |-> "waiting", got |-> p.got, last |-> p.last]]
           \/ new = <<>> /\ page' = [page EXCEPT ![r] = [p EXCEPT !.frames = <<NoId>>]]
           \/ new # <<>> /\ page' = [page EXCEPT ![r] =
                              [p EXCEPT !.frames = new, !.cursor = new[Len(new)]]]
    BY <1>12 DEF Poll, KeepaliveId
  <2>2. p.cursor = Reached(Committed, n) /\ p.cursor = p.last
    BY <1>3, <2>1 DEF Follows, Listening
  <2>3. /\ new \in Seq(Nat) /\ n + Len(new) <= Cardinality(Committed)
        /\ \A k \in 1 .. Len(new) : new[k] = InOrder(Committed)[n + k]
    <3>1. n \in 0 .. Cardinality(Committed)
      BY <1>3, <2>1 DEF Listening
    <3>2. new = UpToTerminal(Replay(Reached(Committed, n)))
      BY <2>2
    <3> QED
      BY <1>0, <3>1, <3>2, SentIsNext
  <2> HIDE DEF new
  <2>4. CASE page' = [page EXCEPT ![r] = [p EXCEPT !.frames = <<NoId>>]]
    <3> DEFINE q == [p EXCEPT !.frames = <<NoId>>]
    <3>1. /\ q.at = "streaming" /\ q.got = p.got /\ q.last = p.last
          /\ q.cursor = p.cursor /\ q.frames = <<NoId>>
      BY <1>11, <2>1
    <3> HIDE DEF q
    <3>2. Follows(q)
      BY <1>3, <2>1, <2>2, <3>1 DEF Follows, Listening
    <3> QED
      BY <1>7, <2>1, <2>4, <3>1, <3>2 DEF Listening, q
  <2>5. CASE new # <<>> /\ page' = [page EXCEPT ![r] =
                              [p EXCEPT !.frames = new, !.cursor = new[Len(new)]]]
    <3> DEFINE q == [p EXCEPT !.frames = new, !.cursor = new[Len(new)]]
    <3>1. /\ q.at = "streaming" /\ q.got = p.got /\ q.last = p.last
          /\ q.cursor = new[Len(new)] /\ q.frames = new
      BY <1>11, <2>1
    <3> HIDE DEF q
    <3>2. Len(new) \in 1 .. Len(new)
      BY <2>3, <2>5, EmptySeq
    <3>3. q.cursor = Reached(Committed, n + Len(new))
      <4>1. new[Len(new)] = InOrder(Committed)[n + Len(new)]
        BY <2>3, <3>2
      <4>2. n + Len(new) # 0
        BY <1>3, <2>1, <3>2 DEF Listening
      <4> QED
        BY <3>1, <4>1, <4>2 DEF Reached
    <3>4. Follows(q)
      BY <1>3, <2>1, <2>3, <3>1, <3>3 DEF Follows, Listening
    <3> QED
      BY <1>7, <2>1, <2>5, <3>1, <3>4 DEF Listening, q
  <2> QED
    BY <1>9, <2>1, <2>4, <2>5
<1>13. CASE Deliver(r)
  <2> DEFINE id == Head(p.frames)
             rest == Tail(p.frames)
  <2>1. /\ p.at = "streaming" /\ p.frames # <<>>
        /\ \/ page' = [page EXCEPT ![r] = Away]
           \/ /\ id = NoId
              /\ page' = [page EXCEPT ![r] = [p EXCEPT !.frames = rest]]
           \/ /\ id # NoId
              /\ page' = [page EXCEPT ![r] =
                   [p EXCEPT !.frames = rest, !.last = id,
                             !.got = IF id \in Committed THEN Append(p.got, id) ELSE p.got]]
    BY <1>13 DEF Deliver
  <2>2. /\ p \in [at : {"streaming"}, got : Seq(Nat), last : Nat, cursor : Nat,
                  frames : Seq(Nat)]
        /\ Len(p.frames) \in Nat \ {0} /\ rest \in Seq(Nat) /\ Len(rest) = Len(p.frames) - 1
        /\ \A k \in 1 .. Len(rest) : rest[k] = p.frames[k + 1]
        /\ id = p.frames[1]
    BY <1>11, <2>1, HeadTailProperties, EmptySeq
  <2>3. CASE page' = [page EXCEPT ![r] = Away]
    BY <1>6, <2>3
  <2>4. CASE p.frames = <<NoId>> /\ p.cursor = p.last
    <3>1. id = NoId /\ rest = <<>>
      BY <2>4
    <3> DEFINE q == [p EXCEPT !.frames = rest]
    <3>2. /\ q.at = "streaming" /\ q.got = p.got /\ q.last = p.last
          /\ q.cursor = p.cursor /\ q.frames = <<>>
      BY <2>2, <3>1
    <3> HIDE DEF q
    <3>3. Follows(q)
      BY <1>3, <2>1, <2>4, <3>2 DEF Follows, Listening
    <3>4. CASE page' = [page EXCEPT ![r] = q]
      BY <1>7, <2>1, <3>2, <3>3, <3>4 DEF Listening
    <3> QED
      BY <2>1, <2>3, <3>1, <3>4 DEF q
  <2>5. CASE ~(p.frames = <<NoId>> /\ p.cursor = p.last)
    <3>1. /\ n + Len(p.frames) <= Cardinality(Committed)
          /\ \A k \in 1 .. Len(p.frames) : p.frames[k] = InOrder(Committed)[n + k]
          /\ p.cursor = Reached(Committed, n + Len(p.frames))
      BY <1>3, <2>1, <2>5 DEF Follows, Listening
    <3>2. id = InOrder(Committed)[n + 1] /\ n + 1 \in 1 .. Cardinality(Committed)
      <4>1. \A f \in Nat \ {0}, g, c \in Nat : g + f <= c => 1 \in 1 .. f /\ g + 1 \in 1 .. c
        OBVIOUS
      <4>2. 1 \in 1 .. Len(p.frames) /\ n + 1 \in 1 .. Cardinality(Committed)
        BY <1>3, <2>1, <2>2, <3>1, <4>1 DEF Listening
      <4> QED
        BY <2>2, <3>1, <4>2
    <3>3. id \in Committed /\ id \in Nat \ {0}
      BY <1>0, <3>2, CommittedIsFinite, Ordered
    <3> DEFINE q == [p EXCEPT !.frames = rest, !.last = id, !.got = Append(p.got, id)]
    <3>4. /\ q.at = "streaming" /\ q.got = Append(p.got, id) /\ q.last = id
          /\ q.cursor = p.cursor /\ q.frames = rest
      BY <2>2
    <3> HIDE DEF q
    <3>5. /\ Len(q.got) = n + 1
          /\ \A k \in 1 .. n : q.got[k] = p.got[k]
          /\ q.got[n + 1] = id
      BY <1>3, <2>1, <3>3, <3>4 DEF Listening
    <3>6. Follows(q)
      <4>1. /\ Len(q.got) <= Cardinality(Committed)
            /\ \A k \in 1 .. n + 1 : q.got[k] = InOrder(Committed)[k]
        BY <1>3, <2>1, <3>2, <3>5 DEF Follows, Listening
      <4>2. q.last = Reached(Committed, n + 1)
        BY <1>3, <2>1, <3>2, <3>4 DEF Reached, Listening
      <4>3. Len(q.got) + Len(q.frames) = n + Len(p.frames)
        <5>1. \A f \in Nat \ {0}, g \in Nat : g + 1 + (f - 1) = g + f
          OBVIOUS
        <5>2. Len(q.got) = n + 1 /\ Len(q.frames) = Len(p.frames) - 1
          BY <2>2, <3>4, <3>5
        <5>3. n \in Nat /\ Len(p.frames) \in Nat \ {0}
          BY <1>3, <2>1, <2>2 DEF Listening
        <5> QED
          BY <5>1, <5>2, <5>3
      <4>4. \A k \in 1 .. Len(rest) : rest[k] = InOrder(Committed)[n + 1 + k]
        <5>1. \A f \in Nat \ {0}, g \in Nat : \A k \in 1 .. f - 1 :
                 k + 1 \in 1 .. f /\ g + (k + 1) = g + 1 + k
          OBVIOUS
        <5>2. n \in Nat /\ Len(p.frames) \in Nat \ {0} /\ Len(rest) = Len(p.frames) - 1
          BY <1>3, <2>1, <2>2 DEF Listening
        <5>3. ASSUME NEW k \in 1 .. Len(rest) PROVE rest[k] = InOrder(Committed)[n + 1 + k]
          <6>1. k + 1 \in 1 .. Len(p.frames) /\ n + (k + 1) = n + 1 + k
            BY <5>1, <5>2
          <6>2. rest[k] = p.frames[k + 1]
            BY <2>2
          <6>3. p.frames[k + 1] = InOrder(Committed)[n + (k + 1)]
            BY <3>1, <6>1
          <6> QED
            BY <6>1, <6>2, <6>3
        <5> QED
          BY <5>3
      <4> QED
        BY <3>1, <3>4, <3>5, <4>1, <4>2, <4>3, <4>4 DEF Follows
    <3>7. CASE page' = [page EXCEPT ![r] = q]
      <4>1. PagesFollow' /\ Received' = [Received EXCEPT ![r] = Append(p.got, id)]
        BY <1>2, <3>4, <3>6, <3>7 DEF Listening
      <4>2. Received[r] = p.got /\ Len(Received[r]) < Cardinality(Committed)
        BY <1>3, <2>1, <3>2 DEF Listening
      <4> QED
        BY <3>2, <4>1, <4>2 DEF PageStep
    <3> QED
      BY <2>1, <2>3, <3>3, <3>7 DEF q, NoId
  <2> QED
    BY <2>4, <2>5
<1> QED
  BY <1>5, <1>6, <1>8, <1>10, <1>12, <1>13 DEF Fallback

-----------------------------------------------------------------------------
(* The theorems.                                                           *)

StreamInv == Turns /\ LateAreHigher /\ PagesFollow

PageMoves(r) ==
    Load(r) \/ Connect(r) \/ Poll(r) \/ Deliver(r) \/ Break(r) \/ Fallback(r)

\* A step is a page's and leaves the table, or leaves the pages.
LEMMA StreamStep ==
    ASSUME ~SlowWorkers, TypeOK, TypeOK', StreamInv, [Next]_vars
    PROVE  /\ StreamInv' /\ GrowsAtEnd
           /\ \/ UNCHANGED page
              \/ UNCHANGED log /\ \E r \in Pages : PageStep(r)
<1> USE DEF StreamInv
<1>1. Turns' /\ LateAreHigher' /\ GrowsAtEnd
  BY TurnsKept, LateStayHigher
<1>2. CASE \E r \in Pages : PageMoves(r)
  <2>1. PICK r \in Pages : PageMoves(r)
    BY <1>2
  <2>2. PagesFollow' /\ PageStep(r)
    BY <2>1, PageFollows DEF PageMoves
  <2>3. UNCHANGED log
    BY <2>1 DEF PageMoves, Load, Connect, Poll, Deliver, Break, Fallback
  <2> QED
    BY <1>1, <2>2, <2>3
<1>3. CASE ~\E r \in Pages : PageMoves(r)
  <2>1. UNCHANGED page
    BY <1>3 DEF PageMoves, Next, Claim, Work, Start, Chunk, Persist, Settle, RunRaises, Fail,
                Die, Reclaim, ReadForDelete, Delete, vars
  <2> QED
    BY <1>1, <2>1, GrowthIsHarmless
<1> QED
  BY <1>2, <1>3

LEMMA StreamInvariant == ASSUME ~SlowWorkers PROVE Spec => []StreamInv
<1>1. Init => StreamInv
  <2> SUFFICES ASSUME Init PROVE StreamInv
    OBVIOUS
  <2>1. Turns
    BY DEF Init, Turns, Busy, Idle
  <2>2. \A w \in Workers : By(log, w) = {} /\ ~Busy(w)
    BY StreamAssumption DEF Init, By, Busy, Idle
  <2>3. \A r \in Pages : page[r].at \notin Listening
    BY DEF Init, Away, Listening
  <2> QED
    BY <2>1, <2>2, <2>3 DEF StreamInv, LateAreHigher, PagesFollow
<1>2. TypeOK /\ TypeOK' /\ StreamInv /\ [Next]_vars => StreamInv'
  BY StreamStep
<1> QED
  BY <1>1, <1>2, TypesHold, PTL DEF Spec

\* docs/03-api.md, "a reconnect neither drops nor repeats": whatever order
\* the transactions of runs, failures and cancels end in, and however often
\* the stream breaks, a page has received every event up to the last id it
\* keeps - as long as no lease runs out under a live worker.
THEOREM NothingIsSkipped == ASSUME ~SlowWorkers PROVE Spec => []NothingSkipped
<1>1. TypeOK /\ StreamInv => NothingSkipped
  <2> SUFFICES ASSUME TypeOK, StreamInv, NEW r \in Pages, page[r].at \in Listening
               PROVE  ToSet(page[r].got) = {i \in Committed : i <= page[r].last}
    BY DEF NothingSkipped
  <2> DEFINE got == page[r].got
             n == Len(got)
  <2>1. log \in Seq(Event) /\ page \in [Pages -> PageState]
    BY DEF TypeOK
  <2>2. got \in Seq(Nat) /\ n \in Nat
    BY <2>1 DEF PageState, Away, Listening
  <2>3. /\ n <= Cardinality(Committed) /\ page[r].last = Reached(Committed, n)
        /\ \A k \in 1 .. n : got[k] = InOrder(Committed)[k]
    BY DEF StreamInv, PagesFollow, Follows
  <2>4. n \in 0 .. Cardinality(Committed)
    BY <2>1, <2>2, <2>3, CommittedIsFinite
  <2>5. {i \in Committed : i <= page[r].last} = {InOrder(Committed)[k] : k \in 1 .. n}
    BY <2>1, <2>3, <2>4, CommittedIsFinite, PassedIds DEF UpTo
  <2>6. ToSet(got) = {got[k] : k \in 1 .. n}
    BY <2>2 DEF ToSet
  <2> QED
    BY <2>3, <2>5, <2>6
<1> QED
  BY <1>1, StreamInvariant, TypesHold, PTL

\* The table that several transactions write and the pages that poll it
\* implement EventFeed: one feed that grows at its end, and readers who
\* receive it in order, from its start, without a gap or a repetition.
THEOREM PagesReadOneFeed == ASSUME ~SlowWorkers PROVE Spec => FollowsFeed
<1> DEFINE feed == InOrder(Committed)
<1>1. Init => Feed!FeedInit
  <2> SUFFICES ASSUME Init PROVE Feed!FeedInit
    OBVIOUS
  <2>1. Committed = {1}
    BY DEF Init, Committed
  <2>2. Len(feed) = 1
    <3>1. {1} \in SUBSET Nat /\ IsFiniteSet({1}) /\ Cardinality({1}) = 1
      BY FS_Singleton
    <3> QED
      BY <2>1, <3>1, Ordered
  <2> QED
    BY <2>2 DEF Init, Feed!FeedInit, Away, Listening
<1>2. TypeOK /\ TypeOK' /\ StreamInv /\ [Next]_vars
        => [Feed!FeedNext]_<<feed, Received>>
  <2> SUFFICES ASSUME TypeOK, TypeOK', StreamInv, [Next]_vars
               PROVE  [Feed!FeedNext]_<<feed, Received>>
    OBVIOUS
  <2>0. log \in Seq(Event) /\ log' \in Seq(Event)
    BY DEF TypeOK
  <2>1. CASE UNCHANGED page
    <3>1. /\ Committed \in SUBSET Nat /\ IsFiniteSet(Committed)
          /\ Committed' \in SUBSET (1 .. Len(log')) /\ Len(log') \in Nat
      BY <2>0, CommittedIsFinite DEF Committed
    <3>2. IsFiniteSet(1 .. Len(log'))
      BY <3>1, FS_Interval
    <3>3. IsFiniteSet(Committed') /\ Committed' \in SUBSET Nat
      <4>1. IsFiniteSet(Committed')
        BY <3>1, <3>2, FS_Subset
      <4>2. 1 .. Len(log') \subseteq Nat
        BY <3>1
      <4> QED
        BY <3>1, <4>1, <4>2
    <3>4. /\ Cardinality(Committed) <= Cardinality(Committed')
          /\ \A n \in 1 .. Cardinality(Committed) :
                InOrder(Committed')[n] = InOrder(Committed)[n]
      BY <3>3, StreamStep, HigherIdsAppend DEF GrowsAtEnd
    <3>5. /\ feed \in Seq(Committed) /\ Len(feed) = Cardinality(Committed)
          /\ InOrder(Committed') \in Seq(Committed')
          /\ Len(InOrder(Committed')) = Cardinality(Committed')
      BY <3>1, <3>3, Ordered
    <3>6. feed \in Seq(Nat) /\ InOrder(Committed') \in Seq(Nat)
      BY <3>1, <3>3, <3>5, SeqMonotonic
    <3>7. Feed!IsPrefixOf(feed, InOrder(Committed'))
      <4> DEFINE start == SubSeq(InOrder(Committed'), 1, Len(feed))
      <4>1. Len(feed) \in 0 .. Len(InOrder(Committed'))
        BY <3>4, <3>5, <3>6
      <4>2. /\ start \in Seq(Nat) /\ Len(start) = Len(feed)
            /\ \A k \in 1 .. Len(feed) : start[k] = InOrder(Committed')[k]
        BY <3>6, <4>1, PrefixOfIds
      <4> HIDE DEF start
      <4>3. \A k \in 1 .. Len(feed) : start[k] = feed[k]
        BY <3>4, <3>5, <4>2
      <4>4. feed = start
        BY <3>6, <4>2, <4>3, SeqEqual
      <4> QED
        BY <4>1, <4>4 DEF Feed!IsPrefixOf, start
    <3>8. UNCHANGED Received
      BY <2>1 DEF Received
    <3>9. Feed!Publish
      BY <3>7, <3>8 DEF Feed!Publish, Received
    <3> QED
      BY <3>9 DEF Feed!FeedNext
  <2>2. ASSUME NEW r \in Pages, UNCHANGED log, PageStep(r)
        PROVE  [Feed!FeedNext]_<<feed, Received>>
    <3>1. UNCHANGED feed
      BY <2>2 DEF Committed
    <3>2. CASE UNCHANGED Received
      BY <3>1, <3>2
    <3>3. CASE Received' = [Received EXCEPT ![r] = <<>>]
      <4>1. Feed!StartOver(r)
        BY <3>1, <3>3 DEF Feed!StartOver, Received
      <4> QED
        BY <4>1 DEF Feed!FeedNext
    <3>4. CASE /\ Len(Received[r]) < Cardinality(Committed)
               /\ Received' = [Received EXCEPT ![r] =
                      Append(Received[r], InOrder(Committed)[Len(Received[r]) + 1])]
      <4>1. Len(feed) = Cardinality(Committed)
        BY <2>0, CommittedIsFinite, Ordered
      <4>2. Feed!Receive(r)
        BY <3>1, <3>4, <4>1 DEF Feed!Receive, Received
      <4> QED
        BY <4>2 DEF Feed!FeedNext
    <3> QED
      BY <2>2, <3>2, <3>3, <3>4 DEF PageStep
  <2> QED
    BY <2>1, <2>2, StreamStep
<1> QED
  BY <1>1, <1>2, StreamInvariant, TypesHold, PTL DEF Spec, FollowsFeed, Feed!FeedSpec, Received
=============================================================================
