--------------------------- MODULE LedgersProofs ----------------------------
(***************************************************************************)
(* Proofs about the books kept in memory and beside it: the queue of the   *)
(* recovery worker, the live metrics and the capacity limits.              *)
(***************************************************************************)
EXTENDS RecoveryWorker, LiveMetrics, Capacity, InductionLemmas

(* Proofs about RecoveryWorker for any gates, goroutines, queue and page   *)
(* sizes.                                                                  *)

Scopes(q) == {q[i].scope : i \in DOMAIN q}
Busy == {work[g].scope : g \in Active}

GatesOK ==
  /\ st \in [Gates -> {"closed", "cooling", "backing", "due"}]
  /\ line \in Seq(Gates) /\ Distinct(line) /\ \A s : Has(line, s) <=> s \in Gates /\ st[s] = "due"
  /\ held \in [Gates -> Slots \cup {"free", "lease", "other"}]
TasksOK == tasks \in Seq(Task) /\ pending \in Seq(Task) /\ Len(pending) <= QueueLimit
LoopOK ==
  /\ pc \in {"loop", "scan", "claim", "select", "drain", "stopped"}
  /\ offset \in Nat /\ faults \in Nat /\ others \in Nat /\ cancelled \in BOOLEAN
WorkOK ==
  /\ work \in [Slots -> {Idle} \cup [ph : {"running", "sent"}, scope : Gates]]
  /\ pc = "stopped" => \A g \in Slots : ~Running(g)
MarksOK ==
  /\ queued \subseteq Gates
  /\ pc \notin {"drain", "stopped"} => queued \subseteq Scopes(pending) \cup Busy

(* The inductive invariant is what NothingLeftBehind says, with line in    *)
(* the terms of the lemmas on filters.                                     *)
WorkerInv == GatesOK /\ TasksOK /\ LoopOK /\ WorkOK /\ MarksOK
-----------------------------------------------------------------------------
LEMMA AgedFacts ==
  ASSUME NEW q \in Seq(Task), NEW s
  PROVE  Aged(q, s) \in Seq(Task) /\ Len(Aged(q, s)) = Len(q) /\ Scopes(Aged(q, s)) = Scopes(q)
<1> DEFINE t == Aged(q, s)
<1>1. DOMAIN t = DOMAIN q /\ DOMAIN q = 1..Len(q) /\ Len(q) \in Nat /\ \A i \in DOMAIN q : q[i] \in Task
  BY DEF Aged
<1>2. \A i \in DOMAIN q : t[i] = IF q[i].scope = s THEN [q[i] EXCEPT !.fresh = FALSE] ELSE q[i]
  BY Zenon DEF Aged
<1>3. \A i \in DOMAIN q : t[i] \in Task /\ t[i].scope = q[i].scope
  BY <1>1, <1>2, Zenon DEF Task
<1> HIDE DEF t
<1>4. t \in Seq(Task) /\ Len(t) = Len(q)
  <2>1. t \in [1..Len(q) -> Task]
    <3>1. t = [i \in DOMAIN q |-> t[i]]
      BY Zenon DEF t, Aged
    <3> QED
      BY <1>1, <1>3, <3>1, Zenon
  <2> QED
    BY <1>1, <2>1
<1>5. Scopes(t) = Scopes(q)
  BY <1>1, <1>3, Zenon DEF Scopes
<1> QED
  BY <1>4, <1>5, Zenon DEF t

LEMMA DropFacts ==
  ASSUME GatesOK, NEW s
  PROVE  Drop(s) \in Seq(Gates) /\ Distinct(Drop(s)) /\ \A q : Has(Drop(s), q) <=> q \in Gates \ {s} /\ st[q] = "due"
<1>1. line \in Seq(Gates) /\ Distinct(line) /\ \A q : Has(line, q) <=> q \in Gates /\ st[q] = "due"
  BY Zenon DEF GatesOK
<1>2. /\ Kept(line, Gates \ {s}) \in Seq(Gates) /\ Distinct(Kept(line, Gates \ {s}))
      /\ \A q : Has(Kept(line, Gates \ {s}), q) <=> q \in Gates \ {s} /\ Has(line, q)
  BY <1>1, KeptFacts, Zenon
<1> QED
  BY <1>1, <1>2, Zenon DEF Drop

LEMMA BetweenFacts ==
  ASSUME NEW T, NEW q \in Seq(T), NEW lo \in Nat, NEW hi \in Nat
  PROVE  Between(q, lo, hi) \in Seq(T) /\ Len(Between(q, 0, hi)) <= hi
<1>1. CASE hi < Len(q)
  <2>1. Between(q, lo, hi) = SubSeq(q, lo + 1, hi) /\ Between(q, 0, hi) = SubSeq(q, 1, hi)
    BY <1>1 DEF Between
  <2>2. SubSeq(q, lo + 1, hi) \in Seq(T) /\ Len(SubSeq(q, 1, hi)) = hi
    BY <1>1
  <2> QED
    BY <2>1, <2>2
<1>2. CASE ~(hi < Len(q))
  <2>1. Between(q, lo, hi) = SubSeq(q, lo + 1, Len(q)) /\ Between(q, 0, hi) = SubSeq(q, 1, Len(q))
    BY <1>2 DEF Between
  <2>2. SubSeq(q, lo + 1, Len(q)) \in Seq(T) /\ Len(SubSeq(q, 1, Len(q))) = Len(q) /\ Len(q) <= hi
    BY <1>2
  <2> QED
    BY <2>1, <2>2, Zenon
<1> QED
  BY <1>1, <1>2, Zenon

LEMMA FoundFacts ==
  ASSUME NEW q \in Seq(Gates)
  PROVE  Found(q) \in Seq(Task)
<1>1. DOMAIN q = 1..Len(q) /\ Len(q) \in Nat /\ \A i \in DOMAIN q : q[i] \in Gates
  OBVIOUS
<1>2. \A i \in DOMAIN q : [scope |-> q[i], fresh |-> TRUE] \in Task
  BY <1>1, Zenon DEF Task
<1>3. Found(q) \in [1..Len(q) -> Task]
  BY <1>1, <1>2, Zenon DEF Found
<1> QED
  BY <1>1, <1>3

(* A gate leaves the line, whatever becomes of it.                         *)
LEMMA LeavesLine ==
  ASSUME GatesOK, NEW s \in Gates, NEW to \in {"closed", "cooling", "backing"},
         st' = [st EXCEPT ![s] = to], line' = Drop(s), held' = [held EXCEPT ![s] = "free"]
  PROVE  GatesOK'
<1>1. /\ st' \in [Gates -> {"closed", "cooling", "backing", "due"}]
      /\ held' \in [Gates -> Slots \cup {"free", "lease", "other"}]
      /\ \A q \in Gates : st'[q] = IF q = s THEN to ELSE st[q]
  BY Zenon DEF GatesOK
<1>2. line' \in Seq(Gates) /\ Distinct(line') /\ \A q : Has(line', q) <=> q \in Gates \ {s} /\ st[q] = "due"
  BY DropFacts, Zenon
<1>3. \A q : Has(line', q) <=> q \in Gates /\ st'[q] = "due"
  BY <1>1, <1>2, Zenon
<1> QED
  BY <1>1, <1>2, <1>3, Zenon DEF GatesOK, Distinct, Has

LEMMA MovesKeeps ==
  ASSUME GatesOK, TasksOK, NEW s \in Gates, NEW to \in {"closed", "cooling", "backing"}, Moves(s, to)
  PROVE  GatesOK' /\ TasksOK' /\ Scopes(pending') = Scopes(pending)
<1>1. GatesOK'
  BY LeavesLine, Zenon DEF Moves
<1>2. tasks' = Aged(tasks, s) /\ pending' = Aged(pending, s)
  BY Zenon DEF Moves
<1>3. tasks' \in Seq(Task) /\ pending' \in Seq(Task) /\ Len(pending') = Len(pending) /\ Scopes(pending') = Scopes(pending)
  BY <1>2, AgedFacts, Zenon DEF TasksOK
<1> QED
  BY <1>1, <1>3, Zenon DEF TasksOK

LEMMA RestsKeeps ==
  ASSUME GatesOK, TasksOK, NEW s \in Gates, Rests(s)
  PROVE  GatesOK' /\ TasksOK' /\ Scopes(pending') = Scopes(pending)
<1>1. GatesOK'
  BY LeavesLine, Zenon DEF Rests
<1> QED
  BY <1>1, Zenon DEF TasksOK, Rests

\* Only the holder of a gate changes.
LEMMA HeldKeeps ==
  ASSUME GatesOK, NEW s \in Gates, NEW h \in Slots \cup {"free", "lease", "other"},
         held' = [held EXCEPT ![s] = h], UNCHANGED <<st, line>>
  PROVE  GatesOK'
BY Zenon DEF GatesOK, Distinct, Has

LEMMA BusyNext ==
  ASSUME UNCHANGED work
  PROVE  Busy' = Busy /\ (WorkOK /\ (pc' = pc \/ pc' # "stopped") => WorkOK')
BY Zenon DEF Busy, Active, WorkOK, Running

\* The gates and the tasks change, the loop and its goroutines do not.
LEMMA QuietKeeps ==
  ASSUME WorkerInv, GatesOK', TasksOK', Scopes(pending') = Scopes(pending),
         UNCHANGED <<pc, offset, queued, work>>, faults' \in Nat, others' \in Nat, cancelled' \in BOOLEAN
  PROVE  WorkerInv'
<1>1. WorkOK' /\ Busy' = Busy
  BY BusyNext, Zenon DEF WorkerInv
<1>2. LoopOK'
  BY Zenon DEF WorkerInv, LoopOK
<1>3. MarksOK'
  <2>1. Scopes(pending)' = Scopes(pending)
    BY Zenon DEF Scopes
  <2> QED
    BY <1>1, <2>1, Zenon DEF WorkerInv, MarksOK
<1> QED
  BY <1>1, <1>2, <1>3, Zenon DEF WorkerInv

LEMMA EnvironmentKeeps ==
  ASSUME WorkerInv, Environment
  PROVE  WorkerInv'
<1>1. GatesOK /\ TasksOK /\ LoopOK /\ faults \in Nat /\ others \in Nat /\ cancelled \in BOOLEAN
  BY Zenon DEF WorkerInv, LoopOK
<1>2. ASSUME NEW s \in Gates, Trip(s) PROVE WorkerInv'
  <2>1. Moves(s, "cooling") /\ UNCHANGED <<pc, offset, queued, work, cancelled, faults, others>>
    BY <1>2, Zenon DEF Trip, bounds
  <2>2. GatesOK' /\ TasksOK' /\ Scopes(pending') = Scopes(pending)
    BY <1>1, <2>1, MovesKeeps, Zenon
  <2> QED
    BY <1>1, <2>1, <2>2, QuietKeeps, Zenon
<1>3. ASSUME NEW s \in Gates, DeadlinePasses(s) PROVE WorkerInv'
  <2>1. /\ st[s] \in {"cooling", "backing"} /\ st' = [st EXCEPT ![s] = "due"] /\ line' = Append(line, s)
        /\ UNCHANGED <<held, pc, offset, tasks, pending, queued, work, cancelled, faults, others>>
    BY <1>3, Zenon DEF DeadlinePasses, bounds, queue
  <2>2. /\ line \in Seq(Gates) /\ Distinct(line) /\ ~Has(line, s)
        /\ \A q : Has(line, q) <=> q \in Gates /\ st[q] = "due"
    BY <1>1, <2>1, Zenon DEF GatesOK
  <2>3. /\ line' \in Seq(Gates) /\ Distinct(line')
        /\ \A q : Has(line', q) <=> Has(line, q) \/ q = s
    BY <2>1, <2>2, HasAppend, Zenon
  <2>4. /\ st' \in [Gates -> {"closed", "cooling", "backing", "due"}]
        /\ \A q \in Gates : st'[q] = IF q = s THEN "due" ELSE st[q]
    BY <1>1, <2>1, Zenon DEF GatesOK
  <2>5. \A q : Has(line', q) <=> q \in Gates /\ st'[q] = "due"
    BY <2>2, <2>3, <2>4, Zenon
  <2>6. GatesOK'
    BY <1>1, <2>1, <2>3, <2>4, <2>5, Zenon DEF GatesOK, Distinct, Has
  <2>7. TasksOK' /\ Scopes(pending') = Scopes(pending)
    BY <1>1, <2>1, Zenon DEF TasksOK
  <2> QED
    BY <1>1, <2>1, <2>6, <2>7, QuietKeeps, Zenon
<1>4. ASSUME NEW s \in Gates, NEW h \in {"free", "lease", "other"}, held' = [held EXCEPT ![s] = h],
             UNCHANGED <<st, line, tasks, pending, pc, offset, queued, work, cancelled>>,
             faults' \in Nat, others' \in Nat
      PROVE  WorkerInv'
  <2>1. GatesOK'
    BY <1>1, <1>4, HeldKeeps, Zenon
  <2>2. TasksOK' /\ Scopes(pending') = Scopes(pending) /\ cancelled' \in BOOLEAN
    BY <1>1, <1>4, Zenon DEF TasksOK
  <2> QED
    BY <1>4, <2>1, <2>2, QuietKeeps, Zenon
<1>5. ASSUME NEW s \in Gates, Lease(s) \/ OtherClaims(s) \/ ClaimExpires(s) PROVE WorkerInv'
  <2>1. CASE Lease(s)
    BY <1>1, <1>4, <2>1, Zenon DEF Lease, queue, bounds
  <2>2. CASE OtherClaims(s)
    <3>1. others' \in Nat /\ faults' = faults /\ held' = [held EXCEPT ![s] = "other"]
          /\ UNCHANGED <<st, line, tasks, pending, pc, offset, queued, work, cancelled>>
      BY <1>1, <2>2 DEF OtherClaims, queue
    <3> QED
      BY <1>1, <1>4, <3>1, Zenon
  <2>3. CASE ClaimExpires(s)
    <3>1. faults' \in Nat /\ others' = others /\ held' = [held EXCEPT ![s] = "free"]
          /\ UNCHANGED <<st, line, tasks, pending, pc, offset, queued, work, cancelled>>
      BY <1>1, <2>3 DEF ClaimExpires, queue
    <3> QED
      BY <1>1, <1>4, <3>1, Zenon
  <2> QED
    BY <1>5, <2>1, <2>2, <2>3, Zenon
<1>6. ASSUME NEW s \in Gates, LeaseEnds(s) \/ OtherEnds(s) PROVE WorkerInv'
  <2>1. /\ UNCHANGED <<pc, offset, queued, work, cancelled, faults, others>>
        /\ \/ Moves(s, "closed") \/ Moves(s, "cooling") \/ Rests(s)
           \/ held' = [held EXCEPT ![s] = "free"] /\ UNCHANGED <<st, line, tasks, pending>>
    BY <1>6, Zenon DEF LeaseEnds, OtherEnds, bounds
  <2>2. CASE Moves(s, "closed") \/ Moves(s, "cooling")
    <3>1. GatesOK' /\ TasksOK' /\ Scopes(pending') = Scopes(pending)
      BY <1>1, <2>2, MovesKeeps, Zenon
    <3> QED
      BY <1>1, <2>1, <3>1, QuietKeeps, Zenon
  <2>3. CASE Rests(s)
    <3>1. GatesOK' /\ TasksOK' /\ Scopes(pending') = Scopes(pending)
      BY <1>1, <2>3, RestsKeeps, Zenon
    <3> QED
      BY <1>1, <2>1, <3>1, QuietKeeps, Zenon
  <2>4. CASE held' = [held EXCEPT ![s] = "free"] /\ UNCHANGED <<st, line, tasks, pending>>
    BY <1>1, <1>4, <2>1, <2>4, Zenon
  <2> QED
    BY <2>1, <2>2, <2>3, <2>4, Zenon
<1>7. ASSUME Cancel PROVE WorkerInv'
  <2>1. UNCHANGED <<st, line, held, tasks, pending, pc, offset, queued, work, faults, others>> /\ cancelled' = TRUE
    BY <1>7, Zenon DEF Cancel, gates, queue, bounds
  <2>2. GatesOK' /\ TasksOK' /\ Scopes(pending') = Scopes(pending)
    BY <1>1, <2>1, Zenon DEF GatesOK, TasksOK
  <2> QED
    BY <1>1, <2>1, <2>2, QuietKeeps, Zenon
<1> QED
  BY <1>2, <1>3, <1>5, <1>6, <1>7, Zenon DEF Environment

LEMMA GoroutinesKeep ==
  ASSUME WorkerInv, NEW g \in Slots, CheckEnds(g) \/ CheckLost(g)
  PROVE  WorkerInv'
<1> DEFINE s == work[g].scope
<1>1. GatesOK /\ TasksOK /\ LoopOK /\ WorkOK /\ MarksOK /\ faults \in Nat
  BY Zenon DEF WorkerInv, LoopOK
<1>2. /\ work[g].ph = "running" /\ work' = [work EXCEPT ![g] = [ph |-> "sent", scope |-> s]]
      /\ UNCHANGED <<pc, offset, queued, cancelled, others>> /\ faults' \in Nat
  BY <1>1 DEF CheckEnds, CheckLost, Running, bounds, queue
<1>3. work[g] \in [ph : {"running", "sent"}, scope : Gates] /\ s \in Gates
  BY <1>1, <1>2 DEF WorkOK, Idle
<1>4. GatesOK' /\ TasksOK' /\ Scopes(pending') = Scopes(pending)
  <2>1. CASE UNCHANGED <<st, line, held, tasks, pending>>
    BY <1>1, <2>1, Zenon DEF GatesOK, TasksOK
  <2>2. CASE Moves(s, "closed")
    BY <1>1, <1>3, <2>2, MovesKeeps, Zenon
  <2>3. CASE Rests(s)
    BY <1>1, <1>3, <2>3, RestsKeeps, Zenon
  <2>4. \/ UNCHANGED <<st, line, held, tasks, pending>> \/ Moves(s, "closed") \/ Rests(s)
    BY Zenon DEF CheckEnds, CheckLost, gates, queue
  <2> QED
    BY <2>1, <2>2, <2>3, <2>4, Zenon
<1>5. WorkOK'
  <2>1. work' \in [Slots -> {Idle} \cup [ph : {"running", "sent"}, scope : Gates]]
    BY <1>1, <1>2, <1>3, Zenon DEF WorkOK
  <2>2. \A h \in Slots : work'[h].ph = "running" => work[h].ph = "running"
    BY <1>1, <1>2, Zenon DEF WorkOK
  <2> QED
    BY <1>1, <1>2, <2>1, <2>2, Zenon DEF WorkOK, Running
<1>6. Busy' = Busy
  <2>1. /\ \A h \in Slots \ {g} : work'[h] = work[h]
        /\ work'[g] = [ph |-> "sent", scope |-> s] /\ work'[g] # Idle /\ work[g] # Idle
    BY <1>1, <1>2, <1>3 DEF WorkOK, Idle
  <2>2. Active' = Active
    BY <2>1, Zenon DEF Active
  <2>3. \A h \in Slots : work'[h].scope = work[h].scope
    BY <2>1
  <2> QED
    BY <2>2, <2>3, Zenon DEF Busy, Active
<1>7. MarksOK'
  <2>1. Scopes(pending)' = Scopes(pending)
    BY <1>4, Zenon DEF Scopes
  <2> QED
    BY <1>1, <1>2, <1>6, <2>1, Zenon DEF MarksOK
<1> QED
  BY <1>1, <1>2, <1>4, <1>5, <1>7, Zenon DEF WorkerInv, LoopOK
-----------------------------------------------------------------------------
LEMMA ScopesOfTail ==
  ASSUME NEW q \in Seq(Task), q # <<>>
  PROVE  /\ Tail(q) \in Seq(Task) /\ Len(Tail(q)) <= Len(q) /\ Head(q) \in Task
         /\ Scopes(q) = Scopes(Tail(q)) \cup {Head(q).scope}
<1> DEFINE t == Tail(q)
           n == Len(q)
<1>1. /\ n \in Nat /\ n > 0 /\ DOMAIN q = 1..n /\ Head(q) = q[1] /\ \A i \in 1..n : q[i] \in Task
      /\ t \in Seq(Task) /\ Len(t) = n - 1 /\ DOMAIN t = 1..(n - 1) /\ \A i \in 1..(n - 1) : t[i] = q[i + 1]
  OBVIOUS
<1> HIDE DEF t, n
<1>2. \A i \in 1..n : i = 1 \/ (i - 1 \in 1..(n - 1) /\ t[i - 1] = q[i])
  BY <1>1
<1>3. \A i \in 1..(n - 1) : i + 1 \in 1..n /\ t[i] = q[i + 1]
  BY <1>1
<1>4. 1 \in 1..n
  BY <1>1
<1>5. ASSUME NEW i \in 1..n PROVE q[i].scope \in Scopes(t) \cup {Head(q).scope}
  BY <1>1, <1>2, <1>5, Zenon DEF Scopes
<1>6. ASSUME NEW i \in 1..(n - 1) PROVE t[i].scope \in Scopes(q)
  BY <1>1, <1>3, <1>6, Zenon DEF Scopes
<1>7. Head(q).scope \in Scopes(q)
  BY <1>1, <1>4, Zenon DEF Scopes
<1>8. Scopes(q) = Scopes(t) \cup {Head(q).scope}
  <2>1. \A x \in Scopes(q) : \E i \in 1..n : x = q[i].scope
    BY <1>1, Zenon DEF Scopes
  <2>2. \A x \in Scopes(t) : \E i \in 1..(n - 1) : x = t[i].scope
    BY <1>1, Zenon DEF Scopes
  <2> QED
    BY <1>5, <1>6, <1>7, <2>1, <2>2, Zenon
<1>9. Len(t) <= n /\ Head(q) \in Task
  BY <1>1, <1>4
<1> QED
  BY <1>1, <1>8, <1>9, Zenon DEF t, n

LEMMA ScopesOfBoth ==
  ASSUME NEW q \in Seq(Task), NEW r \in Seq(Task)
  PROVE  q \o r \in Seq(Task) /\ Len(q \o r) = Len(q) + Len(r) /\ Scopes(q) \cup Scopes(r) \subseteq Scopes(q \o r)
<1> DEFINE t == q \o r
<1>1. /\ DOMAIN q = 1..Len(q) /\ DOMAIN r = 1..Len(r) /\ Len(q) \in Nat /\ Len(r) \in Nat
      /\ t \in Seq(Task) /\ Len(t) = Len(q) + Len(r) /\ DOMAIN t = 1..(Len(q) + Len(r))
      /\ \A i \in 1..Len(q) : t[i] = q[i]
      /\ \A i \in 1..Len(r) : t[Len(q) + i] = r[i]
  OBVIOUS
<1> HIDE DEF t
<1>2. ASSUME NEW i \in DOMAIN q PROVE q[i].scope \in Scopes(t)
  <2>1. i \in DOMAIN t /\ t[i] = q[i]
    BY <1>1
  <2> QED
    BY <2>1, Zenon DEF Scopes
<1>3. ASSUME NEW i \in DOMAIN r PROVE r[i].scope \in Scopes(t)
  <2>1. Len(q) + i \in DOMAIN t /\ t[Len(q) + i] = r[i]
    BY <1>1
  <2> QED
    BY <2>1, Zenon DEF Scopes
<1>4. Scopes(q) \cup Scopes(r) \subseteq Scopes(t)
  BY <1>2, <1>3, Zenon DEF Scopes
<1> QED
  BY <1>1, <1>4, Zenon DEF t

(* A step of the loop that leaves the gates and the goroutines alone.      *)
LEMMA LoopKeeps ==
  ASSUME WorkerInv, UNCHANGED <<st, line, held, work>>, TasksOK', LoopOK', pc' # "stopped",
         queued' \subseteq Gates, pc' # "drain" => queued' \subseteq Scopes(pending') \cup Busy
  PROVE  WorkerInv'
<1>1. GatesOK'
  BY Zenon DEF WorkerInv, GatesOK
<1>2. WorkOK' /\ Busy' = Busy
  BY BusyNext, Zenon DEF WorkerInv
<1>3. MarksOK'
  <2>1. Scopes(pending)' = Scopes(pending')
    BY Zenon DEF Scopes
  <2> QED
    BY <1>2, <2>1, Zenon DEF MarksOK
<1> QED
  BY <1>1, <1>2, <1>3, Zenon DEF WorkerInv

LEMMA ScanKeeps ==
  ASSUME WorkerInv, ScanPage
  PROVE  WorkerInv'
<1> DEFINE rows == Kept(line, {s \in Gates : held[s] = "free"})
           page == Between(rows, offset, offset + PageSize)
           found == Kept(page, {s \in Gates : Wanted(s)})
           all == tasks \o Found(found)
           kept == Between(all, 0, Room)
<1>1. /\ line \in Seq(Gates) /\ tasks \in Seq(Task) /\ pending \in Seq(Task) /\ Len(pending) <= QueueLimit
      /\ offset \in Nat /\ PageSize \in Nat /\ QueueLimit \in Nat /\ pc = "scan" /\ queued \subseteq Gates
      /\ queued \subseteq Scopes(pending) \cup Busy /\ LoopOK
  BY WorkerAssumption, Zenon DEF WorkerInv, GatesOK, TasksOK, LoopOK, MarksOK, ScanPage
<1>2. rows \in Seq(Gates)
  BY <1>1, KeptFacts, Zenon
<1> HIDE DEF rows
<1>3. page \in Seq(Gates)
  <2>1. offset + PageSize \in Nat
    BY <1>1
  <2> QED
    BY <1>1, <1>2, <2>1, BetweenFacts, Zenon
<1> HIDE DEF page
<1>4. found \in Seq(Gates)
  BY <1>3, KeptFacts, Zenon
<1> HIDE DEF found
<1>5. Found(found) \in Seq(Task)
  BY <1>4, FoundFacts, Zenon
<1>6. all \in Seq(Task)
  BY <1>1, <1>5, ScopesOfBoth, Zenon
<1> HIDE DEF all
<1>7. Room \in Nat /\ Room + Len(pending) = QueueLimit
  BY <1>1 DEF Room
<1>8. kept \in Seq(Task) /\ Len(kept) <= Room
  BY <1>6, <1>7, BetweenFacts, Zenon
<1> HIDE DEF kept
<1>9. /\ UNCHANGED <<st, line, held, work, cancelled, faults, others>>
      /\ \/ /\ tasks' = all /\ offset' = offset + PageSize /\ UNCHANGED <<pc, pending, queued>>
         \/ /\ tasks' = <<>> /\ offset' = 0 /\ pc' = "claim" /\ pending' = pending \o kept
            /\ queued' = queued \cup Scopes(kept)
  BY Zenon DEF ScanPage, gates, bounds, rows, page, found, all, kept, Scopes
<1>10. CASE tasks' = all /\ offset' = offset + PageSize /\ UNCHANGED <<pc, pending, queued>>
  <2>1. TasksOK' /\ LoopOK'
    BY <1>1, <1>6, <1>9, <1>10 DEF TasksOK, LoopOK
  <2> QED
    BY <1>1, <1>9, <1>10, <2>1, LoopKeeps, Zenon
<1>11. CASE tasks' = <<>> /\ offset' = 0 /\ pc' = "claim" /\ pending' = pending \o kept
            /\ queued' = queued \cup Scopes(kept)
  <2>1. /\ pending' \in Seq(Task) /\ Len(pending') = Len(pending) + Len(kept)
        /\ Scopes(pending) \cup Scopes(kept) \subseteq Scopes(pending')
    BY <1>1, <1>8, <1>11, ScopesOfBoth, Zenon
  <2>2. Len(pending) \in Nat /\ Len(kept) \in Nat /\ tasks' \in Seq(Task)
    BY <1>1, <1>8, <1>11
  <2>3. TasksOK' /\ LoopOK'
    BY <1>1, <1>7, <1>8, <1>9, <1>11, <2>1, <2>2 DEF TasksOK, LoopOK
  <2>4. Scopes(kept) \subseteq Gates
    <3>1. \A i \in DOMAIN kept : kept[i] \in Task
      BY <1>8
    <3> QED
      BY <3>1, Zenon DEF Scopes, Task
  <2> QED
    BY <1>1, <1>9, <1>11, <2>1, <2>3, <2>4, LoopKeeps, Zenon
<1> QED
  BY <1>9, <1>10, <1>11, Zenon

(* The first task is refused, or its claim fails: its mark goes with it.   *)
LEMMA DropsHead ==
  ASSUME WorkerInv, MayClaim, Unqueue(Head(pending).scope), pending' = Tail(pending),
         UNCHANGED <<st, line, held, pc, offset, tasks, work, cancelled>>, faults' \in Nat, others' \in Nat
  PROVE  WorkerInv'
<1>1. /\ pending \in Seq(Task) /\ pending # <<>> /\ pc = "claim" /\ queued \subseteq Gates
      /\ queued \subseteq Scopes(pending) \cup Busy /\ Len(pending) <= QueueLimit /\ QueueLimit \in Nat
  BY WorkerAssumption, Zenon DEF WorkerInv, TasksOK, MayClaim, MarksOK
<1>2. /\ pending' \in Seq(Task) /\ Len(pending') <= Len(pending)
      /\ Scopes(pending) = Scopes(pending') \cup {Head(pending).scope}
  BY <1>1, ScopesOfTail, Zenon
<1>3. Len(pending) \in Nat /\ Len(pending') \in Nat
  BY <1>1, <1>2
<1>4. TasksOK' /\ LoopOK'
  BY <1>1, <1>2, <1>3 DEF WorkerInv, TasksOK, LoopOK
<1>5. queued' = queued \ {Head(pending).scope}
  BY Zenon DEF Unqueue
<1> QED
  BY <1>1, <1>2, <1>4, <1>5, LoopKeeps, Zenon

LEMMA StartKeeps ==
  ASSUME WorkerInv, Start
  PROVE  WorkerInv'
<1> DEFINE s == Head(pending).scope
<1>1. /\ pending \in Seq(Task) /\ pending # <<>> /\ pc = "claim" /\ queued \subseteq Gates
      /\ queued \subseteq Scopes(pending) \cup Busy /\ Len(pending) <= QueueLimit /\ QueueLimit \in Nat
      /\ GatesOK /\ WorkOK
  BY WorkerAssumption, Zenon DEF WorkerInv, TasksOK, MayClaim, MarksOK, Start
<1>2. /\ Tail(pending) \in Seq(Task) /\ Len(Tail(pending)) <= Len(pending) /\ Head(pending) \in Task
      /\ Scopes(pending) = Scopes(Tail(pending)) \cup {s}
  BY <1>1, ScopesOfTail, Zenon
<1>3. s \in Gates
  BY <1>2, Zenon DEF Task
<1>4. PICK g \in Slots \ Active : /\ held' = [held EXCEPT ![s] = g]
                                 /\ work' = [work EXCEPT ![g] = [ph |-> "running", scope |-> s]]
  BY Zenon DEF Start
<1>5. pending' = Tail(pending) /\ UNCHANGED <<st, line, pc, offset, tasks, queued, cancelled, faults, others>>
  BY Zenon DEF Start, bounds
<1> HIDE DEF s
<1>6. GatesOK'
  BY <1>1, <1>3, <1>4, <1>5, HeldKeeps, Zenon
<1>7. Len(pending) \in Nat /\ Len(pending') \in Nat
  BY <1>1, <1>2, <1>5
<1>8. TasksOK' /\ LoopOK'
  BY <1>1, <1>2, <1>5, <1>7 DEF WorkerInv, TasksOK, LoopOK
<1>9. WorkOK'
  BY <1>1, <1>3, <1>4, <1>5, Zenon DEF WorkOK
<1>10. Busy \cup {s} \subseteq Busy'
  <2>1. /\ \A h \in Slots \ {g} : work'[h] = work[h]
        /\ work'[g] = [ph |-> "running", scope |-> s] /\ work'[g].scope = s /\ g \in Slots
        /\ work'[g].ph = "running"
    BY <1>1, <1>4, Zenon DEF WorkOK
  <2>2. work'[g] # Idle
    BY <2>1 DEF Idle
  <2>3. g \in Active' /\ Active \subseteq Active'
    BY <2>1, <2>2, Zenon DEF Active
  <2>4. g \notin Active
    BY Zenon
  <2>5. s \in Busy'
    BY <2>1, <2>3, Zenon DEF Busy
  <2>6. \A h \in Active : h \in Active' /\ work'[h].scope = work[h].scope
    BY <2>1, <2>3, <2>4, Zenon DEF Active
  <2>7. Busy \subseteq Busy'
    BY <2>6, Zenon DEF Busy
  <2> QED
    BY <2>5, <2>7, Zenon
<1>11. MarksOK'
  <2>1. Scopes(pending)' = Scopes(Tail(pending))
    BY <1>5, Zenon DEF Scopes
  <2> QED
    BY <1>1, <1>2, <1>5, <1>10, <2>1, Zenon DEF MarksOK
<1> QED
  BY <1>6, <1>8, <1>9, <1>11, Zenon DEF WorkerInv

LEMMA ReceiveKeeps ==
  ASSUME WorkerInv, NEW g \in Slots, Receive(g)
  PROVE  WorkerInv'
<1> DEFINE s == work[g].scope
<1>1. GatesOK /\ TasksOK /\ LoopOK /\ WorkOK /\ MarksOK
  BY Zenon DEF WorkerInv
<1>2. /\ pc \in {"select", "drain"} /\ work[g].ph = "sent" /\ work' = [work EXCEPT ![g] = Idle]
      /\ UNCHANGED <<st, line, held, offset, tasks, pending, cancelled, faults, others>>
      /\ \/ pc = "select" /\ pc' = "loop" /\ queued' = queued \ {s}
         \/ pc = "drain" /\ UNCHANGED <<pc, queued>>
  BY Zenon DEF Receive, gates, bounds, Unqueue
<1>3. GatesOK' /\ TasksOK' /\ LoopOK'
  BY <1>1, <1>2, Zenon DEF GatesOK, TasksOK, LoopOK
<1>4. WorkOK'
  BY <1>1, <1>2, Zenon DEF WorkOK
<1>5. Busy \subseteq Busy' \cup {s}
  <2>1. \A h \in Slots \ {g} : work'[h] = work[h]
    BY <1>1, <1>2, Zenon DEF WorkOK
  <2>2. \A h \in Active \ {g} : h \in Active' /\ work'[h].scope = work[h].scope
    BY <2>1, Zenon DEF Active
  <2>3. ASSUME NEW x \in Busy PROVE x \in Busy' \cup {s}
    <3>1. PICK h \in Active : x = work[h].scope
      BY <2>3, Zenon DEF Busy
    <3>2. CASE h = g
      BY <3>1, <3>2, Zenon
    <3>3. CASE h # g
      <4>1. h \in Active' /\ work'[h].scope = x
        BY <2>2, <3>1, <3>3, Zenon
      <4> QED
        BY <4>1, Zenon DEF Busy
    <3> QED
      BY <3>2, <3>3, Zenon
  <2> QED
    BY <2>3, Zenon
<1>6. MarksOK'
  <2>1. Scopes(pending)' = Scopes(pending)
    BY <1>2, Zenon DEF Scopes
  <2> HIDE DEF s
  <2> QED
    BY <1>1, <1>2, <1>5, <2>1, Zenon DEF MarksOK
<1> QED
  BY <1>3, <1>4, <1>6, Zenon DEF WorkerInv

LEMMA WorkerKeeps ==
  ASSUME WorkerInv, Worker
  PROVE  WorkerInv'
<1>1. GatesOK /\ TasksOK /\ LoopOK /\ WorkOK /\ MarksOK /\ faults \in Nat /\ others \in Nat
  BY Zenon DEF WorkerInv, LoopOK
<1>2. CASE Loop
  <2>1. /\ pc = "loop" /\ pc' \in {"drain", "scan", "select"} /\ offset' = 0 /\ tasks' = <<>>
        /\ UNCHANGED <<st, line, held, pending, queued, work, cancelled, faults, others>>
    BY <1>1, <1>2, Zenon DEF Loop, gates, bounds, LoopOK
  <2>2. tasks' \in Seq(Task)
    BY <2>1
  <2>3. TasksOK' /\ LoopOK'
    BY <1>1, <2>1, <2>2, Zenon DEF TasksOK, LoopOK
  <2>4. queued \subseteq Gates /\ queued \subseteq Scopes(pending) \cup Busy
    BY <1>1, <2>1, Zenon DEF MarksOK
  <2> QED
    BY <2>1, <2>3, <2>4, LoopKeeps, Zenon
<1>3. CASE ScanPage
  BY <1>3, ScanKeeps, Zenon
<1>4. CASE ScanFails
  <2>1. /\ pc = "scan" /\ pc' = "claim" /\ offset' = 0 /\ tasks' = <<>> /\ faults' \in Nat
        /\ UNCHANGED <<st, line, held, pending, queued, work, cancelled, others>>
    BY <1>1, <1>4 DEF ScanFails, gates
  <2>2. tasks' \in Seq(Task)
    BY <2>1
  <2>3. TasksOK' /\ LoopOK'
    BY <1>1, <2>1, <2>2, Zenon DEF TasksOK, LoopOK
  <2>4. queued \subseteq Gates /\ queued \subseteq Scopes(pending) \cup Busy
    BY <1>1, <2>1, Zenon DEF MarksOK
  <2> QED
    BY <2>1, <2>3, <2>4, LoopKeeps, Zenon
<1>5. CASE Start
  BY <1>5, StartKeeps, Zenon
<1>6. CASE Refuse
  <2>1. /\ MayClaim /\ Unqueue(Head(pending).scope) /\ pending' = Tail(pending)
        /\ UNCHANGED <<st, line, held, pc, offset, tasks, work, cancelled, faults, others>>
    BY <1>6, Zenon DEF Refuse, gates, bounds
  <2> QED
    BY <1>1, <2>1, DropsHead, Zenon
<1>7. CASE ClaimFails
  <2>1. /\ MayClaim /\ Unqueue(Head(pending).scope) /\ pending' = Tail(pending) /\ faults' = faults + 1
        /\ UNCHANGED <<st, line, held, pc, offset, tasks, work, cancelled, others>>
    BY <1>7, Zenon DEF ClaimFails, gates
  <2>2. faults' \in Nat
    BY <1>1, <2>1
  <2> QED
    BY <1>1, <2>1, <2>2, DropsHead, Zenon
<1>8. CASE ClaimsEnd \/ TickOrCancel
  <2>1. /\ pc \in {"claim", "select"} /\ pc' \in {"select", "loop", "drain"}
        /\ UNCHANGED <<st, line, held, offset, tasks, pending, queued, work, cancelled, faults, others>>
    BY <1>8, Zenon DEF ClaimsEnd, TickOrCancel, gates, queue, bounds
  <2>2. TasksOK' /\ LoopOK'
    BY <1>1, <2>1, Zenon DEF TasksOK, LoopOK
  <2>3. queued \subseteq Gates /\ queued \subseteq Scopes(pending) \cup Busy
    BY <1>1, <2>1, Zenon DEF MarksOK
  <2> QED
    BY <2>1, <2>2, <2>3, LoopKeeps, Zenon
<1>9. ASSUME NEW g \in Slots, Receive(g) PROVE WorkerInv'
  BY <1>9, ReceiveKeeps, Zenon
<1>10. CASE Stop
  <2>1. /\ pc = "drain" /\ pc' = "stopped" /\ Active = {}
        /\ UNCHANGED <<st, line, held, offset, tasks, pending, queued, work, cancelled, faults, others>>
    BY <1>10, Zenon DEF Stop, gates, queue, bounds
  <2>2. \A g \in Slots : work[g] = Idle
    BY <2>1, Zenon DEF Active
  <2>3. WorkOK'
    BY <1>1, <2>1, <2>2 DEF WorkOK, Running, Idle
  <2>4. GatesOK' /\ TasksOK' /\ LoopOK'
    BY <1>1, <2>1, Zenon DEF GatesOK, TasksOK, LoopOK
  <2>5. MarksOK'
    BY <1>1, <2>1, Zenon DEF MarksOK
  <2> QED
    BY <2>3, <2>4, <2>5, Zenon DEF WorkerInv
<1> QED
  BY <1>2, <1>3, <1>4, <1>5, <1>6, <1>7, <1>8, <1>9, <1>10, Zenon DEF Worker

LEMMA WorkerInitInv ==
  ASSUME Init
  PROVE  WorkerInv
<1>1. GatesOK
  <2>1. line = <<>> /\ <<>> \in Seq(Gates) /\ DOMAIN <<>> = {}
    BY DEF Init
  <2>2. Distinct(line) /\ \A s : ~Has(line, s)
    BY <2>1, Zenon DEF Distinct, Has
  <2> QED
    BY <2>1, <2>2, Zenon DEF Init, GatesOK
<1>2. TasksOK
  <2>1. tasks \in Seq(Task) /\ pending \in Seq(Task) /\ Len(pending) = 0
    BY DEF Init
  <2> QED
    BY <2>1, WorkerAssumption DEF TasksOK
<1>3. LoopOK /\ WorkOK /\ MarksOK
  BY Zenon DEF Init, LoopOK, WorkOK, MarksOK
<1> QED
  BY <1>1, <1>2, <1>3, Zenon DEF WorkerInv

LEMMA WorkerStepInv ==
  ASSUME WorkerInv, [Next]_vars
  PROVE  WorkerInv'
<1>1. CASE Environment
  BY <1>1, EnvironmentKeeps, Zenon
<1>2. CASE Worker
  BY <1>2, WorkerKeeps, Zenon
<1>3. CASE Goroutines
  BY <1>3, GoroutinesKeep, Zenon DEF Goroutines
<1>4. CASE UNCHANGED vars
  <2>1. UNCHANGED <<st, line, held, pc, offset, tasks, pending, queued, work, cancelled, faults, others>>
    BY <1>4, Zenon DEF vars, bounds
  <2> QED
    BY <2>1 DEF WorkerInv, GatesOK, TasksOK, LoopOK, WorkOK, MarksOK, Running, Scopes, Busy,
           Active, Distinct, Has
<1> QED
  BY <1>1, <1>2, <1>3, <1>4, Zenon DEF Next

(* Whatever scans, claims, expiries and other instances do, no mark of the *)
(* queued set outlives the last task of its scope, the queue keeps its     *)
(* bound, the line is what the scan's query would return, and nothing runs *)
(* once the worker has returned (RunRecoveries): for any gates, any number *)
(* of goroutines and any limits.                                           *)
THEOREM WorkerLeavesNothing == Spec => []NothingLeftBehind
<1>1. Init => WorkerInv
  BY WorkerInitInv, Zenon
<1>2. WorkerInv /\ [Next]_vars => WorkerInv'
  BY WorkerStepInv, Zenon
<1>3. WorkerInv => NothingLeftBehind
  <2> SUFFICES ASSUME WorkerInv PROVE NothingLeftBehind
    BY Zenon
  <2>1. GatesOK /\ TasksOK /\ LoopOK /\ WorkOK /\ MarksOK
    BY Zenon DEF WorkerInv
  <2>2. IsInjective(line)
    BY <2>1, Zenon DEF GatesOK, Distinct, IsInjective
  <2>3. Range(line) = {s \in Gates : st[s] = "due"}
    BY <2>1 DEF GatesOK, Has, Range
  <2>4. TypeOK
    BY <2>1, <2>2, <2>3, Zenon DEF TypeOK, GatesOK, TasksOK, LoopOK, WorkOK, MarksOK
  <2> QED
    BY <2>1, <2>4, Zenon DEF NothingLeftBehind, TasksOK, WorkOK, MarksOK, Scopes, Busy
<1> QED
  BY <1>1, <1>2, <1>3, PTL DEF Spec
-----------------------------------------------------------------------------
(* Proofs about LiveMetrics for any number of calls, viewers and minutes.  *)

Fields == {"n", "peak", "last", "integral", "minute", "rpm"}
Samples == [family : Families, minute : Nat, peak : Nat, integral : Nat]
Minutes == 0..Bucket(MaxClock)

LEMMA NoTicks == \A m, n \in Nat : m * (n - n) = 0
OBVIOUS

LEMMA NotPast == \A m, n \in Int : ~(m < n /\ n <= m)
OBVIOUS

LEMMA MinutesAreInts == \A b \in Minutes : b \in Int
BY DEF Minutes


MeterOK(m) ==
  /\ DOMAIN m = Fields /\ m.n \in Nat /\ m.peak \in Nat /\ m.integral \in Nat
  /\ m.last \in Nat /\ m.last <= clock /\ m.minute \in Nat /\ m.minute <= Bucket(clock)

MetricsTypes ==
  /\ clock \in Nat /\ Bucket(clock) \in Minutes
  /\ call \in [Calls -> [family : Families, at : {"none", "open", "ended"}]]
  /\ area \in [Families -> Nat] /\ top \in [Families -> [Minutes -> Nat]]

(* The books of a family whose meter is m, with the samples s: what the    *)
(* samples and the running minute add up to, ...                           *)
Balanced(f, m, s) == Total(f, s) + m.integral + m.n * (clock - m.last) = area[f]
(* ... the peak of the minute that the meter is in, and of those that went *)
(* by since without a roll, ...                                            *)
Peaks(f, m) ==
  /\ m.peak = top[f][m.minute] /\ m.n <= m.peak
  /\ \A b \in Minutes : /\ m.minute < b /\ b <= Bucket(clock) => top[f][b] = m.n
                        /\ Bucket(clock) < b => top[f][b] = 0
(* ... and its samples, which are of minutes before that of the meter.     *)
Recorded(f, m, s) ==
  \A i \in DOMAIN s : s[i].family = f =>
    /\ s[i].minute < m.minute /\ s[i].peak = top[f][s[i].minute]
    /\ \A j \in 1..(i - 1) : s[j].family = f => s[j].minute # s[i].minute

Account(f, m, s) == MeterOK(m) /\ Balanced(f, m, s) /\ Peaks(f, m) /\ Recorded(f, m, s)

(* The inductive invariant.                                                *)
MetricsInv ==
  /\ MetricsTypes /\ samples \in Seq(Samples) /\ DOMAIN meter = Families
  /\ \A f \in Families : meter[f].n = Open(f) /\ Account(f, meter[f], samples)
-----------------------------------------------------------------------------
LEMMA BucketFacts ==
  ASSUME NEW t \in Nat, NEW u \in Nat, t <= u
  PROVE  Bucket(t) \in Nat /\ Bucket(u) \in Nat /\ Bucket(t) <= Bucket(u) /\ Bucket(Minute - 1) = 0
<1>1. Minute \in Nat \ {0}
  BY MetricsAssumption, Zenon
<1> QED
  BY <1>1 DEF Bucket

LEMMA BucketNext ==
  ASSUME NEW t \in Nat
  PROVE  Bucket(t + 1) = Bucket(t) \/ Bucket(t + 1) = Bucket(t) + 1
<1>1. Minute \in Nat \ {0}
  BY MetricsAssumption, Zenon
<1> QED
  BY <1>1 DEF Bucket

TicksOf(f, s) == [i \in DOMAIN s |-> IF s[i].family = f THEN s[i].integral ELSE 0]

LEMMA SamplesFinite ==
  ASSUME NEW s \in Seq(Samples), NEW f
  PROVE  /\ DOMAIN s = 1..Len(s) /\ Len(s) \in Nat /\ IsFiniteSet(DOMAIN s)
         /\ \A i \in DOMAIN s : s[i] \in Samples
         /\ \A i \in DOMAIN s : TicksOf(f, s)[i] = IF s[i].family = f THEN s[i].integral ELSE 0
         /\ OnNaturals(TicksOf(f, s), DOMAIN s)
<1>1. DOMAIN s = 1..Len(s) /\ Len(s) \in Nat /\ \A i \in DOMAIN s : s[i] \in Samples
  OBVIOUS
<1>2. IsFiniteSet(1..Len(s))
  <2>1. 1 \in Int /\ Len(s) \in Int
    BY <1>1
  <2> QED
    BY <2>1, FS_Interval, Zenon
<1>3. \A i \in DOMAIN s : TicksOf(f, s)[i] = IF s[i].family = f THEN s[i].integral ELSE 0
  BY Zenon DEF TicksOf
<1>4. OnNaturals(TicksOf(f, s), DOMAIN s)
  <2>1. \A i \in DOMAIN s : s[i].integral \in Nat
    BY <1>1, Zenon DEF Samples
  <2>2. \A i \in DOMAIN s : TicksOf(f, s)[i] \in Nat
    BY <1>3, <2>1
  <2> QED
    BY <2>2, Zenon DEF OnNaturals
<1> QED
  BY <1>1, <1>2, <1>3, <1>4, Zenon

LEMMA TicksType ==
  ASSUME NEW s \in Seq(Samples), NEW f
  PROVE  Total(f, s) \in Nat /\ (s = <<>> => Total(f, s) = 0)
<1>1. IsFiniteSet(DOMAIN s) /\ OnNaturals(TicksOf(f, s), DOMAIN s)
  BY SamplesFinite, Zenon
<1>2. s = <<>> => DOMAIN s = {}
  OBVIOUS
<1>3. SumOver(TicksOf(f, s), DOMAIN s) \in Nat /\ (s = <<>> => SumOver(TicksOf(f, s), DOMAIN s) = 0)
  BY <1>1, <1>2, SumType, Zenon
<1> QED
  BY <1>3, Zenon DEF Total, TicksOf

\* One more sample adds its ticks to the total of its family.
LEMMA TicksAppend ==
  ASSUME NEW s \in Seq(Samples), NEW x \in Samples, NEW f
  PROVE  Total(f, s \o <<x>>) = Total(f, s) + (IF x.family = f THEN x.integral ELSE 0)
<1> DEFINE t == s \o <<x>>
           n == Len(s) + 1
<1>1. t \in Seq(Samples) /\ t[n] = x /\ \A i \in 1..Len(s) : t[i] = s[i]
  OBVIOUS
<1>2. DOMAIN t = DOMAIN s \cup {n} /\ n \notin DOMAIN s /\ n \in DOMAIN t
  OBVIOUS
<1> HIDE DEF t, n
<1>3. /\ IsFiniteSet(DOMAIN s) /\ OnNaturals(TicksOf(f, s), DOMAIN s) /\ DOMAIN s = 1..Len(s)
      /\ \A i \in DOMAIN s : TicksOf(f, s)[i] = IF s[i].family = f THEN s[i].integral ELSE 0
  BY SamplesFinite, Zenon
<1>4. /\ OnNaturals(TicksOf(f, t), DOMAIN t)
      /\ \A i \in DOMAIN t : TicksOf(f, t)[i] = IF t[i].family = f THEN t[i].integral ELSE 0
  BY <1>1, SamplesFinite, Zenon
<1>5. SumOver(TicksOf(f, t), DOMAIN t) = TicksOf(f, t)[n] + SumOver(TicksOf(f, t), DOMAIN s)
  BY <1>2, <1>3, <1>4, SumAdd, Zenon
<1>6. TicksOf(f, t)[n] = (IF x.family = f THEN x.integral ELSE 0) /\ x.integral \in Nat
  BY <1>1, <1>2, <1>4, Zenon DEF Samples
<1>7. \A i \in DOMAIN s : TicksOf(f, s)[i] = TicksOf(f, t)[i]
  BY <1>1, <1>2, <1>3, <1>4, Zenon
<1>8. SumOver(TicksOf(f, s), DOMAIN s) = SumOver(TicksOf(f, t), DOMAIN s)
  BY <1>3, <1>7, SumSame, Zenon
<1>9. Total(f, s) = SumOver(TicksOf(f, s), DOMAIN s) /\ Total(f, t) = SumOver(TicksOf(f, t), DOMAIN t)
  BY Zenon DEF Total, TicksOf
<1>10. Total(f, s) \in Nat
  BY TicksType, Zenon
<1> QED
  BY <1>5, <1>6, <1>8, <1>9, <1>10 DEF t

\* Samples of another family leave the books of a family alone.
LEMMA OthersSample ==
  ASSUME NEW s \in Seq(Samples), NEW x \in Samples, NEW f \in Families, x.family # f, NEW m,
         Account(f, m, s)
  PROVE  Account(f, m, s \o <<x>>)
<1> DEFINE t == s \o <<x>>
<1>1. /\ t \in Seq(Samples) /\ t[Len(s) + 1] = x /\ \A i \in 1..Len(s) : t[i] = s[i]
      /\ Len(s) \in Nat /\ DOMAIN s = 1..Len(s) /\ DOMAIN t = 1..(Len(s) + 1)
  OBVIOUS
<1>2. Total(f, t) = Total(f, s) + 0 /\ Total(f, s) \in Nat
  BY TicksAppend, TicksType, Zenon
<1> HIDE DEF t
<1>3. Recorded(f, m, t)
  <2> SUFFICES ASSUME NEW i \in DOMAIN t, t[i].family = f
               PROVE  /\ t[i].minute < m.minute /\ t[i].peak = top[f][t[i].minute]
                      /\ \A j \in 1..(i - 1) : t[j].family = f => t[j].minute # t[i].minute
    BY Zenon DEF Recorded
  <2>1. i \in DOMAIN s /\ t[i] = s[i] /\ \A j \in 1..(i - 1) : t[j] = s[j]
    BY <1>1
  <2> QED
    BY <2>1 DEF Account, Recorded
<1>4. Balanced(f, m, t)
  BY <1>2 DEF Account, Balanced
<1> QED
  BY <1>3, <1>4, Zenon DEF Account, t

LEMMA SamplesTyped ==
  ASSUME MetricsTypes, NEW f \in Families, MeterOK(meter[f])
  PROVE  /\ meter[f].n * (clock - meter[f].last) \in Nat
         /\ Bucket(clock) = meter[f].minute => Sampled(f) = <<>>
         /\ Bucket(clock) # meter[f].minute => \E x \in Samples :
              /\ Sampled(f) = <<x>> /\ x.family = f /\ x.minute = meter[f].minute
              /\ x.peak = meter[f].peak
              /\ x.integral = meter[f].integral + meter[f].n * (clock - meter[f].last)
<1>1. clock - meter[f].last \in Nat /\ meter[f].n \in Nat /\ meter[f].integral \in Nat
      /\ meter[f].peak \in Nat /\ meter[f].minute \in Nat
  BY DEF MetricsTypes, MeterOK
<1>2. meter[f].n * (clock - meter[f].last) \in Nat
  BY <1>1
<1>3. Bucket(clock) = meter[f].minute => Sampled(f) = <<>>
  BY Zenon DEF Sampled
<1>4. ASSUME Bucket(clock) # meter[f].minute
      PROVE  \E x \in Samples : /\ Sampled(f) = <<x>> /\ x.family = f /\ x.minute = meter[f].minute
              /\ x.peak = meter[f].peak
              /\ x.integral = meter[f].integral + meter[f].n * (clock - meter[f].last)
  <2> DEFINE w == meter[f].integral + meter[f].n * (clock - meter[f].last)
             x == [family |-> f, minute |-> meter[f].minute, peak |-> meter[f].peak, integral |-> w]
  <2>1. w \in Nat
    BY <1>1, <1>2
  <2>2. Sampled(f) = <<x>>
    BY <1>4, Zenon DEF Sampled
  <2> HIDE DEF w
  <2>3. x \in Samples /\ x.family = f /\ x.minute = meter[f].minute /\ x.peak = meter[f].peak
        /\ x.integral = w
    BY <1>1, <2>1, Zenon DEF Samples
  <2> QED
    BY <2>2, <2>3, Zenon DEF w
<1> QED
  BY <1>2, <1>3, <1>4, Zenon

(* The roll of a meter, when its minute is over and when it is not, keeps  *)
(* the books of its family and of the other one.                           *)
LEMMA Rolls ==
  ASSUME MetricsTypes, NEW f \in Families, NEW s \in Seq(Samples), Account(f, meter[f], s)
  PROVE  /\ s \o Sampled(f) \in Seq(Samples) /\ Account(f, Rolled(meter[f]), s \o Sampled(f))
         /\ Rolled(meter[f]).n = meter[f].n /\ Rolled(meter[f]).last = clock
         /\ Rolled(meter[f]).minute = Bucket(clock)
         /\ \A g \in Families \ {f} : \A m : Account(g, m, s) => Account(g, m, s \o Sampled(f))
<1> DEFINE m == meter[f]
           w == m.n * (clock - m.last)
<1>1. /\ MeterOK(m) /\ Balanced(f, m, s) /\ Peaks(f, m) /\ Recorded(f, m, s)
      /\ m.n \in Nat /\ m.peak \in Nat /\ m.integral \in Nat /\ m.last \in Nat /\ m.minute \in Nat
      /\ m.minute <= Bucket(clock) /\ clock \in Nat /\ Bucket(clock) \in Nat
      /\ Bucket(clock) \in Minutes /\ DOMAIN m = Fields
  BY DEF Account, MeterOK, MetricsTypes, Minutes
<1>2. w \in Nat /\ m.n * (clock - clock) = 0
  BY <1>1, SamplesTyped
<1>3. Total(f, s) \in Nat /\ Total(f, s) + m.integral + w = area[f]
  BY <1>1, TicksType, Zenon DEF Balanced
<1>4. CASE Bucket(clock) = m.minute
  <2>1. Sampled(f) = <<>> /\ s \o Sampled(f) = s
    BY <1>1, <1>4, SamplesTyped
  <2>2. Rolled(m) = [m EXCEPT !.integral = m.integral + w, !.last = clock]
    BY <1>4, Zenon DEF Rolled
  <2> DEFINE r == Rolled(m)
  <2> HIDE DEF w, m
  <2>3. /\ DOMAIN r = Fields /\ r.n = m.n /\ r.peak = m.peak /\ r.minute = m.minute
        /\ r.last = clock /\ r.integral = m.integral + w
    BY <1>1, <2>2, Zenon DEF Fields
  <2> HIDE DEF r
  <2>4. MeterOK(r)
    BY <1>1, <1>2, <2>3 DEF MeterOK
  <2>5. Balanced(f, r, s)
    BY <1>1, <1>2, <1>3, <2>3 DEF Balanced
  <2>6. Peaks(f, r)
    BY <1>1, <2>3, Zenon DEF Peaks
  <2>7. Recorded(f, r, s)
    BY <1>1, <2>3, Zenon DEF Recorded
  <2> QED
    BY <1>4, <2>1, <2>3, <2>4, <2>5, <2>6, <2>7, Zenon DEF Account, r, m
<1>5. CASE Bucket(clock) # m.minute
  <2>1. PICK x \in Samples : /\ Sampled(f) = <<x>> /\ x.family = f /\ x.minute = m.minute
                             /\ x.peak = m.peak /\ x.integral = m.integral + w
    BY <1>1, <1>5, SamplesTyped, Zenon
  <2>2. Rolled(m) = [m EXCEPT !.integral = 0, !.peak = m.n, !.minute = Bucket(clock), !.last = clock]
    BY <1>5, Zenon DEF Rolled, NextPeak
  <2> DEFINE r == Rolled(m)
             t == s \o <<x>>
  <2>3. /\ t \in Seq(Samples) /\ t[Len(s) + 1] = x /\ \A i \in 1..Len(s) : t[i] = s[i]
        /\ Len(s) \in Nat /\ DOMAIN s = 1..Len(s) /\ DOMAIN t = 1..(Len(s) + 1)
    OBVIOUS
  <2>4. Total(f, t) = Total(f, s) + x.integral
    BY <2>1, TicksAppend, Zenon
  <2> HIDE DEF w, m, t
  <2>5. /\ DOMAIN r = Fields /\ r.n = m.n /\ r.peak = m.n /\ r.minute = Bucket(clock)
        /\ r.last = clock /\ r.integral = 0
    BY <1>1, <2>2, Zenon DEF Fields
  <2> HIDE DEF r
  <2>6. MeterOK(r)
    BY <1>1, <1>2, <2>5 DEF MeterOK
  <2>7. Balanced(f, r, t)
    BY <1>1, <1>2, <1>3, <2>1, <2>4, <2>5 DEF Balanced
  <2>8. Peaks(f, r)
    <3>1. m.minute < Bucket(clock)
      BY <1>1, <1>5
    <3>2. top[f][Bucket(clock)] = m.n
      BY <1>1, <3>1 DEF Peaks
    <3>3. Bucket(clock) \in Int
      BY <1>1
    <3>4. \A b \in Minutes : (Bucket(clock) < b => top[f][b] = 0) /\ ~(Bucket(clock) < b /\ b <= Bucket(clock))
      BY <1>1, <3>3, NotPast, MinutesAreInts, Zenon DEF Peaks
    <3> QED
      BY <1>1, <2>5, <3>2, <3>4 DEF Peaks
  <2>9. Recorded(f, r, t)
    <3> SUFFICES ASSUME NEW i \in DOMAIN t, t[i].family = f
                 PROVE  /\ t[i].minute < r.minute /\ t[i].peak = top[f][t[i].minute]
                        /\ \A j \in 1..(i - 1) : t[j].family = f => t[j].minute # t[i].minute
      BY Zenon DEF Recorded
    <3>1. CASE i \in DOMAIN s
      <4>1. i \in 1..Len(s) /\ t[i] = s[i] /\ \A j \in 1..(i - 1) : t[j] = s[j]
        BY <2>3, <3>1
      <4>2. s[i] \in Samples
        BY <3>1
      <4>3. s[i].minute \in Nat
        BY <4>2, Zenon DEF Samples
      <4>4. /\ s[i].minute < m.minute /\ s[i].peak = top[f][s[i].minute]
            /\ \A j \in 1..(i - 1) : s[j].family = f => s[j].minute # s[i].minute
        BY <1>1, <3>1, <4>1, Zenon DEF Recorded
      <4>5. s[i].minute < r.minute
        BY <1>1, <2>5, <4>3, <4>4
      <4> QED
        BY <4>1, <4>4, <4>5, Zenon
    <3>2. CASE i = Len(s) + 1
      <4>0. t[i] = x /\ \A j \in 1..(i - 1) : j \in DOMAIN s /\ t[j] = s[j] /\ s[j] \in Samples
        BY <2>3, <3>2
      <4>1. t[i] = x /\ \A j \in 1..(i - 1) : j \in DOMAIN s /\ t[j] = s[j] /\ s[j].minute \in Nat
        BY <4>0, Zenon DEF Samples
      <4>2. t[i].minute = m.minute /\ t[i].peak = m.peak /\ m.peak = top[f][m.minute]
        BY <1>1, <2>1, <4>1, Zenon DEF Peaks
      <4>3. t[i].minute < r.minute
        BY <1>1, <1>5, <2>5, <4>2
      <4>4. ASSUME NEW j \in 1..(i - 1), t[j].family = f PROVE t[j].minute # t[i].minute
        BY <1>1, <4>1, <4>2, <4>4 DEF Recorded
      <4> QED
        BY <4>2, <4>3, <4>4, Zenon
    <3> QED
      BY <2>3, <3>1, <3>2
  <2>10. \A g \in Families \ {f} : \A z : Account(g, z, s) => Account(g, z, t)
    BY <2>1, OthersSample, Zenon DEF t
  <2> QED
    BY <2>1, <2>3, <2>5, <2>6, <2>7, <2>8, <2>9, <2>10, Zenon DEF Account, r, t, m
<1> QED
  BY <1>4, <1>5, Zenon
-----------------------------------------------------------------------------
(* What a step does to the meter of family f: the counters it may have     *)
(* pruned or marked are not in the books.                                  *)
SameBut(r, m) ==
  /\ DOMAIN r = Fields /\ r.n = m.n /\ r.peak = m.peak /\ r.last = m.last
  /\ r.integral = m.integral /\ r.minute = m.minute

LEMMA SameAccount ==
  ASSUME NEW f \in Families, NEW m, NEW r, NEW s, Account(f, m, s), SameBut(r, m)
  PROVE  Account(f, r, s) /\ r.n = m.n
BY Zenon DEF Account, SameBut, MeterOK, Balanced, Peaks, Recorded

LEMMA AccountNext ==
  ASSUME clock' = clock, NEW f \in Families, area'[f] = area[f], top'[f] = top[f],
         Account(f, meter'[f], samples')
  PROVE  Account(f, meter[f], samples)'
BY Zenon DEF Account, MeterOK, Balanced, Peaks, Recorded, Total, Bucket, Minutes

LEMMA OpenType ==
  ASSUME MetricsTypes, NEW f \in Families
  PROVE  Open(f) \in Nat /\ IsFiniteSet({c \in Calls : call[c] = [family |-> f, at |-> "open"]})
<1>1. 1 \in Int /\ MaxCalls \in Int
  BY MetricsAssumption
<1>2. IsFiniteSet(Calls)
  BY <1>1, FS_Interval, Zenon DEF Calls
<1>3. IsFiniteSet({c \in Calls : call[c] = [family |-> f, at |-> "open"]})
  BY <1>2, FS_Subset, Zenon
<1> QED
  BY <1>3, FS_CardinalityType, Zenon DEF Open

(* A call that begins is one more of its family, and one that ends one     *)
(* less.                                                                   *)
LEMMA OpenBegins ==
  ASSUME MetricsTypes, NEW f \in Families, NEW c \in Calls, call[c].at = "none",
         call' = [call EXCEPT ![c] = [family |-> f, at |-> "open"]], NEW g \in Families
  PROVE  Open(g)' = IF g = f THEN Open(g) + 1 ELSE Open(g)
<1> DEFINE Now == {d \in Calls : call[d] = [family |-> g, at |-> "open"]}
           Then == {d \in Calls : call'[d] = [family |-> g, at |-> "open"]}
<1>1. call[c] # [family |-> g, at |-> "open"] /\ c \notin Now
  BY DEF MetricsTypes
<1>2. \A d \in Calls : call'[d] = IF d = c THEN [family |-> f, at |-> "open"] ELSE call[d]
  BY Zenon DEF MetricsTypes
<1>3. [family |-> f, at |-> "open"] = [family |-> g, at |-> "open"] <=> f = g
  BY Zenon
<1>4. Then = IF g = f THEN Now \cup {c} ELSE Now
  BY <1>1, <1>2, <1>3, Zenon
<1>5. IsFiniteSet(Now) /\ Open(g) = Cardinality(Now) /\ Open(g) \in Nat
  BY OpenType, Zenon DEF Open
<1>6. Open(g)' = Cardinality(Then)
  BY Zenon DEF Open
<1> HIDE DEF Now, Then
<1> QED
  BY <1>1, <1>4, <1>5, <1>6, FS_AddElement, Zenon

LEMMA OpenEnds ==
  ASSUME MetricsTypes, NEW c \in Calls, call[c].at = "open",
         call' = [call EXCEPT ![c].at = "ended"], NEW g \in Families
  PROVE  /\ Open(g)' = IF g = call[c].family THEN Open(g) - 1 ELSE Open(g)
         /\ g = call[c].family => Open(g) > 0
<1> DEFINE Now == {d \in Calls : call[d] = [family |-> g, at |-> "open"]}
           Then == {d \in Calls : call'[d] = [family |-> g, at |-> "open"]}
<1>1. call[c] = [family |-> call[c].family, at |-> "open"] /\ call[c].family \in Families
  BY Zenon DEF MetricsTypes
<1>2. /\ \A d \in Calls \ {c} : call'[d] = call[d]
      /\ call'[c].at = "ended" /\ call'[c] # [family |-> g, at |-> "open"]
  BY Zenon DEF MetricsTypes
<1>3. c \in Now <=> g = call[c].family
  BY <1>1
<1>4. Then = Now \ {c}
  BY <1>2, Zenon
<1>5. IsFiniteSet(Now) /\ Open(g) = Cardinality(Now) /\ Open(g) \in Nat
  BY OpenType, Zenon DEF Open
<1>6. Open(g)' = Cardinality(Then)
  BY Zenon DEF Open
<1> HIDE DEF Now, Then
<1>7. c \in Now => Cardinality(Then) = Cardinality(Now) - 1 /\ Cardinality(Then) \in Nat
  BY <1>4, <1>5, FS_RemoveElement, FS_CardinalityType, Zenon
<1>8. c \notin Now => Then = Now
  BY <1>4, Zenon
<1> QED
  BY <1>3, <1>5, <1>6, <1>7, <1>8

\* One more tick: every call in flight has been so for one more.
LEMMA TickBalances ==
  ASSUME NEW n \in Nat, NEW c \in Nat, NEW l \in Nat
  PROVE  n * ((c + 1) - l) = n * (c - l) + n
OBVIOUS

LEMMA TickAccount ==
  ASSUME MetricsInv, MetricsTick, NEW f \in Families
  PROVE  Account(f, meter[f], samples)'
<1> DEFINE m == meter[f]
           B == Bucket(clock)
           C == Bucket(clock + 1)
<1>1. /\ clock \in Nat /\ clock + 1 \in Nat /\ clock + 1 <= MaxClock /\ MaxClock \in Nat
      /\ clock' = clock + 1 /\ meter' = meter /\ samples' = samples
  BY MetricsAssumption DEF MetricsInv, MetricsTypes, MetricsTick
<1>2. B \in Nat /\ C \in Nat /\ B <= C /\ C \in Minutes /\ (C = B \/ C = B + 1) /\ Bucket(MaxClock) \in Nat
  BY <1>1, BucketFacts, BucketNext DEF Minutes
<1>3. /\ MeterOK(m) /\ Balanced(f, m, samples) /\ Peaks(f, m) /\ Recorded(f, m, samples)
      /\ m.n = Open(f) /\ samples \in Seq(Samples)
  BY Zenon DEF MetricsInv, Account
<1>4. /\ m.n \in Nat /\ m.peak \in Nat /\ m.integral \in Nat /\ m.last \in Nat /\ m.minute \in Nat
      /\ m.minute <= B /\ m.last <= clock /\ DOMAIN m = Fields
  BY <1>3, Zenon DEF MeterOK
<1>5. /\ area[f] \in Nat /\ area'[f] = area[f] + m.n
      /\ top[f] \in [Minutes -> Nat] /\ top'[f] = [top[f] EXCEPT ![C] = Larger(@, m.n)]
  BY <1>3, Zenon DEF MetricsInv, MetricsTypes, MetricsTick
<1> HIDE DEF m, B, C
<1>6. \A b \in Minutes : top'[f][b] = IF b = C THEN Larger(top[f][C], m.n) ELSE top[f][b]
  BY <1>2, <1>5, Zenon
<1>7. \A b \in Minutes : b <= B => top'[f][b] = top[f][b]
  <2>1. CASE C = B
    <3>1. m.n <= top[f][B]
      BY <1>2, <1>3, <1>4, <2>1 DEF Peaks, B, Minutes
    <3> QED
      BY <1>2, <1>4, <1>5, <1>6, <2>1, <3>1 DEF Larger, Minutes
  <2>2. CASE C = B + 1
    BY <1>2, <1>6, <2>2 DEF Minutes
  <2> QED
    BY <1>2, <2>1, <2>2, Zenon
<1>8. \A b \in Minutes : b > B => top[f][b] = 0
  BY <1>3, Zenon DEF Peaks, B
<1>9. \A b \in Minutes : /\ m.minute < b /\ b <= C => top'[f][b] = m.n
                         /\ C < b => top'[f][b] = 0
  <2> SUFFICES ASSUME NEW b \in Minutes
               PROVE  /\ m.minute < b /\ b <= C => top'[f][b] = m.n
                      /\ C < b => top'[f][b] = 0
    BY Zenon
  <2>1. b \in Nat
    BY <1>2 DEF Minutes
  <2>2. CASE b <= B
    <3>1. m.minute < b => top[f][b] = m.n
      BY <1>3, <2>2, Zenon DEF Peaks, B
    <3> QED
      BY <1>2, <1>7, <2>1, <2>2, <3>1
  <2>3. CASE b > B
    <3>1. top[f][b] = 0
      BY <1>8, <2>3, Zenon
    <3>2. b = C => top'[f][b] = Larger(0, m.n)
      BY <1>6, <3>1, Zenon
    <3>3. Larger(0, m.n) = m.n
      BY <1>4 DEF Larger
    <3> QED
      BY <1>2, <1>6, <2>1, <2>3, <3>1, <3>2, <3>3
  <2> QED
    BY <1>2, <2>1, <2>2, <2>3
<1>10. MeterOK(meter[f])'
  BY <1>1, <1>2, <1>4 DEF MeterOK, m, B, C
<1>11. Balanced(f, meter[f], samples)'
  <2>1. m.n * ((clock + 1) - m.last) = m.n * (clock - m.last) + m.n /\ m.n * (clock - m.last) \in Nat
    BY <1>1, <1>4, TickBalances
  <2>2. Total(f, samples) \in Nat /\ Total(f, samples)' = Total(f, samples)
    BY <1>1, <1>3, TicksType, Zenon DEF Total
  <2>3. Total(f, samples) + m.integral + m.n * (clock - m.last) = area[f]
    BY <1>3, Zenon DEF Balanced
  <2> DEFINE w == m.n * (clock - m.last)
             z == Total(f, samples)
  <2>4. z + m.integral + (w + m.n) = area'[f]
    <3>1. z \in Nat /\ w \in Nat /\ z + m.integral + w = area[f]
      BY <2>1, <2>2, <2>3, Zenon
    <3> HIDE DEF w, z
    <3> QED
      BY <1>4, <1>5, <3>1
  <2>5. z + m.integral + m.n * ((clock + 1) - m.last) = area'[f]
    BY <2>1, <2>4, Zenon
  <2> QED
    BY <1>1, <2>2, <2>5, Zenon DEF Balanced, m
<1>12. Peaks(f, meter[f])'
  <2>1. m.minute \in Minutes /\ top'[f][m.minute] = top[f][m.minute]
    BY <1>2, <1>4, <1>7 DEF Minutes
  <2>2. m.peak = top'[f][m.minute] /\ m.n <= m.peak
    BY <1>3, <2>1, Zenon DEF Peaks
  <2> QED
    BY <1>1, <1>9, <2>2, Zenon DEF Peaks, m, C, Minutes, Bucket
<1>13. Recorded(f, meter[f], samples)'
  <2> SUFFICES ASSUME NEW i \in DOMAIN samples, samples[i].family = f
               PROVE  /\ samples[i].minute < m.minute
                      /\ samples[i].peak = top'[f][samples[i].minute]
                      /\ \A j \in 1..(i - 1) : samples[j].family = f =>
                            samples[j].minute # samples[i].minute
    BY <1>1, Zenon DEF Recorded, m
  <2>1. /\ samples[i].minute < m.minute /\ samples[i].peak = top[f][samples[i].minute]
        /\ \A j \in 1..(i - 1) : samples[j].family = f => samples[j].minute # samples[i].minute
    BY <1>3, Zenon DEF Recorded
  <2>2. samples[i] \in Samples
    BY <1>3
  <2>3. samples[i].minute \in Nat
    BY <2>2, Zenon DEF Samples
  <2>4. top'[f][samples[i].minute] = top[f][samples[i].minute]
    BY <1>2, <1>4, <1>7, <2>1, <2>3 DEF Minutes
  <2> QED
    BY <2>1, <2>4, Zenon
<1> QED
  BY <1>10, <1>11, <1>12, <1>13, Zenon DEF Account

LEMMA BeginAccount ==
  ASSUME MetricsInv, NEW c \in Calls, NEW f \in Families, BeginCall(c, f), NEW g \in Families
  PROVE  /\ Account(g, meter[g], samples)' /\ samples' \in Seq(Samples)
         /\ meter'[g].n = IF g = f THEN meter[g].n + 1 ELSE meter[g].n
<1> DEFINE r == Rolled(meter[f])
           t == samples \o Sampled(f)
           M == [r EXCEPT !.n = @ + 1, !.peak = Larger(@, r.n + 1),
                          !.rpm = IF f = "request" THEN Append(@, clock) ELSE @]
           B == Bucket(clock)
<1>1. MetricsTypes /\ samples \in Seq(Samples) /\ DOMAIN meter = Families /\ meter[f].n = Open(f)
      /\ \A h \in Families : Account(h, meter[h], samples)
  BY Zenon DEF MetricsInv
<1>2. /\ t \in Seq(Samples) /\ Account(f, r, t) /\ r.n = meter[f].n /\ r.last = clock /\ r.minute = B
      /\ \A h \in Families \ {f} : Account(h, meter[h], t)
  BY <1>1, Rolls, Zenon
<1>3. /\ clock' = clock /\ area' = area /\ samples' = t /\ meter' = [meter EXCEPT ![f] = M]
      /\ top' = [top EXCEPT ![f][B] = Larger(@, Open(f) + 1)]
  BY Zenon DEF BeginCall
<1> HIDE DEF t, r
<1>4. /\ MeterOK(r) /\ Balanced(f, r, t) /\ Peaks(f, r) /\ Recorded(f, r, t)
      /\ r.n \in Nat /\ r.peak \in Nat /\ r.integral \in Nat /\ DOMAIN r = Fields
  BY <1>2, Zenon DEF Account, MeterOK
<1>5. /\ DOMAIN M = Fields /\ M.n = r.n + 1 /\ M.peak = Larger(r.peak, r.n + 1) /\ M.last = clock
      /\ M.integral = r.integral /\ M.minute = B
  BY <1>2, <1>4, Zenon DEF Fields
<1>6. /\ clock \in Nat /\ B \in Nat /\ B \in Minutes /\ area[f] \in Nat
      /\ top \in [Families -> [Minutes -> Nat]]
  BY <1>1 DEF MetricsTypes, Minutes
<1>7. /\ \A h \in Families \ {f} : top'[h] = top[h] /\ meter'[h] = meter[h]
      /\ meter'[f] = M
      /\ \A b \in Minutes : top'[f][b] = IF b = B THEN Larger(top[f][b], r.n + 1) ELSE top[f][b]
  <2> HIDE DEF M, B
  <2> QED
    BY <1>1, <1>2, <1>3, <1>6, Zenon
<1>8. CASE g # f
  <2>1. Account(g, meter'[g], samples')
    BY <1>2, <1>3, <1>7, <1>8, Zenon
  <2>2. Account(g, meter[g], samples)'
    BY <1>3, <1>7, <1>8, <2>1, AccountNext, Zenon
  <2> QED
    BY <1>2, <1>3, <1>7, <1>8, <2>2
<1>9. CASE g = f
  <2> HIDE DEF M
  <2>1. r.peak = top[f][B] /\ r.n <= r.peak
    BY <1>2, <1>4, Zenon DEF Peaks
  <2>2. Larger(r.peak, r.n + 1) \in Nat /\ Larger(r.peak, r.n + 1) >= r.n + 1
    BY <1>4 DEF Larger
  <2>3. MeterOK(M)
    BY <1>4, <1>5, <1>6, <2>2 DEF MeterOK, B
  <2>4. Balanced(f, M, t)
    <3>1. r.n * (clock - clock) = 0 /\ M.n * (clock - clock) = 0
      BY <1>4, <1>5, <1>6
    <3> QED
      BY <1>2, <1>4, <1>5, <3>1, Zenon DEF Balanced
  <2>5. MeterOK(meter[f])' /\ Balanced(f, meter[f], samples)'
    BY <1>3, <1>7, <2>3, <2>4, Zenon DEF MeterOK, Balanced, Bucket, Total
  <2>6. M.peak = top'[f][B]
    BY <1>5, <1>6, <1>7, <2>1, Zenon
  <2>7. \A b \in Minutes : b # B => top'[f][b] = top[f][b]
    BY <1>7, Zenon
  <2>8. \A b \in Minutes : (B < b => top'[f][b] = 0) /\ ~(B < b /\ b <= B)
    BY <1>4, <1>6, <2>7 DEF Peaks, Minutes, B
  <2>9. Peaks(f, meter[f])'
    <3>1. M.peak = top'[f][M.minute] /\ M.n <= M.peak
      BY <1>5, <2>2, <2>6, Zenon
    <3>2. \A b \in Minutes : /\ M.minute < b /\ b <= B => top'[f][b] = M.n
                             /\ B < b => top'[f][b] = 0
      BY <1>5, <2>8, Zenon
    <3> QED
      BY <1>3, <1>7, <3>1, <3>2, Zenon DEF Peaks, Minutes, Bucket, B
  <2>10. Recorded(f, meter[f], samples)'
    <3> SUFFICES ASSUME NEW i \in DOMAIN t, t[i].family = f
                 PROVE  /\ t[i].minute < M.minute /\ t[i].peak = top'[f][t[i].minute]
                        /\ \A j \in 1..(i - 1) : t[j].family = f => t[j].minute # t[i].minute
      BY <1>3, <1>7, Zenon DEF Recorded
    <3>1. /\ t[i].minute < r.minute /\ t[i].peak = top[f][t[i].minute]
          /\ \A j \in 1..(i - 1) : t[j].family = f => t[j].minute # t[i].minute
      BY <1>4, Zenon DEF Recorded
    <3>2. t[i] \in Samples
      BY <1>2
    <3>3. t[i].minute \in Nat
      BY <3>2, Zenon DEF Samples
    <3>4. t[i].minute \in Minutes /\ t[i].minute # B
      <4>1. Bucket(MaxClock) \in Nat /\ B <= Bucket(MaxClock)
        BY <1>6, BucketFacts, MetricsAssumption DEF Minutes
      <4> HIDE DEF B
      <4> QED
        BY <1>2, <1>6, <3>1, <3>3, <4>1 DEF Minutes
    <3> QED
      BY <1>2, <1>5, <2>7, <3>1, <3>4, Zenon
  <2> QED
    BY <1>2, <1>3, <1>5, <1>7, <1>9, <2>5, <2>9, <2>10, Zenon DEF Account
<1> QED
  BY <1>8, <1>9, Zenon

LEMMA EndAccount ==
  ASSUME MetricsInv, NEW c \in Calls, EndCall(c), NEW g \in Families
  PROVE  /\ Account(g, meter[g], samples)' /\ samples' \in Seq(Samples)
         /\ meter'[g].n = IF g = call[c].family THEN meter[g].n - 1 ELSE meter[g].n
<1> DEFINE f == call[c].family
           r == Rolled(meter[f])
           t == samples \o Sampled(f)
           M == [r EXCEPT !.n = IF @ > 0 THEN @ - 1 ELSE @]
<1>0. f \in Families
  BY Zenon DEF MetricsInv, MetricsTypes
<1> HIDE DEF f
<1>1. MetricsTypes /\ samples \in Seq(Samples) /\ DOMAIN meter = Families /\ meter[f].n = Open(f)
      /\ \A h \in Families : Account(h, meter[h], samples)
  BY <1>0, Zenon DEF MetricsInv
<1>2. /\ t \in Seq(Samples) /\ Account(f, r, t) /\ r.n = meter[f].n /\ r.last = clock
      /\ r.minute = Bucket(clock) /\ \A h \in Families \ {f} : Account(h, meter[h], t)
  BY <1>0, <1>1, Rolls, Zenon
<1>3. /\ UNCHANGED <<clock, area, top>> /\ samples' = t /\ meter' = [meter EXCEPT ![f] = M]
      /\ call[c].at = "open" /\ call' = [call EXCEPT ![c].at = "ended"]
  BY Zenon DEF EndCall, f
<1>4. Open(f) > 0
  BY <1>0, <1>1, <1>3, OpenEnds, Zenon DEF f
<1> HIDE DEF t, r
<1>5. /\ MeterOK(r) /\ Balanced(f, r, t) /\ Peaks(f, r) /\ Recorded(f, r, t)
      /\ r.n \in Nat /\ r.peak \in Nat /\ r.integral \in Nat /\ DOMAIN r = Fields /\ r.n > 0
  BY <1>1, <1>2, <1>4, Zenon DEF Account, MeterOK
<1>6. /\ DOMAIN M = Fields /\ M.n = r.n - 1 /\ M.peak = r.peak /\ M.last = clock
      /\ M.integral = r.integral /\ M.minute = Bucket(clock)
  BY <1>2, <1>5, Zenon DEF Fields
<1> HIDE DEF M
<1>7. /\ \A h \in Families \ {f} : meter'[h] = meter[h]
      /\ meter'[f] = M
  BY <1>0, <1>1, <1>3, Zenon
<1>8. MeterOK(M)
  BY <1>2, <1>5, <1>6 DEF MeterOK
<1>9. Balanced(f, M, t)
  <2>1. clock \in Nat /\ M.n \in Nat
    BY <1>1, <1>5, <1>6 DEF MetricsTypes
  <2>2. r.n * (clock - clock) = 0 /\ M.n * (clock - clock) = 0
    BY <1>5, <2>1, NoTicks, Zenon
  <2> QED
    BY <1>2, <1>5, <1>6, <2>2, Zenon DEF Balanced
<1>10. Peaks(f, M)
  <2>1. \A b \in Minutes : (Bucket(clock) < b => top[f][b] = 0) /\ ~(Bucket(clock) < b /\ b <= Bucket(clock))
    BY <1>1, <1>5 DEF Peaks, Minutes, MetricsTypes
  <2>2. M.n <= M.peak
    BY <1>5, <1>6 DEF Peaks
  <2> QED
    BY <1>2, <1>5, <1>6, <2>1, <2>2, Zenon DEF Peaks
<1>11. Recorded(f, M, t)
  BY <1>2, <1>5, <1>6, Zenon DEF Recorded
<1>12. Account(g, meter'[g], samples')
  BY <1>2, <1>3, <1>7, <1>8, <1>9, <1>10, <1>11, Zenon DEF Account
<1>13. Account(g, meter[g], samples)'
  BY <1>3, <1>12, AccountNext, Zenon
<1> QED
  BY <1>2, <1>3, <1>6, <1>7, <1>13 DEF f

\* What is marked or pruned is a rate; the books are not touched.
LEMMA PrunedSame ==
  ASSUME NEW m, MeterOK(m)
  PROVE  SameBut([m EXCEPT !.rpm = Pruned(@)], m)
BY Zenon DEF SameBut, MeterOK, Fields

LEMMA RatesAccount ==
  ASSUME MetricsInv, UNCHANGED <<clock, call, samples, area, top>>, DOMAIN meter' = Families,
         \A f \in Families : SameBut(meter'[f], meter[f])
  PROVE  MetricsInv'
<1>1. /\ MetricsTypes /\ samples \in Seq(Samples)
      /\ \A f \in Families : meter[f].n = Open(f) /\ Account(f, meter[f], samples)
  BY Zenon DEF MetricsInv
<1>2. ASSUME NEW f \in Families PROVE meter'[f].n = Open(f)' /\ Account(f, meter[f], samples)'
  <2>1. Account(f, meter'[f], samples) /\ meter'[f].n = meter[f].n
    BY <1>1, SameAccount
  <2>2. Account(f, meter[f], samples)'
    BY <2>1, AccountNext, Zenon
  <2> QED
    BY <1>1, <2>1, <2>2, Zenon DEF Open
<1>3. MetricsTypes' /\ samples' \in Seq(Samples)
  BY <1>1, Zenon DEF MetricsTypes, Minutes, Bucket
<1> QED
  BY <1>2, <1>3, Zenon DEF MetricsInv

LEMMA MarkKeeps ==
  ASSUME MetricsInv, NEW c \in Calls, MarkUpstreamHTTP(c)
  PROVE  MetricsInv'
<1>1. /\ DOMAIN meter = Families /\ "attempt" \in Families
      /\ \A f \in Families : DOMAIN meter[f] = Fields
  BY Zenon DEF MetricsInv, Account, MeterOK, Families
<1>2. meter' = [meter EXCEPT !["attempt"].rpm = Append(@, clock)] /\ UNCHANGED <<clock, call, samples, area, top>>
  BY Zenon DEF MarkUpstreamHTTP
<1>3. DOMAIN meter' = Families /\ \A f \in Families : SameBut(meter'[f], meter[f])
  BY <1>1, <1>2, Zenon DEF SameBut, Fields
<1> QED
  BY <1>2, <1>3, RatesAccount, Zenon

LEMMA SubscribeKeeps ==
  ASSUME MetricsInv, NEW v \in Viewers, Subscribe(v)
  PROVE  MetricsInv'
<1>1. /\ DOMAIN meter = Families /\ \A f \in Families : MeterOK(meter[f])
      /\ UNCHANGED <<clock, call, samples, area, top>>
  BY Zenon DEF MetricsInv, Account, Subscribe
<1>2. meter' = meter \/ meter' = PrunedMeters(meter)
  BY Zenon DEF Subscribe, Prunes
<1>3. \A f \in Families : SameBut(meter[f], meter[f])
  BY <1>1, Zenon DEF SameBut, MeterOK
<1>4. DOMAIN meter' = Families /\ \A f \in Families : SameBut(meter'[f], meter[f])
  <2>1. CASE meter' = meter
    BY <1>1, <1>3, <2>1, Zenon
  <2>2. CASE meter' = PrunedMeters(meter)
    <3>1. DOMAIN meter' = Families /\ \A f \in Families : meter'[f] = [meter[f] EXCEPT !.rpm = Pruned(@)]
      BY <2>2, Zenon DEF PrunedMeters
    <3> QED
      BY <1>1, <3>1, PrunedSame, Zenon
  <2> QED
    BY <1>2, <2>1, <2>2, Zenon
<1> QED
  BY <1>1, <1>4, RatesAccount, Zenon

LEMMA FlushKeeps ==
  ASSUME MetricsInv, NEW force, Flush(force)
  PROVE  MetricsInv'
<1> DEFINE rolled == [f \in Families |-> Rolled(meter[f])]
           q == "request"
           a == "attempt"
           s == samples \o Sampled(q)
           t == s \o Sampled(a)
<1>1. /\ MetricsTypes /\ samples \in Seq(Samples) /\ q \in Families /\ a \in Families /\ a # q
      /\ \A f \in Families : f = q \/ f = a
      /\ \A f \in Families : meter[f].n = Open(f) /\ Account(f, meter[f], samples)
  BY Zenon DEF MetricsInv, Families
<1>2. /\ meter' = PrunedMeters(rolled) /\ samples' = t /\ UNCHANGED <<clock, call, area, top>>
  BY Zenon DEF Flush
<1>3. /\ s \in Seq(Samples) /\ Account(q, Rolled(meter[q]), s) /\ Rolled(meter[q]).n = meter[q].n
      /\ Account(a, meter[a], s)
  BY <1>1, Rolls, Zenon
<1> HIDE DEF s
<1>4. /\ t \in Seq(Samples) /\ Account(a, Rolled(meter[a]), t) /\ Rolled(meter[a]).n = meter[a].n
      /\ Account(q, Rolled(meter[q]), t)
  BY <1>1, <1>3, Rolls, Zenon
<1> HIDE DEF t, q, a
<1>5. /\ DOMAIN meter' = Families
      /\ \A f \in Families : meter'[f] = [Rolled(meter[f]) EXCEPT !.rpm = Pruned(@)]
  BY <1>2, Zenon DEF PrunedMeters
<1>6. ASSUME NEW f \in Families PROVE meter'[f].n = Open(f)' /\ Account(f, meter[f], samples)'
  <2>1. Account(f, Rolled(meter[f]), t) /\ Rolled(meter[f]).n = Open(f)
    BY <1>1, <1>3, <1>4, Zenon
  <2>2. SameBut(meter'[f], Rolled(meter[f]))
    BY <1>5, <2>1, PrunedSame, Zenon DEF Account
  <2>3. Account(f, meter'[f], samples') /\ meter'[f].n = Open(f)
    BY <1>2, <2>1, <2>2, SameAccount, Zenon
  <2>4. Account(f, meter[f], samples)'
    BY <1>2, <2>3, AccountNext, Zenon
  <2> QED
    BY <1>2, <2>3, <2>4, Zenon DEF Open
<1>7. MetricsTypes' /\ samples' \in Seq(Samples)
  BY <1>1, <1>2, <1>4, Zenon DEF MetricsTypes, Minutes, Bucket
<1> QED
  BY <1>5, <1>6, <1>7, Zenon DEF MetricsInv

LEMMA MetricsInitInv ==
  ASSUME MetricsInit
  PROVE  MetricsInv
<1>1. /\ Minute \in Nat \ {0} /\ clock = Minute - 1 /\ clock \in Nat /\ MaxClock \in Nat
      /\ Bucket(clock) = 0 /\ Bucket(MaxClock) \in Nat /\ Bucket(clock) \in Minutes
  <2>1. Minute \in Nat \ {0} /\ clock = Minute - 1 /\ MaxClock \in Nat
    BY MetricsAssumption, Zenon DEF MetricsInit
  <2>2. Bucket(MaxClock) \in Nat /\ Bucket(clock) = 0
    BY <2>1, BucketFacts
  <2> QED
    BY <2>1, <2>2 DEF Minutes
<1>2. /\ call \in [Calls -> [family : Families, at : {"none", "open", "ended"}]]
      /\ \A c \in Calls : call[c].at # "open"
  BY Zenon DEF MetricsInit, Families
<1>3. /\ area = [f \in Families |-> 0] /\ top = [f \in Families |-> [b \in Minutes |-> 0]]
      /\ samples = <<>> /\ meter = [f \in Families |-> FreshMeter]
  BY Zenon DEF MetricsInit, Minutes
<1>4. MetricsTypes
  BY <1>1, <1>2, <1>3, Zenon DEF MetricsTypes
<1>5. samples \in Seq(Samples) /\ DOMAIN meter = Families /\ DOMAIN samples = {}
  BY <1>3
<1>6. ASSUME NEW f \in Families PROVE meter[f].n = Open(f) /\ Account(f, meter[f], samples)
  <2>1. {c \in Calls : call[c] = [family |-> f, at |-> "open"]} = {}
    BY <1>2
  <2>2. Open(f) = 0
    BY <2>1, FS_EmptySet, Zenon DEF Open
  <2>3. /\ DOMAIN meter[f] = Fields /\ meter[f].n = 0 /\ meter[f].peak = 0 /\ meter[f].last = clock
        /\ meter[f].integral = 0 /\ meter[f].minute = 0
    BY <1>1, <1>3, Zenon DEF FreshMeter, Fields
  <2>4. area[f] = 0 /\ Total(f, samples) = 0 /\ top[f] = [b \in Minutes |-> 0] /\ 0 \in Minutes
    BY <1>1, <1>3, <1>5, TicksType, Zenon
  <2>5. MeterOK(meter[f])
    BY <1>1, <2>3 DEF MeterOK
  <2>6. Balanced(f, meter[f], samples)
    BY <1>1, <2>3, <2>4 DEF Balanced
  <2>7. Peaks(f, meter[f])
    BY <1>1, <2>3, <2>4 DEF Peaks
  <2>8. Recorded(f, meter[f], samples)
    BY <1>5, Zenon DEF Recorded
  <2> QED
    BY <2>2, <2>3, <2>5, <2>6, <2>7, <2>8, Zenon DEF Account
<1> QED
  BY <1>4, <1>5, <1>6, Zenon DEF MetricsInv

LEMMA MetricsStepInv ==
  ASSUME MetricsInv, [MetricsNext]_metricsVars
  PROVE  MetricsInv'
<1>1. CASE UNCHANGED <<clock, call, meter, samples, area, top>>
  <2>1. DOMAIN meter' = Families /\ \A f \in Families : SameBut(meter'[f], meter[f])
    BY <1>1, Zenon DEF MetricsInv, Account, MeterOK, SameBut
  <2> QED
    BY <1>1, <2>1, RatesAccount, Zenon
<1>2. CASE MetricsTick
  <2>1. \A f \in Families : Account(f, meter[f], samples)'
    BY <1>2, TickAccount, Zenon
  <2>2. /\ MetricsTypes /\ clock \in Nat /\ clock' = clock + 1 /\ clock + 1 <= MaxClock
        /\ UNCHANGED <<call, meter, samples>>
        /\ MaxClock \in Nat
    BY <1>2, MetricsAssumption DEF MetricsInv, MetricsTypes, MetricsTick
  <2>3. Bucket(clock + 1) \in Minutes /\ Bucket(clock') = Bucket(clock + 1)
    BY <2>2, BucketFacts DEF Minutes
  <2>4. area' \in [Families -> Nat]
    <3>1. \A f \in Families : area[f] + Open(f) \in Nat
      <4>1. \A f \in Families : Open(f) \in Nat
        BY <2>2, OpenType, Zenon
      <4>2. \A f \in Families : area[f] \in Nat
        BY <2>2, Zenon DEF MetricsTypes
      <4> QED
        BY <4>1, <4>2
    <3> QED
      BY <1>2, <3>1, Zenon DEF MetricsTick
  <2>5. top' \in [Families -> [Minutes -> Nat]]
    <3>1. \A f \in Families : Larger(top[f][Bucket(clock + 1)], Open(f)) \in Nat
      BY <2>2, <2>3, OpenType, Zenon DEF MetricsTypes, Larger
    <3>2. top \in [Families -> [Minutes -> Nat]]
      BY <2>2, Zenon DEF MetricsTypes
    <3> QED
      BY <1>2, <2>3, <3>1, <3>2, Zenon DEF MetricsTick
  <2>6. MetricsTypes'
    BY <2>2, <2>3, <2>4, <2>5 DEF MetricsTypes, Bucket, Minutes
  <2>7. \A f \in Families : meter'[f].n = Open(f)'
    BY <2>2, Zenon DEF MetricsInv, Open
  <2> QED
    BY <2>1, <2>2, <2>6, <2>7, Zenon DEF MetricsInv
<1>3. ASSUME NEW c \in Calls, NEW f \in Families, BeginCall(c, f) PROVE MetricsInv'
  <2>1. /\ MetricsTypes /\ UNCHANGED <<clock, area>> /\ call[c].at = "none"
        /\ call' = [call EXCEPT ![c] = [family |-> f, at |-> "open"]]
        /\ top' = [top EXCEPT ![f][Bucket(clock)] = Larger(@, Open(f) + 1)]
        /\ DOMAIN meter' = Families
    BY <1>3, Zenon DEF MetricsInv, BeginCall
  <2>2. ASSUME NEW g \in Families PROVE meter'[g].n = Open(g)' /\ Account(g, meter[g], samples)'
    <3>1. meter[g].n = Open(g)
      BY Zenon DEF MetricsInv
    <3>2. Open(g)' = IF g = f THEN Open(g) + 1 ELSE Open(g)
      BY <2>1, OpenBegins, Zenon
    <3> QED
      BY <1>3, <3>1, <3>2, BeginAccount, Zenon
  <2>3. samples' \in Seq(Samples)
    BY <1>3, BeginAccount, Zenon
  <2>4. Larger(top[f][Bucket(clock)], Open(f) + 1) \in Nat
    <3>1. Open(f) \in Nat
      BY <2>1, OpenType, Zenon
    <3>2. top[f][Bucket(clock)] \in Nat
      BY <2>1, Zenon DEF MetricsTypes
    <3> QED
      BY <3>1, <3>2 DEF Larger
  <2>5. MetricsTypes'
    BY <2>1, <2>4, Zenon DEF MetricsTypes, Minutes, Bucket
  <2> QED
    BY <2>1, <2>2, <2>3, <2>5, Zenon DEF MetricsInv
<1>4. ASSUME NEW c \in Calls, EndCall(c) PROVE MetricsInv'
  <2>1. /\ MetricsTypes /\ UNCHANGED <<clock, area, top>> /\ call[c].at = "open"
        /\ call' = [call EXCEPT ![c].at = "ended"] /\ DOMAIN meter' = Families
    BY <1>4, Zenon DEF MetricsInv, EndCall
  <2>2. ASSUME NEW g \in Families PROVE meter'[g].n = Open(g)' /\ Account(g, meter[g], samples)'
    <3>1. meter[g].n = Open(g)
      BY Zenon DEF MetricsInv
    <3>2. Open(g)' = IF g = call[c].family THEN Open(g) - 1 ELSE Open(g)
      BY <2>1, OpenEnds, Zenon
    <3> QED
      BY <1>4, <3>1, <3>2, EndAccount, Zenon
  <2>3. samples' \in Seq(Samples)
    <3>1. call[c].family \in Families
      BY <2>1, Zenon DEF MetricsTypes
    <3> QED
      BY <1>4, <3>1, EndAccount, Zenon
  <2>4. MetricsTypes'
    BY <2>1, Zenon DEF MetricsTypes, Minutes, Bucket
  <2> QED
    BY <2>1, <2>2, <2>3, <2>4, Zenon DEF MetricsInv
<1>5. ASSUME NEW c \in Calls, MarkUpstreamHTTP(c) PROVE MetricsInv'
  BY <1>5, MarkKeeps, Zenon
<1>6. CASE Flush(FALSE) \/ Flush(TRUE)
  BY <1>6, FlushKeeps, Zenon
<1>7. ASSUME NEW v \in Viewers, Subscribe(v) PROVE MetricsInv'
  BY <1>7, SubscribeKeeps, Zenon
<1>8. ASSUME CloseSubscriptions \/ StopMetrics
             \/ \E v \in Viewers : Offer(v) \/ Replace(v) \/ Show(v) \/ Leave(v) \/ Dismissed(v)
      PROVE  UNCHANGED <<clock, call, meter, samples, area, top>>
  BY <1>8, Zenon DEF CloseSubscriptions, StopMetrics, Offer, Replace, Show, Leave, Dismissed,
         Returns, counters
<1>9. CASE UNCHANGED metricsVars
  BY <1>1, <1>9, Zenon DEF metricsVars
<1> QED
  BY <1>1, <1>2, <1>3, <1>4, <1>5, <1>6, <1>7, <1>8, <1>9, Zenon DEF MetricsNext

(* However begins, ends, flushes and the ends of minutes interleave, the   *)
(* live numbers are those of the calls in flight, the samples and the      *)
(* running minute add up to the time that calls were in flight, and a      *)
(* family leaves one sample of a minute, with its true peak                *)
(* (rollBizLocked, rollUpLocked, flush, TakeSamples): for any number of    *)
(* calls, any length of a minute and any number of dashboards.             *)
THEOREM MetricsAccounted == MetricsSpec => []InflightAccounted
<1>1. MetricsInit => MetricsInv
  BY MetricsInitInv, Zenon
<1>2. MetricsInv /\ [MetricsNext]_metricsVars => MetricsInv'
  BY MetricsStepInv, Zenon
<1>3. MetricsInv => InflightAccounted
  <2> SUFFICES ASSUME MetricsInv PROVE InflightAccounted
    BY Zenon
  <2>1. \A f \in Families : meter[f].n = Open(f) /\ Balanced(f, meter[f], samples) /\ Recorded(f, meter[f], samples)
    BY Zenon DEF MetricsInv, Account
  <2>2. \A i \in DOMAIN samples : samples[i] \in Samples
    BY DEF MetricsInv
  <2>3. \A i \in DOMAIN samples : samples[i].family \in Families
    BY <2>2, Zenon DEF Samples
  <2>4. ASSUME NEW i \in DOMAIN samples
        PROVE  /\ samples[i].peak = top[samples[i].family][samples[i].minute]
               /\ \A j \in 1..(i - 1) :
                    <<samples[j].family, samples[j].minute>> # <<samples[i].family, samples[i].minute>>
    BY <2>1, <2>3, Zenon DEF Recorded
  <2> QED
    BY <2>1, <2>4, Zenon DEF InflightAccounted, Balanced
<1> QED
  BY <1>1, <1>2, <1>3, PTL DEF MetricsSpec
-----------------------------------------------------------------------------
(* Proofs about Capacity for any keys, providers and limits: the windows   *)
(* and counters never admit more than the limits allow.                    *)

\* The loop that prunes keeps what is alive and nothing else.
LEMMA AliveFacts ==
  ASSUME NEW w \in Seq(Nat), cut \in Nat
  PROVE  /\ Alive(w) \in Seq(Nat) /\ Len(Alive(w)) <= Len(w)
         /\ \A i : Has(Alive(w), i) <=> After(i) /\ Has(w, i)
<1> DEFINE K == {i \in Nat : After(i)}
<1>1. /\ Kept(w, K) \in Seq(Nat) /\ Len(Kept(w, K)) <= Len(w)
      /\ \A i : Has(Kept(w, K), i) <=> i \in K /\ Has(w, i)
  BY KeptFacts, Zenon
<1>2. \A i : Has(w, i) => i \in Nat
  BY DEF Has
<1> QED
  BY <1>1, <1>2, Zenon DEF Alive

(* A window with room leaves room: where every living entry is in the      *)
(* window and the window is below the limit, one more does not exceed it.  *)
LEMMA RoomForOne ==
  ASSUME NEW w \in Seq(Nat), cut \in Nat, NEW E, \A i \in E : After(i) => Has(w, i),
         NEW limit \in Nat, limit > 0, ~Limited(Len(Alive(w)), limit), NEW x
  PROVE  Cardinality({i \in E \cup {x} : After(i)}) <= limit
<1> DEFINE s == Alive(w)
           n == Len(s)
           R == {s[j] : j \in 1..n}
           L == {i \in E : After(i)}
           M == {i \in E \cup {x} : After(i)}
<1>1. s \in Seq(Nat) /\ \A i : Has(s, i) <=> After(i) /\ Has(w, i)
  BY AliveFacts, Zenon
<1> HIDE DEF s
<1>2. n \in Nat /\ n < limit /\ DOMAIN s = 1..n /\ s \in [1..n -> R]
  BY <1>1 DEF Limited, s
<1>3. s \in Surjection(1..n, R)
  BY <1>2, Zenon DEF Surjection
<1>4. IsFiniteSet(1..n)
  <2>1. 1 \in Int /\ n \in Int
    BY <1>2
  <2> HIDE DEF n
  <2> QED
    BY <2>1, FS_Interval, Zenon
<1>5. IsFiniteSet(R)
  <2> HIDE DEF R, n
  <2> QED
    BY <1>3, <1>4, FS_Surjection, Zenon
<1>6. Cardinality(R) <= n
  <2>1. ExistsSurjection(1..n, R)
    BY <1>3, Zenon DEF ExistsSurjection
  <2> HIDE DEF R, n
  <2> QED
    BY <1>2, <2>1, FS_SurjCardinalityBound, Zenon
<1>7. L \subseteq R
  <2> SUFFICES ASSUME NEW i \in E, After(i) PROVE i \in R
    BY Zenon
  <2>1. Has(s, i)
    BY <1>1, Zenon
  <2> QED
    BY <1>2, <2>1, Zenon DEF Has
<1>8. IsFiniteSet(L) /\ Cardinality(L) <= Cardinality(R)
  <2> HIDE DEF L, R
  <2> QED
    BY <1>5, <1>7, FS_Subset, Zenon
<1>9. IsFiniteSet(L \cup {x}) /\ Cardinality(L \cup {x}) <= Cardinality(L) + 1
  <2> HIDE DEF L
  <2>1. Cardinality(L) \in Nat
    BY <1>8, FS_CardinalityType, Zenon
  <2>2. /\ IsFiniteSet(L \cup {x})
        /\ Cardinality(L \cup {x}) = IF x \in L THEN Cardinality(L) ELSE Cardinality(L) + 1
    BY <1>8, FS_AddElement, Zenon
  <2> QED
    BY <2>1, <2>2
<1>10. Cardinality(M) <= Cardinality(L \cup {x})
  <2>1. M \in SUBSET (L \cup {x})
    BY Zenon
  <2> HIDE DEF L, M
  <2> QED
    BY <1>9, <2>1, FS_Subset, Zenon
<1>11. IsFiniteSet(M)
  <2>1. M \in SUBSET (L \cup {x})
    BY Zenon
  <2> HIDE DEF L, M
  <2> QED
    BY <1>9, <2>1, FS_Subset, Zenon
<1>12. Cardinality(M) \in Nat /\ Cardinality(L) \in Nat /\ Cardinality(R) \in Nat
       /\ Cardinality(L \cup {x}) \in Nat
  <2> HIDE DEF L, M, R
  <2> QED
    BY <1>5, <1>8, <1>9, <1>11, FS_CardinalityType, Zenon
<1> HIDE DEF L, M, R, n
<1>13. Cardinality(M) <= limit
  BY <1>2, <1>6, <1>8, <1>9, <1>10, <1>12
<1> QED
  BY <1>13, Zenon DEF M
-----------------------------------------------------------------------------
States == {"held", "sent", "refunded", "skipped", "request"}
Attempts == {"held", "sent", "refunded", "skipped"}

AttemptsOfKeys == \A i \in DOMAIN at : at[i].st # "request" => at[i].key \in Keys

CapacityTypes ==
  /\ next \in 1..(MaxTimes + 1) /\ cut \in Nat /\ cut < next
  /\ at \in Seq([key : Keys \cup Consumers, st : States]) /\ Len(at) = next - 1
  /\ rpm \in [Keys -> Seq(Nat)] /\ hits \in [Consumers -> Seq(Nat)]
  /\ keyInflight \in [Keys -> Nat] /\ providerInflight \in [Providers -> Nat]
  /\ AttemptsOfKeys

\* Windows hold times of their own key or consumer.
OwnTimes ==
  /\ \A k \in Keys : \A i : Has(rpm[k], i) => i \in Made(k, Attempts)
  /\ \A c \in Consumers : \A i : Has(hits[c], i) => i \in Made(c, {"request"})

\* What was sent or may be, or was let in, in the last minute is in the window.
NothingForgotten ==
  /\ \A k \in Keys : \A i \in Made(k, {"held", "sent"}) : After(i) => Has(rpm[k], i)
  /\ \A c \in Consumers : \A i \in Made(c, {"request"}) : After(i) => Has(hits[c], i)

AtProvider(p) == {i \in DOMAIN at : /\ at[i].key \in Keys /\ ProviderOf[at[i].key] = p
                                    /\ at[i].st \in Counted}

CountersExact ==
  /\ \A k \in Keys : keyInflight[k] = Cardinality(Made(k, Counted))
  /\ \A p \in Providers : providerInflight[p] = Cardinality(AtProvider(p))

ConcurrencyBounded ==
  /\ \A k \in Keys : MaxConcurrency[k] > 0 => keyInflight[k] <= MaxConcurrency[k]
  /\ \A p \in Providers : Concurrency[p] > 0 => providerInflight[p] <= Concurrency[p]

RatesBounded ==
  /\ \A k \in Keys : Within(Made(k, {"held", "sent"}), RPMLimit[k])
  /\ \A c \in Consumers : Within(Made(c, {"request"}), ConsumerRPM)

CapacityInv ==
  /\ CapacityTypes /\ OwnTimes /\ NothingForgotten
  /\ CountersExact /\ ConcurrencyBounded /\ RatesBounded

LEMMA MadeFinite ==
  ASSUME CapacityTypes
  PROVE  /\ DOMAIN at = 1..(next - 1)
         /\ \A k, S : IsFiniteSet(Made(k, S)) /\ Made(k, S) \subseteq 1..(next - 1)
         /\ \A p : IsFiniteSet(AtProvider(p)) /\ AtProvider(p) \subseteq 1..(next - 1)
<1>1. DOMAIN at = 1..(next - 1)
  BY CapacityAssumption DEF CapacityTypes
<1>2. IsFiniteSet(1..(next - 1))
  BY CapacityAssumption, FS_Interval DEF CapacityTypes
<1>3. ASSUME NEW k, NEW S PROVE IsFiniteSet(Made(k, S)) /\ Made(k, S) \subseteq 1..(next - 1)
  <2>1. Made(k, S) \in SUBSET (1..(next - 1))
    BY <1>1, Zenon DEF Made
  <2> QED
    BY <1>2, <2>1, FS_Subset, Zenon
<1>4. ASSUME NEW p PROVE IsFiniteSet(AtProvider(p)) /\ AtProvider(p) \subseteq 1..(next - 1)
  <2>1. AtProvider(p) \in SUBSET (1..(next - 1))
    BY <1>1, Zenon DEF AtProvider
  <2> QED
    BY <1>2, <2>1, FS_Subset, Zenon
<1> QED
  BY <1>1, <1>3, <1>4, Zenon

LEMMA CapacityInvLimits == CapacityInv => LimitsHeld
<1> SUFFICES ASSUME CapacityInv PROVE LimitsHeld
  BY Zenon
<1>0. CapacityTypes /\ OwnTimes /\ CountersExact /\ ConcurrencyBounded /\ RatesBounded
  BY Zenon DEF CapacityInv
<1>1. CapacityTypeOK
  <2>1. next \in 1..(MaxTimes + 1) /\ cut \in 0..MaxTimes /\ Len(at) = next - 1
    BY <1>0, CapacityAssumption DEF CapacityTypes
  <2> QED
    BY <1>0, <2>1, Zenon DEF CapacityTypeOK, OwnTimes, Has, Attempts
<1>2. ASSUME NEW p \in Providers
      PROVE  UNION {Made(k, Counted) : k \in {x \in Keys : ProviderOf[x] = p}} = AtProvider(p)
  BY DEF Made, AtProvider
<1> QED
  BY <1>0, <1>1, <1>2, Zenon DEF LimitsHeld, CountersExact, ConcurrencyBounded, RatesBounded

LEMMA CapacityInitInv == CapacityInit => CapacityInv
<1> SUFFICES ASSUME CapacityInit PROVE CapacityInv
  BY Zenon
<1>1. CapacityTypes
  BY CapacityAssumption DEF CapacityInit, CapacityTypes, AttemptsOfKeys
<1>2. OwnTimes /\ NothingForgotten
  BY DEF CapacityInit, OwnTimes, NothingForgotten, Made, Has
<1>3. \A k, S : Made(k, S) = {}
  BY DEF CapacityInit, Made
<1>4. \A p : AtProvider(p) = {}
  BY DEF CapacityInit, AtProvider
<1>5. CountersExact
  BY <1>3, <1>4, FS_EmptySet, Zenon DEF CapacityInit, CountersExact
<1>6. ConcurrencyBounded
  BY CapacityAssumption DEF CapacityInit, ConcurrencyBounded
<1>7. \A limit \in Nat : Within({}, limit)
  BY FS_EmptySet DEF Within
<1>8. RatesBounded
  BY <1>3, <1>7, CapacityAssumption, Zenon DEF RatesBounded
<1> QED
  BY <1>1, <1>2, <1>5, <1>6, <1>8, Zenon DEF CapacityInv

\* What a step makes of the sets of reservations.
LEMMA MadeAppend ==
  ASSUME CapacityTypes, NEW q \in Keys \cup Consumers, NEW to \in States,
         at' = Append(at, [key |-> q, st |-> to]), next' = next + 1
  PROVE  /\ at' \in Seq([key : Keys \cup Consumers, st : States]) /\ Len(at') = next' - 1
         /\ (to # "request" => q \in Keys) => AttemptsOfKeys'
         /\ \A k, S : Made(k, S)' = Made(k, S) \cup (IF k = q /\ to \in S THEN {next} ELSE {})
         /\ \A p : AtProvider(p)' = AtProvider(p) \cup
              (IF q \in Keys /\ ProviderOf[q] = p /\ to \in Counted THEN {next} ELSE {})
<1>1. at \in Seq([key : Keys \cup Consumers, st : States]) /\ Len(at) = next - 1 /\ next \in Nat \ {0}
  BY CapacityAssumption DEF CapacityTypes
<1>2. [key |-> q, st |-> to] \in [key : Keys \cup Consumers, st : States]
  BY Zenon
<1>3. at' \in Seq([key : Keys \cup Consumers, st : States]) /\ Len(at') = next' - 1
  BY <1>1, <1>2
<1>4. /\ DOMAIN at = 1..(next - 1) /\ DOMAIN at' = 1..next
      /\ \A i \in 1..(next - 1) : at'[i] = at[i]
      /\ at'[next] = [key |-> q, st |-> to]
  BY <1>1, <1>2
<1>5. 1..next = (1..(next - 1)) \cup {next} /\ next \notin 1..(next - 1)
  BY <1>1
<1>6. ASSUME NEW k, NEW S
      PROVE  Made(k, S)' = Made(k, S) \cup (IF k = q /\ to \in S THEN {next} ELSE {})
  BY <1>4, <1>5 DEF Made
<1>7. ASSUME NEW p
      PROVE  AtProvider(p)' = AtProvider(p) \cup
               (IF q \in Keys /\ ProviderOf[q] = p /\ to \in Counted THEN {next} ELSE {})
  BY <1>4, <1>5 DEF AtProvider
<1>8. ASSUME to # "request" => q \in Keys PROVE AttemptsOfKeys'
  BY <1>4, <1>5, <1>8 DEF AttemptsOfKeys, CapacityTypes
<1> QED
  BY <1>3, <1>6, <1>7, <1>8, Zenon

LEMMA MadeMoves ==
  ASSUME CapacityTypes, NEW i \in DOMAIN at, NEW to \in States, at' = [at EXCEPT ![i].st = to]
  PROVE  /\ at' \in Seq([key : Keys \cup Consumers, st : States]) /\ Len(at') = Len(at)
         /\ at[i].key \in Keys \cup Consumers
         /\ (to # "request" => at[i].key \in Keys) => AttemptsOfKeys'
         /\ \A k, S : Made(k, S)' = (Made(k, S) \ {i}) \cup (IF at[i].key = k /\ to \in S THEN {i} ELSE {})
         /\ \A p : AtProvider(p)' = (AtProvider(p) \ {i}) \cup
              (IF at[i].key \in Keys /\ ProviderOf[at[i].key] = p /\ to \in Counted THEN {i} ELSE {})
<1>1. at \in Seq([key : Keys \cup Consumers, st : States])
  BY Zenon DEF CapacityTypes
<1>2. /\ at[i] \in [key : Keys \cup Consumers, st : States]
      /\ at' = [at EXCEPT ![i] = [at[i] EXCEPT !.st = to]]
  <2>1. at[i] \in [key : Keys \cup Consumers, st : States]
    <3> DEFINE R == [key : Keys \cup Consumers, st : States]
    <3>1. at \in Seq(R)
      BY <1>1, Zenon
    <3> HIDE DEF R
    <3>2. at[i] \in R
      BY <3>1
    <3> QED
      BY <3>2, Zenon DEF R
  <2>2. at' = [at EXCEPT ![i] = [at[i] EXCEPT !.st = to]]
    BY Zenon
  <2> QED
    BY <2>1, <2>2, Zenon
<1>3. at' \in Seq([key : Keys \cup Consumers, st : States]) /\ Len(at') = Len(at)
  BY <1>1, <1>2
<1>4. /\ DOMAIN at' = DOMAIN at /\ at'[i].key = at[i].key /\ at'[i].st = to
      /\ \A j \in DOMAIN at : j # i => at'[j] = at[j]
  BY <1>1, <1>2, Zenon
<1>5. ASSUME NEW k, NEW S
      PROVE  Made(k, S)' = (Made(k, S) \ {i}) \cup (IF at[i].key = k /\ to \in S THEN {i} ELSE {})
  BY <1>4, Zenon DEF Made
<1>6. ASSUME NEW p
      PROVE  AtProvider(p)' = (AtProvider(p) \ {i}) \cup
               (IF at[i].key \in Keys /\ ProviderOf[at[i].key] = p /\ to \in Counted THEN {i} ELSE {})
  BY <1>4, Zenon DEF AtProvider
<1>7. ASSUME to # "request" => at[i].key \in Keys PROVE AttemptsOfKeys'
  BY <1>4, <1>7, Zenon DEF AttemptsOfKeys, CapacityTypes
<1> QED
  BY <1>2, <1>3, <1>5, <1>6, <1>7, Zenon

\* A step that changes windows only, to ones with the same living entries.
LEMMA WindowSteps ==
  ASSUME CapacityInv, UNCHANGED <<next, cut, keyInflight, providerInflight, at>>,
         rpm' \in [Keys -> Seq(Nat)], hits' \in [Consumers -> Seq(Nat)],
         \A k \in Keys : \A i : /\ Has(rpm'[k], i) => Has(rpm[k], i)
                                /\ Has(rpm[k], i) /\ After(i) => Has(rpm'[k], i),
         \A c \in Consumers : \A i : /\ Has(hits'[c], i) => Has(hits[c], i)
                                     /\ Has(hits[c], i) /\ After(i) => Has(hits'[c], i)
  PROVE  CapacityInv'
<1>0. /\ CapacityTypes /\ OwnTimes /\ NothingForgotten
      /\ CountersExact /\ ConcurrencyBounded /\ RatesBounded
  BY Zenon DEF CapacityInv
<1>1. /\ \A k, S : Made(k, S)' = Made(k, S)
      /\ \A p : AtProvider(p)' = AtProvider(p)
      /\ \A i : After(i)' <=> After(i)
  BY Zenon DEF Made, AtProvider, After
<1>2. CapacityTypes'
  BY <1>0, Zenon DEF CapacityTypes, AttemptsOfKeys
<1>3. OwnTimes' /\ NothingForgotten'
  <2>1. /\ \A k \in Keys : \A i : Has(rpm[k], i)' <=> Has(rpm'[k], i)
        /\ \A c \in Consumers : \A i : Has(hits[c], i)' <=> Has(hits'[c], i)
    BY Zenon DEF Has
  <2> QED
    BY <1>0, <1>1, <2>1, Zenon DEF OwnTimes, NothingForgotten
<1>4. CountersExact' /\ ConcurrencyBounded'
  BY <1>0, <1>1, Zenon DEF CountersExact, ConcurrencyBounded
<1>5. RatesBounded'
  BY <1>0, <1>1, Zenon DEF RatesBounded, Within, After
<1> QED
  BY <1>2, <1>3, <1>4, <1>5, Zenon DEF CapacityInv

LEMMA CompactedFacts ==
  ASSUME NEW w \in Seq(Nat), cut \in Nat
  PROVE  /\ Compacted(w) \in Seq(Nat)
         /\ \A i : /\ Has(Compacted(w), i) => Has(w, i)
                   /\ Has(w, i) /\ After(i) => Has(Compacted(w), i)
<1> DEFINE s == Alive(w)
           t == SubSeq(w, Len(s) + 1, Len(w))
<1>1. s \in Seq(Nat) /\ Len(s) <= Len(w) /\ \A i : Has(s, i) <=> After(i) /\ Has(w, i)
  BY AliveFacts, Zenon
<1>2. Compacted(w) = s \o t
  BY Zenon DEF Compacted
<1> HIDE DEF s
<1>3. t \in Seq(Nat) /\ \A j \in 1..Len(t) : Len(s) + j \in 1..Len(w) /\ t[j] = w[Len(s) + j]
  <2>1. Len(s) \in Nat /\ Len(w) \in Nat /\ Len(s) + 1 \in 1..(Len(w) + 1)
    BY <1>1
  <2>2. t \in Seq(Nat) /\ Len(t) = Len(w) - Len(s)
    BY <2>1
  <2>3. ASSUME NEW j \in 1..Len(t) PROVE Len(s) + j \in 1..Len(w) /\ t[j] = w[Len(s) + j]
    <3>1. j \in 1..(Len(w) - Len(s)) /\ (Len(s) + 1) + j - 1 = Len(s) + j
      BY <2>1, <2>2
    <3>2. Len(s) + j \in 1..Len(w)
      BY <2>1, <3>1
    <3>3. t[j] = w[Len(s) + j]
      BY <2>1, <3>1
    <3> QED
      BY <3>2, <3>3, Zenon
  <2> QED
    BY <2>2, <2>3, Zenon
<1> HIDE DEF t
<1>4. /\ s \o t \in Seq(Nat) /\ Len(s \o t) = Len(s) + Len(t)
      /\ \A j \in 1..Len(s) : (s \o t)[j] = s[j]
      /\ \A j \in 1..(Len(s) + Len(t)) : j > Len(s) => j - Len(s) \in 1..Len(t) /\ (s \o t)[j] = t[j - Len(s)]
  BY <1>1, <1>3
<1>5. /\ DOMAIN (s \o t) = 1..(Len(s) + Len(t)) /\ DOMAIN s = 1..Len(s) /\ DOMAIN w = 1..Len(w)
      /\ Len(s) \in Nat /\ Len(t) \in Nat
  BY <1>1, <1>3, <1>4
<1>6. ASSUME NEW i, Has(s \o t, i) PROVE Has(w, i)
  <2>1. PICK j \in 1..(Len(s) + Len(t)) : (s \o t)[j] = i
    BY <1>5, <1>6, Zenon DEF Has
  <2>2. CASE j <= Len(s)
    <3>1. j \in 1..Len(s)
      BY <1>5, <2>2
    <3>2. Has(s, i)
      BY <1>4, <1>5, <2>1, <3>1, Zenon DEF Has
    <3> QED
      BY <1>1, <3>2, Zenon
  <2>3. CASE j > Len(s)
    <3>1. j - Len(s) \in 1..Len(t) /\ t[j - Len(s)] = i
      BY <1>4, <2>1, <2>3, Zenon
    <3>2. Len(s) + (j - Len(s)) \in 1..Len(w) /\ w[Len(s) + (j - Len(s))] = i
      BY <1>3, <3>1, Zenon
    <3> QED
      BY <1>5, <3>2, Zenon DEF Has
  <2> QED
    BY <1>5, <2>2, <2>3
<1>7. ASSUME NEW i, Has(w, i), After(i) PROVE Has(s \o t, i)
  <2>1. PICK j \in 1..Len(s) : s[j] = i
    BY <1>1, <1>5, <1>7, Zenon DEF Has
  <2>2. j \in 1..(Len(s) + Len(t))
    BY <1>5
  <2> QED
    BY <1>4, <1>5, <2>1, <2>2, Zenon DEF Has
<1> QED
  BY <1>2, <1>4, <1>6, <1>7, Zenon

LEMMA PruneSteps ==
  ASSUME CapacityInv, NEW k \in Keys, resourceSnapshot(k) \/ refuse(k)
  PROVE  CapacityInv'
<1>0. CapacityTypes
  BY Zenon DEF CapacityInv
<1>1. cut \in Nat /\ rpm[k] \in Seq(Nat) /\ rpm \in [Keys -> Seq(Nat)] /\ hits \in [Consumers -> Seq(Nat)]
  BY <1>0, Zenon DEF CapacityTypes
<1>2. PICK w : /\ rpm' = [rpm EXCEPT ![k] = w]
               /\ w = Alive(rpm[k]) \/ w = Compacted(rpm[k])
               /\ UNCHANGED <<next, cut, keyInflight, providerInflight, hits, at>>
  BY Zenon DEF resourceSnapshot, refuse
<1>3. w \in Seq(Nat) /\ \A i : /\ Has(w, i) => Has(rpm[k], i)
                               /\ Has(rpm[k], i) /\ After(i) => Has(w, i)
  BY <1>1, <1>2, AliveFacts, CompactedFacts, Zenon
<1>4. rpm' \in [Keys -> Seq(Nat)] /\ rpm'[k] = w /\ \A q \in Keys : q # k => rpm'[q] = rpm[q]
  <2>1. w \in Seq(Nat) /\ rpm' = [rpm EXCEPT ![k] = w] /\ rpm \in [Keys -> Seq(Nat)]
    BY <1>1, <1>2, <1>3, Zenon
  <2> DEFINE V == Seq(Nat)
  <2> HIDE DEF V
  <2>2. rpm' \in [Keys -> V] /\ rpm'[k] = w /\ \A q \in Keys : q # k => rpm'[q] = rpm[q]
    BY <2>1, Zenon DEF V
  <2> QED
    BY <2>2, Zenon DEF V
<1>5. \A q \in Keys : \A i : /\ Has(rpm'[q], i) => Has(rpm[q], i)
                             /\ Has(rpm[q], i) /\ After(i) => Has(rpm'[q], i)
  BY <1>3, <1>4, Zenon
<1> QED
  BY <1>1, <1>2, <1>4, <1>5, WindowSteps, Zenon

LEMMA ExpireStep ==
  ASSUME CapacityInv, Expire
  PROVE  CapacityInv'
<1>0. /\ CapacityTypes /\ OwnTimes /\ NothingForgotten
      /\ CountersExact /\ ConcurrencyBounded /\ RatesBounded
  BY Zenon DEF CapacityInv
<1>1. cut + 1 < next /\ cut' = cut + 1
      /\ UNCHANGED <<next, rpm, keyInflight, providerInflight, hits, at>>
  BY Zenon DEF Expire
<1>2. /\ \A k, S : Made(k, S)' = Made(k, S)
      /\ \A p : AtProvider(p)' = AtProvider(p)
      /\ \A w, i : Has(w, i)' <=> Has(w, i)
  BY <1>1, Zenon DEF Made, AtProvider, Has
<1>3. \A i \in Nat : After(i)' => After(i)
  BY <1>0, <1>1 DEF After, CapacityTypes
<1>4. \A k, S : Made(k, S) \subseteq Nat /\ IsFiniteSet(Made(k, S))
  <2>1. 1..(next - 1) \subseteq Nat
    OBVIOUS
  <2> QED
    BY <1>0, <2>1, MadeFinite, Zenon
<1>5. CapacityTypes'
  BY <1>0, <1>1, CapacityAssumption DEF CapacityTypes, AttemptsOfKeys
<1>6. OwnTimes' /\ NothingForgotten'
  <2>1. OwnTimes'
    BY <1>0, <1>1 DEF OwnTimes, Made, Has
  <2>2. NothingForgotten'
    <3>1. ASSUME NEW k \in Keys, NEW i \in Made(k, {"held", "sent"}), After(i)' PROVE Has(rpm[k], i)'
      BY <1>0, <1>1, <1>2, <1>3, <1>4, <3>1, Zenon DEF NothingForgotten
    <3>2. ASSUME NEW c \in Consumers, NEW i \in Made(c, {"request"}), After(i)' PROVE Has(hits[c], i)'
      BY <1>0, <1>1, <1>2, <1>3, <1>4, <3>2, Zenon DEF NothingForgotten
    <3> QED
      BY <1>2, <3>1, <3>2, Zenon DEF NothingForgotten
  <2> QED
    BY <2>1, <2>2, Zenon
<1>7. CountersExact' /\ ConcurrencyBounded'
  BY <1>0, <1>1, <1>2, Zenon DEF CountersExact, ConcurrencyBounded
<1>8. ASSUME NEW k, NEW S, NEW limit \in Nat, Within(Made(k, S), limit) PROVE Within(Made(k, S), limit)'
  <2> DEFINE A == {i \in Made(k, S) : After(i)}
             B == {i \in Made(k, S) : After(i)'}
  <2>1. A \in SUBSET Made(k, S) /\ B \in SUBSET A
    BY <1>3, <1>4, Zenon
  <2>2. IsFiniteSet(A) /\ IsFiniteSet(B) /\ Cardinality(B) <= Cardinality(A)
    <3> HIDE DEF A, B
    <3> QED
      BY <1>4, <2>1, FS_Subset, Zenon
  <2>3. Cardinality(A) \in Nat /\ Cardinality(B) \in Nat
    <3> HIDE DEF A, B
    <3> QED
      BY <2>2, FS_CardinalityType, Zenon
  <2>4. limit > 0 => Cardinality(A) <= limit
    BY <1>8, Zenon DEF Within
  <2>5. limit > 0 => Cardinality(B) <= limit
    <3> HIDE DEF A, B
    <3> QED
      BY <2>2, <2>3, <2>4
  <2> QED
    BY <1>2, <2>5, Zenon DEF Within
<1>9. RatesBounded'
  <2>1. ConsumerRPM \in Nat /\ \A k \in Keys : RPMLimit[k] \in Nat
    BY CapacityAssumption, Zenon
  <2> QED
    BY <1>0, <1>8, <2>1, Zenon DEF RatesBounded
<1> QED
  BY <1>5, <1>6, <1>7, <1>9, Zenon DEF CapacityInv

\* A window that is pruned and takes one more.
LEMMA WindowTakes ==
  ASSUME NEW w \in Seq(Nat), cut \in Nat, NEW x \in Nat
  PROVE  /\ Append(Alive(w), x) \in Seq(Nat)
         /\ \A i : Has(Append(Alive(w), x), i) <=> (After(i) /\ Has(w, i)) \/ i = x
<1> DEFINE s == Alive(w)
           t == Append(s, x)
<1>1. s \in Seq(Nat) /\ \A i : Has(s, i) <=> After(i) /\ Has(w, i)
  BY AliveFacts, Zenon
<1> HIDE DEF s
<1>2. /\ t \in Seq(Nat) /\ DOMAIN s = 1..Len(s) /\ DOMAIN t = 1..(Len(s) + 1) /\ Len(s) \in Nat
      /\ t[Len(s) + 1] = x /\ \A j \in 1..Len(s) : t[j] = s[j]
  BY <1>1
<1> HIDE DEF t
<1>3. ASSUME NEW i, Has(t, i) PROVE Has(s, i) \/ i = x
  <2>1. PICK j \in 1..(Len(s) + 1) : t[j] = i
    BY <1>2, <1>3, Zenon DEF Has
  <2>2. j \in 1..Len(s) \/ j = Len(s) + 1
    BY <1>2, <2>1
  <2> QED
    BY <1>2, <2>1, <2>2, Zenon DEF Has
<1>4. ASSUME NEW i, Has(s, i) \/ i = x PROVE Has(t, i)
  <2>1. Len(s) + 1 \in 1..(Len(s) + 1) /\ \A j \in 1..Len(s) : j \in 1..(Len(s) + 1)
    BY <1>2
  <2> QED
    BY <1>2, <1>4, <2>1, Zenon DEF Has
<1>5. t \in Seq(Nat) /\ \A i : Has(t, i) <=> (After(i) /\ Has(w, i)) \/ i = x
  BY <1>1, <1>2, <1>3, <1>4, Zenon
<1> QED
  BY <1>5, Zenon DEF t, s

\* Counting one more.
LEMMA OneMore ==
  ASSUME NEW S, IsFiniteSet(S), NEW x, x \notin S
  PROVE  Cardinality(S \cup {x}) = Cardinality(S) + 1 /\ Cardinality(S) \in Nat
BY FS_AddElement, FS_CardinalityType, Zenon

LEMMA AcquireStep ==
  ASSUME CapacityInv, NEW k \in Keys, tryAcquire(k)
  PROVE  CapacityInv'
<1> DEFINE p == ProviderOf[k]
<1>0. /\ CapacityTypes /\ OwnTimes /\ NothingForgotten
      /\ CountersExact /\ ConcurrencyBounded /\ RatesBounded
  BY Zenon DEF CapacityInv
<1>1. /\ Refusal(k) = "" /\ next <= MaxTimes
      /\ rpm' = [rpm EXCEPT ![k] = Append(Alive(rpm[k]), next)]
      /\ keyInflight' = [keyInflight EXCEPT ![k] = @ + 1]
      /\ providerInflight' = [providerInflight EXCEPT ![p] = @ + 1]
      /\ at' = Append(at, [key |-> k, st |-> "held"])
      /\ next' = next + 1
      /\ UNCHANGED <<cut, hits>>
  BY Zenon DEF tryAcquire, Reserve
<1>2. /\ p \in Providers /\ RPMLimit[k] \in Nat /\ MaxConcurrency[k] \in Nat /\ Concurrency[p] \in Nat
      /\ next \in Nat /\ cut \in Nat /\ cut < next /\ rpm[k] \in Seq(Nat)
  BY <1>0, CapacityAssumption DEF CapacityTypes
<1>a. /\ keyInflight \in [Keys -> Nat] /\ keyInflight' = [keyInflight EXCEPT ![k] = @ + 1]
      /\ providerInflight \in [Providers -> Nat]
      /\ providerInflight' = [providerInflight EXCEPT ![p] = @ + 1]
  BY <1>0, <1>1, Zenon DEF CapacityTypes
<1>3. /\ ~Limited(Len(Alive(rpm[k])), RPMLimit[k])
      /\ ~Limited(keyInflight[k], MaxConcurrency[k])
      /\ ~Limited(providerInflight[p], Concurrency[p])
  BY <1>1, Zenon DEF Refusal
<1>4. /\ at' \in Seq([key : Keys \cup Consumers, st : States]) /\ Len(at') = next' - 1
      /\ AttemptsOfKeys'
      /\ \A q, S : Made(q, S)' = Made(q, S) \cup (IF q = k /\ "held" \in S THEN {next} ELSE {})
      /\ \A r : AtProvider(r)' = AtProvider(r) \cup (IF r = p THEN {next} ELSE {})
  <2>1. k \in Keys \cup Consumers /\ "held" \in States /\ "held" \in Counted
    BY Zenon DEF States, Counted
  <2>2. /\ at' \in Seq([key : Keys \cup Consumers, st : States]) /\ Len(at') = next' - 1
        /\ AttemptsOfKeys'
        /\ \A q, S : Made(q, S)' = Made(q, S) \cup (IF q = k /\ "held" \in S THEN {next} ELSE {})
        /\ \A r : AtProvider(r)' = AtProvider(r) \cup
             (IF k \in Keys /\ ProviderOf[k] = r /\ "held" \in Counted THEN {next} ELSE {})
    BY <1>0, <1>1, <2>1, MadeAppend, Zenon
  <2> QED
    BY <2>1, <2>2, Zenon
<1>5. /\ Append(Alive(rpm[k]), next) \in Seq(Nat)
      /\ \A i : Has(Append(Alive(rpm[k]), next), i) <=> (After(i) /\ Has(rpm[k], i)) \/ i = next
  BY <1>2, WindowTakes, Zenon
<1>6. rpm' \in [Keys -> Seq(Nat)] /\ rpm'[k] = Append(Alive(rpm[k]), next)
      /\ \A q \in Keys : q # k => rpm'[q] = rpm[q]
  <2> DEFINE V == Seq(Nat)
             w == Append(Alive(rpm[k]), next)
  <2>1. w \in V /\ rpm' = [rpm EXCEPT ![k] = w] /\ rpm \in [Keys -> V]
    BY <1>0, <1>1, <1>5, Zenon DEF CapacityTypes
  <2> HIDE DEF V, w
  <2>2. rpm' \in [Keys -> V] /\ rpm'[k] = w /\ \A q \in Keys : q # k => rpm'[q] = rpm[q]
    BY <2>1, Zenon
  <2> QED
    BY <2>2, Zenon DEF V, w
<1>7. \A i : After(i)' <=> After(i)
  BY <1>1, Zenon DEF After
<1>8. /\ \A q \in Keys : \A i : Has(rpm[q], i)' <=> Has(rpm'[q], i)
      /\ \A c \in Consumers : \A i : Has(hits[c], i)' <=> Has(hits[c], i)
  BY <1>1, Zenon DEF Has
<1>9. CapacityTypes'
  <2>1. keyInflight' \in [Keys -> Nat] /\ providerInflight' \in [Providers -> Nat]
    BY <1>a, <1>2
  <2>2. next' \in 1..(MaxTimes + 1) /\ cut' \in Nat /\ cut' < next'
    <3>1. next' = next + 1 /\ next <= MaxTimes /\ cut' = cut
      BY <1>1, Zenon
    <3> QED
      BY <1>2, <3>1, CapacityAssumption
  <2>3. hits' \in [Consumers -> Seq(Nat)]
    BY <1>0, <1>1, Zenon DEF CapacityTypes
  <2> QED
    BY <1>4, <1>6, <2>1, <2>2, <2>3, Zenon DEF CapacityTypes
<1>10. OwnTimes'
  <2>1. "held" \in Attempts
    BY Zenon DEF Attempts
  <2>2. ASSUME NEW q \in Keys, NEW i, Has(rpm'[q], i) PROVE i \in Made(q, Attempts)'
    <3>1. Has(rpm[q], i) \/ (q = k /\ i = next)
      BY <1>5, <1>6, <2>2, Zenon
    <3>2. Has(rpm[q], i) => i \in Made(q, Attempts)
      BY <1>0, Zenon DEF OwnTimes
    <3> QED
      BY <1>4, <2>1, <3>1, <3>2, Zenon
  <2>3. ASSUME NEW c \in Consumers, NEW i, Has(hits[c], i) PROVE i \in Made(c, {"request"})'
    <3>1. i \in Made(c, {"request"})
      BY <1>0, <2>3, Zenon DEF OwnTimes
    <3> QED
      BY <1>4, <3>1, Zenon
  <2> QED
    BY <1>8, <2>2, <2>3, Zenon DEF OwnTimes
<1>11. NothingForgotten'
  <2>1. ASSUME NEW q \in Keys, NEW i \in Made(q, {"held", "sent"})', After(i) PROVE Has(rpm'[q], i)
    <3>1. i \in Made(q, {"held", "sent"}) \/ (q = k /\ i = next)
      BY <1>4, <2>1, Zenon
    <3>2. i \in Made(q, {"held", "sent"}) => Has(rpm[q], i)
      BY <1>0, <2>1, Zenon DEF NothingForgotten
    <3> QED
      BY <1>5, <1>6, <2>1, <3>1, <3>2, Zenon
  <2>2. ASSUME NEW c \in Consumers, NEW i \in Made(c, {"request"})', After(i) PROVE Has(hits[c], i)
    <3>1. i \in Made(c, {"request"})
      BY <1>4, <2>2, Zenon
    <3> QED
      BY <1>0, <2>2, <3>1, Zenon DEF NothingForgotten
  <2> QED
    BY <1>7, <1>8, <2>1, <2>2, Zenon DEF NothingForgotten
<1>12. CountersExact'
  <2>1. next \notin 1..(next - 1) /\ "held" \in Counted
    BY <1>2 DEF Counted
  <2>2. /\ \A q : IsFiniteSet(Made(q, Counted)) /\ next \notin Made(q, Counted)
        /\ \A r : IsFiniteSet(AtProvider(r)) /\ next \notin AtProvider(r)
    BY <1>0, <2>1, MadeFinite, Zenon
  <2>3. Cardinality(Made(k, Counted) \cup {next}) = keyInflight[k] + 1
    BY <1>0, <2>2, OneMore, Zenon DEF CountersExact
  <2>4. Cardinality(AtProvider(p) \cup {next}) = providerInflight[p] + 1
    BY <1>0, <1>2, <2>2, OneMore, Zenon DEF CountersExact
  <2>5. ASSUME NEW q \in Keys PROVE keyInflight'[q] = Cardinality(Made(q, Counted)')
    <3>1. CASE q = k
      <4>1. keyInflight'[q] = keyInflight[k] + 1
        BY <1>a, <3>1, Zenon
      <4>2. Made(q, Counted)' = Made(k, Counted) \cup {next}
        BY <1>4, <2>1, <3>1, Zenon
      <4> QED
        BY <2>3, <4>1, <4>2, Zenon
    <3>2. CASE q # k
      <4>1. keyInflight'[q] = keyInflight[q]
        BY <1>a, <3>2, Zenon
      <4>2. Made(q, Counted)' = Made(q, Counted)
        BY <1>4, <3>2, Zenon
      <4> QED
        BY <1>0, <4>1, <4>2, Zenon DEF CountersExact
    <3> QED
      BY <3>1, <3>2, Zenon
  <2>6. ASSUME NEW r \in Providers PROVE providerInflight'[r] = Cardinality(AtProvider(r)')
    <3>1. CASE r = p
      <4>1. providerInflight'[r] = providerInflight[p] + 1
        BY <1>a, <3>1, Zenon
      <4>2. AtProvider(r)' = AtProvider(p) \cup {next}
        BY <1>4, <3>1, Zenon
      <4> QED
        BY <2>4, <4>1, <4>2, Zenon
    <3>2. CASE r # p
      <4>1. providerInflight'[r] = providerInflight[r]
        BY <1>a, <3>2, Zenon
      <4>2. AtProvider(r)' = AtProvider(r)
        BY <1>4, <3>2, Zenon
      <4> QED
        BY <1>0, <4>1, <4>2, Zenon DEF CountersExact
    <3> QED
      BY <3>1, <3>2, Zenon
  <2> QED
    BY <2>5, <2>6, Zenon DEF CountersExact
<1>13. ConcurrencyBounded'
  <2>1. ASSUME NEW q \in Keys, MaxConcurrency[q] > 0 PROVE keyInflight'[q] <= MaxConcurrency[q]
    BY <1>0, <1>2, <1>3, <1>a, <2>1 DEF ConcurrencyBounded, Limited
  <2>2. ASSUME NEW r \in Providers, Concurrency[r] > 0 PROVE providerInflight'[r] <= Concurrency[r]
    BY <1>0, <1>2, <1>3, <1>a, <2>2 DEF ConcurrencyBounded, Limited
  <2> QED
    BY <2>1, <2>2, Zenon DEF ConcurrencyBounded
<1>14. RatesBounded'
  <2>1. ASSUME NEW q \in Keys PROVE Within(Made(q, {"held", "sent"}), RPMLimit[q])'
    <3>1. CASE q = k
      <4>1. \A i \in Made(k, {"held", "sent"}) : After(i) => Has(rpm[k], i)
        BY <1>0, Zenon DEF NothingForgotten
      <4>2. RPMLimit[k] > 0 =>
              Cardinality({i \in Made(k, {"held", "sent"}) \cup {next} : After(i)}) <= RPMLimit[k]
        BY <1>2, <1>3, <4>1, RoomForOne, Zenon
      <4>3. Made(q, {"held", "sent"})' = Made(k, {"held", "sent"}) \cup {next}
        BY <1>4, <3>1, Zenon
      <4> QED
        BY <1>7, <3>1, <4>2, <4>3, Zenon DEF Within
    <3>2. CASE q # k
      <4>1. Made(q, {"held", "sent"})' = Made(q, {"held", "sent"})
        BY <1>4, <3>2, Zenon
      <4> QED
        BY <1>0, <1>7, <4>1, Zenon DEF RatesBounded, Within
    <3> QED
      BY <3>1, <3>2, Zenon
  <2>2. ASSUME NEW c \in Consumers PROVE Within(Made(c, {"request"}), ConsumerRPM)'
    <3>1. Made(c, {"request"})' = Made(c, {"request"})
      BY <1>4, Zenon
    <3> QED
      BY <1>0, <1>7, <3>1, Zenon DEF RatesBounded, Within
  <2> QED
    BY <2>1, <2>2, Zenon DEF RatesBounded
<1> QED
  BY <1>9, <1>10, <1>11, <1>12, <1>13, <1>14, Zenon DEF CapacityInv

LEMMA Joined ==
  ASSUME NEW a \in Seq(Nat), NEW b \in Seq(Nat)
  PROVE  /\ a \o b \in Seq(Nat) /\ DOMAIN (a \o b) = 1..(Len(a) + Len(b))
         /\ \A j \in 1..(Len(a) + Len(b)) :
              (a \o b)[j] = IF j <= Len(a) THEN a[j] ELSE b[j - Len(a)]
OBVIOUS

LEMMA Sliced ==
  ASSUME NEW w \in Seq(Nat), NEW m \in 1..(Len(w) + 1), NEW n \in 0..Len(w), m <= n + 1
  PROVE  /\ SubSeq(w, m, n) \in Seq(Nat) /\ Len(SubSeq(w, m, n)) = n - m + 1
         /\ \A j \in 1..(n - m + 1) : SubSeq(w, m, n)[j] = w[m + j - 1]
OBVIOUS

LEMMA CutOne ==
  ASSUME NEW w \in Seq(Nat), NEW f \in 1..Len(w)
  PROVE  LET s == SubSeq(w, 1, f - 1) \o SubSeq(w, f + 1, Len(w))
         IN  /\ s \in Seq(Nat) /\ DOMAIN s = 1..(Len(w) - 1)
             /\ \A j \in 1..(Len(w) - 1) : s[j] = IF j < f THEN w[j] ELSE w[j + 1]
<1> DEFINE a == SubSeq(w, 1, f - 1)
           b == SubSeq(w, f + 1, Len(w))
<1>1. Len(w) \in Nat /\ f \in Nat /\ f >= 1 /\ f <= Len(w)
  OBVIOUS
<1>2. a \in Seq(Nat) /\ Len(a) = f - 1 /\ \A j \in 1..(f - 1) : a[j] = w[j]
  <2>1. 1 \in 1..(Len(w) + 1) /\ f - 1 \in 0..Len(w) /\ 1 <= (f - 1) + 1
        /\ (f - 1) - 1 + 1 = f - 1 /\ \A j \in 1..(f - 1) : 1 + j - 1 = j
    BY <1>1
  <2>2. a \in Seq(Nat) /\ Len(a) = (f - 1) - 1 + 1
        /\ \A j \in 1..((f - 1) - 1 + 1) : a[j] = w[1 + j - 1]
    BY <2>1, Sliced, Zenon
  <2> HIDE DEF a
  <2> QED
    BY <2>1, <2>2, Zenon
<1>3. b \in Seq(Nat) /\ Len(b) = Len(w) - f /\ \A j \in 1..(Len(w) - f) : b[j] = w[f + j]
  <2>1. f + 1 \in 1..(Len(w) + 1) /\ Len(w) \in 0..Len(w) /\ f + 1 <= Len(w) + 1
        /\ Len(w) - (f + 1) + 1 = Len(w) - f
        /\ \A j \in 1..(Len(w) - f) : (f + 1) + j - 1 = f + j
    BY <1>1
  <2>2. b \in Seq(Nat) /\ Len(b) = Len(w) - (f + 1) + 1
        /\ \A j \in 1..(Len(w) - (f + 1) + 1) : b[j] = w[(f + 1) + j - 1]
    BY <2>1, Sliced, Zenon
  <2> HIDE DEF b
  <2> QED
    BY <2>1, <2>2, Zenon
<1> HIDE DEF a, b
<1>4. Len(a) + Len(b) = Len(w) - 1
  BY <1>1, <1>2, <1>3
<1>5. /\ a \o b \in Seq(Nat) /\ DOMAIN (a \o b) = 1..(Len(w) - 1)
      /\ \A j \in 1..(Len(w) - 1) : (a \o b)[j] = IF j <= Len(a) THEN a[j] ELSE b[j - Len(a)]
  <2>1. /\ a \o b \in Seq(Nat) /\ DOMAIN (a \o b) = 1..(Len(a) + Len(b))
        /\ \A j \in 1..(Len(a) + Len(b)) :
             (a \o b)[j] = IF j <= Len(a) THEN a[j] ELSE b[j - Len(a)]
    BY <1>2, <1>3, Joined, Zenon
  <2> QED
    BY <1>4, <2>1, Zenon
<1>6. ASSUME NEW j \in 1..(Len(w) - 1) PROVE (a \o b)[j] = IF j < f THEN w[j] ELSE w[j + 1]
  <2>0. j < f \/ j >= f
    BY <1>1
  <2>1. CASE j < f
    <3>1. j \in 1..(f - 1) /\ j <= Len(a)
      BY <1>1, <1>2, <2>1
    <3> QED
      BY <1>2, <1>5, <2>1, <3>1, Zenon
  <2>2. CASE j >= f
    <3>1. j - Len(a) \in 1..(Len(w) - f) /\ f + (j - Len(a)) = j + 1 /\ ~(j < f) /\ ~(j <= Len(a))
      BY <1>1, <1>2, <2>2
    <3>2. b[j - Len(a)] = w[j + 1]
      BY <1>3, <3>1, Zenon
    <3> QED
      BY <1>5, <3>1, <3>2, Zenon
  <2> QED
    BY <2>0, <2>1, <2>2, Zenon
<1> QED
  BY <1>5, <1>6, Zenon DEF a, b

\* A refund takes one entry out, of no other reservation.
LEMMA WithoutFacts ==
  ASSUME NEW w \in Seq(Nat), NEW x
  PROVE  /\ Without(w, x) \in Seq(Nat)
         /\ \A i : /\ Has(Without(w, x), i) => Has(w, i)
                   /\ Has(w, i) /\ i # x => Has(Without(w, x), i)
<1> DEFINE found == {n \in DOMAIN w : w[n] = x}
           first == CHOOSE n \in found : \A m \in found : n <= m
           a == SubSeq(w, 1, first - 1)
           b == SubSeq(w, first + 1, Len(w))
<1>1. CASE found = {}
  <2>1. Without(w, x) = w
    BY <1>1, Zenon DEF Without
  <2> QED
    BY <2>1, Zenon
<1>2. CASE found # {}
  <2>1. found \subseteq Nat /\ DOMAIN w = 1..Len(w) /\ Len(w) \in Nat
    OBVIOUS
  <2>2. \E n \in found : \A m \in found : n <= m
    <3> HIDE DEF found
    <3> QED
      BY <1>2, <2>1, LeastElement, Zenon
  <2>3. first \in 1..Len(w) /\ w[first] = x
    <3>1. first \in found
      <4> HIDE DEF found
      <4> QED
        BY <2>2, Zenon
    <3> HIDE DEF first
    <3> QED
      BY <2>1, <3>1, Zenon
  <2>4. Without(w, x) = a \o b
    BY <1>2, Zenon DEF Without
  <2> HIDE DEF first
  <2>5. /\ a \o b \in Seq(Nat) /\ DOMAIN (a \o b) = 1..(Len(w) - 1)
        /\ \A j \in 1..(Len(w) - 1) : (a \o b)[j] = IF j < first THEN w[j] ELSE w[j + 1]
    BY <2>3, CutOne, Zenon
  <2> HIDE DEF a, b
  <2>9. ASSUME NEW i, Has(a \o b, i) PROVE Has(w, i)
    <3>1. PICK j \in 1..(Len(w) - 1) : (a \o b)[j] = i
      BY <2>5, <2>9, Zenon DEF Has
    <3>2. j \in 1..Len(w) /\ j + 1 \in 1..Len(w) /\ (w[j] = i \/ w[j + 1] = i)
      <4>1. j \in 1..Len(w) /\ j + 1 \in 1..Len(w)
        BY <2>1, <3>1
      <4> QED
        BY <2>5, <3>1, <4>1, Zenon
    <3> QED
      BY <2>1, <3>2, Zenon DEF Has
  <2>10. ASSUME NEW i, Has(w, i), i # x PROVE Has(a \o b, i)
    <3>1. PICK j \in 1..Len(w) : w[j] = i
      BY <2>1, <2>10, Zenon DEF Has
    <3>2. j # first
      BY <2>3, <2>10, <3>1, Zenon
    <3>3. CASE j < first
      <4>1. j \in 1..(Len(w) - 1) /\ (a \o b)[j] = i
        <5>1. j \in 1..(Len(w) - 1)
          BY <2>1, <2>3, <3>1, <3>3
        <5> QED
          BY <2>5, <3>1, <3>3, <5>1, Zenon
      <4> QED
        BY <2>5, <4>1, Zenon DEF Has
    <3>4. CASE j > first
      <4>1. j - 1 \in 1..(Len(w) - 1) /\ ~(j - 1 < first) /\ (j - 1) + 1 = j
        BY <2>1, <2>3, <3>1, <3>4
      <4>2. (a \o b)[j - 1] = i
        BY <2>5, <3>1, <4>1, Zenon
      <4> QED
        BY <2>5, <4>1, <4>2, Zenon DEF Has
    <3> QED
      BY <2>3, <3>2, <3>3, <3>4
  <2> QED
    BY <2>4, <2>5, <2>9, <2>10, Zenon
<1> QED
  BY <1>1, <1>2, Zenon

LEMMA RefundStep ==
  ASSUME CapacityInv, NEW i \in DOMAIN at, refund(i)
  PROVE  CapacityInv'
<1> DEFINE k == at[i].key
           w == Without(rpm[k], i)
<1>0. /\ CapacityTypes /\ OwnTimes /\ NothingForgotten
      /\ CountersExact /\ ConcurrencyBounded /\ RatesBounded
  BY Zenon DEF CapacityInv
<1>1. /\ at[i].st = "held" /\ rpm' = [rpm EXCEPT ![k] = w] /\ at' = [at EXCEPT ![i].st = "refunded"]
      /\ UNCHANGED <<next, cut, keyInflight, providerInflight, hits>>
  BY Zenon DEF refund, Refund
<1>2. k \in Keys
  BY <1>0, <1>1, Zenon DEF CapacityTypes, AttemptsOfKeys
<1>3. /\ at' \in Seq([key : Keys \cup Consumers, st : States]) /\ Len(at') = Len(at)
      /\ (TRUE => k \in Keys) => AttemptsOfKeys'
      /\ \A q, S : Made(q, S)' = (Made(q, S) \ {i}) \cup (IF k = q /\ "refunded" \in S THEN {i} ELSE {})
      /\ \A p : AtProvider(p)' = (AtProvider(p) \ {i}) \cup
           (IF k \in Keys /\ ProviderOf[k] = p /\ "refunded" \in Counted THEN {i} ELSE {})
  <2>1. "refunded" \in States /\ ("refunded" # "request") = TRUE
    BY Zenon DEF States
  <2> QED
    BY <1>0, <1>1, <2>1, MadeMoves, Zenon
<1>4. /\ \A q : Made(q, Counted)' = Made(q, Counted)
      /\ \A q : Made(q, Attempts)' = Made(q, Attempts)
      /\ \A q : Made(q, {"request"})' = Made(q, {"request"})
      /\ \A q : Made(q, {"held", "sent"})' = Made(q, {"held", "sent"}) \ {i}
      /\ \A p : AtProvider(p)' = AtProvider(p)
  BY <1>1, <1>3 DEF Made, AtProvider, Counted, Attempts
<1>5. /\ \A j : After(j)' <=> After(j)
      /\ \A q \in Keys : \A j : Has(rpm[q], j)' <=> Has(rpm'[q], j)
      /\ \A c \in Consumers : \A j : Has(hits[c], j)' <=> Has(hits[c], j)
  <2>1. cut' = cut /\ hits' = hits
    BY <1>1, Zenon
  <2> QED
    BY <2>1, Zenon DEF After, Has
<1>6. /\ w \in Seq(Nat)
      /\ \A j : (Has(w, j) => Has(rpm[k], j)) /\ (Has(rpm[k], j) /\ j # i => Has(w, j))
  <2>1. rpm[k] \in Seq(Nat)
    BY <1>0, <1>2, Zenon DEF CapacityTypes
  <2> QED
    BY <2>1, WithoutFacts, Zenon
<1> HIDE DEF w
<1>7. rpm' \in [Keys -> Seq(Nat)] /\ rpm'[k] = w /\ \A q \in Keys : q # k => rpm'[q] = rpm[q]
  <2> DEFINE V == Seq(Nat)
  <2>1. w \in V /\ rpm' = [rpm EXCEPT ![k] = w] /\ rpm \in [Keys -> V]
    BY <1>0, <1>1, <1>6, Zenon DEF CapacityTypes
  <2> HIDE DEF V, k
  <2>2. rpm' \in [Keys -> V] /\ rpm'[k] = w /\ \A q \in Keys : q # k => rpm'[q] = rpm[q]
    BY <1>2, <2>1, Zenon
  <2> QED
    BY <2>2, Zenon DEF V
<1> HIDE DEF k
<1>8. CapacityTypes'
  BY <1>0, <1>1, <1>2, <1>3, <1>7, Zenon DEF CapacityTypes
<1>9. OwnTimes'
  <2>1. ASSUME NEW q \in Keys, NEW j, Has(rpm'[q], j) PROVE Has(rpm[q], j)
    BY <1>6, <1>7, <2>1, Zenon
  <2> QED
    BY <1>0, <1>4, <1>5, <2>1, Zenon DEF OwnTimes
<1>10. NothingForgotten'
  <2>1. ASSUME NEW q \in Keys, NEW j \in Made(q, {"held", "sent"}), j # i, After(j) PROVE Has(rpm'[q], j)
    <3>1. Has(rpm[q], j)
      BY <1>0, <2>1, Zenon DEF NothingForgotten
    <3> QED
      BY <1>6, <1>7, <2>1, <3>1, Zenon
  <2>2. ASSUME NEW q \in Keys, NEW j \in Made(q, {"held", "sent"})' PROVE j \in Made(q, {"held", "sent"}) /\ j # i
    BY <1>4, <2>2, Zenon
  <2> QED
    BY <1>0, <1>4, <1>5, <2>1, <2>2, Zenon DEF NothingForgotten
<1>11. CountersExact' /\ ConcurrencyBounded'
  BY <1>0, <1>1, <1>4, Zenon DEF CountersExact, ConcurrencyBounded
<1>12. RatesBounded'
  <2>1. ASSUME NEW q \in Keys PROVE Within(Made(q, {"held", "sent"}), RPMLimit[q])'
    <3> DEFINE A == {j \in Made(q, {"held", "sent"}) : After(j)}
               B == {j \in Made(q, {"held", "sent"}) \ {i} : After(j)}
    <3>1. A \in SUBSET Made(q, {"held", "sent"}) /\ B \in SUBSET A
      BY Zenon
    <3>2. IsFiniteSet(Made(q, {"held", "sent"}))
      BY <1>0, MadeFinite, Zenon
    <3>3. RPMLimit[q] > 0 => Cardinality(A) <= RPMLimit[q]
      BY <1>0, Zenon DEF RatesBounded, Within
    <3> HIDE DEF A, B
    <3>4. IsFiniteSet(A) /\ IsFiniteSet(B) /\ Cardinality(B) <= Cardinality(A)
      BY <3>1, <3>2, FS_Subset, Zenon
    <3>5. Cardinality(A) \in Nat /\ Cardinality(B) \in Nat /\ RPMLimit[q] \in Nat
      BY <3>4, FS_CardinalityType, CapacityAssumption, Zenon
    <3>6. RPMLimit[q] > 0 => Cardinality(B) <= RPMLimit[q]
      BY <3>3, <3>4, <3>5
    <3> QED
      BY <1>4, <1>5, <3>6, Zenon DEF Within, B
  <2>2. ASSUME NEW c \in Consumers PROVE Within(Made(c, {"request"}), ConsumerRPM)'
    BY <1>0, <1>4, <1>5, Zenon DEF RatesBounded, Within
  <2> QED
    BY <2>1, <2>2, Zenon DEF RatesBounded
<1> QED
  BY <1>8, <1>9, <1>10, <1>11, <1>12, Zenon DEF CapacityInv

\* Counting one less: the counter is not at zero.
LEMMA OneLess ==
  ASSUME NEW S, IsFiniteSet(S), NEW x \in S
  PROVE  Dec(Cardinality(S)) = Cardinality(S \ {x}) /\ Dec(Cardinality(S)) <= Cardinality(S)
         /\ Dec(Cardinality(S)) \in Nat /\ Cardinality(S) \in Nat
<1>1. Cardinality(S) \in Nat
  BY FS_CardinalityType, Zenon
<1>2. IsFiniteSet(S \ {x}) /\ Cardinality(S \ {x}) = Cardinality(S) - 1
  BY FS_RemoveElement, Zenon
<1>3. Cardinality(S \ {x}) \in Nat
  BY <1>2, FS_CardinalityType, Zenon
<1> QED
  BY <1>1, <1>2, <1>3 DEF Dec

LEMMA ReleaseStep ==
  ASSUME CapacityInv, NEW i \in DOMAIN at, Release(i)
  PROVE  CapacityInv'
<1> DEFINE k == at[i].key
           p == ProviderOf[k]
           to == IF at[i].st = "held" THEN "sent" ELSE "skipped"
<1>0. /\ CapacityTypes /\ OwnTimes /\ NothingForgotten
      /\ CountersExact /\ ConcurrencyBounded /\ RatesBounded
  BY Zenon DEF CapacityInv
<1>1. /\ at[i].st \in {"held", "refunded"} /\ at' = [at EXCEPT ![i].st = to]
      /\ keyInflight' = [keyInflight EXCEPT ![k] = Dec(@)]
      /\ providerInflight' = [providerInflight EXCEPT ![p] = Dec(@)]
      /\ UNCHANGED <<next, cut, rpm, hits>>
  BY Zenon DEF Release
<1>2. k \in Keys /\ p \in Providers /\ keyInflight \in [Keys -> Nat]
      /\ providerInflight \in [Providers -> Nat]
  BY <1>0, <1>1, CapacityAssumption, Zenon DEF CapacityTypes, AttemptsOfKeys
<1>3. /\ at' \in Seq([key : Keys \cup Consumers, st : States]) /\ Len(at') = Len(at)
      /\ (to # "request" => k \in Keys) => AttemptsOfKeys'
      /\ \A q, S : Made(q, S)' = (Made(q, S) \ {i}) \cup (IF k = q /\ to \in S THEN {i} ELSE {})
      /\ \A r : AtProvider(r)' = (AtProvider(r) \ {i}) \cup
           (IF k \in Keys /\ ProviderOf[k] = r /\ to \in Counted THEN {i} ELSE {})
  <2>1. to \in States
    BY Zenon DEF States
  <2> HIDE DEF to
  <2> QED
    BY <1>0, <1>1, <2>1, MadeMoves, Zenon
<1>4. to \notin Counted /\ to \in Attempts /\ (to \in {"held", "sent"} <=> at[i].st = "held")
      /\ to \notin {"request"}
  BY <1>1, Zenon DEF Counted, Attempts
<1>5. /\ i \in Made(k, Counted) /\ i \in AtProvider(p)
      /\ \A q : q # k => i \notin Made(q, Counted)
      /\ \A r : r # p => i \notin AtProvider(r)
  BY <1>1, <1>2, Zenon DEF Made, AtProvider, Counted
<1>6. /\ \A q : Made(q, Attempts)' = Made(q, Attempts)
      /\ \A q : Made(q, {"request"})' = Made(q, {"request"})
      /\ \A q : Made(q, {"held", "sent"})' = Made(q, {"held", "sent"})
  <2> HIDE DEF to
  <2> QED
    BY <1>1, <1>3, <1>4 DEF Made, Attempts
<1>7. /\ \A q : Made(q, Counted)' = Made(q, Counted) \ {i}
      /\ \A r : AtProvider(r)' = AtProvider(r) \ {i}
  <2> HIDE DEF to
  <2> QED
    BY <1>3, <1>4, Zenon
<1>8. /\ \A j : After(j)' <=> After(j)
      /\ \A q \in Keys : \A j : Has(rpm[q], j)' <=> Has(rpm[q], j)
      /\ \A c \in Consumers : \A j : Has(hits[c], j)' <=> Has(hits[c], j)
  <2>1. cut' = cut /\ hits' = hits /\ rpm' = rpm
    BY <1>1, Zenon
  <2> QED
    BY <2>1, Zenon DEF After, Has
<1>9. /\ Dec(keyInflight[k]) = Cardinality(Made(k, Counted) \ {i})
      /\ Dec(keyInflight[k]) <= keyInflight[k] /\ Dec(keyInflight[k]) \in Nat
      /\ Dec(providerInflight[p]) = Cardinality(AtProvider(p) \ {i})
      /\ Dec(providerInflight[p]) <= providerInflight[p] /\ Dec(providerInflight[p]) \in Nat
  <2>1. IsFiniteSet(Made(k, Counted)) /\ IsFiniteSet(AtProvider(p))
    BY <1>0, MadeFinite, Zenon
  <2>2. keyInflight[k] = Cardinality(Made(k, Counted)) /\ providerInflight[p] = Cardinality(AtProvider(p))
    BY <1>0, <1>2, Zenon DEF CountersExact
  <2> QED
    BY <1>5, <2>1, <2>2, OneLess, Zenon
<1> HIDE DEF k, p, to
<1>10. /\ keyInflight' \in [Keys -> Nat] /\ providerInflight' \in [Providers -> Nat]
       /\ keyInflight'[k] = Dec(keyInflight[k]) /\ providerInflight'[p] = Dec(providerInflight[p])
       /\ \A q \in Keys : q # k => keyInflight'[q] = keyInflight[q]
       /\ \A r \in Providers : r # p => providerInflight'[r] = providerInflight[r]
  <2>1. keyInflight' = [keyInflight EXCEPT ![k] = Dec(keyInflight[k])]
        /\ providerInflight' = [providerInflight EXCEPT ![p] = Dec(providerInflight[p])]
    BY <1>1, Zenon
  <2> QED
    BY <1>2, <1>9, <2>1, Zenon
<1>11. CapacityTypes'
  BY <1>0, <1>1, <1>2, <1>3, <1>10, Zenon DEF CapacityTypes
<1>12. OwnTimes' /\ NothingForgotten'
  <2>1. OwnTimes'
    BY <1>0, <1>6, <1>8, Zenon DEF OwnTimes
  <2>2. NothingForgotten'
    BY <1>0, <1>6, <1>8, Zenon DEF NothingForgotten
  <2> QED
    BY <2>1, <2>2, Zenon
<1>13. CountersExact'
  <2>1. ASSUME NEW q \in Keys PROVE keyInflight'[q] = Cardinality(Made(q, Counted)')
    <3>1. CASE q = k
      BY <1>7, <1>9, <1>10, <3>1, Zenon
    <3>2. CASE q # k
      <4>1. Made(q, Counted)' = Made(q, Counted)
        BY <1>5, <1>7, <3>2, Zenon
      <4> QED
        BY <1>0, <1>10, <3>2, <4>1, Zenon DEF CountersExact
    <3> QED
      BY <3>1, <3>2, Zenon
  <2>2. ASSUME NEW r \in Providers PROVE providerInflight'[r] = Cardinality(AtProvider(r)')
    <3>1. CASE r = p
      BY <1>7, <1>9, <1>10, <3>1, Zenon
    <3>2. CASE r # p
      <4>1. AtProvider(r)' = AtProvider(r)
        BY <1>5, <1>7, <3>2, Zenon
      <4> QED
        BY <1>0, <1>10, <3>2, <4>1, Zenon DEF CountersExact
    <3> QED
      BY <3>1, <3>2, Zenon
  <2> QED
    BY <2>1, <2>2, Zenon DEF CountersExact
<1>14. ConcurrencyBounded'
  <2>1. ASSUME NEW q \in Keys, MaxConcurrency[q] > 0 PROVE keyInflight'[q] <= MaxConcurrency[q]
    BY <1>0, <1>2, <1>9, <1>10, <2>1, CapacityAssumption DEF ConcurrencyBounded
  <2>2. ASSUME NEW r \in Providers, Concurrency[r] > 0 PROVE providerInflight'[r] <= Concurrency[r]
    BY <1>0, <1>2, <1>9, <1>10, <2>2, CapacityAssumption DEF ConcurrencyBounded
  <2> QED
    BY <2>1, <2>2, Zenon DEF ConcurrencyBounded
<1>15. RatesBounded'
  BY <1>0, <1>6, <1>8, Zenon DEF RatesBounded, Within
<1> QED
  BY <1>11, <1>12, <1>13, <1>14, <1>15, Zenon DEF CapacityInv

LEMMA AllowStep ==
  ASSUME CapacityInv, NEW c \in Consumers, Allow(c)
  PROVE  CapacityInv'
<1>0. /\ CapacityTypes /\ OwnTimes /\ NothingForgotten
      /\ CountersExact /\ ConcurrencyBounded /\ RatesBounded
  BY Zenon DEF CapacityInv
<1>1. ConsumerRPM > 0 /\ UNCHANGED <<cut, rpm, keyInflight, providerInflight>>
  BY Zenon DEF Allow
<1>2. /\ next \in Nat /\ cut \in Nat /\ cut < next /\ hits[c] \in Seq(Nat) /\ ConsumerRPM \in Nat
      /\ rpm \in [Keys -> Seq(Nat)] /\ hits \in [Consumers -> Seq(Nat)]
  BY <1>0, CapacityAssumption DEF CapacityTypes
<1>3. ASSUME NEW w \in Seq(Nat), hits' = [hits EXCEPT ![c] = w]
      PROVE  /\ hits' \in [Consumers -> Seq(Nat)] /\ hits'[c] = w
             /\ \A d \in Consumers : d # c => hits'[d] = hits[d]
  <2> DEFINE V == Seq(Nat)
  <2>1. w \in V /\ hits \in [Consumers -> V]
    BY <1>2, Zenon
  <2> HIDE DEF V
  <2>2. hits' \in [Consumers -> V] /\ hits'[c] = w /\ \A d \in Consumers : d # c => hits'[d] = hits[d]
    BY <1>3, <2>1, Zenon
  <2> QED
    BY <2>2, Zenon DEF V
<1>4. CASE ~Allowed(c)
  <2>1. hits' = [hits EXCEPT ![c] = Alive(hits[c])] /\ UNCHANGED <<at, next>>
    BY <1>4, Zenon DEF Allow
  <2>2. Alive(hits[c]) \in Seq(Nat)
        /\ \A i : Has(Alive(hits[c]), i) <=> After(i) /\ Has(hits[c], i)
    BY <1>2, AliveFacts, Zenon
  <2>3. /\ hits' \in [Consumers -> Seq(Nat)] /\ hits'[c] = Alive(hits[c])
        /\ \A d \in Consumers : d # c => hits'[d] = hits[d]
    BY <1>3, <2>1, <2>2, Zenon
  <2>4. \A d \in Consumers : \A i : /\ Has(hits'[d], i) => Has(hits[d], i)
                                    /\ Has(hits[d], i) /\ After(i) => Has(hits'[d], i)
    BY <2>2, <2>3, Zenon
  <2>5. \A k \in Keys : \A i : /\ Has(rpm'[k], i) => Has(rpm[k], i)
                               /\ Has(rpm[k], i) /\ After(i) => Has(rpm'[k], i)
    BY <1>1, Zenon
  <2>6. rpm' \in [Keys -> Seq(Nat)]
    BY <1>1, <1>2, Zenon
  <2> QED
    BY <1>1, <2>1, <2>3, <2>4, <2>5, <2>6, WindowSteps, Zenon
<1>5. CASE Allowed(c)
  <2> DEFINE w == Append(Alive(hits[c]), next)
  <2>1. /\ next <= MaxTimes /\ hits' = [hits EXCEPT ![c] = w]
        /\ at' = Append(at, [key |-> c, st |-> "request"]) /\ next' = next + 1
    BY <1>5, Zenon DEF Allow
  <2>2. ~Limited(Len(Alive(hits[c])), ConsumerRPM)
    BY <1>5, Zenon DEF Allowed
  <2>3. /\ at' \in Seq([key : Keys \cup Consumers, st : States]) /\ Len(at') = next' - 1
        /\ ("request" # "request" => c \in Keys) => AttemptsOfKeys'
        /\ \A q, S : Made(q, S)' = Made(q, S) \cup (IF q = c /\ "request" \in S THEN {next} ELSE {})
        /\ \A r : AtProvider(r)' = AtProvider(r) \cup
             (IF c \in Keys /\ ProviderOf[c] = r /\ "request" \in Counted THEN {next} ELSE {})
    <3>1. c \in Keys \cup Consumers /\ "request" \in States
      BY Zenon DEF States
    <3> QED
      BY <1>0, <2>1, <3>1, MadeAppend, Zenon
  <2>4. /\ \A q : Made(q, Counted)' = Made(q, Counted)
        /\ \A q : Made(q, Attempts)' = Made(q, Attempts)
        /\ \A q : Made(q, {"held", "sent"})' = Made(q, {"held", "sent"})
        /\ \A q : Made(q, {"request"})' = Made(q, {"request"}) \cup (IF q = c THEN {next} ELSE {})
        /\ \A r : AtProvider(r)' = AtProvider(r)
    <3>1. "request" \notin Counted /\ "request" \notin Attempts /\ "request" \notin {"held", "sent"}
      BY Zenon DEF Counted, Attempts
    <3> QED
      BY <2>3, <3>1, Zenon
  <2>5. w \in Seq(Nat) /\ \A i : Has(w, i) <=> (After(i) /\ Has(hits[c], i)) \/ i = next
    BY <1>2, WindowTakes, Zenon
  <2> HIDE DEF w
  <2>6. /\ hits' \in [Consumers -> Seq(Nat)] /\ hits'[c] = w
        /\ \A d \in Consumers : d # c => hits'[d] = hits[d]
    BY <1>3, <2>1, <2>5, Zenon
  <2>7. /\ \A i : After(i)' <=> After(i)
        /\ \A k \in Keys : \A i : Has(rpm[k], i)' <=> Has(rpm[k], i)
        /\ \A d \in Consumers : \A i : Has(hits[d], i)' <=> Has(hits'[d], i)
    <3>1. cut' = cut /\ rpm' = rpm
      BY <1>1, Zenon
    <3> QED
      BY <3>1, Zenon DEF After, Has
  <2>8. CapacityTypes'
    <3>1. next' \in 1..(MaxTimes + 1) /\ cut' \in Nat /\ cut' < next'
      <4>1. next' = next + 1 /\ next <= MaxTimes /\ cut' = cut
        BY <1>1, <2>1, Zenon
      <4> QED
        BY <1>2, <4>1, CapacityAssumption
    <3> QED
      BY <1>0, <1>1, <2>3, <2>6, <3>1, Zenon DEF CapacityTypes
  <2>9. OwnTimes'
    <3>1. ASSUME NEW d \in Consumers, NEW i, Has(hits'[d], i) PROVE i \in Made(d, {"request"})'
      <4>1. Has(hits[d], i) \/ (d = c /\ i = next)
        BY <2>5, <2>6, <3>1, Zenon
      <4>2. Has(hits[d], i) => i \in Made(d, {"request"})
        BY <1>0, Zenon DEF OwnTimes
      <4> QED
        BY <2>4, <4>1, <4>2, Zenon
    <3> QED
      BY <1>0, <2>4, <2>7, <3>1, Zenon DEF OwnTimes
  <2>10. NothingForgotten'
    <3>1. ASSUME NEW d \in Consumers, NEW i \in Made(d, {"request"})', After(i) PROVE Has(hits'[d], i)
      <4>1. i \in Made(d, {"request"}) \/ (d = c /\ i = next)
        BY <2>4, <3>1, Zenon
      <4>2. i \in Made(d, {"request"}) => Has(hits[d], i)
        BY <1>0, <3>1, Zenon DEF NothingForgotten
      <4> QED
        BY <2>5, <2>6, <3>1, <4>1, <4>2, Zenon
    <3> QED
      BY <1>0, <2>4, <2>7, <3>1, Zenon DEF NothingForgotten
  <2>11. CountersExact' /\ ConcurrencyBounded'
    BY <1>0, <1>1, <2>4, Zenon DEF CountersExact, ConcurrencyBounded
  <2>12. RatesBounded'
    <3>1. ASSUME NEW d \in Consumers PROVE Within(Made(d, {"request"}), ConsumerRPM)'
      <4>1. CASE d = c
        <5>1. \A i \in Made(c, {"request"}) : After(i) => Has(hits[c], i)
          BY <1>0, Zenon DEF NothingForgotten
        <5>2. Cardinality({i \in Made(c, {"request"}) \cup {next} : After(i)}) <= ConsumerRPM
          BY <1>1, <1>2, <2>2, <5>1, RoomForOne, Zenon
        <5>3. Made(d, {"request"})' = Made(c, {"request"}) \cup {next}
          BY <2>4, <4>1, Zenon
        <5> QED
          BY <2>7, <5>2, <5>3, Zenon DEF Within
      <4>2. CASE d # c
        <5>1. Made(d, {"request"})' = Made(d, {"request"})
          BY <2>4, <4>2, Zenon
        <5> QED
          BY <1>0, <2>7, <5>1, Zenon DEF RatesBounded, Within
      <4> QED
        BY <4>1, <4>2, Zenon
    <3> QED
      BY <1>0, <2>4, <2>7, <3>1, Zenon DEF RatesBounded, Within
  <2> QED
    BY <2>8, <2>9, <2>10, <2>11, <2>12, Zenon DEF CapacityInv
<1> QED
  BY <1>4, <1>5, Zenon

LEMMA CapacityStepInv == CapacityInv /\ [CapacityNext]_capacityVars => CapacityInv'
<1> SUFFICES ASSUME CapacityInv, [CapacityNext]_capacityVars PROVE CapacityInv'
  BY Zenon
<1>1. CASE UNCHANGED capacityVars
  <2>1. UNCHANGED <<next, cut, keyInflight, providerInflight, at>> /\ rpm' = rpm /\ hits' = hits
    BY <1>1, Zenon DEF capacityVars
  <2>2. rpm' \in [Keys -> Seq(Nat)] /\ hits' \in [Consumers -> Seq(Nat)]
    BY <2>1, Zenon DEF CapacityInv, CapacityTypes
  <2> QED
    BY <2>1, <2>2, WindowSteps, Zenon
<1> QED
  BY <1>1, PruneSteps, AcquireStep, RefundStep, ReleaseStep, AllowStep, ExpireStep, Zenon
     DEF CapacityNext

(* For any number of keys, providers and consumers and any limits: the     *)
(* counters are the attempts under way, no key or provider serves more at  *)
(* once than its limit, and in no minute is a key sent or a consumer let   *)
(* in more often than its rate (tryAcquire, TryAcquireAttempt, Release,    *)
(* rpmLimiter.Allow).                                                      *)
THEOREM LimitsAlwaysHeld == CapacitySpec => []LimitsHeld
<1> QED
  BY CapacityInitInv, CapacityStepInv, CapacityInvLimits, PTL DEF CapacitySpec
=============================================================================
