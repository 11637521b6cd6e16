--------------------------- MODULE RecoveryWorker ---------------------------
(***************************************************************************)
(* The recovery worker of internal/ops: RunRecoveries scans the due gates, *)
(* keeps a bounded queue of them, claims each before it is checked, and    *)
(* runs the checks in a bounded pool of goroutines.                        *)
(*                                                                         *)
(* The gates are RoutingCircuit's, reduced to what the worker's queries    *)
(* and claims see.  line holds the open gates whose deadline has passed,   *)
(* in the order in which it passed, which is the order of the scan's       *)
(* query.  A queued task remembers the generation it was scanned under;    *)
(* all that matters of it is whether the gate has moved since (fresh).     *)
(* Business traffic and the workers of other instances are the             *)
(* environment.                                                            *)
(***************************************************************************)
EXTENDS Naturals, Sequences, FiniteSets, Functions, Collections

CONSTANTS
  Gates,         \* the gates the worker may check
  KeyGate,       \* the key-wide gate of each gate
  Unsupported,   \* gates whose dimension is unknown or cannot be checked
  Validated,     \* gates that business requests validate as well
  Slots,          \* the goroutines that may run at once: the concurrency
  QueueLimit,    \* longest queue (8 times the concurrency)
  PageSize,      \* rows of one page of the scan (64)
  MaxOthers,     \* bound on the claims of another instance, which runs
                 \* beside this one during an update
  MaxFaults      \* bound on failed database calls and overlong checks

ASSUME WorkerAssumption ==
  /\ KeyGate \in [Gates -> Gates] /\ Unsupported \cup Validated \subseteq Gates
  /\ IsFiniteSet(Slots) /\ Slots # {}
  /\ QueueLimit \in Nat \ {0} /\ PageSize \in Nat \ {0}
  /\ MaxOthers \in Nat /\ MaxFaults \in Nat
  /\ {"free", "lease", "other"} \cap Slots = {}

VARIABLES
  st,         \* st[s]: closed, cooling (shut), backing (check backoff) or due
  line,       \* due gates in the order they fell due
  held,       \* held[s]: free, lease (business), other, or the goroutine
  pc,         \* the worker's loop
  offset,     \* rows the scan has paged over
  tasks,      \* what the scan has collected
  pending,    \* tasks waiting for a goroutine
  queued,     \* scopes the scan leaves out
  work,       \* work[g]: the goroutine's scope and whether its result is sent
  cancelled,  \* the worker's context
  faults,     \* failed database calls and overlong checks so far
  others      \* claims of the other instance so far

gates == <<st, line, held>>
queue == <<tasks, pending, queued>>
bounds == <<faults, others>>
vars == <<st, line, held, pc, offset, tasks, pending, queued, work, cancelled, bounds>>

Idle == [ph |-> "idle"]

Running(g) == work[g].ph = "running"
Active == {g \in Slots : work[g] # Idle}
Claimed == {s \in Gates : held[s] \in Slots \cup {"other"}}

\* Gate s moves to another state, and every task scanned before is stale.
Aged(q, s) == [i \in DOMAIN q |-> IF q[i].scope = s THEN [q[i] EXCEPT !.fresh = FALSE]
                                                   ELSE q[i]]
Drop(s) == Kept(line, Gates \ {s})

Moves(s, to) ==
  /\ st' = [st EXCEPT ![s] = to]
  /\ line' = Drop(s)
  /\ held' = [held EXCEPT ![s] = "free"]
  /\ tasks' = Aged(tasks, s) /\ pending' = Aged(pending, s)

\* A failed or neutral check: the gate stays as it is, its next check waits.
Rests(s) ==
  /\ st' = [st EXCEPT ![s] = "backing"]
  /\ line' = Drop(s)
  /\ held' = [held EXCEPT ![s] = "free"]
  /\ UNCHANGED <<tasks, pending>>

Init ==
  /\ st = [s \in Gates |-> "closed"]
  /\ line = <<>>
  /\ held = [s \in Gates |-> "free"]
  /\ pc = "loop" /\ offset = 0
  /\ tasks = <<>> /\ pending = <<>> /\ queued = {}
  /\ work = [g \in Slots |-> Idle]
  /\ cancelled = FALSE /\ faults = 0 /\ others = 0
-----------------------------------------------------------------------------
(* The environment: business traffic, deadlines and other instances.       *)

Trip(s) ==
  /\ st[s] = "closed"
  /\ Moves(s, "cooling")
  /\ UNCHANGED <<pc, offset, queued, work, cancelled, bounds>>

DeadlinePasses(s) ==
  /\ st[s] \in {"cooling", "backing"}
  /\ st' = [st EXCEPT ![s] = "due"]
  /\ line' = Append(line, s)
  /\ UNCHANGED <<held, pc, offset, queue, work, cancelled, bounds>>

(* A business validation takes the gate; it ends with a success, a failure *)
(* that shuts the gate again, or without a verdict.                        *)
Lease(s) ==
  /\ s \in Validated /\ st[s] \in {"due", "backing"} /\ held[s] = "free"
  /\ held' = [held EXCEPT ![s] = "lease"]
  /\ UNCHANGED <<st, line, pc, offset, queue, work, cancelled, bounds>>

LeaseEnds(s) ==
  /\ held[s] = "lease"
  /\ \/ Moves(s, "closed")
     \/ Moves(s, "cooling")
     \/ held' = [held EXCEPT ![s] = "free"] /\ UNCHANGED <<st, line, tasks, pending>>
  /\ UNCHANGED <<pc, offset, queued, work, cancelled, bounds>>

Blocked(s) == KeyGate[s] # s /\ st[KeyGate[s]] \in {"cooling", "backing"}

Family(s) == IF KeyGate[s] = s THEN {q \in Gates : KeyGate[q] = s} ELSE {s, KeyGate[s]}

(* ClaimCheck's conditions on the gates.                                   *)
Claimable(s) ==
  /\ ~Blocked(s)
  /\ \A q \in Family(s) : held[q] = "free"
  /\ st[s] = "due"

CapacityLeft == Cardinality(Claimed) < Cardinality(Slots)

OtherClaims(s) ==
  /\ others < MaxOthers /\ others' = others + 1
  /\ CapacityLeft /\ Claimable(s)
  /\ held' = [held EXCEPT ![s] = "other"]
  /\ UNCHANGED <<st, line, pc, offset, queue, work, cancelled, faults>>

OtherEnds(s) ==
  /\ held[s] = "other"
  /\ \/ Moves(s, "closed")
     \/ Rests(s)
     \/ held' = [held EXCEPT ![s] = "free"] /\ UNCHANGED <<st, line, tasks, pending>>
  /\ UNCHANGED <<pc, offset, queued, work, cancelled, bounds>>

(* A claim of this worker runs out before its settlement, which is a fault *)
(* of a check that outlasts its lease, or without one.                     *)
ClaimExpires(s) ==
  /\ held[s] \in Slots
  /\ held' = [held EXCEPT ![s] = "free"]
  /\ IF Running(held[s]) THEN faults < MaxFaults /\ faults' = faults + 1
                         ELSE UNCHANGED faults
  /\ UNCHANGED <<st, line, pc, offset, queue, work, cancelled, others>>

Cancel ==
  /\ ~cancelled /\ cancelled' = TRUE
  /\ UNCHANGED <<gates, pc, offset, queue, work, bounds>>
-----------------------------------------------------------------------------
(* The worker's loop.                                                      *)

Room == QueueLimit - Len(pending)

Loop ==
  /\ pc = "loop"
  /\ pc' = CASE cancelled -> "drain"
             [] ~cancelled /\ Cardinality(Active) < Cardinality(Slots) -> "scan"
             [] OTHER -> "select"
  /\ offset' = 0 /\ tasks' = <<>>
  /\ UNCHANGED <<gates, pending, queued, work, cancelled, bounds>>

Wanted(s) == s \notin queued /\ s \notin Unsupported

\* The elements of q behind the first lo, up to the hi-th or the last.
Between(q, lo, hi) == SubSeq(q, lo + 1, IF hi < Len(q) THEN hi ELSE Len(q))
Found(q) == [i \in DOMAIN q |-> [scope |-> q[i], fresh |-> TRUE]]

(* One page: a query of its own, so the rows may shift between two pages.  *)
ScanPage ==
  /\ pc = "scan"
  /\ LET rows  == Kept(line, {s \in Gates : held[s] = "free"})
         page  == Between(rows, offset, offset + PageSize)
         found == Kept(page, {s \in Gates : Wanted(s)})
         all   == tasks \o Found(found)
         kept  == Between(all, 0, Room)
     IN  IF Len(all) < Room /\ Len(page) = PageSize
         THEN /\ tasks' = all /\ offset' = offset + PageSize
              /\ UNCHANGED <<pc, pending, queued>>
         ELSE /\ tasks' = <<>> /\ offset' = 0 /\ pc' = "claim"
              /\ pending' = pending \o kept
              /\ queued' = queued \cup {kept[i].scope : i \in DOMAIN kept}
  /\ UNCHANGED <<gates, work, cancelled, bounds>>

ScanFails ==
  /\ pc = "scan" /\ faults < MaxFaults
  /\ faults' = faults + 1
  /\ tasks' = <<>> /\ offset' = 0 /\ pc' = "claim"
  /\ UNCHANGED <<gates, pending, queued, work, cancelled, others>>

\* Mutant: a refused task is dropped but its mark stays.
Unqueue_Forgotten(s) == queued' = queued

Unqueue(s) == queued' = queued \ {s}

MayClaim ==
  /\ pc = "claim"
  /\ Cardinality(Active) < Cardinality(Slots) /\ pending # <<>> /\ ~cancelled

(* The first task is claimed and gets a goroutine, or is refused and       *)
(* dropped; without capacity it waits at the head of the queue.            *)
Start ==
  /\ MayClaim /\ CapacityLeft
  /\ LET t == Head(pending)
     IN  /\ t.fresh /\ Claimable(t.scope)
         /\ \E g \in Slots \ Active :
              /\ held' = [held EXCEPT ![t.scope] = g]
              /\ work' = [work EXCEPT ![g] = [ph |-> "running", scope |-> t.scope]]
  /\ pending' = Tail(pending)
  /\ UNCHANGED <<st, line, pc, offset, tasks, queued, cancelled, bounds>>

\* Mutant: a refused task stays at the head of the queue.
Refuse_Waits ==
  /\ MayClaim /\ CapacityLeft
  /\ LET t == Head(pending)
     IN  ~(t.fresh /\ Claimable(t.scope))
  /\ pc' = "select"
  /\ UNCHANGED <<gates, offset, tasks, pending, queued, work, cancelled, bounds>>

Refuse ==
  /\ MayClaim /\ CapacityLeft
  /\ LET t == Head(pending)
     IN  ~(t.fresh /\ Claimable(t.scope)) /\ Unqueue(t.scope)
  /\ pending' = Tail(pending)
  /\ UNCHANGED <<gates, pc, offset, tasks, work, cancelled, bounds>>

ClaimFails ==
  /\ MayClaim /\ faults < MaxFaults
  /\ faults' = faults + 1
  /\ Unqueue(Head(pending).scope)
  /\ pending' = Tail(pending)
  /\ UNCHANGED <<gates, pc, offset, tasks, work, cancelled, others>>

ClaimsEnd ==
  /\ pc = "claim"
  /\ MayClaim => ~CapacityLeft
  /\ pc' = "select"
  /\ UNCHANGED <<gates, offset, queue, work, cancelled, bounds>>

\* Mutant: nobody listens for results once the loop has ended.
Receive_Selecting(g) ==
  /\ pc = "select" /\ work[g].ph = "sent"
  /\ work' = [work EXCEPT ![g] = Idle]
  /\ pc' = "loop" /\ Unqueue(work[g].scope)
  /\ UNCHANGED <<gates, offset, tasks, pending, cancelled, bounds>>

Receive(g) ==
  /\ pc \in {"select", "drain"} /\ work[g].ph = "sent"
  /\ work' = [work EXCEPT ![g] = Idle]
  /\ IF pc = "select" THEN pc' = "loop" /\ Unqueue(work[g].scope)
                      ELSE UNCHANGED <<pc, queued>>
  /\ UNCHANGED <<gates, offset, tasks, pending, cancelled, bounds>>

TickOrCancel ==
  /\ pc = "select"
  /\ \/ pc' = "loop"
     \/ cancelled /\ pc' = "drain"
  /\ UNCHANGED <<gates, offset, queue, work, cancelled, bounds>>

Stop ==
  /\ pc = "drain" /\ Active = {}
  /\ pc' = "stopped"
  /\ UNCHANGED <<gates, offset, queue, work, cancelled, bounds>>
-----------------------------------------------------------------------------
(* The goroutine of a check: it settles the gate if its claim still        *)
(* stands, and reports to the loop whatever happened.                      *)
CheckEnds(g) ==
  /\ Running(g)
  /\ LET s == work[g].scope
     IN  /\ work' = [work EXCEPT ![g] = [ph |-> "sent", scope |-> s]]
         /\ IF held[s] = g THEN Moves(s, "closed") \/ Rests(s)
                           ELSE UNCHANGED <<gates, tasks, pending>>
  /\ UNCHANGED <<pc, offset, queued, cancelled, bounds>>

CheckLost(g) ==
  /\ Running(g) /\ faults < MaxFaults
  /\ faults' = faults + 1
  /\ work' = [work EXCEPT ![g] = [ph |-> "sent", scope |-> work[g].scope]]
  /\ UNCHANGED <<gates, pc, offset, queue, cancelled, others>>

Environment ==
  \/ \E s \in Gates : Trip(s) \/ DeadlinePasses(s) \/ Lease(s) \/ LeaseEnds(s)
  \/ \E s \in Gates : OtherClaims(s) \/ OtherEnds(s) \/ ClaimExpires(s)
  \/ Cancel

Worker ==
  \/ Loop \/ ScanPage \/ ScanFails \/ Start \/ Refuse \/ ClaimFails \/ ClaimsEnd
  \/ \E g \in Slots : Receive(g)
  \/ TickOrCancel \/ Stop

Goroutines == \E g \in Slots : CheckEnds(g) \/ CheckLost(g)

Next == Environment \/ Worker \/ Goroutines

(* The loop always has a step: its ticker fires every second, and its      *)
(* select takes a ready result at random, so a result is not passed over   *)
(* forever.  A check ends with its timeout, a claim and a lease with       *)
(* theirs, and a deadline is at most 24 hours away.                        *)
Fairness ==
  /\ WF_vars(Worker)
  /\ \A g \in Slots : WF_vars(CheckEnds(g)) /\ SF_vars(Receive(g))
  /\ \A s \in Gates : WF_vars(ClaimExpires(s)) /\ WF_vars(LeaseEnds(s))
                      /\ WF_vars(OtherEnds(s)) /\ WF_vars(DeadlinePasses(s))

Spec == Init /\ [][Next]_vars /\ Fairness
-----------------------------------------------------------------------------
Task == [scope : Gates, fresh : BOOLEAN]

(* Every variable has its shape, and line lists exactly the gates the      *)
(* scan's query would return if nobody held them.                          *)
TypeOK ==
  /\ st \in [Gates -> {"closed", "cooling", "backing", "due"}]
  /\ line \in Seq(Gates) /\ IsInjective(line) /\ Range(line) = {s \in Gates : st[s] = "due"}
  /\ held \in [Gates -> Slots \cup {"free", "lease", "other"}]
  /\ pc \in {"loop", "scan", "claim", "select", "drain", "stopped"}
  /\ offset \in Nat /\ faults \in Nat /\ others \in Nat /\ cancelled \in BOOLEAN
  /\ tasks \in Seq(Task) /\ pending \in Seq(Task) /\ queued \subseteq Gates
  /\ work \in [Slots -> {Idle} \cup [ph : {"running", "sent"}, scope : Gates]]

(* The worker's records stay true however a task ends: no mark in the      *)
(* queued set outlives the last task of its scope (a mark left behind      *)
(* would hide the gate from every later scan), the queue keeps its bound   *)
(* though scans fill it while earlier tasks wait, and when the worker has  *)
(* returned nothing runs on its behalf (RunRecoveries).                    *)
NothingLeftBehind ==
  /\ TypeOK
  /\ pc \notin {"drain", "stopped"} =>
       queued \subseteq {pending[i].scope : i \in DOMAIN pending}
                        \cup {work[g].scope : g \in Active}
  /\ Len(pending) <= QueueLimit
  /\ pc = "stopped" => \A g \in Slots : ~Running(g)

Overdue(s) ==
  /\ s \notin Unsupported /\ st[s] = "due" /\ ~cancelled
  /\ ~Blocked(s) /\ \A q \in Family(s) : held[q] = "free"

(* A due gate that a check could claim does not wait forever: it is        *)
(* claimed, or something else changes about it, although earlier gates are *)
(* refused and requests validate gates all the while (probe-routing-            *)
(* isolation.md:37, pendingRecoveries, RunRecoveries).                     *)
DueGatesServed == \A s \in Gates : Overdue(s) ~> ~Overdue(s)

(* Once cancelled, the worker returns: it collects every check in flight,  *)
(* and each of them reports (the deferred loop of RunRecoveries).          *)
ShutdownReturns == cancelled ~> (pc = "stopped")
=============================================================================
