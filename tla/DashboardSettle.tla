--------------------------- MODULE DashboardSettle --------------------------
(***************************************************************************)
(* The settlement of business statistics (dashboard/settle.go, service.go; *)
(* handler/dash_hooks.go).  Handlers queue a start, one event per attempt  *)
(* and an end in memory; a goroutine drains the queue every second into    *)
(* facts and aggregates, one transaction per event with a ledger row for   *)
(* its key.  What fails is tried again with backoff.  Facts that stay open *)
(* are closed as interrupted, by a job and at start.                       *)
(*                                                                         *)
(* Amounts are counted in attempts: each costs one.  All events fall into  *)
(* one minute, so that they share their aggregate rows.                    *)
(***************************************************************************)
EXTENDS Naturals, Sequences, FiniteSets, Functions, Collections

CONSTANTS
  Instances,    \* processes on the database
  Reqs,         \* requests
  Home,         \* the instance that serves a request
  MaxAttempts,  \* bound: attempts of a request
  QueueLimit,   \* QueueLimit
  MaxErrors,    \* bound: transactions that fail, events others leave no room for
  MaxStops,     \* bound: crashes and shutdowns
  SlowHandler   \* a handler may outlive the six minutes of the stale job

ASSUME SettleAssumption ==
  /\ Home \in [Reqs -> Instances]
  /\ {MaxAttempts, QueueLimit, MaxErrors, MaxStops} \subseteq Nat
  /\ SlowHandler \in BOOLEAN /\ IsFiniteSet(Reqs)

VARIABLES
  inst,      \* instances: state, queue, batch, open transaction, drain pass
  handler,   \* requests: what their handler is at
  fact,      \* RequestFact rows
  attempts,  \* AttemptFact rows: request, number, HTTPSent
  ledger,    \* EventLedger keys
  agg,       \* aggregate rows of the request and of the attempt family
  overflow,  \* Meta.overflow
  errors,    \* failed transactions and events other requests left no room for
  stops      \* crashes and shutdowns

settleVars == <<inst, handler, fact, attempts, ledger, agg, overflow, errors, stops>>

\* Requests whose source is business traffic, not probes.
Business == {r \in Reqs : handler[r].business}

NoTx == [on |-> FALSE]
NoFact == [st |-> "none", success |-> FALSE, interrupted |-> FALSE, sent |-> 0, cost |-> 0]
Up == [st |-> "up", q |-> <<>>, batch |-> <<>>, tx |-> NoTx, before |-> 0, clean |-> TRUE]
NoRequests == [completed |-> 0, success |-> 0, interrupted |-> 0, cost |-> 0]
NoAttempts == [ended |-> 0, consumed |-> 0, quality |-> 0]

SettleInit ==
  /\ inst = [i \in Instances |-> Up]
  /\ handler \in [Reqs -> {[st |-> "new", n |-> 0, wire |-> FALSE, sent |-> 0, ended |-> FALSE,
                            business |-> b] : b \in BOOLEAN}]
  /\ fact = [r \in Reqs |-> NoFact]
  /\ attempts = {} /\ ledger = {}
  /\ agg = [request |-> NoRequests, attempt |-> NoAttempts]
  /\ overflow = FALSE /\ errors = 0 /\ stops = 0
-----------------------------------------------------------------------------
Events == [kind : {"start", "attempt", "end"}, r : Reqs, n : 0..MaxAttempts,
           flag : BOOLEAN, intr : BOOLEAN, tried : BOOLEAN]

StartOf(r) == [kind |-> "start", r |-> r, n |-> 0, flag |-> FALSE, intr |-> FALSE, tried |-> FALSE]
AttemptOf(r, n, sent) ==
  [kind |-> "attempt", r |-> r, n |-> n, flag |-> sent, intr |-> FALSE, tried |-> FALSE]
EndOf(r, sent, ok, intr) ==
  [kind |-> "end", r |-> r, n |-> sent, flag |-> ok, intr |-> intr, tried |-> FALSE]

\* The ledger key: an interrupted end has the key of the real one.
Key(e) == <<e.kind, e.r, IF e.kind = "attempt" THEN e.n ELSE 0>>

(* Enqueue.  The queue is full of this request's events or of others'.  An *)
(* event that arrives while the last pass of a shutdown is under way is    *)
(* one drainFinal does not expect.                                         *)
Enqueue(i, e) ==
  \/ /\ Len(inst[i].q) < QueueLimit
     /\ inst' = [inst EXCEPT ![i].q = Append(@, e),
                             ![i].clean = @ /\ inst[i].st # "final"]
     /\ UNCHANGED <<overflow, errors>>
  \/ /\ \/ Len(inst[i].q) >= QueueLimit /\ UNCHANGED errors
        \/ errors < MaxErrors /\ errors' = errors + 1
     /\ overflow' = TRUE /\ UNCHANGED inst

(* The handler.  finishLog emits the end of a request before the deferred  *)
(* completeAttempt emits its last attempt.                                 *)
HandlerStep(r, h, e) ==
  /\ inst[Home[r]].st \in {"up", "draining"}
  /\ handler' = [handler EXCEPT ![r] = h]
  /\ IF e = <<>> THEN UNCHANGED <<inst, overflow, errors>> ELSE Enqueue(Home[r], e[1])
  /\ UNCHANGED <<fact, attempts, ledger, agg, stops>>

StartRequest(r) ==
  /\ handler[r].st = "new" /\ inst[Home[r]].st = "up"
  /\ HandlerStep(r, [handler[r] EXCEPT !.st = "idle"], <<StartOf(r)>>)

StartAttempt(r) ==
  /\ handler[r].st = "idle" /\ handler[r].n < MaxAttempts
  /\ HandlerStep(r, [handler[r] EXCEPT !.st = "attempt", !.n = @ + 1, !.wire = FALSE], <<>>)

SendHTTP(r) ==
  /\ handler[r].st = "attempt" /\ ~handler[r].wire
  /\ HandlerStep(r, [handler[r] EXCEPT !.wire = TRUE, !.sent = @ + 1], <<>>)

LastAttempt(r) == AttemptOf(r, handler[r].n, handler[r].wire)

\* An attempt that the next one follows.
Failover(r) ==
  /\ handler[r].st = "attempt"
  /\ HandlerStep(r, [handler[r] EXCEPT !.st = "idle"], <<LastAttempt(r)>>)

\* emitDashEnd: success, failure, or a failure that reads like a cancellation.
Finish(r, ok, intr) ==
  /\ handler[r].st \in {"idle", "attempt"}
  /\ ok => handler[r].st = "attempt" /\ handler[r].wire /\ ~intr
  /\ HandlerStep(r, [handler[r] EXCEPT !.st = IF @ = "attempt" THEN "deferred" ELSE "done",
                                       !.ended = TRUE],
                 <<EndOf(r, handler[r].sent, ok, intr)>>)

completeAttempt(r) ==
  /\ handler[r].st = "deferred"
  /\ HandlerStep(r, [handler[r] EXCEPT !.st = "done"], <<LastAttempt(r)>>)
-----------------------------------------------------------------------------
Due(e) == ~e.tried

\* drainOnce takes what is due: all that is new, and what has waited enough.
drainOnce(i) ==
  /\ inst[i].st \in {"up", "draining"} /\ inst[i].batch = <<>> /\ inst[i].q # <<>>
  /\ \E waited \in BOOLEAN :
       LET due == {e \in Events : Due(e) \/ waited}
       IN  /\ Kept(inst[i].q, due) # <<>>
           /\ inst' = [inst EXCEPT ![i].batch = Kept(inst[i].q, due),
                                   ![i].q = Kept(inst[i].q, Events \ due)]
  /\ UNCHANGED <<handler, fact, attempts, ledger, agg, overflow, errors, stops>>

Sent(r) == {a \in attempts : a.r = r /\ a.sent}

\* Mutant: the end does not wait for the attempts.
Ready_Any(e) == e.kind = "end" => fact[e.r].st # "none"

\* process: an end needs its fact, and all attempts unless it is interrupted.
Ready(e) ==
  e.kind = "end" =>
    /\ fact[e.r].st # "none"
    /\ fact[e.r].st = "open" /\ ~e.intr => e.n <= Cardinality(Sent(e.r))

Head1(i) == Head(inst[i].batch)
Idle(i) == inst[i].batch # <<>> /\ ~inst[i].tx.on

Known(e) == Key(e) \in ledger

Taken(i, st) == [inst EXCEPT ![i] = [st EXCEPT !.batch = Tail(@)]]

\* A key the ledger has: nothing to do.
Duplicate(i) ==
  /\ Idle(i) /\ Known(Head1(i))
  /\ inst' = Taken(i, inst[i])
  /\ UNCHANGED <<handler, fact, attempts, ledger, agg, overflow, errors, stops>>

\* A failed event is put back to be tried again.
Retried(i, err) ==
  Taken(i, [inst[i] EXCEPT !.q = Append(@, [Head1(i) EXCEPT !.tried = TRUE]),
                           !.clean = @ /\ ~(err /\ inst[i].st = "final")])

\* The transaction fails: a dependency is missing, or the database refuses.
Fail(i) ==
  /\ Idle(i)
  /\ \/ ~Known(Head1(i)) /\ ~Ready(Head1(i)) /\ inst' = Retried(i, FALSE) /\ UNCHANGED errors
     \/ errors < MaxErrors /\ errors' = errors + 1 /\ inst' = Retried(i, TRUE)
  /\ UNCHANGED <<handler, fact, attempts, ledger, agg, overflow, stops>>

(* An end whose start was lost is refused after thirty days of retries     *)
(* (ReplayRejectAge); by then the stale job has closed every open fact.    *)
Expire(i) ==
  /\ Idle(i) /\ Head1(i).kind = "end" /\ Head1(i).tried /\ fact[Head1(i).r].st = "none"
  /\ \A j \in Instances : \A e \in Range(inst[j].q) \cup Range(inst[j].batch) :
       ~(e.kind = "start" /\ e.r = Head1(i).r)
  /\ inst' = Taken(i, inst[i])
  /\ UNCHANGED <<handler, fact, attempts, ledger, agg, overflow, errors, stops>>

(* The transaction inserts the ledger row, which waits for another one     *)
(* with the same key, and reads the aggregate rows (getMinute, getDay).    *)
Transaction(i) ==
  /\ Idle(i) /\ ~Known(Head1(i)) /\ Ready(Head1(i))
  /\ \A j \in Instances \ {i} : inst[j].tx.on => Key(Head1(j)) # Key(Head1(i))
  /\ inst' = [inst EXCEPT ![i].tx = [on |-> TRUE, read |-> agg]]
  /\ UNCHANGED <<handler, fact, attempts, ledger, agg, overflow, errors, stops>>

One(b) == IF b THEN 1 ELSE 0

updateRequestFact(e) ==
  [st |-> "done", success |-> e.flag, interrupted |-> e.intr, sent |-> e.n,
   cost |-> Cardinality(Sent(e.r))]

applyRequestAgg(row, f) ==
  [completed |-> row.completed + 1, success |-> row.success + One(f.success),
   interrupted |-> row.interrupted + One(f.interrupted), cost |-> row.cost + f.cost]

Quality(r) == One(r \in Business)

applyAttemptAgg(row, e) ==
  [ended |-> row.ended + 1, consumed |-> row.consumed + One(e.flag),
   quality |-> row.quality + Quality(e.r)]

(* ... and writes what it read, changed, with everything else of the       *)
(* event.  The answer to the commit may be lost: the event is tried again. *)
Commit(i) ==
  /\ inst[i].tx.on
  /\ LET e == Head1(i)
         read == inst[i].tx.read
         settles == e.kind = "end" /\ fact[e.r].st = "open"
     IN  /\ ledger' = ledger \cup {Key(e)}
         /\ fact' = CASE e.kind = "start" -> [fact EXCEPT ![e.r].st = "open"]
                      [] settles -> [fact EXCEPT ![e.r] = updateRequestFact(e)]
                      [] OTHER -> fact
         /\ attempts' = IF e.kind = "attempt"
                        THEN attempts \cup {[r |-> e.r, n |-> e.n, sent |-> e.flag]} ELSE attempts
         /\ agg' = CASE e.kind = "attempt" ->
                          [agg EXCEPT !.attempt = applyAttemptAgg(read.attempt, e)]
                     [] settles /\ e.r \in Business ->
                          [agg EXCEPT !.request = applyRequestAgg(read.request, updateRequestFact(e))]
                     [] OTHER -> agg
  /\ \/ inst' = Taken(i, [inst[i] EXCEPT !.tx = NoTx]) /\ UNCHANGED errors
     \/ /\ errors < MaxErrors /\ errors' = errors + 1
        /\ inst' = [Retried(i, TRUE) EXCEPT ![i].tx = NoTx]
  /\ UNCHANGED <<handler, overflow, stops>>
-----------------------------------------------------------------------------
\* Mutant: only facts whose process died are taken for stale.
StaleFact_Lost(r) == fact[r].st = "open" /\ handler[r].st = "lost"

(* Six minutes have passed since the start: a handler has returned by then *)
(* (attempts end after 300 s) unless its client is slow to read.           *)
StaleFact(r) ==
  /\ fact[r].st = "open"
  /\ handler[r].st \in {"done", "lost"} \/ SlowHandler

Interrupts(i, r) ==
  \E e \in Range(inst[i].q) \cup Range(inst[i].batch) : e.kind = "end" /\ e.r = r /\ e.intr

(* The job of every minute queues an interrupted end for each stale fact;  *)
(* one that waits stands for all that follow it.  The job may still run    *)
(* when the instance shuts down.                                           *)
InterruptStale(i, r) ==
  /\ inst[i].st # "down" /\ StaleFact(r) /\ ~Interrupts(i, r)
  /\ Enqueue(i, EndOf(r, 0, FALSE, TRUE))
  /\ UNCHANGED <<handler, fact, attempts, ledger, agg, stops>>

\* Shutdown: no new requests, the handlers return ...
StopAccepting(i) ==
  /\ inst[i].st = "up" /\ stops < MaxStops
  /\ inst' = [inst EXCEPT ![i].st = "draining"] /\ stops' = stops + 1
  /\ UNCHANGED <<handler, fact, attempts, ledger, agg, overflow, errors>>

HandlersDone(i) == \A r \in Reqs : Home[r] = i => handler[r].st \in {"new", "done", "lost"}

\* Mutant: one pass, whatever it settled.
MorePasses_One(i) == inst[i].st = "draining"

\* drainFinal: another pass as long as the last one made the queue shorter.
MorePasses(i) == inst[i].st = "draining" \/ Len(inst[i].q) < inst[i].before

\* ... and the queue is drained, backoff or not.
drainFinal(i) ==
  /\ inst[i].st \in {"draining", "final"} /\ HandlersDone(i) /\ inst[i].batch = <<>>
  /\ inst' = [inst EXCEPT ![i] =
       IF inst[i].q # <<>> /\ MorePasses(i)
       THEN [@ EXCEPT !.st = "final", !.before = Len(inst[i].q), !.batch = inst[i].q,
                      !.q = <<>>, !.clean = TRUE]
       ELSE [@ EXCEPT !.st = "down", !.before = 0]]
  /\ UNCHANGED <<handler, fact, attempts, ledger, agg, overflow, errors, stops>>

\* The process dies: its queue, its transaction and its handlers are gone.
Crash(i) ==
  /\ inst[i].st # "down" /\ stops < MaxStops
  /\ inst' = [inst EXCEPT ![i] = [Up EXCEPT !.st = "down", !.clean = FALSE]]
  /\ handler' = [r \in Reqs |-> IF Home[r] = i /\ handler[r].st \notin {"new", "done"}
                                THEN [handler[r] EXCEPT !.st = "lost"] ELSE handler[r]]
  /\ stops' = stops + 1
  /\ UNCHANGED <<fact, attempts, ledger, agg, overflow, errors>>

(* A restart; recoverUnprocessed queues an interrupted end for the facts   *)
(* that are open for six minutes already.                                  *)
Restart(i) ==
  /\ inst[i].st = "down"
  /\ \E R \in SUBSET {r \in Reqs : StaleFact(r)} :
       \E ends \in Injection(1..Cardinality(R), {EndOf(r, 0, FALSE, TRUE) : r \in R}) :
         inst' = [inst EXCEPT ![i] = [Up EXCEPT !.q = ends]]
  /\ UNCHANGED <<handler, fact, attempts, ledger, agg, overflow, errors, stops>>

Serve(r) ==
  \/ StartAttempt(r) \/ SendHTTP(r) \/ Failover(r) \/ completeAttempt(r)
  \/ \E ok, intr \in BOOLEAN : Finish(r, ok, intr)

Settle(i) ==
  drainOnce(i) \/ Duplicate(i) \/ Fail(i) \/ Expire(i) \/ Transaction(i) \/ Commit(i)

SettleNext ==
  \/ \E r \in Reqs : StartRequest(r) \/ Serve(r)
  \/ \E i \in Instances : Settle(i) \/ StopAccepting(i) \/ drainFinal(i) \/ Crash(i) \/ Restart(i)
  \/ \E i \in Instances, r \in Reqs : InterruptStale(i, r)

\* Fairness: the handler returns, the goroutines run, the job runs, the process is restarted.
SettleFairness ==
  /\ \A r \in Reqs : WF_settleVars(Serve(r))
  /\ \A i \in Instances : /\ WF_settleVars(Settle(i)) /\ SF_settleVars(Expire(i))
                          /\ WF_settleVars(drainFinal(i)) /\ WF_settleVars(Restart(i))
                          /\ \A r \in Reqs : SF_settleVars(InterruptStale(i, r))

SettleSpec == SettleInit /\ [][SettleNext]_settleVars /\ SettleFairness
-----------------------------------------------------------------------------
SettleTypeOK ==
  /\ \A i \in Instances :
       /\ inst[i].st \in {"up", "draining", "final", "down"}
       /\ Range(inst[i].q) \cup Range(inst[i].batch) \subseteq Events
       /\ inst[i].tx.on \in BOOLEAN /\ inst[i].tx.on => inst[i].batch # <<>>
  /\ \A r \in Reqs :
       /\ handler[r].st \in {"new", "idle", "attempt", "deferred", "done", "lost"}
       /\ handler[r].sent <= handler[r].n /\ handler[r].n <= MaxAttempts
       /\ fact[r].st \in {"none", "open", "done"}
  /\ attempts \subseteq [r : Reqs, n : 1..MaxAttempts, sent : BOOLEAN]
  /\ overflow \in BOOLEAN /\ errors <= MaxErrors /\ stops <= MaxStops

Settled == {r \in Business : fact[r].st = "done"}

(* Every settled request and every attempt is in the aggregates once, with *)
(* what its fact says, whatever was retried, queued twice or interrupted   *)
(* (process: the ledger row and the sums are one transaction).  A request  *)
(* settled as finished includes every attempt that was sent for it, though *)
(* its end is queued before the last of them ("waiting for attempts").     *)
AggregatesExact ==
  /\ SettleTypeOK
  /\ agg.request.completed = Cardinality(Settled)
  /\ agg.request.success = Cardinality({r \in Settled : fact[r].success})
  /\ agg.request.interrupted = Cardinality({r \in Settled : fact[r].interrupted})
  /\ agg.request.cost = SumOver([r \in Settled |-> fact[r].cost], Settled)
  /\ agg.attempt = [ended |-> Cardinality(attempts),
                    consumed |-> Cardinality({a \in attempts : a.sent}),
                    quality |-> Cardinality({a \in attempts : a.r \in Business})]
  /\ \A r \in Reqs : fact[r].st = "done" /\ ~fact[r].interrupted => fact[r].cost = handler[r].sent

Emitted(r) ==
  (IF handler[r].st = "new" THEN {} ELSE {<<"start", r, 0>>})
    \cup (IF handler[r].ended THEN {<<"end", r, 0>>} ELSE {})
    \cup {<<"attempt", r, n>> : n \in 1..handler[r].n
                                 - One(handler[r].st \in {"attempt", "deferred"})}

Waiting == UNION {{Key(e) : e \in Range(inst[i].q) \cup Range(inst[i].batch)} : i \in Instances}

(* No event is lost in silence.  As long as no process stopped, what a     *)
(* handler emitted is in the ledger or waits, or the data are marked       *)
(* incomplete (Enqueue, drainOnce).  A shutdown whose last pass met no     *)
(* database error and no new event leaves none behind that could be        *)
(* settled (drainFinal: "make another pass while dependencies progress").  *)
NoSilentLoss ==
  /\ stops = 0 => \A r \in Reqs : Emitted(r) \subseteq ledger \cup Waiting \/ overflow
  /\ \A i \in Instances : inst[i].st = "down" /\ inst[i].clean =>
       \A e \in Range(inst[i].q) : ~Ready(e)

(* Every open fact is closed in the end, by its own end or as interrupted, *)
(* even when its attempts, its end or its process are lost                 *)
(* (InterruptStale, recoverUnprocessed).                                   *)
FactsClose == \A r \in Reqs : fact[r].st = "open" ~> fact[r].st = "done"
=============================================================================
