---------------------------- MODULE RoutingBudget ---------------------------
(***************************************************************************)
(* The shared allowances of internal/routinghealth: one request in every   *)
(* interval may explore (Slot), and a few requests a minute may validate   *)
(* an open gate while healthy candidates remain (RecoverySlot).  Both are  *)
(* rows of routing_budgets, counted across processes; each call is one     *)
(* transaction that writes its row before it reads it, so a call is one    *)
(* action.  Previews of the admin pages ask without taking.                *)
(*                                                                         *)
(* One route scope; time in seconds.  The history variables calls, slots   *)
(* and grants are not in the code.                                         *)
(***************************************************************************)
EXTENDS Naturals, FiniteSets, FiniteSetsExt

CONSTANTS
  Intervals,     \* exploration intervals an administrator may set (0: off)
  MaxCalls,      \* bound on calls between two changes of the interval
  MaxTime        \* bound on the clock

ASSUME BudgetAssumption ==
  /\ Intervals \subseteq Nat \ {1}
  /\ MaxCalls \in Nat /\ MaxTime \in Nat

Minute == 60

VARIABLES
  now,        \* the clock
  interval,   \* ceil(1 / ExplorationRatio), or 0
  row,        \* the exploration row of the scope: whether it exists, its counter
  after,      \* RecoveryAfter of its row "recovery:" + scope (0: none yet)
  calls,      \* Slot calls since the interval was set
  slots,      \* those that were granted
  grants      \* times at which a recovery slot was granted

budgetVars == <<now, interval, row, after, calls, slots, grants>>

(* Normalize and recoverySpacing.  The picker builds its store without the *)
(* scheduler's settings (routing_health.go:197), so the budget it reads is *)
(* the zero value.                                                         *)
StoreBudget == 0
NormalizedBudget(b) == IF b = 0 THEN 3 ELSE Min({b, 10})
recoverySpacing == Minute \div NormalizedBudget(StoreBudget)

BudgetInit ==
  /\ now = 1 /\ interval \in Intervals
  /\ row = [made |-> FALSE, counter |-> 0] /\ after = 0
  /\ calls = 0 /\ slots = 0 /\ grants = {}

\* The row a request's Slot call leaves, and what it answers.
Counted(r) == [made |-> TRUE, counter |-> (r.counter + 1) % interval]
Granted(r) == r.counter % interval = 0

\* Mutant: off by one, two requests of an interval explore.
Slot_OffByOne ==
  /\ interval # 0 /\ calls < MaxCalls
  /\ row' = Counted(row)
  /\ calls' = calls + 1
  /\ slots' = IF row'.counter % interval <= 1 THEN slots + 1 ELSE slots
  /\ UNCHANGED <<now, interval, after, grants>>

(* prepareBudget of a request's first pick; with exploration off the store *)
(* is not touched.                                                         *)
Slot ==
  /\ interval # 0 /\ calls < MaxCalls
  /\ row' = Counted(row)
  /\ calls' = calls + 1
  /\ slots' = IF Granted(row') THEN slots + 1 ELSE slots
  /\ UNCHANGED <<now, interval, after, grants>>

PreviewSlot == row.made /\ (row.counter + 1) % interval = 0

SetInterval(i) ==
  /\ i # interval /\ interval' = i
  /\ calls' = 0 /\ slots' = 0
  /\ UNCHANGED <<now, row, after, grants>>

Allowed == after <= now

(* Only a granted call moves the row's deadline.                           *)
RecoverySlot ==
  /\ after' = IF Allowed THEN now + recoverySpacing ELSE after
  /\ grants' = IF Allowed THEN grants \cup {now} ELSE grants
  /\ UNCHANGED <<now, interval, row, calls, slots>>

Tick ==
  /\ now < MaxTime /\ now' = now + 1
  /\ UNCHANGED <<interval, row, after, calls, slots, grants>>

BudgetNext ==
  \/ Slot \/ RecoverySlot \/ Tick
  \/ \E i \in Intervals : SetInterval(i)

BudgetSpec == BudgetInit /\ [][BudgetNext]_budgetVars
-----------------------------------------------------------------------------
(* However the calls of the processes interleave, and whatever counter an  *)
(* earlier interval left behind, the requests since the interval was set   *)
(* got their share of slots to within one, and a preview shows what the    *)
(* next request will get, although the row may not exist yet (Slot); no    *)
(* minute holds more recovery slots than the budget the store works with   *)
(* (RecoverySlot, recoverySpacing).                                        *)
ExplorationShare ==
  /\ interval # 0 =>
       /\ slots * interval < calls + interval
       /\ calls < slots * interval + interval
       /\ PreviewSlot <=> Granted(Counted(row))
  /\ \A t \in grants :
       Cardinality({u \in grants : t <= u /\ u < t + Minute}) <= NormalizedBudget(StoreBudget)
=============================================================================
