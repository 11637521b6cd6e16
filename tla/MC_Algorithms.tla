---------------------------- MODULE MC_Algorithms ---------------------------
(***************************************************************************)
(* The small algorithms, the row of the low-balance alerts and the band    *)
(* picker's ranking, each on its own: what a behaviour is about is chosen  *)
(* at its start, the others rest.                                          *)
(***************************************************************************)
EXTENDS CircuitMathCheck, RoutingBudget, BalanceAlerts, CandidateOrder

VARIABLE about

\* probe-routing-isolation.md:30
BusinessLadder == <<30, 60, 120, 300>>

\* Turned on with another threshold, turned off, and two values out of range.
MCEdits ==
  {[enabled |-> TRUE, threshold |-> ThresholdCap, silence |-> Keep, key |-> TRUE],
   [enabled |-> FALSE, threshold |-> Keep, silence |-> MaxSilence, key |-> Keep],
   [enabled |-> TRUE, threshold |-> 0, silence |-> MaxSilence + 1, key |-> Keep]}

\* One account is in use or not, the other is in use no more and may be depleted.
CONSTANTS a1, a2, m1
Used == [counts |-> TRUE, dated |-> TRUE, burns |-> TRUE, tried |-> TRUE, hours |-> 4]
Unused == [Used EXCEPT !.burns = FALSE]
MCBooks == [p \in Accounts |-> IF p = a1 THEN {Used, Unused} ELSE {Unused, [Unused EXCEPT !.hours = 0]}]

\* Key 1 is expensive and fast, key 2 too slow for the band, key 3 as fast as key 1.
MCProviderOf == <<1, 1, 2>>
MCRateOf == <<2, 1, 1>>
MCSlowness == <<1, 4, 1>>
MCCached == <<5, 0, 5>>
MCAffinityOf == <<1, 3, 2>>

MCInit ==
  /\ MathInit /\ BudgetInit /\ AlertInit /\ OrderInit
  /\ \/ about = "order" /\ interval = 0
     \/ about = "budget" /\ kept
     \/ about \in {"math", "alerts"} /\ interval = 0 /\ kept
  /\ about # "order" => \A k \in Proven : win[k][m1] # <<>>
  /\ \A p \in Accounts : book[p] = Unused

MCNext ==
  \/ about = "math" /\ MathNext /\ UNCHANGED <<budgetVars, alertVars, orderVars, about>>
  \/ about = "budget" /\ BudgetNext /\ UNCHANGED <<mathVars, alertVars, orderVars, about>>
  \/ about = "alerts" /\ AlertNext /\ UNCHANGED <<mathVars, budgetVars, orderVars, about>>
  \/ about = "order" /\ OrderNext /\ UNCHANGED <<mathVars, budgetVars, alertVars, about>>

MCSpec == MCInit /\ [][MCNext]_<<mathVars, budgetVars, alertVars, orderVars, about>>
=============================================================================
