----------------------------- MODULE MC_Records -----------------------------
(***************************************************************************)
(* The two records of a request, its log row (RequestLog) and its          *)
(* statistics (DashboardSettle), each on its own: what a behaviour is      *)
(* about is chosen at its start, the other part rests.                     *)
(***************************************************************************)
EXTENDS RequestLog, DashboardSettle

CONSTANTS a, r1

MCHome == [r \in Reqs |-> a]

VARIABLE about

MCInit ==
  /\ Init /\ SettleInit
  /\ \/ about = "log" /\ \A r \in Reqs : handler[r].business
     \/ about = "statistics"

MCNext ==
  \/ about = "log" /\ Next /\ UNCHANGED <<settleVars, about>>
  \/ about = "statistics" /\ SettleNext /\ UNCHANGED <<vars, about>>

MCSpec ==
  /\ MCInit /\ [][MCNext]_<<vars, settleVars, about>>
  /\ \/ about = "log" /\ LogFairness
     \/ about = "statistics" /\ SettleFairness
=============================================================================
