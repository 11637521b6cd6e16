----------------------------- MODULE MC_Ledgers -----------------------------
(***************************************************************************)
(* What is kept between requests: the capacity in use (Capacity), the      *)
(* bindings of sessions (SessionBinding) and the archive of bodies         *)
(* (LogArchive), each on its own: what a behaviour is about is chosen at   *)
(* its start, the other parts rest.                                        *)
(***************************************************************************)
EXTENDS MC_Capacity, SessionBinding, LogArchive, TLC

VARIABLE about

MCInit ==
  /\ CapacityInit /\ BindingInit /\ Init
  /\ about \in {"capacity", "sessions", "archive"}
  /\ about # "sessions" => \A s \in Sessions : shared.bind[s] = Unbound
  /\ \A i \in Instances : ~inst[i].up

MCNext ==
  \/ about = "capacity" /\ CapacityNext /\ UNCHANGED <<bindingVars, vars, about>>
  \/ about = "sessions" /\ BindingNext /\ UNCHANGED <<capacityVars, vars, about>>
  \/ about = "archive" /\ Next /\ UNCHANGED <<capacityVars, bindingVars, about>>

MCSpec == MCInit /\ [][MCNext]_<<capacityVars, bindingVars, vars, about>>

\* Candidates are alike to a session; captures are alike.
Symmetry == Permutations(Candidates) \cup Permutations(Captures)
=============================================================================
