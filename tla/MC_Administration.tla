------------------------- MODULE MC_Administration --------------------------
(***************************************************************************)
(* What operators and background jobs change beside each other: route      *)
(* groups and quarantine (KeyQuarantine), and what is stored of a provider *)
(* (ProviderSync), each on its own: what a behaviour is about is chosen at *)
(* its start, the other part rests, without a plan or without a key, where *)
(* its jobs have nothing to do.                                            *)
(***************************************************************************)
EXTENDS KeyQuarantine, ProviderSync

VARIABLE about

MCInit ==
  /\ QuarantineInit /\ SyncInit
  /\ \/ about = "quarantine" /\ Rows = {}
     \/ about = "provider" /\ plan.life = "unborn"

MCNext ==
  \/ about = "quarantine" /\ QuarantineNext /\ UNCHANGED <<syncVars, about>>
  \/ about = "provider" /\ SyncNext /\ UNCHANGED <<quarantineVars, about>>

MCSpec ==
  /\ MCInit /\ [][MCNext]_<<quarantineVars, syncVars, about>>
  /\ QuarantineFairness /\ SyncFairness
=============================================================================
