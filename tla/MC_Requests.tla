----------------------------- MODULE MC_Requests ----------------------------
(***************************************************************************)
(* A request (Gateway) and one streamed attempt (StreamHold), each on its  *)
(* own: what a behaviour is about is chosen at its start, the other part   *)
(* rests.  Two keys of one provider, so that a failure excludes one of     *)
(* them or both.                                                           *)
(***************************************************************************)
EXTENDS Gateway, StreamHold

CONSTANTS k1, k2, p1

OneProvider == [k \in Keys |-> p1]

VARIABLE about

MCInit ==
  /\ Init /\ StreamInit
  /\ \/ about = "request" /\ req = [stream |-> FALSE, responses |-> FALSE, holdUntilToken |-> FALSE]
     \/ about = "stream" /\ ~exhaust

MCNext ==
  \/ about = "request" /\ Next /\ UNCHANGED <<streamVars, about>>
  \/ about = "stream" /\ StreamNext /\ UNCHANGED <<vars, about>>

MCSpec ==
  /\ MCInit /\ [][MCNext]_<<vars, streamVars, about>>
  /\ \/ about = "request" /\ GatewayFairness
     \/ about = "stream" /\ StreamFairness
=============================================================================
