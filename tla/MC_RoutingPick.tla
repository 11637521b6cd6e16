--------------------------- MODULE MC_RoutingPick ---------------------------
(***************************************************************************)
(* RoutingCircuit and RoutingPick for TLC: one key, every attempt a        *)
(* request of its own.  A tick is far longer than a transaction; what      *)
(* matters of the times is their order (MaxFlight > LeaseTTL, CheckTimeout *)
(* > CheckTTL: claims may expire under their holders).  The worker knows   *)
(* how to check the first dimension, the key's row names no path.          *)
(***************************************************************************)
EXTENDS RoutingPick, TLC

CONSTANTS k1, d1, d2, u1, a1, a2, c1, c2

OneKey      == [d \in Dims |-> k1]
OneUpstream == [k \in Keys |-> u1]
OwnRequest  == [a \in Attempts |-> a]

Symmetry == Permutations(Attempts) \cup Permutations(Checks)
=============================================================================
