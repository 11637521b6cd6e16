-------------------------- MODULE MC_RecoveryWorker -------------------------
(* RecoveryWorker for TLC: the key gate k with the dimension d, and v, a    *)
(* gate of another key.                                                     *)
EXTENDS RecoveryWorker

CONSTANTS k, d, v

KeyGates == [s \in Gates |-> IF s = d THEN k ELSE s]
=============================================================================
