---------------------------- MODULE MC_Capacity -----------------------------
(* Two keys of one provider: one limited by itself, one by the provider.   *)
EXTENDS Capacity

CONSTANTS k1, k2, p1

MCProviderOf == [k \in {k1, k2} |-> p1]
MCRPMLimit == [k \in {k1, k2} |-> IF k = k1 THEN 2 ELSE 0]
MCMaxConcurrency == [k \in {k1, k2} |-> IF k = k1 THEN 2 ELSE 0]
MCConcurrency == [p \in {p1} |-> 2]
=============================================================================
