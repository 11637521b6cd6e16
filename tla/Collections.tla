---------------------------- MODULE Collections -----------------------------
(***************************************************************************)
(* Sums and filters of the models, as functions rather than operators, so  *)
(* that InductionLemmas can state once what they yield for every input.    *)
(***************************************************************************)
EXTENDS Naturals, Sequences, FiniteSetsExt

\* The sum of f over the finite set S.
SumOver(f, S) == MapThenSumSet(LAMBDA x : f[x], S)

\* The elements of s that are in S, in their order.
Kept(s, S) ==
  LET keep[n \in 0..Len(s)] ==
        IF n = 0 THEN <<>>
        ELSE IF s[n] \in S THEN Append(keep[n - 1], s[n]) ELSE keep[n - 1]
  IN keep[Len(s)]

\* x is an element of s.
Has(s, x) == \E n \in DOMAIN s : s[n] = x
=============================================================================
