-------------------------- MODULE InductionLemmas ---------------------------
(***************************************************************************)
(* Induction over the naturals and the existence of functions defined by   *)
(* recursion, from the well-foundedness of the order.  They are stated     *)
(* with sets and functions instead of operators, so that the provers can   *)
(* instantiate them: the facts about the loops of the models rest on them. *)
(***************************************************************************)
EXTENDS Naturals, Sequences, WellFoundedInduction, FiniteSetTheorems, Collections, TLAPS

\* Every nonempty set of naturals has a least element.
LEMMA LeastElement ==
  ASSUME NEW T, T \subseteq Nat, T # {}
  PROVE  \E m \in T : \A n \in T : m <= n
<1> DEFINE R == {p \in Nat \X Nat : p[1] < p[2]}
<1>1. R = OpToRel(<, Nat)
  BY Zenon DEF OpToRel
<1>2. IsWellFoundedOn(R, Nat)
  BY <1>1, NatLessThanWellFounded, Zenon
<1>3. PICK x \in T : \A y \in T : ~ (<<y, x>> \in R)
  BY <1>2, WFMin, Zenon
<1>4. ASSUME NEW y \in T PROVE x <= y
  <2>1. x \in Nat /\ y \in Nat /\ <<y, x>> \in Nat \X Nat /\ <<y, x>> \notin R
    BY <1>3, Zenon
  <2>2. ~(y < x)
    BY <2>1, Zenon
  <2> QED
    BY <2>1, <2>2
<1> QED
  BY <1>4, Zenon

\* Induction, for a property given as a set.
LEMMA Induct ==
  ASSUME NEW S, 0 \in S, \A n \in Nat : n \in S => n + 1 \in S
  PROVE  Nat \subseteq S
<1> SUFFICES ASSUME Nat \ S # {} PROVE FALSE
  BY Zenon
<1>1. PICK m \in Nat \ S : \A n \in Nat \ S : m <= n
  BY LeastElement, Zenon
<1>2. m # 0 /\ m - 1 \in Nat
  BY <1>1
<1>3. m - 1 \in S
  BY <1>1, <1>2
<1> QED
  BY <1>1, <1>2, <1>3

(* A loop of N rounds from v, whose round n takes x to G[n][x], and its    *)
(* trace.                                                                  *)
Rounds(G, N, V) == G \in [1..N -> [V -> V]]

Trace(f, G, N, V, v) ==
  /\ f \in [0..N -> V]
  /\ f[0] = v /\ \A n \in 1..N : f[n] = G[n][f[n - 1]]

\* Every such loop has a trace.
LEMMA Recursion ==
  ASSUME NEW V, NEW N \in Nat, NEW v \in V, NEW G, Rounds(G, N, V)
  PROVE  \E f : Trace(f, G, N, V, v)
<1> DEFINE S == {m \in Nat : m <= N => \E f \in [0..m -> V] :
                   f[0] = v /\ \A n \in 1..m : f[n] = G[n][f[n - 1]]}
<1>1. 0 \in S
  <2> DEFINE h == [i \in 0..0 |-> v]
  <2>1. h \in [0..0 -> V] /\ h[0] = v /\ \A n \in 1..0 : h[n] = G[n][h[n - 1]]
    OBVIOUS
  <2> HIDE DEF h
  <2> QED
    BY <2>1, Zenon
<1>2. ASSUME NEW m \in Nat, m \in S PROVE m + 1 \in S
  <2> SUFFICES ASSUME m + 1 <= N
               PROVE  \E f \in [0..(m + 1) -> V] :
                        f[0] = v /\ \A n \in 1..(m + 1) : f[n] = G[n][f[n - 1]]
    OBVIOUS
  <2>1. PICK f \in [0..m -> V] : f[0] = v /\ \A n \in 1..m : f[n] = G[n][f[n - 1]]
    BY <1>2
  <2> DEFINE h == [i \in 0..(m + 1) |-> IF i <= m THEN f[i] ELSE G[m + 1][f[m]]]
  <2>2. m + 1 \in 1..N /\ f[m] \in V
    OBVIOUS
  <2>3. h \in [0..(m + 1) -> V]
    BY <2>2 DEF Rounds
  <2>4. h[0] = v
    BY <2>1
  <2>5. ASSUME NEW n \in 1..(m + 1) PROVE h[n] = G[n][h[n - 1]]
    <3>1. CASE n <= m
      BY <2>1, <3>1
    <3>2. CASE n = m + 1
      BY <3>2
    <3> QED
      BY <3>1, <3>2
  <2> QED
    BY <2>3, <2>4, <2>5, Zenon
<1>3. N \in S
  BY <1>1, <1>2, Induct, Zenon
<1> QED
  BY <1>3 DEF Trace
-----------------------------------------------------------------------------
Some(s) == CHOOSE x \in s : TRUE

\* One round of the fold that adds up f.
Added(h, f, s) == IF s = {} THEN 0 ELSE f[Some(s)] + h[s \ {Some(s)}]

Totals(h, f, S) == h = [s \in SUBSET S |-> Added(h, f, s)]

OnNaturals(f, S) == \A x \in S : f[x] \in Nat

\* The set without the element the fold takes first.
LEMMA OneFewer ==
  ASSUME NEW s, IsFiniteSet(s), s # {}
  PROVE  /\ Some(s) \in s /\ IsFiniteSet(s \ {Some(s)}) /\ Cardinality(s) \in Nat
         /\ Cardinality(s \ {Some(s)}) = Cardinality(s) - 1
         /\ Cardinality(s \ {Some(s)}) \in Nat
<1>1. Some(s) \in s
  BY Zenon DEF Some
<1> QED
  BY <1>1, FS_RemoveElement, FS_CardinalityType, Zenon

LEMMA TotalsExist ==
  ASSUME NEW S, IsFiniteSet(S), NEW f, OnNaturals(f, S)
  PROVE  \E h \in [SUBSET S -> Nat] : Totals(h, f, S)
<1> DEFINE V == [SUBSET S -> Nat]
           N == Cardinality(S) + 1
           z == [s \in SUBSET S |-> 0]
           Step(h) == [s \in SUBSET S |-> Added(h, f, s)]
           G == [n \in 1..N |-> [h \in V |-> Step(h)]]
<1>1. N \in Nat /\ z \in V
  BY FS_CardinalityType
<1>2. ASSUME NEW h \in V PROVE Step(h) \in V
  <2>1. ASSUME NEW s \in SUBSET S PROVE Added(h, f, s) \in Nat
    <3>1. CASE s = {}
      BY <3>1, Zenon DEF Added
    <3>2. CASE s # {}
      <4>1. IsFiniteSet(s)
        BY FS_Subset, Zenon
      <4>2. Some(s) \in S /\ s \ {Some(s)} \in SUBSET S
        BY <3>2, <4>1, OneFewer, Zenon
      <4>3. f[Some(s)] \in Nat /\ h[s \ {Some(s)}] \in Nat
        BY <4>2, Zenon DEF OnNaturals
      <4> QED
        BY <3>2, <4>3 DEF Added
    <3> QED
      BY <3>1, <3>2, Zenon
  <2> QED
    BY <2>1, Zenon
<1> HIDE DEF N, V, z, Step
<1>3. Rounds(G, N, V)
  BY <1>2, Zenon DEF Rounds
<1> HIDE DEF G
<1>4. PICK t : Trace(t, G, N, V, z)
  BY <1>1, <1>3, Recursion, Zenon
<1>5. ASSUME NEW n \in 1..N PROVE t[n] = Step(t[n - 1]) /\ t[n] \in V /\ t[n - 1] \in V
  <2>1. t[n - 1] \in V /\ t[n] \in V /\ t[n] = G[n][t[n - 1]]
    BY <1>1, <1>4 DEF Trace
  <2> QED
    BY <2>1, Zenon DEF G
<1> DEFINE P == {m \in Nat : m <= N => \A s \in SUBSET S : Cardinality(s) < m => t[m][s] = Added(t[m], f, s)}
<1>6. 0 \in P
  <2>1. ASSUME NEW s \in SUBSET S PROVE ~(Cardinality(s) < 0)
    BY FS_Subset, FS_CardinalityType
  <2> QED
    BY <2>1, Zenon
<1>7. ASSUME NEW m \in Nat, m \in P PROVE m + 1 \in P
  <2> SUFFICES ASSUME m + 1 <= N, NEW s \in SUBSET S, Cardinality(s) < m + 1
               PROVE  t[m + 1][s] = Added(t[m + 1], f, s)
    OBVIOUS
  <2>1. \A r \in SUBSET S : Cardinality(r) < m => t[m][r] = Added(t[m], f, r)
    BY <1>1, <1>7
  <2>2. m + 1 \in 1..N /\ (m + 1) - 1 = m
    BY <1>1
  <2>3. t[m + 1] = Step(t[m])
    BY <1>5, <2>2, Zenon
  <2>4. \A r \in SUBSET S : t[m + 1][r] = Added(t[m], f, r)
    BY <2>3, Zenon DEF Step
  <2>5. CASE s = {}
    BY <2>4, <2>5, Zenon DEF Added
  <2>6. CASE s # {}
    <3> DEFINE r == s \ {Some(s)}
    <3>1. IsFiniteSet(s)
      BY FS_Subset, Zenon
    <3>2. Cardinality(r) = Cardinality(s) - 1 /\ Cardinality(s) \in Nat
      BY <2>6, <3>1, OneFewer, Zenon
    <3>3. r \in SUBSET S
      BY Zenon
    <3> HIDE DEF r
    <3>4. Cardinality(r) < m
      BY <3>2
    <3>5. t[m + 1][r] = t[m][r]
      BY <2>1, <2>4, <3>3, <3>4, Zenon
    <3> QED
      BY <2>4, <2>6, <3>5, Zenon DEF Added, r
  <2> QED
    BY <2>5, <2>6, Zenon
<1>8. N \in P
  <2> HIDE DEF P
  <2> QED
    BY <1>1, <1>6, <1>7, Induct, Zenon
<1>9. ASSUME NEW s \in SUBSET S PROVE t[N][s] = Added(t[N], f, s)
  <2>1. Cardinality(s) < N
    BY FS_Subset, FS_CardinalityType DEF N
  <2> QED
    BY <1>1, <1>8, <2>1
<1>10. t[N] \in V
  BY <1>1, <1>4 DEF Trace
<1>11. Totals(t[N], f, S)
  BY <1>9, <1>10, Zenon DEF Totals, V
<1> QED
  BY <1>10, <1>11, Zenon DEF V

\* The fold of a subset depends on nothing but the function on it.
LEMMA TotalsAgree ==
  ASSUME NEW S, NEW T, NEW f, NEW g, NEW h, NEW k, Totals(h, f, S), Totals(k, g, T),
         NEW U, IsFiniteSet(U), U \subseteq S, U \subseteq T, \A x \in U : f[x] = g[x]
  PROVE  h[U] = k[U]
<1> DEFINE P == {n \in Nat : \A W \in SUBSET U : Cardinality(W) = n => h[W] = k[W]}
<1>1. ASSUME NEW W \in SUBSET U PROVE h[W] = Added(h, f, W) /\ k[W] = Added(k, g, W)
  <2>1. W \in SUBSET S /\ W \in SUBSET T
    BY Zenon
  <2> QED
    BY <2>1, Zenon DEF Totals
<1>2. 0 \in P
  <2>1. ASSUME NEW W \in SUBSET U, Cardinality(W) = 0 PROVE W = {}
    BY <2>1, FS_Subset, FS_EmptySet, Zenon
  <2> QED
    BY <1>1, <2>1, Zenon DEF Added
<1>3. ASSUME NEW n \in Nat, n \in P PROVE n + 1 \in P
  <2> SUFFICES ASSUME NEW W \in SUBSET U, Cardinality(W) = n + 1 PROVE h[W] = k[W]
    OBVIOUS
  <2>1. IsFiniteSet(W) /\ W # {}
    BY FS_Subset, FS_EmptySet
  <2> DEFINE R == W \ {Some(W)}
  <2>2. R \in SUBSET U /\ Cardinality(R) = n /\ Some(W) \in U
    BY <2>1, OneFewer
  <2>3. h[R] = k[R] /\ f[Some(W)] = g[Some(W)]
    BY <1>3, <2>2, Zenon
  <2> QED
    BY <1>1, <2>1, <2>3, Zenon DEF Added
<1>4. Cardinality(U) \in P
  <2>1. Cardinality(U) \in Nat
    BY FS_CardinalityType, Zenon
  <2> HIDE DEF P
  <2> QED
    BY <1>2, <1>3, <2>1, Induct, Zenon
<1> QED
  BY <1>4, Zenon

LEMMA SumIsTotal ==
  ASSUME NEW S, IsFiniteSet(S), NEW f, OnNaturals(f, S)
  PROVE  \E h \in [SUBSET S -> Nat] : Totals(h, f, S) /\ SumOver(f, S) = h[S]
<1>1. PICK h \in [SUBSET S -> Nat] : Totals(h, f, S)
  BY TotalsExist, Zenon
<1> DEFINE k == CHOOSE iter : iter = [s \in SUBSET S |->
                  IF s = {} THEN 0 ELSE f[CHOOSE x \in s : TRUE] + iter[s \ {CHOOSE x \in s : TRUE}]]
<1>2. SumOver(f, S) = k[S]
  BY Zenon DEF SumOver, MapThenSumSet, MapThenFoldSet
<1>3. h = [s \in SUBSET S |->
             IF s = {} THEN 0 ELSE f[CHOOSE x \in s : TRUE] + h[s \ {CHOOSE x \in s : TRUE}]]
  BY <1>1, Zenon DEF Totals, Added, Some
<1>4. k = [s \in SUBSET S |->
             IF s = {} THEN 0 ELSE f[CHOOSE x \in s : TRUE] + k[s \ {CHOOSE x \in s : TRUE}]]
  BY <1>3, Zenon
<1> HIDE DEF k
<1>5. Totals(k, f, S)
  BY <1>4, Zenon DEF Totals, Added, Some
<1>6. S \subseteq S /\ \A x \in S : f[x] = f[x]
  BY Zenon
<1>7. h[S] = k[S]
  BY <1>1, <1>5, <1>6, TotalsAgree
<1> QED
  BY <1>1, <1>2, <1>7, Zenon

\* An element may be added in any order.
Additive(h, f, S) == \A U \in SUBSET S : \A x \in S \ U : h[U \cup {x}] = f[x] + h[U]

LEMMA TotalsAdd ==
  ASSUME NEW S, IsFiniteSet(S), NEW f, OnNaturals(f, S), NEW h \in [SUBSET S -> Nat], Totals(h, f, S)
  PROVE  Additive(h, f, S)
<1> SUFFICES ASSUME NEW U \in SUBSET S, NEW x \in S \ U PROVE h[U \cup {x}] = f[x] + h[U]
  BY Zenon DEF Additive
<1> DEFINE P == {n \in Nat : \A W \in SUBSET S, y \in S : Cardinality(W) = n /\ y \notin W =>
                               h[W \cup {y}] = f[y] + h[W]}
<1>0. ASSUME NEW W \in SUBSET S PROVE h[W] = Added(h, f, W)
  BY Zenon DEF Totals
<1>1. 0 \in P
  <2> SUFFICES ASSUME NEW W \in SUBSET S, NEW y \in S, Cardinality(W) = 0 PROVE h[W \cup {y}] = f[y] + h[W]
    BY Zenon
  <2>1. W = {} /\ W \cup {y} = {y} /\ {y} \in SUBSET S /\ {y} # {}
    BY FS_Subset, FS_EmptySet, Zenon
  <2>2. Some({y}) = y
    BY Zenon DEF Some
  <2>3. h[{}] = 0 /\ h[{y}] = f[y] + h[{y} \ {y}] /\ {y} \ {y} = {}
    BY <1>0, <2>1, <2>2, Zenon DEF Added
  <2> QED
    BY <2>1, <2>3, Zenon
<1>2. ASSUME NEW n \in Nat, n \in P PROVE n + 1 \in P
  <2> SUFFICES ASSUME NEW W \in SUBSET S, NEW y \in S, Cardinality(W) = n + 1, y \notin W
               PROVE  h[W \cup {y}] = f[y] + h[W]
    OBVIOUS
  <2> DEFINE T == W \cup {y}
             w == Some(T)
             R == W \ {w}
  <2>1. T \in SUBSET S /\ IsFiniteSet(W) /\ IsFiniteSet(T) /\ T # {}
    BY FS_Subset, Zenon
  <2>2. w \in T
    BY <2>1, OneFewer, Zenon
  <2>3. h[T] = f[w] + h[T \ {w}]
    BY <1>0, <2>1, Zenon DEF Added
  <2> HIDE DEF T, w, R
  <2>4. CASE w = y
    <3>1. T \ {w} = W
      BY <2>4, Zenon DEF T
    <3> QED
      BY <2>3, <2>4, <3>1, Zenon DEF T
  <2>5. CASE w # y
    <3>1. w \in W /\ w \in S /\ T \ {w} = R \cup {y} /\ W = R \cup {w} /\ R \in SUBSET S
          /\ y \notin R /\ w \notin R
      BY <2>2, <2>5 DEF T, R
    <3>2. Cardinality(R) = n
      <4>1. Cardinality(W \ {w}) = Cardinality(W) - 1
        BY <2>1, <3>1, FS_RemoveElement, Zenon
      <4> QED
        BY <4>1 DEF R
    <3>3. h[R \cup {y}] = f[y] + h[R] /\ h[R \cup {w}] = f[w] + h[R]
      BY <1>2, <3>1, <3>2, Zenon
    <3>4. f[y] \in Nat /\ f[w] \in Nat /\ h[R] \in Nat
      BY <3>1, Zenon DEF OnNaturals
    <3>5. h[T] = f[w] + (f[y] + h[R]) /\ h[W] = f[w] + h[R]
      BY <2>3, <3>1, <3>3, Zenon
    <3> QED
      BY <3>4, <3>5 DEF T
  <2> QED
    BY <2>4, <2>5, Zenon
<1>3. Cardinality(U) \in P
  <2>1. Cardinality(U) \in Nat
    BY FS_Subset, FS_CardinalityType, Zenon
  <2> HIDE DEF P
  <2> QED
    BY <1>1, <1>2, <2>1, Induct, Zenon
<1> QED
  BY <1>3, Zenon

\* Sums are naturals; the empty one is zero.
LEMMA SumType ==
  ASSUME NEW S, IsFiniteSet(S), NEW f, OnNaturals(f, S)
  PROVE  SumOver(f, S) \in Nat /\ (S = {} => SumOver(f, S) = 0)
<1>1. PICK h \in [SUBSET S -> Nat] : Totals(h, f, S) /\ SumOver(f, S) = h[S]
  BY SumIsTotal, Zenon
<1>2. S \in SUBSET S /\ h[S] = Added(h, f, S)
  BY <1>1, Zenon DEF Totals
<1> QED
  BY <1>1, <1>2, Zenon DEF Added

\* Functions that agree on a set have the same sum over it.
LEMMA SumSame ==
  ASSUME NEW S, IsFiniteSet(S), NEW f, NEW g, OnNaturals(f, S), \A x \in S : f[x] = g[x]
  PROVE  SumOver(f, S) = SumOver(g, S)
<1>1. OnNaturals(g, S)
  BY Zenon DEF OnNaturals
<1>2. PICK h \in [SUBSET S -> Nat] : Totals(h, f, S) /\ SumOver(f, S) = h[S]
  BY SumIsTotal, Zenon
<1>3. PICK k \in [SUBSET S -> Nat] : Totals(k, g, S) /\ SumOver(g, S) = k[S]
  BY <1>1, SumIsTotal, Zenon
<1>4. S \subseteq S
  BY Zenon
<1>5. h[S] = k[S]
  BY <1>2, <1>3, <1>4, TotalsAgree
<1> QED
  BY <1>2, <1>3, <1>5, Zenon

\* One more element adds its value.
LEMMA SumAdd ==
  ASSUME NEW S, IsFiniteSet(S), NEW x, x \notin S, NEW f, OnNaturals(f, S \cup {x})
  PROVE  SumOver(f, S \cup {x}) = f[x] + SumOver(f, S)
<1> DEFINE T == S \cup {x}
<1>1. IsFiniteSet(T) /\ OnNaturals(f, S) /\ OnNaturals(f, T) /\ S \in SUBSET T /\ x \in T
  BY FS_AddElement, Zenon DEF OnNaturals
<1> HIDE DEF T
<1>2. PICK h \in [SUBSET T -> Nat] : Totals(h, f, T) /\ SumOver(f, T) = h[T]
  BY <1>1, SumIsTotal, Zenon
<1>3. PICK k \in [SUBSET S -> Nat] : Totals(k, f, S) /\ SumOver(f, S) = k[S]
  BY <1>1, SumIsTotal, Zenon
<1>4. S \subseteq S /\ S \subseteq T /\ \A y \in S : f[y] = f[y]
  BY <1>1, Zenon
<1>5. h[S] = k[S]
  BY <1>2, <1>3, <1>4, TotalsAgree
<1>6. h[S \cup {x}] = f[x] + h[S]
  <2>1. Additive(h, f, T)
    BY <1>1, <1>2, TotalsAdd, Zenon
  <2> QED
    BY <1>1, <2>1, Zenon DEF Additive
<1> QED
  BY <1>2, <1>3, <1>5, <1>6, Zenon DEF T

\* One element less takes its value away.
LEMMA SumRemove ==
  ASSUME NEW S, IsFiniteSet(S), NEW x \in S, NEW f, OnNaturals(f, S)
  PROVE  SumOver(f, S) = f[x] + SumOver(f, S \ {x})
<1>1. IsFiniteSet(S \ {x}) /\ x \notin S \ {x} /\ (S \ {x}) \cup {x} = S
  BY FS_RemoveElement, Zenon
<1> QED
  BY <1>1, SumAdd, Zenon

\* A changed value changes the sum by the difference.
DifferAt(f, g, S, x) ==
  /\ OnNaturals(f, S) /\ OnNaturals(g, S) /\ x \in S
  /\ \A y \in S \ {x} : f[y] = g[y]

LEMMA SumChange ==
  ASSUME NEW S, IsFiniteSet(S), NEW x, NEW f, NEW g, DifferAt(f, g, S, x)
  PROVE  SumOver(g, S) + f[x] = SumOver(f, S) + g[x]
<1>0. OnNaturals(f, S) /\ OnNaturals(g, S) /\ x \in S /\ \A y \in S \ {x} : f[y] = g[y]
  BY Zenon DEF DifferAt
<1> DEFINE R == S \ {x}
<1>1. IsFiniteSet(R) /\ OnNaturals(f, R) /\ OnNaturals(g, R)
  BY <1>0, FS_RemoveElement, Zenon DEF OnNaturals
<1>2. SumOver(f, S) = f[x] + SumOver(f, R) /\ SumOver(g, S) = g[x] + SumOver(g, R)
  BY <1>0, SumRemove, Zenon
<1>3. SumOver(f, R) = SumOver(g, R) /\ SumOver(f, R) \in Nat
  BY <1>0, <1>1, SumSame, SumType, Zenon
<1>4. f[x] \in Nat /\ g[x] \in Nat
  BY <1>0, Zenon DEF OnNaturals
<1> QED
  BY <1>2, <1>3, <1>4

\* A smaller function has a smaller sum.
AtMost(g, f, S) == OnNaturals(f, S) /\ OnNaturals(g, S) /\ \A x \in S : g[x] <= f[x]

LEMMA SumAtMost ==
  ASSUME NEW S, IsFiniteSet(S), NEW f, NEW g, AtMost(g, f, S)
  PROVE  SumOver(g, S) <= SumOver(f, S)
<1>0. OnNaturals(f, S) /\ OnNaturals(g, S) /\ \A x \in S : g[x] <= f[x]
  BY Zenon DEF AtMost
<1>1. PICK h \in [SUBSET S -> Nat] : Totals(h, f, S) /\ SumOver(f, S) = h[S]
  BY <1>0, SumIsTotal, Zenon
<1>2. PICK k \in [SUBSET S -> Nat] : Totals(k, g, S) /\ SumOver(g, S) = k[S]
  BY <1>0, SumIsTotal, Zenon
<1> DEFINE P == {n \in Nat : \A W \in SUBSET S : Cardinality(W) = n => k[W] <= h[W]}
<1>3. ASSUME NEW W \in SUBSET S PROVE h[W] = Added(h, f, W) /\ k[W] = Added(k, g, W)
  BY <1>1, <1>2, Zenon DEF Totals
<1>4. 0 \in P
  <2> SUFFICES ASSUME NEW W \in SUBSET S, Cardinality(W) = 0 PROVE k[W] <= h[W]
    BY Zenon
  <2>1. W = {}
    BY FS_Subset, FS_EmptySet, Zenon
  <2>2. h[W] = 0 /\ k[W] = 0
    BY <1>3, <2>1, Zenon DEF Added
  <2> QED
    BY <2>2
<1>5. ASSUME NEW n \in Nat, n \in P PROVE n + 1 \in P
  <2> SUFFICES ASSUME NEW W \in SUBSET S, Cardinality(W) = n + 1 PROVE k[W] <= h[W]
    OBVIOUS
  <2>1. IsFiniteSet(W) /\ W # {}
    BY FS_Subset, FS_EmptySet
  <2> DEFINE R == W \ {Some(W)}
  <2>2. R \in SUBSET S /\ Cardinality(R) = n /\ Some(W) \in S
    <3>1. Cardinality(R) = Cardinality(W) - 1 /\ Some(W) \in W
      BY <2>1, OneFewer, Zenon
    <3> QED
      BY <3>1
  <2>3. k[R] <= h[R] /\ g[Some(W)] <= f[Some(W)]
    BY <1>0, <1>5, <2>2, Zenon
  <2>4. h[W] = f[Some(W)] + h[R] /\ k[W] = g[Some(W)] + k[R]
    BY <1>3, <2>1, Zenon DEF Added
  <2>5. f[Some(W)] \in Nat /\ g[Some(W)] \in Nat /\ h[R] \in Nat /\ k[R] \in Nat
    BY <1>0, <1>1, <1>2, <2>2, Zenon DEF OnNaturals
  <2> HIDE DEF R
  <2> QED
    BY <2>3, <2>4, <2>5
<1>6. Cardinality(S) \in P
  <2>1. Cardinality(S) \in Nat
    BY FS_CardinalityType, Zenon
  <2> HIDE DEF P
  <2> QED
    BY <1>4, <1>5, <2>1, Induct, Zenon
<1> QED
  BY <1>1, <1>2, <1>6, Zenon

LEMMA SumZero ==
  ASSUME NEW S, IsFiniteSet(S), NEW f, \A x \in S : f[x] = 0
  PROVE  SumOver(f, S) = 0
<1>0. OnNaturals(f, S)
  BY DEF OnNaturals
<1>1. PICK h \in [SUBSET S -> Nat] : Totals(h, f, S) /\ SumOver(f, S) = h[S]
  BY <1>0, SumIsTotal, Zenon
<1> DEFINE P == {n \in Nat : \A W \in SUBSET S : Cardinality(W) = n => h[W] = 0}
<1>2. ASSUME NEW W \in SUBSET S PROVE h[W] = Added(h, f, W)
  BY <1>1, Zenon DEF Totals
<1>3. 0 \in P
  <2> SUFFICES ASSUME NEW W \in SUBSET S, Cardinality(W) = 0 PROVE h[W] = 0
    BY Zenon
  <2>1. W = {}
    BY FS_Subset, FS_EmptySet, Zenon
  <2> QED
    BY <1>2, <2>1, Zenon DEF Added
<1>4. ASSUME NEW n \in Nat, n \in P PROVE n + 1 \in P
  <2> SUFFICES ASSUME NEW W \in SUBSET S, Cardinality(W) = n + 1 PROVE h[W] = 0
    OBVIOUS
  <2>1. IsFiniteSet(W) /\ W # {}
    BY FS_Subset, FS_EmptySet
  <2> DEFINE R == W \ {Some(W)}
  <2>2. R \in SUBSET S /\ Cardinality(R) = n /\ Some(W) \in S
    <3>1. Cardinality(R) = Cardinality(W) - 1 /\ Some(W) \in W
      BY <2>1, OneFewer, Zenon
    <3> QED
      BY <3>1
  <2>3. h[R] = 0 /\ f[Some(W)] = 0
    BY <1>4, <2>2, Zenon
  <2>4. h[W] = f[Some(W)] + h[R]
    BY <1>2, <2>1, Zenon DEF Added
  <2> HIDE DEF R
  <2> QED
    BY <2>3, <2>4
<1>5. Cardinality(S) \in P
  <2>1. Cardinality(S) \in Nat
    BY FS_CardinalityType, Zenon
  <2> HIDE DEF P
  <2> QED
    BY <1>3, <1>4, <2>1, Induct, Zenon
<1> QED
  BY <1>1, <1>5, Zenon
-----------------------------------------------------------------------------
Distinct(s) == \A i, j \in DOMAIN s : s[i] = s[j] => i = j

\* One more element.
LEMMA HasAppend ==
  ASSUME NEW T, NEW s \in Seq(T), NEW x \in T
  PROVE  /\ Append(s, x) \in Seq(T) /\ \A y : Has(Append(s, x), y) <=> Has(s, y) \/ y = x
         /\ Distinct(s) /\ ~Has(s, x) => Distinct(Append(s, x))
<1> DEFINE t == Append(s, x)
           n == Len(s)
<1>1. /\ n \in Nat /\ DOMAIN s = 1..n /\ DOMAIN t = 1..(n + 1) /\ t[n + 1] = x /\ t \in Seq(T)
      /\ \A i \in 1..n : t[i] = s[i]
  OBVIOUS
<1> HIDE DEF t, n
<1>2. \A i \in 1..(n + 1) : i \in 1..n \/ i = n + 1
  BY <1>1
<1>3. \A i \in 1..n : i \in 1..(n + 1)
  BY <1>1
<1>4. n + 1 \in 1..(n + 1)
  BY <1>1
<1>5. \A y : Has(t, y) <=> Has(s, y) \/ y = x
  BY <1>1, <1>2, <1>3, <1>4, Zenon DEF Has
<1>6. Distinct(s) /\ ~Has(s, x) => Distinct(t)
  BY <1>1, <1>2, <1>3, <1>4, Zenon DEF Has, Distinct
<1> QED
  BY <1>1, <1>5, <1>6, Zenon DEF t

(* The rounds of a filter.                                                 *)
KeptUpTo(F, w, K) ==
  /\ F[0] = <<>>
  /\ \A n \in 1..Len(w) : F[n] = IF w[n] \in K THEN Append(F[n - 1], w[n]) ELSE F[n - 1]

LEMMA KeptRounds ==
  ASSUME NEW T, NEW w \in Seq(T), NEW K
  PROVE  \E F : KeptUpTo(F, w, K) /\ Kept(w, K) = F[Len(w)]
<1> DEFINE N == Len(w)
           V == Seq(T)
           none == <<>>
           Round(n, s) == IF w[n] \in K THEN Append(s, w[n]) ELSE s
           G == [n \in 1..N |-> [s \in V |-> Round(n, s)]]
           F == CHOOSE keep : keep = [n \in 0..Len(w) |->
                  IF n = 0 THEN <<>>
                  ELSE IF w[n] \in K THEN Append(keep[n - 1], w[n]) ELSE keep[n - 1]]
<1>1. N \in Nat /\ none \in V /\ DOMAIN w = 1..N /\ \A n \in 1..N : w[n] \in T
  OBVIOUS
<1>2. ASSUME NEW n \in 1..N, NEW s \in V PROVE Round(n, s) \in V
  BY <1>1
<1> HIDE DEF N, V, none, Round
<1>3. Rounds(G, N, V)
  BY <1>2, Zenon DEF Rounds
<1> HIDE DEF G
<1>4. PICK f : Trace(f, G, N, V, none)
  BY <1>1, <1>3, Recursion, Zenon
<1>5. ASSUME NEW n \in 1..N PROVE f[n] = Round(n, f[n - 1])
  <2>1. f[n - 1] \in V /\ f[n] = G[n][f[n - 1]]
    BY <1>1, <1>4 DEF Trace
  <2> QED
    BY <2>1, Zenon DEF G
<1>6. f = [n \in 0..N |-> IF n = 0 THEN none ELSE Round(n, f[n - 1])]
  BY <1>1, <1>4, <1>5 DEF Trace
<1>7. F = [n \in 0..Len(w) |->
             IF n = 0 THEN <<>>
             ELSE IF w[n] \in K THEN Append(F[n - 1], w[n]) ELSE F[n - 1]]
  BY <1>6, Zenon DEF Round, N, none
<1>8. Kept(w, K) = F[N]
  BY Zenon DEF Kept, N
<1> HIDE DEF F
<1>9. ASSUME NEW n \in 1..Len(w)
      PROVE  F[n] = IF w[n] \in K THEN Append(F[n - 1], w[n]) ELSE F[n - 1]
  <2>1. n \in 0..Len(w) /\ n # 0
    BY <1>1
  <2> QED
    BY <1>7, <2>1, Zenon
<1>10. F[0] = <<>>
  BY <1>1, <1>7 DEF N
<1> QED
  BY <1>8, <1>9, <1>10, Zenon DEF KeptUpTo, N

(* What a filter keeps: the elements in the set, and nothing twice that    *)
(* was there once.                                                         *)
LEMMA KeptFacts ==
  ASSUME NEW T, NEW w \in Seq(T), NEW K
  PROVE  /\ Kept(w, K) \in Seq(T) /\ Len(Kept(w, K)) <= Len(w)
         /\ \A x : Has(Kept(w, K), x) <=> x \in K /\ Has(w, x)
         /\ Distinct(w) => Distinct(Kept(w, K))
<1> DEFINE N == Len(w)
<1>1. N \in Nat /\ DOMAIN w = 1..N /\ \A n \in 1..N : w[n] \in T
  OBVIOUS
<1>2. PICK F : KeptUpTo(F, w, K) /\ Kept(w, K) = F[Len(w)]
  BY KeptRounds, Zenon
<1>3. Kept(w, K) = F[N]
  BY <1>2, Zenon
<1> HIDE DEF N
<1> DEFINE Good(m) == /\ F[m] \in Seq(T) /\ Len(F[m]) <= m
                      /\ \A x : Has(F[m], x) <=> x \in K /\ \E n \in 1..m : w[n] = x
                      /\ Distinct(w) => Distinct(F[m])
           S == {m \in Nat : m <= N => Good(m)}
<1>4. 0 \in S
  <2>1. F[0] = <<>>
    BY <1>2, Zenon DEF KeptUpTo
  <2>2. Len(<<>>) = 0 /\ <<>> \in Seq(T) /\ DOMAIN <<>> = {} /\ 1..0 = {}
    OBVIOUS
  <2>3. Good(0)
    BY <2>1, <2>2 DEF Has, Distinct
  <2> QED
    BY <2>3, Zenon
<1>5. ASSUME NEW m \in Nat, m \in S PROVE m + 1 \in S
  <2> SUFFICES ASSUME m + 1 <= N PROVE Good(m + 1)
    OBVIOUS
  <2> DEFINE x == w[m + 1]
             s == F[m]
  <2>1. Good(m) /\ m + 1 \in 1..N /\ x \in T /\ \A n \in 1..m : n \in DOMAIN w /\ n # m + 1
    BY <1>1, <1>5
  <2>2. F[m + 1] = IF x \in K THEN Append(s, x) ELSE s
    <3>1. m + 1 \in 1..Len(w) /\ (m + 1) - 1 = m
      BY <1>1 DEF N
    <3> QED
      BY <1>2, <3>1, Zenon DEF KeptUpTo
  <2>3. F[m + 1] \in Seq(T) /\ Len(F[m + 1]) <= m + 1
    BY <2>1, <2>2
  <2>4. \A y : (\E n \in 1..(m + 1) : w[n] = y) <=> (x = y \/ \E n \in 1..m : w[n] = y)
    OBVIOUS
  <2>5. s \in Seq(T) /\ \A y : Has(s, y) <=> y \in K /\ \E n \in 1..m : w[n] = y
    BY <2>1, Zenon
  <2>6. Distinct(w) => Distinct(s) /\ ~Has(s, x)
    BY <1>1, <2>1, <2>5 DEF Distinct
  <2> HIDE DEF s, x
  <2>7. /\ \A y : Has(Append(s, x), y) <=> Has(s, y) \/ y = x
        /\ Distinct(s) /\ ~Has(s, x) => Distinct(Append(s, x))
    BY <2>1, <2>5, HasAppend, Zenon
  <2>8. \A y : Has(F[m + 1], y) <=> y \in K /\ \E n \in 1..(m + 1) : w[n] = y
    BY <2>2, <2>4, <2>5, <2>7, Zenon
  <2>9. Distinct(w) => Distinct(F[m + 1])
    BY <2>2, <2>6, <2>7, Zenon
  <2> QED
    BY <2>3, <2>8, <2>9, Zenon
<1>6. N \in S
  <2> HIDE DEF S, N
  <2> QED
    BY <1>1, <1>4, <1>5, Induct, Zenon
<1>7. Good(N)
  BY <1>1, <1>6
<1> QED
  BY <1>1, <1>3, <1>7, Zenon DEF Has, N
=============================================================================
