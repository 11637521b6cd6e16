--------------------------- MODULE RoutingProofs ----------------------------
(***************************************************************************)
(* Proofs about RoutingCircuit for any keys, dimensions, attempts, checks, *)
(* lifetimes and settings.                                                 *)
(*                                                                         *)
(* Every operation but an admission and a claim only settles rows: what it *)
(* makes of a row holds no claim the row did not hold, and a row that      *)
(* moves on gets a new generation (Settles).  The lemmas of the first part *)
(* say so of each row function; the invariants follow action by action.    *)
(***************************************************************************)
EXTENDS RoutingPick, FiniteSetTheorems, TLAPS

(* A window of timestamps that fits its column.                            *)
Window(w, cap) == w \in Seq(Nat) /\ Len(w) <= cap

TypedRow(r) == r \in Row /\ Window(r.fails, MaxFailures) /\ Window(r.tries, MaxAttempts)

(* Pruning and capping a window gives a window.                            *)
LEMMA RecentType ==
  ASSUME NEW w \in Seq(Nat), NEW cut \in Int
  PROVE  Recent(w, cut) \in Seq(Nat)
<1>1. IsFiniteSet(DOMAIN w)
  BY FS_Interval
<1>2. IsFiniteSet({i \in DOMAIN w : w[i] <= cut})
  BY <1>1, FS_Subset, Zenon
<1>3. Aged(w, cut) \in Nat
  BY <1>2, FS_CardinalityType, Zenon DEF Aged
<1>4. QED
  BY <1>3 DEF Recent

LEMMA NewestType ==
  ASSUME NEW w \in Seq(Nat), NEW cap \in Nat
  PROVE  Window(Capped(w, cap), cap)
  BY DEF Capped, Window

LEMMA TrackType ==
  ASSUME NEW w \in Seq(Nat), NEW at \in Nat, NEW cut \in Int, NEW cap \in Nat
  PROVE  Window(trackTimestamp(w, at, cut, cap), cap)
<1> DEFINE kept == Recent(w, cut)
<1>1. kept \in Seq(Nat)
  BY RecentType, Zenon
<1>2. (IF at = 0 THEN kept ELSE Append(kept, at)) \in Seq(Nat)
  BY <1>1
<1>3. QED
  BY <1>2, NewestType, Zenon DEF trackTimestamp

LEMMA FailureType ==
  ASSUME NEW w \in Seq(Nat), NEW weight \in Nat, NEW t \in Nat, NEW cut \in Int
  PROVE  Window(WithFailure(w, weight, t, cut), MaxFailures)
<1> DEFINE added == [i \in 1..weight |-> t]
<1>1. Recent(w, cut) \in Seq(Nat)
  BY RecentType, Zenon
<1>2. added \in Seq(Nat)
  OBVIOUS
<1>3. Recent(w, cut) \o added \in Seq(Nat)
  BY <1>1, <1>2
<1>4. MaxFailures \in Nat
  BY SettingsAssumption, Zenon
<1>5. QED
  BY <1>3, <1>4, TrackType, Zenon DEF WithFailure
-----------------------------------------------------------------------------
(* Rows and what operations make of them.                                  *)

(* A row at time t: typed; closed without claims; claims only past the     *)
(* deadline and never of both kinds; opened or closed by now.              *)
SafeRow(r, t) ==
  /\ TypedRow(r)
  /\ ~r.open => r.leaseUntil = 0 /\ r.checkUntil = 0
  /\ r.leaseUntil > t \/ r.checkUntil > t => r.until <= t
  /\ ~(r.leaseUntil > t /\ r.checkUntil > t)
  /\ r.openedAt <= t

SameGate(q, r) ==
  q.gen = r.gen /\ q.open = r.open /\ q.openedAt = r.openedAt /\ q.until = r.until

(* Row q settles row r at time t: no claim is gained, a lease is kept only *)
(* with the generation, and either the gate stands or it moves to the next *)
(* generation, dated t.                                                    *)
Settles(q, r, t) ==
  /\ SafeRow(q, t)
  /\ q.leaseUntil > t => r.leaseUntil > t /\ q.lease = r.lease /\ q.gen = r.gen
  /\ q.checkUntil > t => r.checkUntil > t
  /\ q.checkLease \in {r.checkLease, NoToken}
  /\ \/ SameGate(q, r)
     \/ q.gen = r.gen + 1 /\ q.openedAt = t /\ q.checkLease = NoToken

LEMMA SettlesSelf ==
  ASSUME NEW t \in Nat, NEW r, SafeRow(r, t)
  PROVE  Settles(r, r, t)
  BY Zenon DEF Settles, SameGate

LEMMA ClosedRowType ==
  ASSUME NEW g \in Nat, NEW ok \in BOOLEAN, NEW t \in Nat
  PROVE  [gen |-> g, open |-> FALSE, fails |-> <<>>, tries |-> <<>>,
          openedAt |-> t, until |-> 0, backoff |-> 0, reason |-> "",
          lease |-> NoToken, leaseUntil |-> 0, checkLease |-> NoToken, checkUntil |-> 0,
          checkOK |-> ok, nextCheck |-> 0, checkBackoff |-> 0] \in Row
<1>1. <<>> \in Seq(Nat) /\ "" \in Reasons
  BY DEF Reasons
<1>2. QED
  BY <1>1, Zenon DEF Row

LEMMA CloseSettles ==
  ASSUME now \in Nat, NEW r, SafeRow(r, now)
  PROVE  Settles(closeCircuit(r), r, now) /\ ~closeCircuit(r).open
<1> DEFINE q == closeCircuit(r)
<1>0. r \in Row
  BY Zenon DEF SafeRow, TypedRow
<1>1. q \in Row
  <2>1. r.gen + 1 \in Nat
    BY <1>0 DEF Row
  <2>2. r.checkOK \in BOOLEAN
    BY <1>0, Zenon DEF Row
  <2>3. QED
    BY <2>1, <2>2, ClosedRowType, Zenon DEF closeCircuit
<1>1a. q.gen = r.gen + 1 /\ q.open = FALSE /\ q.openedAt = now
      /\ q.fails = <<>> /\ q.tries = <<>> /\ q.leaseUntil = 0 /\ q.checkUntil = 0
      /\ q.checkLease = NoToken
  BY Zenon DEF closeCircuit
<1>2. Window(<<>>, MaxFailures) /\ Window(<<>>, MaxAttempts)
  BY SettingsAssumption DEF Window
<1>3. QED
  BY <1>1, <1>1a, <1>2 DEF Settles, SafeRow, TypedRow

LEMMA OpenSecondsType ==
  ASSUME NEW wasOpen \in BOOLEAN, NEW b \in Nat, NEW retry \in Nat
  PROVE  openSeconds(wasOpen, b, retry) \in Nat
  BY SettingsAssumption DEF openSeconds, MinOf, MaxOf

LEMMA OutcomeType ==
  ASSUME NEW o \in Outcomes
  PROVE  o.retry \in Nat /\ ReasonOf(o) \in Reasons /\ Weight(o) \in Nat
<1>1. o.retry \in Nat
  <2>1. CASE o \in [kind : {"success", "neutral", "slow"}, retry : {0}]
    BY <2>1
  <2>2. CASE o \in [kind : {"plain", "limited", "immediate", "auth", "quota"},
                   retry : RetryAfters]
    BY <2>2, TimeAssumption, Zenon
  <2>3. QED
    BY <2>1, <2>2, Zenon DEF Outcomes
<1>2. ReasonOf(o) \in Reasons
  BY Zenon DEF ReasonOf, Reasons
<1>3. Weight(o) \in Nat
  BY SettingsAssumption, Zenon DEF Weight
<1>4. QED
  BY <1>1, <1>2, <1>3, Zenon

LEMMA OpenSettles ==
  ASSUME now \in Nat, NEW o \in Outcomes, NEW r, SafeRow(r, now)
  PROVE  Settles(openCircuit(r, o), r, now) /\ openCircuit(r, o).gen = r.gen + 1
<1> DEFINE q == openCircuit(r, o)
           seconds == openSeconds(r.open, r.backoff, o.retry)
<1>1. seconds \in Nat
  BY OpenSecondsType, OutcomeType, Zenon DEF SafeRow, TypedRow, Row
<1>2. MinOf(seconds, MaxCooldownSec) \in Nat
  BY <1>1, SettingsAssumption, Zenon DEF MinOf
<1>3. ReasonOf(o) \in Reasons
  BY OutcomeType, Zenon
<1>4. r \in Row
  BY Zenon DEF SafeRow, TypedRow
<1>5. q \in Row /\ q.gen = r.gen + 1 /\ q.open = TRUE /\ q.openedAt = now
      /\ q.fails = r.fails /\ q.tries = r.tries /\ q.leaseUntil = 0 /\ q.checkUntil = 0
      /\ q.checkLease = NoToken
  BY <1>1, <1>2, <1>3, <1>4 DEF openCircuit, Row
<1> HIDE DEF q
<1>6. Settles(q, r, now) /\ q.gen = r.gen + 1
  BY <1>5 DEF Settles, SafeRow, TypedRow
<1>7. QED
  BY <1>6, Zenon DEF q

LEMMA NeutralSettles ==
  ASSUME now \in Nat, NEW a, NEW r, SafeRow(r, now)
  PROVE  Settles(NeutralRow(r, a), r, now)
<1> DEFINE q == [r EXCEPT !.lease = NoToken, !.leaseUntil = 0,
                          !.checkLease = NoToken, !.checkUntil = 0]
<1>1. r \in Row
  BY Zenon DEF SafeRow, TypedRow
<1>2. q \in Row /\ q.gen = r.gen /\ q.open = r.open /\ q.openedAt = r.openedAt
      /\ q.until = r.until /\ q.leaseUntil = 0 /\ q.checkUntil = 0
      /\ q.checkLease = NoToken /\ q.fails = r.fails /\ q.tries = r.tries
  BY <1>1, Zenon DEF Row
<1> HIDE DEF q
<1>3. Settles(q, r, now)
  BY <1>2 DEF Settles, SameGate, SafeRow, TypedRow
<1>4. QED
  BY <1>3, SettlesSelf, Zenon DEF NeutralRow, q

LEMMA SuccessSettles ==
  ASSUME now \in Nat, NEW r, SafeRow(r, now)
  PROVE  Settles(SuccessRow(r), r, now)
<1> DEFINE q == [r EXCEPT !.fails = <<>>, !.backoff = 0, !.reason = "",
                          !.lease = NoToken, !.leaseUntil = 0,
                          !.checkLease = NoToken, !.checkUntil = 0]
<1>1. r \in Row
  BY Zenon DEF SafeRow, TypedRow
<1>2. q \in Row
  <2> DEFINE empty == <<>>
             none == ""
  <2>1. empty \in Seq(Nat)
    OBVIOUS
  <2>2. none \in Reasons
    BY Zenon DEF Reasons
  <2> HIDE DEF empty, none
  <2>3. [r EXCEPT !.fails = empty, !.backoff = 0, !.reason = none,
                  !.lease = NoToken, !.leaseUntil = 0,
                  !.checkLease = NoToken, !.checkUntil = 0] \in Row
    BY <1>1, <2>1, <2>2, Zenon DEF Row
  <2>4. QED
    BY <2>3, Zenon DEF empty, none
<1>3. q.gen = r.gen /\ q.open = r.open /\ q.openedAt = r.openedAt
      /\ q.until = r.until /\ q.leaseUntil = 0 /\ q.checkUntil = 0
      /\ q.checkLease = NoToken /\ q.fails = <<>> /\ q.tries = r.tries
  BY <1>1, Zenon DEF Row
<1>4. Window(<<>>, MaxFailures)
  BY SettingsAssumption DEF Window
<1> HIDE DEF q
<1>5. Settles(q, r, now)
  BY <1>2, <1>3, <1>4 DEF Settles, SameGate, SafeRow, TypedRow
<1>6. QED
  BY <1>5, CloseSettles, Zenon DEF SuccessRow, q

(* Recording an attempt, and a failure, changes nothing but the windows.   *)
SameClaims(q, r) ==
  /\ SameGate(q, r) /\ q.lease = r.lease /\ q.leaseUntil = r.leaseUntil
  /\ q.checkLease = r.checkLease /\ q.checkUntil = r.checkUntil

LEMMA TriedSafe ==
  ASSUME now \in Nat, NEW r, SafeRow(r, now)
  PROVE  SafeRow(Tried(r), now) /\ SameClaims(Tried(r), r)
<1> DEFINE w == trackTimestamp(r.tries, now, now - WindowSec, MaxAttempts)
           q == [r EXCEPT !.tries = w]
<1>1. r \in Row
  BY Zenon DEF SafeRow, TypedRow
<1>2. Window(w, MaxAttempts)
  <2>1. now - WindowSec \in Int /\ MaxAttempts \in Nat
    BY SettingsAssumption
  <2>2. r.tries \in Seq(Nat)
    BY <1>1, Zenon DEF Row
  <2>3. QED
    BY <2>1, <2>2, TrackType, Zenon
<1>3. w \in Seq(Nat)
  BY <1>2, Zenon DEF Window
<1> HIDE DEF w
<1>4. q \in Row /\ q.tries = w /\ q.fails = r.fails /\ SameClaims(q, r)
  BY <1>1, <1>3, Zenon DEF Row, SameClaims, SameGate
<1> HIDE DEF q
<1>5. SafeRow(q, now) /\ SameClaims(q, r)
  BY <1>2, <1>4, Zenon DEF SafeRow, TypedRow, SameClaims, SameGate
<1>6. QED
  BY <1>5, Zenon DEF Tried, q, w

LEMMA FailedSafe ==
  ASSUME now \in Nat, NEW o \in Outcomes, NEW r, SafeRow(r, now)
  PROVE  SafeRow(Failed(r, o), now) /\ SameClaims(Failed(r, o), r)
<1> DEFINE p == Tried(r)
           w == WithFailure(p.fails, Weight(o), now, now - WindowSec)
           q == [p EXCEPT !.fails = w]
<1>1. SafeRow(p, now) /\ SameClaims(p, r)
  BY TriedSafe, Zenon
<1> HIDE DEF p
<1>2. p \in Row
  BY <1>1, Zenon DEF SafeRow, TypedRow
<1>3. Window(w, MaxFailures)
  <2>1. now - WindowSec \in Int /\ Weight(o) \in Nat
    BY SettingsAssumption, OutcomeType
  <2>2. p.fails \in Seq(Nat)
    BY <1>2, Zenon DEF Row
  <2>3. QED
    BY <2>1, <2>2, FailureType, Zenon
<1>4. w \in Seq(Nat)
  BY <1>3, Zenon DEF Window
<1> HIDE DEF w
<1>5. q \in Row /\ q.fails = w /\ q.tries = p.tries /\ SameClaims(q, p)
  BY <1>2, <1>4, Zenon DEF Row, SameClaims, SameGate
<1> HIDE DEF q
<1>6. SafeRow(q, now) /\ SameClaims(q, r)
  BY <1>1, <1>3, <1>5, Zenon DEF SafeRow, TypedRow, SameClaims, SameGate
<1>7. QED
  BY <1>6, Zenon DEF Failed, q, w, p

LEMMA WindowsSettle ==
  ASSUME NEW t \in Nat, NEW r, NEW p, NEW q,
         SafeRow(r, t), SafeRow(p, t), SameClaims(p, r), Settles(q, p, t)
  PROVE  Settles(q, r, t)
  BY Zenon DEF SameClaims, SameGate, Settles

LEMMA ObservedKeySettles ==
  ASSUME now \in Nat, NEW a, NEW gen, NEW o \in Outcomes, NEW r, SafeRow(r, now)
  PROVE  Settles(ObservedKey(r, a, gen, o), r, now)
<1>1. CASE Stale(r, a, gen)
  BY <1>1, SettlesSelf, Zenon DEF ObservedKey
<1>2. CASE ~Stale(r, a, gen) /\ o.kind = "neutral"
  BY <1>2, NeutralSettles, Zenon DEF ObservedKey
<1>3. CASE ~Stale(r, a, gen) /\ o.kind = "success"
  BY <1>3, SuccessSettles, Zenon DEF ObservedKey
<1>4. CASE ~Stale(r, a, gen) /\ o.kind # "neutral" /\ o.kind # "success"
  BY <1>4, OpenSettles, SettlesSelf, Zenon DEF ObservedKey
<1>5. QED
  BY <1>1, <1>2, <1>3, <1>4, Zenon

LEMMA ObservedDimSettles ==
  ASSUME now \in Nat, NEW a, NEW gen, NEW o \in Outcomes, NEW r, SafeRow(r, now)
  PROVE  Settles(ObservedDim(r, a, gen, o), r, now)
<1>1. CASE Stale(r, a, gen)
  BY <1>1, SettlesSelf, Zenon DEF ObservedDim
<1>2. CASE ~Stale(r, a, gen) /\ o.kind = "neutral"
  BY <1>2, NeutralSettles, Zenon DEF ObservedDim
<1>3. CASE ~Stale(r, a, gen) /\ o.kind = "success"
  <2>1. Settles(SuccessRow(Tried(r)), Tried(r), now)
    BY TriedSafe, SuccessSettles, Zenon
  <2>2. Settles(SuccessRow(Tried(r)), r, now)
    BY <2>1, TriedSafe, WindowsSettle, Zenon
  <2>3. QED
    BY <1>3, <2>2, Zenon DEF ObservedDim
<1>4. CASE ~Stale(r, a, gen) /\ o.kind # "neutral" /\ o.kind # "success"
  <2> DEFINE p == Failed(r, o)
  <2>1. SafeRow(p, now) /\ SameClaims(p, r)
    BY FailedSafe, Zenon
  <2>2. Settles(p, r, now)
    BY <2>1, SettlesSelf, WindowsSettle, Zenon
  <2>3. Settles(openCircuit(p, o), r, now)
    BY <2>1, OpenSettles, WindowsSettle, Zenon
  <2>4. Settles(r, r, now)
    BY SettlesSelf, Zenon
  <2>5. QED
    BY <1>4, <2>2, <2>3, <2>4, Zenon DEF ObservedDim
<1>5. QED
  BY <1>1, <1>2, <1>3, <1>4, Zenon

LEMMA CheckBackoffType ==
  ASSUME NEW b \in Nat
  PROVE  nextCheckBackoff(b) \in Nat
  BY SettingsAssumption DEF nextCheckBackoff, MinOf

LEMMA CheckedSettles ==
  ASSUME now \in Nat, NEW result, NEW retry \in Nat, NEW r, SafeRow(r, now)
  PROVE  Settles(CheckedRow(r, result, retry), r, now)
<1> DEFINE ok == (result = "success")
           b == IF result = "failure" THEN nextCheckBackoff(r.checkBackoff)
                                      ELSE r.checkBackoff
           delay == IF result = "failure" THEN b ELSE NeutralDelay
           rested == [r EXCEPT !.checkLease = NoToken, !.checkUntil = 0, !.checkOK = ok]
           next == now + MaxOf(delay, retry)
           q == [rested EXCEPT !.checkBackoff = b, !.nextCheck = next]
<1>1. r \in Row
  BY Zenon DEF SafeRow, TypedRow
<1>2. r.checkBackoff \in Nat
  BY <1>1, Zenon DEF Row
<1>3. b \in Nat
  BY <1>2, CheckBackoffType, Zenon
<1>4. next \in Nat
  BY <1>3, SettingsAssumption DEF MaxOf
<1>5. ok \in BOOLEAN
  BY Zenon
<1> HIDE DEF ok, b, next
<1>6. rested \in Row /\ rested.gen = r.gen /\ rested.until = r.until
      /\ rested.openedAt = r.openedAt /\ rested.lease = r.lease
      /\ rested.leaseUntil = r.leaseUntil /\ rested.checkUntil = 0
      /\ rested.checkLease = NoToken /\ rested.fails = r.fails /\ rested.tries = r.tries
  BY <1>1, <1>5, Zenon DEF Row
<1>7. rested.open = r.open
  BY <1>1, Zenon DEF Row
<1> HIDE DEF rested
<1>8. Settles(rested, r, now)
  BY <1>6, <1>7 DEF Settles, SameGate, SafeRow, TypedRow
<1>9. q \in Row /\ q.gen = rested.gen /\ q.open = rested.open /\ q.until = rested.until
      /\ q.openedAt = rested.openedAt /\ q.lease = rested.lease
      /\ q.leaseUntil = rested.leaseUntil /\ q.checkUntil = rested.checkUntil
      /\ q.checkLease = rested.checkLease /\ q.fails = rested.fails /\ q.tries = rested.tries
  BY <1>3, <1>4, <1>6, Zenon DEF Row
<1> HIDE DEF q
<1>10. Settles(q, r, now)
  BY <1>8, <1>9, Zenon DEF Settles, SameGate, SafeRow, TypedRow
<1>11. Settles(closeCircuit(rested), r, now)
  <2>1. Settles(closeCircuit(rested), rested, now)
    BY <1>8, CloseSettles, Zenon DEF Settles
  <2>2. QED
    BY <2>1, <1>6, <1>8, Zenon DEF Settles, SameGate
<1>12. QED
  BY <1>10, <1>11, Zenon DEF CheckedRow, q, rested, next, b, ok

LEMMA ReleasedSettles ==
  ASSUME now \in Nat, NEW r, SafeRow(r, now)
  PROVE  Settles(ReleasedRow(r), r, now)
<1> DEFINE p == closeCircuit(r)
           q == [p EXCEPT !.tries = r.tries, !.checkOK = FALSE]
<1>1. Settles(p, r, now) /\ p.gen = r.gen + 1 /\ p.open = FALSE /\ p.openedAt = now
      /\ p.checkLease = NoToken
  BY CloseSettles, Zenon DEF closeCircuit
<1> HIDE DEF p
<1>2. p \in Row /\ r.tries \in Seq(Nat) /\ Window(r.tries, MaxAttempts)
  BY <1>1, Zenon DEF Settles, SafeRow, TypedRow, Row
<1>3. q \in Row /\ q.gen = p.gen /\ q.open = p.open /\ q.openedAt = p.openedAt
      /\ q.until = p.until /\ q.leaseUntil = p.leaseUntil /\ q.lease = p.lease
      /\ q.checkUntil = p.checkUntil /\ q.checkLease = p.checkLease
      /\ q.fails = p.fails /\ q.tries = r.tries
  BY <1>2, Zenon DEF Row
<1> HIDE DEF q
<1>4. Settles(q, r, now)
  BY <1>1, <1>2, <1>3, Zenon DEF Settles, SafeRow, TypedRow
<1>5. QED
  BY <1>4, Zenon DEF ReleasedRow, q, p
-----------------------------------------------------------------------------
(* The inductive invariant.                                                *)

(* An attempt in flight was admitted under a generation no newer than its  *)
(* gates', and where it still is the current one of an open gate, after    *)
(* the gate was shut.                                                      *)
AdmissionsCurrent ==
  \A a \in Attempts : Flying(a) =>
    \A s \in Scope(att[a].dim) :
      /\ att[a].gens[s] <= gate[s].gen
      /\ gate[s].open /\ att[a].gens[s] = gate[s].gen => att[a].start >= gate[s].openedAt

(* A running check that holds its gate's claim began after the gate was    *)
(* shut.                                                                   *)
ChecksCurrent ==
  \A c \in Checks : chk[c].ph = "running" =>
    LET s == chk[c].scope
    IN  gate[s].checkLease = c => chk[c].start >= gate[s].openedAt

IInv ==
  /\ TypeOK
  /\ \A s \in Scopes : SafeRow(gate[s], now)
  /\ ExclusiveOnKey
  /\ AdmissionsCurrent
  /\ ChecksCurrent

LEMMA ScopeFacts ==
  /\ \A d \in Dims : KeyOf[d] \in Keys /\ KeyOf[d] \in Scopes /\ d \in Scopes /\ KeyOf[d] # d
  /\ \A d \in Dims : Scope(d) \subseteq Scopes
  BY ScopeAssumption, Zenon DEF Scopes, Scope

\* A check that runs names a gate (the claims of the recovery worker).
LEMMA RunningScope ==
  ASSUME TypeOK, NEW c \in Checks, chk[c].ph = "running"
  PROVE  chk[c].scope \in Scopes
<1>1. chk[c] \in {Idle, Done, Lost} \cup [ph : {"queued"}, scope : Scopes, gen : Nat]
                \cup [ph : {"running"}, scope : Scopes, gen : Nat, start : Nat]
  BY Zenon DEF TypeOK, CheckTypeOK
<1>2. QED
  BY <1>1 DEF Idle, Done, Lost

\* An attempt in flight has the shape of an admission (AdmitRequest).
LEMMA FlyingShape ==
  ASSUME TypeOK, NEW a \in Attempts, Flying(a)
  PROVE  att[a] \in [ph : {"flying"}, dim : Dims, rec : BOOLEAN, out : BOOLEAN,
                     start : Nat, gens : [Scope(att[a].dim) -> Nat]]
<1>1. AttemptTypeOK(a)
  BY Zenon DEF TypeOK
<1>2. QED
  BY <1>1 DEF AttemptTypeOK, Flying, Idle, Done, Lost

LEMMA InitIInv == Init => IInv
<1> SUFFICES ASSUME Init PROVE IInv
  BY Zenon
<1>1. NewRow \in Row
  BY ClosedRowType, Zenon DEF NewRow
<1>2. SafeRow(NewRow, 1)
  <2>1. /\ NewRow.fails = <<>> /\ NewRow.tries = <<>> /\ NewRow.open = FALSE
        /\ NewRow.leaseUntil = 0 /\ NewRow.checkUntil = 0 /\ NewRow.openedAt = 0
    BY Zenon DEF NewRow
  <2>2. Window(<<>>, MaxFailures) /\ Window(<<>>, MaxAttempts)
    BY SettingsAssumption DEF Window
  <2>3. QED
    BY <1>1, <2>1, <2>2 DEF SafeRow, TypedRow
<1>3. \A s \in Scopes : gate[s] = NewRow /\ SafeRow(gate[s], now)
  BY <1>2, Zenon DEF Init
<1>4. TypeOK
  <2>1. gate \in [Scopes -> Row]
    BY <1>1, Zenon DEF Init
  <2>2. \A s \in Scopes : Len(gate[s].fails) <= MaxFailures /\ Len(gate[s].tries) <= MaxAttempts
    BY <1>3, Zenon DEF SafeRow, TypedRow, Window
  <2>3. /\ DOMAIN att = Attempts /\ \A a \in Attempts : AttemptTypeOK(a)
        /\ DOMAIN chk = Checks /\ \A c \in Checks : CheckTypeOK(c)
    BY Zenon DEF Init, AttemptTypeOK, CheckTypeOK
  <2>4. QED
    BY <2>1, <2>2, <2>3, Zenon DEF Init, TypeOK
<1>5. ExclusiveOnKey
  <2>0. NewRow.leaseUntil = 0 /\ NewRow.checkUntil = 0 /\ now = 1
    BY Zenon DEF NewRow, Init
  <2>1. \A s \in Scopes : ~LeaseLive(s) /\ ~CheckLive(s)
    BY <1>3, <2>0 DEF LeaseLive, CheckLive
  <2>2. QED
    BY <2>1, ScopeFacts, Zenon DEF ExclusiveOnKey, Busy
<1>6. AdmissionsCurrent /\ ChecksCurrent
  BY Zenon DEF Init, AdmissionsCurrent, ChecksCurrent, Flying, Idle
<1>7. QED
  BY <1>3, <1>4, <1>5, <1>6, Zenon DEF IInv

(* What a step that only settles rows, and starts nothing, leaves of the   *)
(* invariant.  An admission may follow a gate it has closed itself.        *)
KeptFlights ==
  \A a \in Attempts : Flying(a)' =>
    /\ Flying(a) /\ att'[a].dim = att[a].dim /\ att'[a].start = att[a].start
    /\ \A s \in Scope(att[a].dim) :
         \/ att'[a].gens[s] = att[a].gens[s]
         \/ att'[a].gens[s] = gate'[s].gen /\ ~gate'[s].open

KeptChecks == \A c \in Checks : chk'[c].ph = "running" => chk'[c] = chk[c]

LEMMA SettledStep ==
  ASSUME IInv, now' = now, KeptFlights, KeptChecks,
         \A s \in Scopes : Settles(gate'[s], gate[s], now)
  PROVE  /\ \A s \in Scopes : SafeRow(gate'[s], now')
         /\ ExclusiveOnKey' /\ AdmissionsCurrent' /\ ChecksCurrent'
<1>1. \A s \in Scopes : SafeRow(gate'[s], now')
  BY Zenon DEF Settles
<1>2. \A s \in Scopes : /\ LeaseLive(s)' => LeaseLive(s) /\ gate'[s].lease = gate[s].lease
                        /\ CheckLive(s)' => CheckLive(s)
  BY Zenon DEF Settles, LeaseLive, CheckLive
<1>3. ExclusiveOnKey'
  BY <1>2, ScopeFacts, Zenon DEF IInv, ExclusiveOnKey, Busy
<1>4. AdmissionsCurrent'
  <2> SUFFICES ASSUME NEW a \in Attempts, Flying(a)', NEW s \in Scope(att'[a].dim)
               PROVE  /\ att'[a].gens[s] <= gate'[s].gen
                      /\ gate'[s].open /\ att'[a].gens[s] = gate'[s].gen
                           => att'[a].start >= gate'[s].openedAt
    BY Zenon DEF AdmissionsCurrent
  <2>1. Flying(a) /\ att'[a].dim = att[a].dim /\ att'[a].start = att[a].start
        /\ s \in Scope(att[a].dim)
    BY Zenon DEF KeptFlights
  <2>2. att[a].dim \in Dims /\ att[a].gens \in [Scope(att[a].dim) -> Nat]
    BY <2>1 DEF IInv, TypeOK, AttemptTypeOK, Flying, Idle, Done, Lost
  <2>3. s \in Scopes /\ att[a].gens[s] \in Nat
    BY <2>1, <2>2, ScopeFacts, Zenon
  <2>4. gate[s].gen \in Nat /\ gate'[s].gen \in Nat
    BY <2>3, Zenon DEF IInv, Settles, SafeRow, TypedRow, Row
  <2>5. /\ att[a].gens[s] <= gate[s].gen
        /\ gate[s].open /\ att[a].gens[s] = gate[s].gen => att[a].start >= gate[s].openedAt
    BY <2>1, Zenon DEF IInv, AdmissionsCurrent
  <2>6. \/ att'[a].gens[s] = att[a].gens[s]
        \/ att'[a].gens[s] = gate'[s].gen /\ ~gate'[s].open
    BY <2>1, Zenon DEF KeptFlights
  <2>7. SameGate(gate'[s], gate[s]) \/ gate'[s].gen = gate[s].gen + 1
    BY <2>3, Zenon DEF Settles
  <2>8. QED
    BY <2>1, <2>3, <2>4, <2>5, <2>6, <2>7 DEF SameGate
<1>5. ChecksCurrent'
  <2> SUFFICES ASSUME NEW c \in Checks, chk'[c].ph = "running",
                      gate'[chk'[c].scope].checkLease = c
               PROVE  chk'[c].start >= gate'[chk'[c].scope].openedAt
    BY Zenon DEF ChecksCurrent
  <2> DEFINE s == chk[c].scope
  <2>1. chk'[c] = chk[c]
    BY Zenon DEF KeptChecks
  <2>2. s \in Scopes
    BY <2>1 DEF IInv, TypeOK, CheckTypeOK, Idle, Done, Lost
  <2>3. c # NoToken
    BY ScopeAssumption, Zenon DEF Tokens
  <2>4. gate[s].checkLease = c /\ gate'[s].openedAt = gate[s].openedAt
    BY <2>1, <2>2, <2>3, Zenon DEF Settles, SameGate
  <2>5. QED
    BY <2>1, <2>4, Zenon DEF IInv, ChecksCurrent
<1>6. QED
  BY <1>1, <1>3, <1>4, <1>5, Zenon

(* Typed rows make a typed table.                                          *)
LEMMA TableType ==
  ASSUME NEW g, DOMAIN g = Scopes, g = [s \in Scopes |-> g[s]],
         NEW t, \A s \in Scopes : SafeRow(g[s], t)
  PROVE  /\ g \in [Scopes -> Row]
         /\ \A s \in Scopes : Len(g[s].fails) <= MaxFailures /\ Len(g[s].tries) <= MaxAttempts
  BY Zenon DEF SafeRow, TypedRow, Window

(* The four settling operations.                                           *)
LEMMA ObserveSettles ==
  ASSUME IInv, NEW a \in Attempts, NEW o \in Outcomes, Observe(a, o)
  PROVE  \A s \in Scopes : Settles(gate'[s], gate[s], now)
<1> DEFINE d == att[a].dim
           k == KeyOf[d]
<1>1. now \in Nat /\ gate \in [Scopes -> Row]
  BY Zenon DEF IInv, TypeOK
<1>2. d \in Dims /\ k \in Scopes /\ d \in Scopes /\ k # d
  BY ScopeFacts, FlyingShape, Zenon DEF IInv, Observe
<1>3. \A s \in Scopes : Settles(gate[s], gate[s], now)
  BY <1>1, SettlesSelf, Zenon DEF IInv
<1>4. gate' = gate \/ gate' = [gate EXCEPT ![k] = ObservedKey(@, a, att[a].gens[k], o),
                                          ![d] = ObservedDim(@, a, att[a].gens[d], o)]
  BY Zenon DEF Observe
<1>5. Settles(ObservedKey(gate[k], a, att[a].gens[k], o), gate[k], now)
  BY <1>1, <1>2, ObservedKeySettles, Zenon DEF IInv
<1>6. Settles(ObservedDim(gate[d], a, att[a].gens[d], o), gate[d], now)
  BY <1>1, <1>2, ObservedDimSettles, Zenon DEF IInv
<1>7. QED
  BY <1>1, <1>2, <1>3, <1>4, <1>5, <1>6, Zenon

LEMMA ReleaseSettles ==
  ASSUME IInv, NEW a \in Attempts, NEW stored \in BOOLEAN, ReleaseOnOutput(a, stored)
  PROVE  \A s \in Scopes : Settles(gate'[s], gate[s], now)
<1>1. now \in Nat /\ \A s \in Scopes : SafeRow(gate[s], now)
  BY Zenon DEF IInv, TypeOK
<1>2. \A s \in Scopes : gate'[s] = gate[s] \/ gate'[s] = closeCircuit(gate[s])
  BY Zenon DEF ReleaseOnOutput
<1>3. QED
  BY <1>1, <1>2, SettlesSelf, CloseSettles, Zenon

LEMMA FinishCheckSettles ==
  ASSUME IInv, NEW c \in Checks, NEW result, NEW retry \in RetryAfters,
         FinishCheck(c, result, retry)
  PROVE  \A s \in Scopes : Settles(gate'[s], gate[s], now)
<1> DEFINE s0 == chk[c].scope
<1>1. now \in Nat /\ gate \in [Scopes -> Row] /\ retry \in Nat
  BY TimeAssumption, Zenon DEF IInv, TypeOK
<1>2. s0 \in Scopes
  BY DEF FinishCheck, IInv, TypeOK, CheckTypeOK, Idle, Done, Lost
<1>3. gate' = gate \/ gate' = [gate EXCEPT ![s0] = CheckedRow(@, result, retry)]
  BY Zenon DEF FinishCheck
<1>4. \A s \in Scopes : Settles(gate[s], gate[s], now)
  BY <1>1, SettlesSelf, Zenon DEF IInv
<1>5. Settles(CheckedRow(gate[s0], result, retry), gate[s0], now)
  BY <1>1, <1>2, CheckedSettles, Zenon DEF IInv
<1>6. QED
  BY <1>1, <1>2, <1>3, <1>4, <1>5, Zenon

LEMMA FinishBalanceSettles ==
  ASSUME IInv, NEW u \in Upstreams, NEW positive \in BOOLEAN, FinishBalance(u, positive)
  PROVE  \A s \in Scopes : Settles(gate'[s], gate[s], now)
<1>1. now \in Nat /\ \A s \in Scopes : SafeRow(gate[s], now)
  BY Zenon DEF IInv, TypeOK
<1>2. \A s \in Scopes : gate'[s] = gate[s] \/ gate'[s] = ReleasedRow(gate[s])
  BY Zenon DEF FinishBalance
<1>3. QED
  BY <1>1, <1>2, SettlesSelf, ReleasedSettles, Zenon

LEMMA ObserveIInv ==
  ASSUME IInv, NEW a \in Attempts, NEW o \in Outcomes, Observe(a, o)
  PROVE  IInv'
<1> DEFINE d == att[a].dim
           k == KeyOf[d]
<1>1. now \in Nat /\ now' = now /\ chk' = chk /\ bal' = bal
  BY Zenon DEF IInv, TypeOK, Observe
<1>2. d \in Dims /\ k \in Scopes /\ d \in Scopes /\ k # d
  BY ScopeFacts, FlyingShape, Zenon DEF IInv, Observe
<1>3. gate \in [Scopes -> Row]
  BY Zenon DEF IInv, TypeOK
<1>5. gate' = gate \/ gate' = [gate EXCEPT ![k] = ObservedKey(@, a, att[a].gens[k], o),
                                          ![d] = ObservedDim(@, a, att[a].gens[d], o)]
  BY Zenon DEF Observe
<1>6. \A s \in Scopes : Settles(gate'[s], gate[s], now)
  BY ObserveSettles, Zenon
<1>7. DOMAIN gate' = Scopes /\ gate' = [s \in Scopes |-> gate'[s]]
  BY <1>3, <1>5, Zenon
<1>8. att' = [att EXCEPT ![a] = Done]
  BY Zenon DEF Observe
<1>9. \A b \in Attempts : Flying(b)' => att'[b] = att[b]
  BY <1>8, Zenon DEF IInv, TypeOK, Flying, Done
<1>10. KeptFlights /\ KeptChecks
  BY <1>1, <1>9, Zenon DEF KeptFlights, KeptChecks, Flying
<1>11. /\ \A s \in Scopes : SafeRow(gate'[s], now')
       /\ ExclusiveOnKey' /\ AdmissionsCurrent' /\ ChecksCurrent'
  BY <1>1, <1>6, <1>10, SettledStep, Zenon
<1>12. TypeOK'
  <2>1. DOMAIN att' = Attempts /\ \A b \in Attempts : AttemptTypeOK(b)'
    BY <1>8, Zenon DEF IInv, TypeOK, AttemptTypeOK
  <2>2. DOMAIN chk' = Checks /\ \A c \in Checks : CheckTypeOK(c)'
    BY <1>1, Zenon DEF IInv, TypeOK, CheckTypeOK
  <2>3. QED
    BY <1>1, <1>7, <1>11, <2>1, <2>2, TableType, Zenon DEF IInv, TypeOK
<1>13. QED
  BY <1>11, <1>12, Zenon DEF IInv

LEMMA ReleaseIInv ==
  ASSUME IInv, NEW a \in Attempts, NEW stored \in BOOLEAN, ReleaseOnOutput(a, stored)
  PROVE  IInv'
<1> DEFINE d == att[a].dim
           released == IF stored THEN Releasable(a) ELSE {}
           gens == [s \in DOMAIN att[a].gens |->
                      IF s \in released THEN att[a].gens[s] + 1 ELSE att[a].gens[s]]
<1>1. now \in Nat /\ now' = now /\ chk' = chk /\ bal' = bal
  BY Zenon DEF IInv, TypeOK, ReleaseOnOutput
<1>2. Flying(a) /\ att[a] \in [ph : {"flying"}, dim : Dims, rec : BOOLEAN, out : BOOLEAN,
                               start : Nat, gens : [Scope(att[a].dim) -> Nat]]
  BY DEF IInv, TypeOK, AttemptTypeOK, ReleaseOnOutput, Flying, Idle, Done, Lost
<1>3. released \subseteq Scope(d) /\ \A s \in released : att[a].gens[s] = gate[s].gen
  BY Zenon DEF Releasable
<1>4. gate' = [s \in Scopes |-> IF s \in released THEN closeCircuit(gate[s]) ELSE gate[s]]
  BY Zenon DEF ReleaseOnOutput
<1>5. att' = [att EXCEPT ![a] = [att[a] EXCEPT !.out = TRUE, !.gens = gens]]
  BY <1>2, Zenon DEF ReleaseOnOutput, IInv, TypeOK
<1> HIDE DEF released
<1>6. \A s \in Scopes : Settles(gate'[s], gate[s], now)
  BY ReleaseSettles, Zenon
<1>7. DOMAIN gate' = Scopes /\ gate' = [s \in Scopes |-> gate'[s]]
  BY <1>4, Zenon
<1>8. gens \in [Scope(d) -> Nat]
  BY <1>2
<1>9. \A s \in Scope(d) :
        \/ gens[s] = att[a].gens[s]
        \/ gens[s] = gate'[s].gen /\ ~gate'[s].open
  <2> SUFFICES ASSUME NEW s \in Scope(d), s \in released
               PROVE  gens[s] = gate'[s].gen /\ ~gate'[s].open
    BY <1>2, Zenon
  <2>1. s \in Scopes
    BY <1>2, ScopeFacts, Zenon
  <2>2. gate'[s] = closeCircuit(gate[s])
    BY <1>4, <2>1, Zenon
  <2>3. gens[s] = gate[s].gen + 1
    BY <1>2, <1>3, Zenon
  <2>4. closeCircuit(gate[s]).gen = gate[s].gen + 1 /\ ~closeCircuit(gate[s]).open
    BY Zenon DEF closeCircuit
  <2>5. QED
    BY <2>2, <2>3, <2>4, Zenon
<1> HIDE DEF gens
<1>10. att'[a] \in [ph : {"flying"}, dim : Dims, rec : BOOLEAN, out : BOOLEAN,
                    start : Nat, gens : [Scope(d) -> Nat]]
       /\ att'[a].dim = att[a].dim /\ att'[a].start = att[a].start /\ att'[a].gens = gens
  BY <1>2, <1>5, <1>8, Zenon DEF IInv, TypeOK
<1>11. \A b \in Attempts \ {a} : att'[b] = att[b]
  BY <1>5, Zenon DEF IInv, TypeOK
<1>12. KeptFlights
  <2> SUFFICES ASSUME NEW b \in Attempts, Flying(b)'
               PROVE  /\ Flying(b) /\ att'[b].dim = att[b].dim /\ att'[b].start = att[b].start
                      /\ \A s \in Scope(att[b].dim) :
                           \/ att'[b].gens[s] = att[b].gens[s]
                           \/ att'[b].gens[s] = gate'[s].gen /\ ~gate'[s].open
    BY Zenon DEF KeptFlights
  <2>1. CASE b = a
    BY <1>2, <1>9, <1>10, <2>1, Zenon
  <2>2. CASE b # a
    BY <1>11, <2>2, Zenon DEF Flying
  <2>3. QED
    BY <2>1, <2>2, Zenon
<1>13. KeptChecks
  BY <1>1, Zenon DEF KeptChecks
<1>14. /\ \A s \in Scopes : SafeRow(gate'[s], now')
       /\ ExclusiveOnKey' /\ AdmissionsCurrent' /\ ChecksCurrent'
  BY <1>1, <1>6, <1>12, <1>13, SettledStep, Zenon
<1>15. TypeOK'
  <2>1. DOMAIN att' = Attempts
    BY <1>5, Zenon DEF IInv, TypeOK
  <2>2. \A b \in Attempts : AttemptTypeOK(b)'
    BY <1>10, <1>11, Zenon DEF IInv, TypeOK, AttemptTypeOK
  <2>3. DOMAIN chk' = Checks /\ \A c \in Checks : CheckTypeOK(c)'
    BY <1>1, Zenon DEF IInv, TypeOK, CheckTypeOK
  <2>4. QED
    BY <1>1, <1>7, <1>14, <2>1, <2>2, <2>3, TableType, Zenon DEF IInv, TypeOK
<1>16. QED
  BY <1>14, <1>15, Zenon DEF IInv

(* A step that changes neither the clock nor a gate.                       *)
LEMMA QuietIInv ==
  ASSUME IInv, UNCHANGED <<now, gate>>, KeptFlights, KeptChecks,
         DOMAIN att' = Attempts, \A b \in Attempts : AttemptTypeOK(b)',
         DOMAIN chk' = Checks, \A c \in Checks : CheckTypeOK(c)',
         bal' \in [Upstreams -> Nat]
  PROVE  IInv'
<1>1. now \in Nat
  BY Zenon DEF IInv, TypeOK
<1>2. \A s \in Scopes : Settles(gate'[s], gate[s], now)
  BY <1>1, SettlesSelf, Zenon DEF IInv
<1>3. /\ \A s \in Scopes : SafeRow(gate'[s], now')
      /\ ExclusiveOnKey' /\ AdmissionsCurrent' /\ ChecksCurrent'
  BY <1>2, SettledStep, Zenon
<1>4. TypeOK'
  BY Zenon DEF IInv, TypeOK
<1>5. QED
  BY <1>3, <1>4, Zenon DEF IInv

LEMMA AttemptLostIInv ==
  ASSUME IInv, NEW a \in Attempts, AttemptLost(a)
  PROVE  IInv'
<1>1. att' = [att EXCEPT ![a] = Lost] /\ DOMAIN att = Attempts
      /\ UNCHANGED <<now, gate, chk, bal>>
  BY Zenon DEF AttemptLost, IInv, TypeOK
<1>2. \A b \in Attempts : Flying(b)' => att'[b] = att[b]
  BY <1>1, Zenon DEF Flying, Lost
<1>3. KeptFlights /\ KeptChecks
  BY <1>1, <1>2, Zenon DEF KeptFlights, KeptChecks, Flying
<1>4. DOMAIN att' = Attempts /\ \A b \in Attempts : AttemptTypeOK(b)'
  BY <1>1, Zenon DEF IInv, TypeOK, AttemptTypeOK
<1>5. DOMAIN chk' = Checks /\ \A c \in Checks : CheckTypeOK(c)'
  BY <1>1, Zenon DEF IInv, TypeOK, CheckTypeOK
<1>6. QED
  BY <1>1, <1>3, <1>4, <1>5, QuietIInv, Zenon DEF IInv, TypeOK

LEMMA ScanIInv ==
  ASSUME IInv, NEW c \in Checks, NEW s \in Scopes, Scan(c, s)
  PROVE  IInv'
<1>1. chk' = [chk EXCEPT ![c] = [ph |-> "queued", scope |-> s, gen |-> gate[s].gen]]
      /\ DOMAIN chk = Checks /\ UNCHANGED <<now, gate, att, bal>>
  BY Zenon DEF Scan, IInv, TypeOK
<1>2. gate[s].gen \in Nat
  BY Zenon DEF IInv, TypeOK, Row
<1>3. KeptFlights /\ KeptChecks
  BY <1>1, Zenon DEF KeptFlights, KeptChecks, Flying
<1>4. DOMAIN att' = Attempts /\ \A b \in Attempts : AttemptTypeOK(b)'
  BY <1>1, Zenon DEF IInv, TypeOK, AttemptTypeOK
<1>5. DOMAIN chk' = Checks /\ \A e \in Checks : CheckTypeOK(e)'
  BY <1>1, <1>2, Zenon DEF IInv, TypeOK, CheckTypeOK
<1>6. QED
  BY <1>1, <1>3, <1>4, <1>5, QuietIInv, Zenon DEF IInv, TypeOK

LEMMA CheckLostIInv ==
  ASSUME IInv, NEW c \in Checks, CheckLost(c)
  PROVE  IInv'
<1>1. chk' = [chk EXCEPT ![c] = Lost] /\ DOMAIN chk = Checks
      /\ UNCHANGED <<now, gate, att, bal>>
  BY Zenon DEF CheckLost, IInv, TypeOK
<1>2. KeptFlights /\ KeptChecks
  BY <1>1, Zenon DEF KeptFlights, KeptChecks, Flying, Lost
<1>3. DOMAIN att' = Attempts /\ \A b \in Attempts : AttemptTypeOK(b)'
  BY <1>1, Zenon DEF IInv, TypeOK, AttemptTypeOK
<1>4. DOMAIN chk' = Checks /\ \A e \in Checks : CheckTypeOK(e)'
  BY <1>1, Zenon DEF IInv, TypeOK, CheckTypeOK
<1>5. QED
  BY <1>1, <1>2, <1>3, <1>4, QuietIInv, Zenon DEF IInv, TypeOK

LEMMA StartBalanceIInv ==
  ASSUME IInv, NEW u \in Upstreams, StartBalance(u)
  PROVE  IInv'
<1>1. bal' = [bal EXCEPT ![u] = now] /\ UNCHANGED <<now, gate, att, chk>>
      /\ bal \in [Upstreams -> Nat] /\ now \in Nat
  BY Zenon DEF StartBalance, IInv, TypeOK
<1>2. KeptFlights /\ KeptChecks
  BY <1>1, Zenon DEF KeptFlights, KeptChecks, Flying
<1>3. DOMAIN att' = Attempts /\ \A b \in Attempts : AttemptTypeOK(b)'
  BY <1>1, Zenon DEF IInv, TypeOK, AttemptTypeOK
<1>4. DOMAIN chk' = Checks /\ \A e \in Checks : CheckTypeOK(e)'
  BY <1>1, Zenon DEF IInv, TypeOK, CheckTypeOK
<1>5. bal' \in [Upstreams -> Nat]
  BY <1>1, Zenon
<1>6. QED
  BY <1>1, <1>2, <1>3, <1>4, <1>5, QuietIInv, Zenon

LEMMA FinishCheckIInv ==
  ASSUME IInv, NEW c \in Checks, NEW result, NEW retry \in RetryAfters,
         FinishCheck(c, result, retry)
  PROVE  IInv'
<1> DEFINE s0 == chk[c].scope
<1>1. now \in Nat /\ now' = now /\ att' = att /\ bal' = bal /\ retry \in Nat
  BY TimeAssumption, Zenon DEF FinishCheck, IInv, TypeOK
<1>2. chk' = [chk EXCEPT ![c] = Done] /\ DOMAIN chk = Checks
  BY Zenon DEF FinishCheck, IInv, TypeOK
<1>3. gate \in [Scopes -> Row]
  BY Zenon DEF IInv, TypeOK
<1>4. s0 \in Scopes
  BY DEF FinishCheck, IInv, TypeOK, CheckTypeOK, Idle, Done, Lost
<1>5. gate' = gate \/ gate' = [gate EXCEPT ![s0] = CheckedRow(@, result, retry)]
  BY Zenon DEF FinishCheck
<1>6. \A s \in Scopes : Settles(gate'[s], gate[s], now)
  BY FinishCheckSettles, Zenon
<1>7. DOMAIN gate' = Scopes /\ gate' = [s \in Scopes |-> gate'[s]]
  BY <1>3, <1>5, Zenon
<1>8. KeptFlights /\ KeptChecks
  BY <1>1, <1>2, Zenon DEF KeptFlights, KeptChecks, Flying, Done
<1>9. /\ \A s \in Scopes : SafeRow(gate'[s], now')
      /\ ExclusiveOnKey' /\ AdmissionsCurrent' /\ ChecksCurrent'
  BY <1>1, <1>6, <1>8, SettledStep, Zenon
<1>10. TypeOK'
  <2>1. DOMAIN att' = Attempts /\ \A b \in Attempts : AttemptTypeOK(b)'
    BY <1>1, Zenon DEF IInv, TypeOK, AttemptTypeOK
  <2>2. DOMAIN chk' = Checks /\ \A e \in Checks : CheckTypeOK(e)'
    BY <1>2, Zenon DEF IInv, TypeOK, CheckTypeOK
  <2>3. QED
    BY <1>1, <1>7, <1>9, <2>1, <2>2, TableType, Zenon DEF IInv, TypeOK
<1>11. QED
  BY <1>9, <1>10, Zenon DEF IInv

LEMMA FinishBalanceIInv ==
  ASSUME IInv, NEW u \in Upstreams, NEW positive \in BOOLEAN, FinishBalance(u, positive)
  PROVE  IInv'
<1>1. now \in Nat /\ now' = now /\ att' = att /\ chk' = chk
  BY Zenon DEF FinishBalance, IInv, TypeOK
<1>2. bal' \in [Upstreams -> Nat]
  BY Zenon DEF FinishBalance, IInv, TypeOK
<1>3. gate' = [s \in Scopes |-> IF positive /\ s \in QuotaGates(u)
                               THEN ReleasedRow(gate[s]) ELSE gate[s]]
  BY Zenon DEF FinishBalance
<1>4. \A s \in Scopes : Settles(gate'[s], gate[s], now)
  BY FinishBalanceSettles, Zenon
<1>5. DOMAIN gate' = Scopes /\ gate' = [s \in Scopes |-> gate'[s]]
  BY <1>3, Zenon
<1>6. KeptFlights /\ KeptChecks
  BY <1>1, Zenon DEF KeptFlights, KeptChecks, Flying
<1>7. /\ \A s \in Scopes : SafeRow(gate'[s], now')
      /\ ExclusiveOnKey' /\ AdmissionsCurrent' /\ ChecksCurrent'
  BY <1>1, <1>4, <1>6, SettledStep, Zenon
<1>8. TypeOK'
  <2>1. DOMAIN att' = Attempts /\ \A b \in Attempts : AttemptTypeOK(b)'
    BY <1>1, Zenon DEF IInv, TypeOK, AttemptTypeOK
  <2>2. DOMAIN chk' = Checks /\ \A e \in Checks : CheckTypeOK(e)'
    BY <1>1, Zenon DEF IInv, TypeOK, CheckTypeOK
  <2>3. QED
    BY <1>1, <1>2, <1>5, <1>7, <2>1, <2>2, TableType, Zenon DEF IInv, TypeOK
<1>9. QED
  BY <1>7, <1>8, Zenon DEF IInv

(* Time only ends claims.                                                  *)
LEMMA TickIInv ==
  ASSUME IInv, Tick
  PROVE  IInv'
<1>1. now \in Nat /\ now' = now + 1 /\ UNCHANGED <<gate, att, chk, bal>>
  BY Zenon DEF Tick, IInv, TypeOK
<1>2. \A s \in Scopes : /\ gate[s].leaseUntil \in Nat /\ gate[s].checkUntil \in Nat
                        /\ gate[s].until \in Nat /\ gate[s].openedAt \in Nat
  BY Zenon DEF IInv, TypeOK, Row
<1>3. \A s \in Scopes : SafeRow(gate'[s], now')
  BY <1>1, <1>2 DEF IInv, SafeRow
<1>4. \A s \in Scopes : /\ LeaseLive(s)' => LeaseLive(s)
                        /\ CheckLive(s)' => CheckLive(s)
  BY <1>1, <1>2 DEF LeaseLive, CheckLive
<1>5. ExclusiveOnKey'
  BY <1>1, <1>4, ScopeFacts, Zenon DEF IInv, ExclusiveOnKey, Busy
<1>6. AdmissionsCurrent' /\ ChecksCurrent'
  BY <1>1, Zenon DEF IInv, AdmissionsCurrent, ChecksCurrent, Flying
<1>7. TypeOK'
  <2>1. \A b \in Attempts : AttemptTypeOK(b)'
    BY <1>1, Zenon DEF IInv, TypeOK, AttemptTypeOK
  <2>2. \A e \in Checks : CheckTypeOK(e)'
    BY <1>1, Zenon DEF IInv, TypeOK, CheckTypeOK
  <2>3. QED
    BY <1>1, <2>1, <2>2 DEF IInv, TypeOK
<1>8. QED
  BY <1>3, <1>5, <1>6, <1>7, Zenon DEF IInv

(* An admission takes leases on due gates that nobody validates; when one  *)
(* of them is the key's, no other gate of the key is claimed.              *)
(* The row q is the safe row r, leased to a.                               *)
LeasedOK(q, r, a) ==
  /\ SafeRow(q, now) /\ SameGate(q, r) /\ q.lease = a
  /\ q.checkUntil = r.checkUntil /\ q.checkLease = r.checkLease

LEMMA LeasedSafe ==
  ASSUME now \in Nat, NEW a \in Attempts, NEW r, SafeRow(r, now), r.open,
         ~(r.until > now), ~(r.checkUntil > now)
  PROVE  LeasedOK([r EXCEPT !.lease = a, !.leaseUntil = LeaseEnd], r, a)
<1> DEFINE q == [r EXCEPT !.lease = a, !.leaseUntil = LeaseEnd]
<1>1. r \in Row /\ LeaseEnd \in Nat
  BY TimeAssumption DEF SafeRow, TypedRow, LeaseEnd
<1>2. q \in Row /\ SameGate(q, r) /\ q.lease = a /\ q.fails = r.fails /\ q.tries = r.tries
      /\ q.checkUntil = r.checkUntil /\ q.checkLease = r.checkLease
  BY <1>1, Zenon DEF Row, SameGate
<1>3. r.until \in Nat /\ r.checkUntil \in Nat
  BY <1>1, Zenon DEF Row
<1> HIDE DEF q
<1>4. SafeRow(q, now)
  BY <1>2, <1>3 DEF SafeRow, TypedRow, SameGate
<1>5. LeasedOK(q, r, a)
  BY <1>2, <1>4, Zenon DEF LeasedOK
<1>6. QED
  BY <1>5, Zenon DEF q

LEMMA AdmitIInv ==
  ASSUME IInv, NEW a \in Attempts, NEW d \in Dims, NEW recovery \in BOOLEAN,
         AdmitRequest(a, d, recovery)
  PROVE  IInv'
<1> DEFINE k == KeyOf[d]
           Leased(r) == [r EXCEPT !.lease = a, !.leaseUntil = LeaseEnd]
<1>1. now \in Nat /\ now' = now /\ chk' = chk /\ bal' = bal
  BY Zenon DEF AdmitRequest, IInv, TypeOK
<1>2. Admits(d, recovery)
  BY Zenon DEF AdmitRequest
<1>3. k \in Scopes /\ d \in Scopes /\ k # d /\ Scope(d) = {k, d} /\ k \in Keys
  BY ScopeFacts, Zenon DEF Scope
<1>4. gate' = [s \in Scopes |-> IF s \in Scope(d) /\ gate[s].open THEN Leased(gate[s])
                                                                ELSE gate[s]]
  BY Zenon DEF AdmitRequest
<1>5. \A s \in Scopes : s \in Scope(d) /\ gate[s].open =>
        ~(gate[s].until > now) /\ ~LeaseLive(s) /\ ~CheckLive(s)
  BY <1>2, Zenon DEF Admits, Cooling, Busy
<1>6. \A s \in Scopes : /\ SafeRow(gate'[s], now) /\ SameGate(gate'[s], gate[s])
                        /\ gate'[s].checkUntil = gate[s].checkUntil
                        /\ gate'[s].checkLease = gate[s].checkLease
                        /\ s \in Scope(d) /\ gate[s].open => gate'[s].lease = a
  <2> SUFFICES ASSUME NEW s \in Scopes
               PROVE  /\ SafeRow(gate'[s], now) /\ SameGate(gate'[s], gate[s])
                      /\ gate'[s].checkUntil = gate[s].checkUntil
                      /\ gate'[s].checkLease = gate[s].checkLease
                      /\ s \in Scope(d) /\ gate[s].open => gate'[s].lease = a
    BY Zenon
  <2>1. SafeRow(gate[s], now)
    BY Zenon DEF IInv
  <2>2. CASE s \in Scope(d) /\ gate[s].open
    <3>1. gate'[s] = Leased(gate[s])
      BY <1>4, <2>2, Zenon
    <3>2. ~(gate[s].until > now) /\ ~(gate[s].checkUntil > now)
      BY <1>5, <2>2, Zenon DEF CheckLive
    <3>3. LeasedOK(Leased(gate[s]), gate[s], a)
      BY <1>1, <2>1, <2>2, <3>2, LeasedSafe, Zenon
    <3> HIDE DEF Leased
    <3>4. QED
      BY <3>1, <3>3, Zenon DEF LeasedOK
  <2>3. CASE ~(s \in Scope(d) /\ gate[s].open)
    BY <1>4, <2>1, <2>3, Zenon DEF SameGate
  <2>4. QED
    BY <2>2, <2>3, Zenon
<1>7. \A s \in Scopes : s \notin Scope(d) \/ ~gate[s].open => gate'[s] = gate[s]
  BY <1>4, Zenon
<1>8. \A s \in Scopes : ~gate[s].open => ~LeaseLive(s) /\ ~CheckLive(s)
  BY <1>1, Zenon DEF IInv, SafeRow, LeaseLive, CheckLive
<1>9. \A s \in Scopes : CheckLive(s)' = CheckLive(s)
  BY <1>1, <1>6, Zenon DEF CheckLive
<1>10. ExclusiveOnKey'
  <2> SUFFICES ASSUME NEW e \in Dims
               PROVE  /\ CheckLive(KeyOf[e])' => ~LeaseLive(e)' /\ ~CheckLive(e)'
                      /\ LeaseLive(KeyOf[e])' =>
                           /\ ~CheckLive(e)'
                           /\ LeaseLive(e)' => gate'[e].lease = gate'[KeyOf[e]].lease
    BY Zenon DEF ExclusiveOnKey, Busy
  <2> DEFINE q == KeyOf[e]
  <2>1. q \in Keys /\ q \in Scopes /\ e \in Scopes /\ q # d /\ e # k
    BY <1>3, ScopeFacts, ScopeAssumption, Zenon
  <2>2. /\ CheckLive(q) => ~LeaseLive(e) /\ ~CheckLive(e)
        /\ LeaseLive(q) => ~CheckLive(e) /\ (LeaseLive(e) => gate[e].lease = gate[q].lease)
    BY Zenon DEF IInv, ExclusiveOnKey, Busy
  <2>3. CASE q # k
    <3>1. e # d
      BY <2>3, Zenon
    <3>2. gate'[q] = gate[q] /\ gate'[e] = gate[e]
      BY <1>3, <1>7, <2>1, <2>3, <3>1, Zenon
    <3>3. QED
      BY <1>1, <2>2, <3>2, Zenon DEF LeaseLive, CheckLive, Busy
  <2>4. CASE q = k /\ ~gate[k].open
    <3>1. gate'[q] = gate[q] /\ ~LeaseLive(q) /\ ~CheckLive(q)
      BY <1>3, <1>7, <1>8, <2>4, Zenon
    <3>2. ~LeaseLive(q)' /\ ~CheckLive(q)'
      BY <1>1, <3>1, Zenon DEF LeaseLive, CheckLive
    <3>3. QED
      BY <3>2, Zenon
  <2>5. CASE q = k /\ gate[k].open
    <3>1. ~LeaseLive(e) /\ ~CheckLive(e) /\ ~CheckLive(q)
      <4>1. e \in ScopesOfKey(k) \ {k}
        BY <2>1, <2>5, Zenon DEF ScopesOfKey
      <4>2. ~Busy(e)
        BY <1>2, <2>5, <4>1, Zenon DEF Admits
      <4>3. ~Busy(k)
        BY <1>2, <1>3, <2>5, Zenon DEF Admits
      <4>4. QED
        BY <2>5, <4>2, <4>3, Zenon DEF Busy
    <3>2. ~CheckLive(e)' /\ ~CheckLive(q)'
      BY <1>9, <2>1, <3>1, Zenon
    <3>3. LeaseLive(e)' => gate'[e].lease = a
      <4>1. CASE e = d /\ gate[e].open
        BY <1>3, <1>6, <4>1, Zenon
      <4>2. CASE e # d \/ ~gate[e].open
        <5>1. gate'[e] = gate[e]
          BY <1>3, <1>7, <2>1, <4>2, Zenon
        <5>2. QED
          BY <1>1, <3>1, <5>1, Zenon DEF LeaseLive
      <4>3. QED
        BY <4>1, <4>2, Zenon
    <3>4. gate'[q].lease = a
      BY <1>3, <1>6, <2>5, Zenon
    <3>5. QED
      BY <3>2, <3>3, <3>4, Zenon
  <2>6. QED
    BY <2>3, <2>4, <2>5, Zenon
<1> DEFINE flight == [ph |-> "flying", dim |-> d, rec |-> recovery, out |-> FALSE,
                      start |-> now, gens |-> [s \in Scope(d) |-> gate[s].gen]]
<1>11. att' = [att EXCEPT ![a] = flight] /\ DOMAIN att = Attempts
  BY Zenon DEF AdmitRequest, IInv, TypeOK
<1>12. \A s \in Scopes : gate[s].gen \in Nat /\ gate[s].openedAt <= now
  BY Zenon DEF IInv, TypeOK, Row, SafeRow
<1>13. AdmissionsCurrent'
  <2> SUFFICES ASSUME NEW b \in Attempts, Flying(b)', NEW s \in Scope(att'[b].dim)
               PROVE  /\ att'[b].gens[s] <= gate'[s].gen
                      /\ gate'[s].open /\ att'[b].gens[s] = gate'[s].gen
                           => att'[b].start >= gate'[s].openedAt
    BY Zenon DEF AdmissionsCurrent
  <2>1. CASE b = a
    <3>1. att'[b].dim = d /\ att'[b].start = now /\ s \in Scope(d)
          /\ att'[b].gens[s] = gate[s].gen
      BY <1>11, <2>1, Zenon
    <3>2. s \in Scopes
      BY <1>3, <3>1, Zenon
    <3>3. QED
      BY <1>1, <1>6, <1>12, <3>1, <3>2 DEF SameGate
  <2>2. CASE b # a
    <3>1. att'[b] = att[b] /\ Flying(b)
      BY <1>11, <2>2, Zenon DEF Flying
    <3>2. att[b].dim \in Dims
      BY <3>1 DEF IInv, TypeOK, AttemptTypeOK, Flying, Idle, Done, Lost
    <3>3. s \in Scopes
      BY <3>1, <3>2, ScopeFacts, Zenon
    <3>4. QED
      BY <1>6, <3>1, <3>3 DEF IInv, AdmissionsCurrent, SameGate
  <2>3. QED
    BY <2>1, <2>2, Zenon
<1>14. ChecksCurrent'
  <2> SUFFICES ASSUME NEW c \in Checks, chk'[c].ph = "running",
                      gate'[chk'[c].scope].checkLease = c
               PROVE  chk'[c].start >= gate'[chk'[c].scope].openedAt
    BY Zenon DEF ChecksCurrent
  <2>1. chk[c].scope \in Scopes
    BY <1>1, RunningScope, Zenon DEF IInv
  <2>2. QED
    BY <1>1, <1>6, <2>1, Zenon DEF IInv, ChecksCurrent, SameGate
<1>15. TypeOK'
  <2>1. DOMAIN att' = Attempts
    BY <1>11, Zenon
  <2>2. \A b \in Attempts : AttemptTypeOK(b)'
    <3>1. att'[a] = flight /\ flight.dim = d
      BY <1>11, Zenon
    <3>2. [s \in Scope(d) |-> gate[s].gen] \in [Scope(d) -> Nat]
      BY <1>3, <1>12, Zenon
    <3>3. flight \in [ph : {"flying"}, dim : Dims, rec : BOOLEAN, out : BOOLEAN,
                      start : Nat, gens : [Scope(d) -> Nat]]
      BY <1>1, <3>2, Zenon
    <3>4. AttemptTypeOK(a)'
      BY <3>1, <3>3, Zenon DEF AttemptTypeOK
    <3>5. \A b \in Attempts \ {a} : AttemptTypeOK(b)'
      BY <1>11, Zenon DEF IInv, TypeOK, AttemptTypeOK
    <3>6. QED
      BY <3>4, <3>5, Zenon
  <2>3. DOMAIN chk' = Checks /\ \A c \in Checks : CheckTypeOK(c)'
    BY <1>1, Zenon DEF IInv, TypeOK, CheckTypeOK
  <2>4. DOMAIN gate' = Scopes /\ gate' = [s \in Scopes |-> gate'[s]]
    BY <1>4, Zenon
  <2>5. QED
    BY <1>1, <1>6, <2>1, <2>2, <2>3, <2>4, TableType, Zenon DEF IInv, TypeOK
<1>16. QED
  BY <1>1, <1>6, <1>10, <1>13, <1>14, <1>15, Zenon DEF IInv

(* A claim takes a due gate nobody validates; a key-wide one also needs    *)
(* every other gate of the key free, any other one the key's.              *)
LEMMA ClaimedSafe ==
  ASSUME now \in Nat, NEW c \in Checks, NEW r, SafeRow(r, now), r.open,
         ~(r.until > now), ~(r.leaseUntil > now)
  PROVE  LET q == [r EXCEPT !.checkLease = c, !.checkUntil = now + CheckTTL, !.checkOK = FALSE]
         IN  SafeRow(q, now) /\ SameGate(q, r) /\ q.lease = r.lease
             /\ q.leaseUntil = r.leaseUntil
<1> DEFINE q == [r EXCEPT !.checkLease = c, !.checkUntil = now + CheckTTL, !.checkOK = FALSE]
<1>1. r \in Row /\ now + CheckTTL \in Nat
  BY TimeAssumption DEF SafeRow, TypedRow
<1>2. q \in Row /\ SameGate(q, r) /\ q.lease = r.lease /\ q.leaseUntil = r.leaseUntil
      /\ q.fails = r.fails /\ q.tries = r.tries
  BY <1>1, Zenon DEF Row, SameGate
<1>3. r.until \in Nat /\ r.leaseUntil \in Nat
  BY <1>1, Zenon DEF Row
<1> HIDE DEF q
<1>4. SafeRow(q, now)
  BY <1>2, <1>3 DEF SafeRow, TypedRow, SameGate
<1>5. QED
  BY <1>2, <1>4, Zenon DEF q

LEMMA ClaimIInv ==
  ASSUME IInv, NEW c \in Checks, ClaimCheck(c)
  PROVE  IInv'
<1> DEFINE s0 == chk[c].scope
           g0 == chk[c].gen
           Claimed(r) == [r EXCEPT !.checkLease = c, !.checkUntil = now + CheckTTL,
                                   !.checkOK = FALSE]
<1>1. now \in Nat /\ now' = now /\ att' = att /\ bal' = bal /\ DOMAIN chk = Checks
      /\ gate \in [Scopes -> Row]
  BY Zenon DEF ClaimCheck, IInv, TypeOK
<1>2. s0 \in Scopes
  BY DEF ClaimCheck, IInv, TypeOK, CheckTypeOK, Idle, Done, Lost
<1>3. CASE ~Claimable(s0, g0)
  <2>1. chk' = [chk EXCEPT ![c] = Idle] /\ gate' = gate
    BY <1>3, Zenon DEF ClaimCheck
  <2>2. KeptFlights /\ KeptChecks
    BY <1>1, <2>1, Zenon DEF KeptFlights, KeptChecks, Flying, Idle
  <2>3. DOMAIN att' = Attempts /\ \A b \in Attempts : AttemptTypeOK(b)'
    BY <1>1, Zenon DEF IInv, TypeOK, AttemptTypeOK
  <2>4. DOMAIN chk' = Checks /\ \A e \in Checks : CheckTypeOK(e)'
    BY <2>1, Zenon DEF IInv, TypeOK, CheckTypeOK
  <2>5. QED
    BY <1>1, <2>1, <2>2, <2>3, <2>4, QuietIInv, Zenon DEF IInv, TypeOK
<1>4. CASE Claimable(s0, g0)
  <2>1. gate' = [gate EXCEPT ![s0] = Claimed(gate[s0])]
        /\ chk' = [chk EXCEPT ![c] = [ph |-> "running", scope |-> s0,
                                      gen |-> gate[s0].gen, start |-> now]]
    BY <1>1, <1>2, <1>4, Zenon DEF ClaimCheck
  <2>2. gate[s0].open /\ ~(gate[s0].until > now) /\ ~LeaseLive(s0) /\ ~CheckLive(s0)
    BY <1>4, Zenon DEF Claimable, Cooling, Busy, KeyScope, ScopesOfKey
  <2>3. SafeRow(Claimed(gate[s0]), now) /\ SameGate(Claimed(gate[s0]), gate[s0])
        /\ Claimed(gate[s0]).lease = gate[s0].lease
        /\ Claimed(gate[s0]).leaseUntil = gate[s0].leaseUntil
    BY <1>1, <1>2, <2>2, ClaimedSafe, Zenon DEF IInv, LeaseLive
  <2> HIDE DEF Claimed
  <2>4. \A s \in Scopes : /\ SafeRow(gate'[s], now) /\ SameGate(gate'[s], gate[s])
                          /\ gate'[s].lease = gate[s].lease
                          /\ gate'[s].leaseUntil = gate[s].leaseUntil
    <3> SUFFICES ASSUME NEW s \in Scopes
                 PROVE  /\ SafeRow(gate'[s], now) /\ SameGate(gate'[s], gate[s])
                        /\ gate'[s].lease = gate[s].lease
                        /\ gate'[s].leaseUntil = gate[s].leaseUntil
      BY Zenon
    <3>1. CASE s = s0
      BY <1>1, <1>2, <2>1, <2>3, <3>1, Zenon
    <3>2. CASE s # s0
      <4>1. gate'[s] = gate[s]
        BY <1>1, <2>1, <3>2, Zenon
      <4>2. QED
        BY <4>1, Zenon DEF IInv, SameGate
    <3>3. QED
      BY <3>1, <3>2, Zenon
  <2>5. \A s \in Scopes : s # s0 => gate'[s] = gate[s]
    BY <1>1, <2>1, Zenon
  <2>6. \A s \in Scopes : /\ LeaseLive(s)' = LeaseLive(s)
                          /\ s # s0 => CheckLive(s)' = CheckLive(s)
    BY <1>1, <2>4, <2>5, Zenon DEF LeaseLive, CheckLive
  <2>7. ExclusiveOnKey'
    <3> SUFFICES ASSUME NEW e \in Dims
                 PROVE  /\ CheckLive(KeyOf[e])' => ~LeaseLive(e)' /\ ~CheckLive(e)'
                        /\ LeaseLive(KeyOf[e])' =>
                             /\ ~CheckLive(e)'
                             /\ LeaseLive(e)' => gate'[e].lease = gate'[KeyOf[e]].lease
      BY Zenon DEF ExclusiveOnKey, Busy
    <3> DEFINE q == KeyOf[e]
    <3>1. q \in Keys /\ q \in Scopes /\ e \in Scopes /\ q # e /\ e \notin Keys
      BY ScopeFacts, ScopeAssumption, Zenon
    <3>2. /\ CheckLive(q) => ~LeaseLive(e) /\ ~CheckLive(e)
          /\ LeaseLive(q) => ~CheckLive(e) /\ (LeaseLive(e) => gate[e].lease = gate[q].lease)
      BY Zenon DEF IInv, ExclusiveOnKey, Busy
    <3>3. CASE s0 = q
      <4>1. e \in ScopesOfKey(q) /\ KeyScope(s0) = s0
        BY <3>1, <3>3, Zenon DEF ScopesOfKey, KeyScope
      <4>2. ~LeaseLive(e) /\ ~CheckLive(e) /\ ~LeaseLive(q)
        BY <1>4, <2>2, <3>3, <4>1, Zenon DEF Claimable, Busy
      <4>3. QED
        BY <2>6, <3>1, <3>3, <4>2, Zenon
    <3>4. CASE s0 = e
      <4>1. KeyScope(s0) = q
        BY <3>1, <3>4, Zenon DEF KeyScope
      <4>2. ~LeaseLive(q) /\ ~CheckLive(q)
        BY <1>4, <3>1, <3>4, <4>1, Zenon DEF Claimable, Busy
      <4>3. QED
        BY <2>6, <3>1, <3>4, <4>2, Zenon
    <3>5. CASE s0 # q /\ s0 # e
      BY <2>4, <2>6, <3>1, <3>2, <3>5, Zenon
    <3>6. QED
      BY <3>3, <3>4, <3>5, Zenon
  <2>8. AdmissionsCurrent'
    <3> SUFFICES ASSUME NEW b \in Attempts, Flying(b)', NEW s \in Scope(att'[b].dim)
                 PROVE  /\ att'[b].gens[s] <= gate'[s].gen
                        /\ gate'[s].open /\ att'[b].gens[s] = gate'[s].gen
                             => att'[b].start >= gate'[s].openedAt
      BY Zenon DEF AdmissionsCurrent
    <3>1. att'[b] = att[b] /\ Flying(b)
      BY <1>1, Zenon DEF Flying
    <3>2. att[b].dim \in Dims
      BY <3>1 DEF IInv, TypeOK, AttemptTypeOK, Flying, Idle, Done, Lost
    <3>3. s \in Scopes
      BY <3>1, <3>2, ScopeFacts, Zenon
    <3>4. QED
      BY <2>4, <3>1, <3>3 DEF IInv, AdmissionsCurrent, SameGate
  <2>9. ChecksCurrent'
    <3> SUFFICES ASSUME NEW e \in Checks, chk'[e].ph = "running",
                        gate'[chk'[e].scope].checkLease = e
                 PROVE  chk'[e].start >= gate'[chk'[e].scope].openedAt
      BY Zenon DEF ChecksCurrent
    <3>1. CASE e = c
      <4>1. chk'[e].start = now /\ chk'[e].scope = s0
        BY <1>1, <2>1, <3>1, Zenon
      <4>2. gate'[s0].openedAt <= now /\ gate'[s0].openedAt \in Nat
        BY <1>2, <2>4, Zenon DEF SafeRow, TypedRow, Row
      <4>3. QED
        BY <1>1, <4>1, <4>2, Zenon
    <3>2. CASE e # c
      <4>1. chk'[e] = chk[e]
        BY <1>1, <2>1, <3>2, Zenon
      <4>2. chk[e].scope \in Scopes
        BY <4>1, RunningScope, Zenon DEF IInv
      <4>3. chk[e].scope # s0
        <5>1. gate'[s0].checkLease = c
          BY <1>1, <1>2, <2>1, Zenon DEF Claimed, Row
        <5>2. QED
          BY <3>2, <4>1, <5>1, Zenon
      <4>4. gate'[chk[e].scope] = gate[chk[e].scope]
        BY <2>5, <4>2, <4>3, Zenon
      <4>5. QED
        BY <4>1, <4>4, Zenon DEF IInv, ChecksCurrent
    <3>3. QED
      BY <3>1, <3>2, Zenon
  <2>10. TypeOK'
    <3>1. DOMAIN att' = Attempts /\ \A b \in Attempts : AttemptTypeOK(b)'
      BY <1>1, Zenon DEF IInv, TypeOK, AttemptTypeOK
    <3>2. gate[s0].gen \in Nat
      BY <1>1, <1>2, Zenon DEF Row
    <3>3. DOMAIN chk' = Checks /\ \A e \in Checks : CheckTypeOK(e)'
      BY <1>1, <1>2, <2>1, <3>2, Zenon DEF IInv, TypeOK, CheckTypeOK
    <3>4. DOMAIN gate' = Scopes /\ gate' = [s \in Scopes |-> gate'[s]]
      BY <1>1, <2>1, Zenon
    <3>5. QED
      BY <1>1, <2>4, <3>1, <3>3, <3>4, TableType, Zenon DEF IInv, TypeOK
  <2>11. QED
    BY <1>1, <2>4, <2>7, <2>8, <2>9, <2>10, Zenon DEF IInv
<1>5. QED
  BY <1>3, <1>4, Zenon
-----------------------------------------------------------------------------
LEMMA NextIInv == IInv /\ [Next]_vars => IInv'
<1> SUFFICES ASSUME IInv, [Next]_vars PROVE IInv'
  BY Zenon
<1>1. CASE \E a \in Attempts, d \in Dims, recovery \in BOOLEAN : AdmitRequest(a, d, recovery)
  BY <1>1, AdmitIInv, Zenon
<1>2. CASE \E a \in Attempts, stored \in BOOLEAN : ReleaseOnOutput(a, stored)
  BY <1>2, ReleaseIInv, Zenon
<1>3. CASE \E a \in Attempts, o \in Outcomes : Observe(a, o)
  BY <1>3, ObserveIInv, Zenon
<1>4. CASE \E a \in Attempts : AttemptLost(a)
  BY <1>4, AttemptLostIInv, Zenon
<1>5. CASE \E c \in Checks, s \in Scopes : Scan(c, s)
  BY <1>5, ScanIInv, Zenon
<1>6. CASE \E c \in Checks : ClaimCheck(c)
  BY <1>6, ClaimIInv, Zenon
<1>7. CASE \E c \in Checks, result \in {"success", "failure", "neutral"},
             retry \in RetryAfters : FinishCheck(c, result, retry)
  BY <1>7, FinishCheckIInv, Zenon
<1>8. CASE \E c \in Checks : CheckLost(c)
  BY <1>8, CheckLostIInv, Zenon
<1>9. CASE \E u \in Upstreams : StartBalance(u)
  BY <1>9, StartBalanceIInv, Zenon
<1>10. CASE \E u \in Upstreams, positive \in BOOLEAN : FinishBalance(u, positive)
  BY <1>10, FinishBalanceIInv, Zenon
<1>11. CASE Tick
  BY <1>11, TickIInv, Zenon
<1>12. CASE UNCHANGED vars
  <2>1. UNCHANGED <<now, gate, att, chk, bal>>
    BY <1>12, Zenon DEF vars
  <2>2. KeptFlights /\ KeptChecks
    BY <2>1, Zenon DEF KeptFlights, KeptChecks, Flying
  <2>3. DOMAIN att' = Attempts /\ \A b \in Attempts : AttemptTypeOK(b)'
    BY <2>1, Zenon DEF IInv, TypeOK, AttemptTypeOK
  <2>4. DOMAIN chk' = Checks /\ \A c \in Checks : CheckTypeOK(c)'
    BY <2>1, Zenon DEF IInv, TypeOK, CheckTypeOK
  <2>5. QED
    BY <2>1, <2>2, <2>3, <2>4, QuietIInv, Zenon DEF IInv, TypeOK
<1>13. QED
  BY <1>1, <1>2, <1>3, <1>4, <1>5, <1>6, <1>7, <1>8, <1>9, <1>10, <1>11, <1>12, Zenon DEF Next

(* The invariant the other theorems rest on holds of every behaviour.      *)
THEOREM Invariance == Spec => []IInv
  BY InitIInv, NextIInv, PTL DEF Spec

(* Rows, attempts and checks keep their shape, and no window outgrows its  *)
(* column, whatever is admitted, observed, checked or released.            *)
THEOREM TypeCorrectness == Spec => []TypeOK
<1>1. IInv => TypeOK
  BY Zenon DEF IInv
<1>2. QED
  BY <1>1, Invariance, PTL

(* A live lease or claim is always on an open gate past its deadline.      *)
THEOREM ClaimsOnDueGates == Spec => []ClaimsOnlyOnDueGates
<1>1. IInv => ClaimsOnlyOnDueGates
  <2> SUFFICES ASSUME IInv, NEW s \in Scopes, Busy(s)
               PROVE  gate[s].open /\ ~Cooling(s)
    BY Zenon DEF ClaimsOnlyOnDueGates
  <2>1. SafeRow(gate[s], now) /\ now \in Nat /\ gate[s].until \in Nat
    BY Zenon DEF IInv, TypeOK, Row
  <2>2. QED
    BY <2>1 DEF SafeRow, Busy, LeaseLive, CheckLive, Cooling
<1>2. QED
  BY <1>1, Invariance, PTL
-----------------------------------------------------------------------------
(* Who moves an open gate.                                                 *)

LEMMA UnmovedByObserve ==
  ASSUME NEW r, NEW a, NEW gen, NEW o, r.open, ~Owned(r, a)
  PROVE  ObservedKey(r, a, gen, o) = r /\ ObservedDim(r, a, gen, o) = r
  BY Zenon DEF ObservedKey, ObservedDim, Stale

LEMMA UnmovedByStale ==
  ASSUME NEW r, NEW a, NEW gen, NEW o, gen # r.gen
  PROVE  ObservedKey(r, a, gen, o) = r /\ ObservedDim(r, a, gen, o) = r
  BY Zenon DEF ObservedKey, ObservedDim, Stale

Moved(s) == gate[s].open /\ gate'[s].gen # gate[s].gen

Evidence(s) == ValidatedBy(s) \/ CheckedBy(s) \/ (FundedBy(s) /\ ~gate'[s].open)

LEMMA ObserveEvidence ==
  ASSUME IInv, NEW a \in Attempts, NEW o \in Outcomes, Observe(a, o),
         NEW s \in Scopes, Moved(s)
  PROVE  Evidence(s)
<1> DEFINE d == att[a].dim
           k == KeyOf[d]
<1>1. Flying(a) /\ att' = [att EXCEPT ![a] = Done] /\ DOMAIN att = Attempts
      /\ gate \in [Scopes -> Row]
  BY Zenon DEF Observe, IInv, TypeOK
<1>2. k \in Scopes /\ d \in Scopes /\ k # d /\ Scope(d) = {k, d}
  <2>1. d \in Dims
    BY <1>1, FlyingShape, Zenon DEF IInv
  <2>2. QED
    BY <2>1, ScopeFacts, Zenon DEF Scope
<1>3. gate' = [gate EXCEPT ![k] = ObservedKey(@, a, att[a].gens[k], o),
                           ![d] = ObservedDim(@, a, att[a].gens[d], o)]
  BY Zenon DEF Observe, Moved
<1>4. s \in Scope(d)
  BY <1>1, <1>2, <1>3, Zenon DEF Moved
<1>5. \/ gate'[s] = ObservedKey(gate[s], a, att[a].gens[s], o)
      \/ gate'[s] = ObservedDim(gate[s], a, att[a].gens[s], o)
  BY <1>1, <1>2, <1>3, <1>4, Zenon
<1>6. Owned(gate[s], a) /\ att[a].gens[s] = gate[s].gen
  BY <1>5, UnmovedByObserve, UnmovedByStale DEF Moved
<1>7. att[a].start >= gate[s].openedAt
  BY <1>1, <1>4, <1>6, Zenon DEF IInv, AdmissionsCurrent, Moved
<1>8. att'[a] # att[a]
  BY <1>1 DEF Flying, Done
<1>9. QED
  BY <1>1, <1>6, <1>7, <1>8, Zenon DEF Evidence, ValidatedBy, LeaseLive, Owned

LEMMA ReleaseEvidence ==
  ASSUME IInv, NEW a \in Attempts, NEW stored \in BOOLEAN, ReleaseOnOutput(a, stored),
         NEW s \in Scopes, Moved(s)
  PROVE  Evidence(s)
<1> DEFINE released == IF stored THEN Releasable(a) ELSE {}
<1>1. Flying(a) /\ ~att[a].out /\ DOMAIN att = Attempts
  BY Zenon DEF ReleaseOnOutput, IInv, TypeOK
<1>2. gate' = [q \in Scopes |-> IF q \in released THEN closeCircuit(gate[q]) ELSE gate[q]]
  BY Zenon DEF ReleaseOnOutput
<1>3. s \in Releasable(a)
  BY <1>2, Zenon DEF Moved
<1>4. s \in Scope(att[a].dim) /\ gate[s].gen = att[a].gens[s] /\ Owned(gate[s], a)
  BY <1>3, Zenon DEF Releasable
<1>5. att[a].start >= gate[s].openedAt
  BY <1>1, <1>4, Zenon DEF IInv, AdmissionsCurrent, Moved
<1>6. att'[a].out = TRUE
  <2>1. att[a] \in [ph : {"flying"}, dim : Dims, rec : BOOLEAN, out : BOOLEAN,
                    start : Nat, gens : [Scope(att[a].dim) -> Nat]]
    BY <1>1, FlyingShape, Zenon DEF IInv
  <2>2. QED
    BY <1>1, <2>1, Zenon DEF ReleaseOnOutput
<1>7. att'[a] # att[a]
  BY <1>1, <1>6, Zenon
<1>8. QED
  BY <1>1, <1>4, <1>5, <1>7, Zenon DEF Evidence, ValidatedBy, LeaseLive, Owned

LEMMA CheckEvidence ==
  ASSUME IInv, NEW c \in Checks, NEW result, NEW retry \in RetryAfters,
         FinishCheck(c, result, retry), NEW s \in Scopes, Moved(s)
  PROVE  Evidence(s)
<1> DEFINE s0 == chk[c].scope
<1>1. chk[c].ph = "running" /\ chk' = [chk EXCEPT ![c] = Done] /\ DOMAIN chk = Checks
      /\ gate \in [Scopes -> Row]
  BY Zenon DEF FinishCheck, IInv, TypeOK
<1>2. gate' # gate
  BY Zenon DEF Moved
<1>3. gate[s0].checkLease = c /\ gate[s0].checkUntil > now
      /\ gate' = [gate EXCEPT ![s0] = CheckedRow(@, result, retry)]
  BY <1>2, Zenon DEF FinishCheck
<1>4. s = s0
  BY <1>1, <1>3, Zenon DEF Moved
<1>5. chk[c].start >= gate[s].openedAt
  BY <1>1, <1>3, <1>4, Zenon DEF IInv, ChecksCurrent
<1>6. chk'[c] # chk[c]
  BY <1>1 DEF Done
<1>7. QED
  BY <1>1, <1>3, <1>4, <1>5, <1>6, Zenon DEF Evidence, CheckedBy, CheckLive

LEMMA BalanceEvidence ==
  ASSUME IInv, NEW u \in Upstreams, NEW positive \in BOOLEAN, FinishBalance(u, positive),
         NEW s \in Scopes, Moved(s)
  PROVE  Evidence(s)
<1>1. s \in QuotaGates(u) /\ gate'[s] = ReleasedRow(gate[s])
  BY Zenon DEF FinishBalance, Moved
<1>2. UpstreamOf[KeyScope(s)] = u /\ gate[s].reason = "quota" /\ gate[s].openedAt <= bal[u]
  BY <1>1, Zenon DEF QuotaGates
<1>3. bal'[u] = 0
  BY Zenon DEF FinishBalance, IInv, TypeOK
<1>4. ~ReleasedRow(gate[s]).open
  BY Zenon DEF ReleasedRow, closeCircuit
<1>5. gate[s].openedAt \in Nat /\ bal[u] \in Nat
  BY Zenon DEF IInv, TypeOK, Row
<1>6. QED
  BY <1>1, <1>2, <1>3, <1>4, <1>5, Zenon DEF Evidence, FundedBy

(* An admission and a claim leave the generation of every gate alone.      *)
LEMMA AdmitMovesNothing ==
  ASSUME IInv, NEW s \in Scopes, NEW a \in Attempts, NEW d \in Dims,
         NEW recovery \in BOOLEAN, AdmitRequest(a, d, recovery)
  PROVE  SameGate(gate'[s], gate[s])
<1> DEFINE q == [gate[s] EXCEPT !.lease = a, !.leaseUntil = LeaseEnd]
<1>1. gate'[s] = gate[s] \/ gate'[s] = q
  BY Zenon DEF AdmitRequest
<1>2. gate[s] \in Row
  BY Zenon DEF IInv, TypeOK
<1>3. SameGate(q, gate[s])
  BY <1>2, Zenon DEF SameGate, Row
<1> HIDE DEF q
<1>4. CASE gate'[s] = gate[s]
  BY <1>4, Zenon DEF SameGate
<1>5. CASE gate'[s] = q
  BY <1>3, <1>5, Zenon
<1>6. QED
  BY <1>1, <1>4, <1>5, Zenon

LEMMA ClaimMovesNothing ==
  ASSUME IInv, NEW c \in Checks, ClaimCheck(c)
  PROVE  /\ chk[c].scope \in Scopes
         /\ \A s \in Scopes : SameGate(gate'[s], gate[s])
         /\ \A s \in Scopes \ {chk[c].scope} : gate'[s] = gate[s]
<1> DEFINE s0 == chk[c].scope
           q == [gate[s0] EXCEPT !.checkLease = c, !.checkUntil = now + CheckTTL,
                                 !.checkOK = FALSE]
<1>1. s0 \in Scopes
  BY DEF ClaimCheck, IInv, TypeOK, CheckTypeOK, Idle, Done, Lost
<1>2. gate \in [Scopes -> Row]
  BY Zenon DEF IInv, TypeOK
<1>3. gate' = gate \/ gate' = [gate EXCEPT ![s0] = q]
  BY <1>1, <1>2, Zenon DEF ClaimCheck
<1>4. SameGate(q, gate[s0])
  BY <1>1, <1>2 DEF SameGate, Row
<1> HIDE DEF q
<1>5. \A s \in Scopes \ {s0} : gate'[s] = gate[s]
  BY <1>1, <1>2, <1>3, Zenon
<1>6. ASSUME NEW s \in Scopes PROVE SameGate(gate'[s], gate[s])
  <2>1. CASE gate'[s] = gate[s]
    BY <2>1, Zenon DEF SameGate
  <2>2. CASE gate' = [gate EXCEPT ![s0] = q] /\ s = s0
    BY <1>1, <1>2, <1>4, <2>2, Zenon
  <2>3. QED
    BY <1>2, <1>3, <1>5, <2>1, <2>2, Zenon
<1>7. QED
  BY <1>1, <1>5, <1>6, Zenon

LEMMA NextEvidence ==
  IInv /\ [Next]_vars => \A s \in Scopes : Moved(s) => Evidence(s)
<1> SUFFICES ASSUME IInv, [Next]_vars, NEW s \in Scopes, Moved(s) PROVE Evidence(s)
  BY Zenon
<1>1. CASE \E a \in Attempts, d \in Dims, recovery \in BOOLEAN : AdmitRequest(a, d, recovery)
  BY <1>1, AdmitMovesNothing, Zenon DEF Moved, SameGate
<1>2. CASE \E a \in Attempts, stored \in BOOLEAN : ReleaseOnOutput(a, stored)
  BY <1>2, ReleaseEvidence, Zenon
<1>3. CASE \E a \in Attempts, o \in Outcomes : Observe(a, o)
  BY <1>3, ObserveEvidence, Zenon
<1>4. CASE \E c \in Checks : ClaimCheck(c)
  BY <1>4, ClaimMovesNothing, Zenon DEF Moved, SameGate
<1>5. CASE \E c \in Checks, result \in {"success", "failure", "neutral"},
             retry \in RetryAfters : FinishCheck(c, result, retry)
  BY <1>5, CheckEvidence, Zenon
<1>6. CASE \E u \in Upstreams, positive \in BOOLEAN : FinishBalance(u, positive)
  BY <1>6, BalanceEvidence, Zenon
<1>7. CASE UNCHANGED gate
  BY <1>7, Zenon DEF Moved
<1>8. QED
  BY <1>1, <1>2, <1>3, <1>4, <1>5, <1>6, <1>7, Zenon
     DEF Next, vars, AttemptLost, Scan, CheckLost, StartBalance, Tick

(* An open gate closes or shuts again only on fresh evidence: from the     *)
(* attempt or check that holds its live claim and began after the gate was *)
(* shut, or from a balance fetched since the quota failure.                *)
THEOREM FreshEvidence == Spec => OpenGateMovedByFreshEvidence
<1>1. IInv /\ [Next]_vars =>
        [\A s \in Scopes :
           gate[s].open /\ gate'[s].gen # gate[s].gen =>
             \/ ValidatedBy(s) \/ CheckedBy(s)
             \/ FundedBy(s) /\ ~gate'[s].open]_vars
  BY NextEvidence, Zenon DEF Moved, Evidence
<1>2. QED
  BY <1>1, Invariance, PTL DEF Spec, OpenGateMovedByFreshEvidence
-----------------------------------------------------------------------------
(* A step either leaves every gate's identity alone, or settles rows.      *)
LEMMA NextMoves ==
  IInv /\ [Next]_vars =>
    \A s \in Scopes : SameGate(gate'[s], gate[s]) \/ Settles(gate'[s], gate[s], now)
<1> SUFFICES ASSUME IInv, [Next]_vars, NEW s \in Scopes
             PROVE  SameGate(gate'[s], gate[s]) \/ Settles(gate'[s], gate[s], now)
  BY Zenon
<1>1. CASE \E a \in Attempts, d \in Dims, recovery \in BOOLEAN : AdmitRequest(a, d, recovery)
  BY <1>1, AdmitMovesNothing, Zenon
<1>2. CASE \E a \in Attempts, stored \in BOOLEAN : ReleaseOnOutput(a, stored)
  BY <1>2, ReleaseSettles, Zenon
<1>3. CASE \E a \in Attempts, o \in Outcomes : Observe(a, o)
  BY <1>3, ObserveSettles, Zenon
<1>4. CASE \E c \in Checks : ClaimCheck(c)
  BY <1>4, ClaimMovesNothing, Zenon
<1>5. CASE \E c \in Checks, result \in {"success", "failure", "neutral"},
             retry \in RetryAfters : FinishCheck(c, result, retry)
  BY <1>5, FinishCheckSettles, Zenon
<1>6. CASE \E u \in Upstreams, positive \in BOOLEAN : FinishBalance(u, positive)
  BY <1>6, FinishBalanceSettles, Zenon
<1>7. CASE UNCHANGED gate
  BY <1>7, Zenon DEF SameGate
<1>8. QED
  BY <1>1, <1>2, <1>3, <1>4, <1>5, <1>6, <1>7, Zenon
     DEF Next, vars, AttemptLost, Scan, CheckLost, StartBalance, Tick

(* Generations count exactly the openings and closings of a gate, one at a *)
(* time: while a generation stands, so do the gate's state, its opening    *)
(* time and its deadline.                                                  *)
THEOREM GenerationsCount == Spec => GenerationCountsMoves
<1>1. IInv /\ [Next]_vars =>
        [\A s \in Scopes :
           /\ gate'[s].gen \in {gate[s].gen, gate[s].gen + 1}
           /\ gate'[s].gen = gate[s].gen =>
                /\ gate'[s].open = gate[s].open /\ gate'[s].openedAt = gate[s].openedAt
                /\ gate'[s].until = gate[s].until]_vars
  <2> SUFFICES ASSUME IInv, [Next]_vars, NEW s \in Scopes
               PROVE  /\ gate'[s].gen \in {gate[s].gen, gate[s].gen + 1}
                      /\ gate'[s].gen = gate[s].gen =>
                           /\ gate'[s].open = gate[s].open
                           /\ gate'[s].openedAt = gate[s].openedAt
                           /\ gate'[s].until = gate[s].until
    BY Zenon
  <2>1. SameGate(gate'[s], gate[s]) \/ gate'[s].gen = gate[s].gen + 1
    BY NextMoves, Zenon DEF Settles
  <2>2. gate[s].gen \in Nat
    BY Zenon DEF IInv, TypeOK, Row
  <2>3. QED
    BY <2>1, <2>2 DEF SameGate
<1>2. QED
  BY <1>1, Invariance, PTL DEF Spec, GenerationCountsMoves

(* Only a claim starts a check, and it starts one.                         *)
LEMMA NoCheckStarted ==
  ASSUME IInv, [Next]_vars, ~\E c \in Checks : ClaimCheck(c)
  PROVE  ActiveChecks' \subseteq ActiveChecks
<1> SUFFICES ASSUME NEW s \in Scopes, CheckLive(s)' PROVE CheckLive(s)
  BY Zenon DEF ActiveChecks
<1>0. now \in Nat /\ gate[s] \in Row /\ gate[s].checkUntil \in Nat
  BY Zenon DEF IInv, TypeOK, Row
<1>1. CASE \E a \in Attempts, d \in Dims, recovery \in BOOLEAN : AdmitRequest(a, d, recovery)
  <2>1. PICK a \in Attempts, d \in Dims, recovery \in BOOLEAN : AdmitRequest(a, d, recovery)
    BY <1>1, Zenon
  <2>2. \/ gate'[s] = gate[s]
        \/ gate'[s] = [gate[s] EXCEPT !.lease = a, !.leaseUntil = LeaseEnd]
    BY <2>1, Zenon DEF AdmitRequest
  <2>3. gate'[s].checkUntil = gate[s].checkUntil /\ now' = now
    BY <1>0, <2>1, <2>2, Zenon DEF Row, AdmitRequest
  <2>4. QED
    BY <2>3, Zenon DEF CheckLive
<1>2. CASE now' = now /\ Settles(gate'[s], gate[s], now)
  BY <1>2, Zenon DEF Settles, CheckLive
<1>3. CASE UNCHANGED gate /\ now' \in {now, now + 1}
  BY <1>0, <1>3 DEF CheckLive
<1>4. CASE \E a \in Attempts, stored \in BOOLEAN : ReleaseOnOutput(a, stored)
  BY <1>2, <1>4, ReleaseSettles, Zenon DEF ReleaseOnOutput
<1>5. CASE \E a \in Attempts, o \in Outcomes : Observe(a, o)
  <2>1. PICK a \in Attempts, o \in Outcomes : Observe(a, o)
    BY <1>5, Zenon
  <2>2. now' = now
    BY <2>1, Zenon DEF Observe
  <2>3. QED
    BY <1>2, <2>1, <2>2, ObserveSettles, Zenon
<1>6. CASE \E c \in Checks, result \in {"success", "failure", "neutral"},
             retry \in RetryAfters : FinishCheck(c, result, retry)
  <2>1. PICK c \in Checks, result \in {"success", "failure", "neutral"},
              retry \in RetryAfters : FinishCheck(c, result, retry)
    BY <1>6, Zenon
  <2>2. now' = now
    BY <2>1, Zenon DEF FinishCheck
  <2>3. QED
    BY <1>2, <2>1, <2>2, FinishCheckSettles, Zenon
<1>7. CASE \E u \in Upstreams, positive \in BOOLEAN : FinishBalance(u, positive)
  BY <1>2, <1>7, FinishBalanceSettles, Zenon DEF FinishBalance
<1>8. QED
  BY <1>1, <1>3, <1>4, <1>5, <1>6, <1>7, Zenon
     DEF Next, vars, AttemptLost, Scan, CheckLost, StartBalance, Tick

(* However many workers race, live check claims stay within the limit.     *)
THEOREM CheckLimitHolds == Spec => []ChecksWithinLimit
<1>0. IsFiniteSet(Scopes)
  BY ScopeAssumption, FS_Union, Zenon DEF Scopes
<1>1. Init => ChecksWithinLimit
  <2> SUFFICES ASSUME Init PROVE ChecksWithinLimit
    BY Zenon
  <2>0. \A s \in Scopes : ~CheckLive(s)
    <3>1. now = 1 /\ \A s \in Scopes : gate[s] = NewRow
      BY Zenon DEF Init
    <3>2. NewRow.checkUntil = 0
      BY Zenon DEF NewRow
    <3>3. QED
      BY <3>1, <3>2 DEF CheckLive
  <2>1. ActiveChecks = {}
    BY <2>0, Zenon DEF ActiveChecks
  <2>2. QED
    BY <2>1, FS_EmptySet, TimeAssumption DEF ChecksWithinLimit
<1>2. IInv /\ ChecksWithinLimit /\ [Next]_vars => ChecksWithinLimit'
  <2> SUFFICES ASSUME IInv, ChecksWithinLimit, [Next]_vars
               PROVE  Cardinality(ActiveChecks') <= CheckLimit
    BY Zenon DEF ChecksWithinLimit
  <2>1. IsFiniteSet(ActiveChecks) /\ Cardinality(ActiveChecks) \in Nat
    BY <1>0, FS_Subset, FS_CardinalityType, Zenon DEF ActiveChecks
  <2>2. ASSUME NEW c \in Checks, ClaimCheck(c)
        PROVE  Cardinality(ActiveChecks') <= CheckLimit
    <3> DEFINE T == ActiveChecks \cup {chk[c].scope}
    <3>1. ActiveChecks' \subseteq T
      BY <2>2, ClaimMovesNothing, Zenon DEF ActiveChecks, CheckLive, ClaimCheck
    <3>2. IsFiniteSet(T) /\ Cardinality(T) <= Cardinality(ActiveChecks) + 1
      BY <2>1, FS_AddElement
    <3>3. Cardinality(ActiveChecks') <= Cardinality(T)
          /\ Cardinality(T) \in Nat /\ Cardinality(ActiveChecks') \in Nat
      BY <3>1, <3>2, FS_Subset, FS_CardinalityType, Zenon
    <3>4. Cardinality(ActiveChecks) < CheckLimit
      BY <2>2, Zenon DEF ClaimCheck, CapacityLeft
    <3>5. QED
      BY <2>1, <3>2, <3>3, <3>4, TimeAssumption
  <2>3. CASE ~\E c \in Checks : ClaimCheck(c)
    <3>1. ActiveChecks' \subseteq ActiveChecks
      BY <2>3, NoCheckStarted, Zenon
    <3>2. Cardinality(ActiveChecks') <= Cardinality(ActiveChecks)
          /\ Cardinality(ActiveChecks') \in Nat
      BY <2>1, <3>1, FS_Subset, FS_CardinalityType, Zenon
    <3>3. QED
      BY <2>1, <3>2, TimeAssumption DEF ChecksWithinLimit
  <2>4. QED
    BY <2>2, <2>3, Zenon
<1>3. QED
  BY <1>1, <1>2, Invariance, PTL DEF Spec

(* Validations and checks exclude each other on every gate and key, and    *)
(* checks each other beyond the limit (AdmitRequest, ClaimCheck).          *)
THEOREM Exclusion == Spec => []ClaimsExclude
<1>1. IInv => ExclusiveOnGate /\ ExclusiveOnKey
  BY Zenon DEF IInv, ExclusiveOnGate, SafeRow, LeaseLive, CheckLive
<1>2. QED
  BY <1>1, Invariance, CheckLimitHolds, PTL DEF ClaimsExclude
-----------------------------------------------------------------------------
(* Leases and their holders.                                               *)

(* Another attempt of the same business request: it may have been observed *)
(* in the same dimension before.                                           *)
Repeats(a) == \E b \in Attempts : b # a /\ RequestOf[b] = RequestOf[a]

(* Attempt a can still settle its lease on gate s, or died with it, or its *)
(* settlement was dropped as a repetition.                                 *)
Holds(a, s) ==
  \/ att[a] = Lost
  \/ Flying(a) /\ s \in Scope(att[a].dim) /\ att[a].gens[s] = gate[s].gen
  \/ att[a] = Done /\ Repeats(a)

HeldOrRepeated ==
  \A s \in Scopes : LeaseLive(s) => gate[s].lease \in Attempts /\ Holds(gate[s].lease, s)

(* What was observed was observed by an attempt that has settled.          *)
SeenIsSettled ==
  \A p \in seen : \E b \in Attempts : att[b] = Done /\ p[2] = RequestOf[b]

HolderInv == HeldOrRepeated /\ SeenIsSettled

(* A settlement gives its own lease back, whatever the outcome (Observe).  *)
LEMMA ObserveGivesBack ==
  ASSUME now \in Nat, NEW r, SafeRow(r, now), NEW a \in Attempts, r.lease = a, r.leaseUntil > now,
         NEW o \in Outcomes
  PROVE  /\ ObservedKey(r, a, r.gen, o).leaseUntil = 0
         /\ ObservedDim(r, a, r.gen, o).leaseUntil = 0
<1>0. r \in Row /\ Owned(r, a) /\ ~Stale(r, a, r.gen)
  BY Zenon DEF SafeRow, TypedRow, Owned, Stale
<1>1. NeutralRow(r, a).leaseUntil = 0
  BY <1>0, Zenon DEF NeutralRow, Row
<1>2. \A q \in Row : SuccessRow(q).leaseUntil = 0
  BY Zenon DEF SuccessRow, closeCircuit, Row
<1>3. \A q : openCircuit(q, o).leaseUntil = 0
  BY Zenon DEF openCircuit
<1>4. Tried(r) \in Row
  BY TriedSafe, Zenon DEF SafeRow, TypedRow
<1>5. ObservedKey(r, a, r.gen, o).leaseUntil = 0
  BY <1>0, <1>1, <1>2, <1>3, Zenon DEF ObservedKey
<1>6. ObservedDim(r, a, r.gen, o).leaseUntil = 0
  BY <1>0, <1>1, <1>2, <1>3, <1>4, Zenon DEF ObservedDim
<1> QED
  BY <1>5, <1>6, Zenon

(* A holder and its lease that a step leaves alone.                        *)
LEMMA HolderKept ==
  ASSUME HolderInv, NEW s \in Scopes, LeaseLive(s), gate'[s].lease = gate[s].lease,
         gate'[s].gen = gate[s].gen, att'[gate[s].lease] = att[gate[s].lease]
  PROVE  gate'[s].lease \in Attempts /\ Holds(gate[s].lease, s)'
BY Zenon DEF HolderInv, HeldOrRepeated, Holds, Flying

LEMMA SeenKept ==
  ASSUME SeenIsSettled, seen' = seen,
         \A b \in Attempts : att[b] = Done => att'[b] = Done
  PROVE  SeenIsSettled'
BY Zenon DEF SeenIsSettled

LEMMA AdmitHolders ==
  ASSUME IInv, HolderInv, NEW a \in Attempts, NEW d \in Dims, NEW recovery \in BOOLEAN,
         AdmitRequest(a, d, recovery)
  PROVE  HolderInv'
<1> DEFINE adm == [ph |-> "flying", dim |-> d, rec |-> recovery, out |-> FALSE,
                   start |-> now, gens |-> [s \in Scope(d) |-> gate[s].gen]]
<1>0. /\ gate \in [Scopes -> Row] /\ now' = now /\ DOMAIN att = Attempts
      /\ att[a] = Idle /\ seen' = seen
  BY Zenon DEF IInv, TypeOK, AdmitRequest
<1>1. att'[a] = adm /\ \A b \in Attempts \ {a} : att'[b] = att[b]
  BY <1>0, Zenon DEF AdmitRequest
<1>2. ASSUME NEW s \in Scopes, LeaseLive(s)'
      PROVE  gate'[s].lease \in Attempts /\ Holds(gate[s].lease, s)'
  <2>1. CASE s \in Scope(d) /\ gate[s].open
    <3>1. gate'[s] = [gate[s] EXCEPT !.lease = a, !.leaseUntil = LeaseEnd]
      BY <2>1, Zenon DEF AdmitRequest
    <3>2. gate'[s].lease = a /\ gate'[s].gen = gate[s].gen
      BY <1>0, <3>1, Zenon DEF Row
    <3>3. att'[a].ph = "flying" /\ att'[a].dim = d /\ att'[a].gens[s] = gate[s].gen
      BY <1>1, <2>1
    <3> QED
      BY <2>1, <3>2, <3>3, Zenon DEF Holds, Flying
  <2>2. CASE ~(s \in Scope(d) /\ gate[s].open)
    <3>1. gate'[s] = gate[s]
      BY <2>2, Zenon DEF AdmitRequest
    <3>3. LeaseLive(s)
      BY <1>0, <1>2, <3>1, Zenon DEF LeaseLive
    <3>2. gate[s].lease \in Attempts \ {a}
      BY <1>0, <3>3 DEF HolderInv, HeldOrRepeated, Holds, Flying, Idle, Done, Lost
    <3> QED
      BY <1>1, <3>1, <3>3, <3>2, HolderKept, Zenon
  <2> QED
    BY <2>1, <2>2, Zenon
<1>3. SeenIsSettled'
  <2>1. \A b \in Attempts : att[b] = Done => att'[b] = Done
    BY <1>0, <1>1 DEF Idle, Done
  <2> QED
    BY <1>0, <2>1, SeenKept, Zenon DEF HolderInv
<1> QED
  BY <1>2, <1>3, Zenon DEF HolderInv, HeldOrRepeated

LEMMA ReleaseHolders ==
  ASSUME IInv, HolderInv, NEW a \in Attempts, NEW stored \in BOOLEAN, ReleaseOnOutput(a, stored)
  PROVE  HolderInv'
<1> DEFINE released == IF stored THEN Releasable(a) ELSE {}
           gens == [s \in DOMAIN att[a].gens |->
                      IF s \in released THEN att[a].gens[s] + 1 ELSE att[a].gens[s]]
<1>0. /\ gate \in [Scopes -> Row] /\ now \in Nat /\ now' = now /\ DOMAIN att = Attempts
      /\ Flying(a) /\ seen' = seen
  BY Zenon DEF IInv, TypeOK, ReleaseOnOutput
<1>1. att[a] \in [ph : {"flying"}, dim : Dims, rec : BOOLEAN, out : BOOLEAN,
                  start : Nat, gens : [Scope(att[a].dim) -> Nat]]
  BY <1>0, FlyingShape, Zenon DEF IInv
<1>2. /\ att' = [att EXCEPT ![a] = [att[a] EXCEPT !.out = TRUE, !.gens = gens]]
      /\ gate' = [s \in Scopes |-> IF s \in released THEN closeCircuit(gate[s]) ELSE gate[s]]
  BY <1>0, <1>1, Zenon DEF ReleaseOnOutput
<1> HIDE DEF released
<1>3. /\ att'[a].ph = "flying" /\ att'[a].dim = att[a].dim /\ att'[a].gens = gens
      /\ \A b \in Attempts \ {a} : att'[b] = att[b]
  BY <1>0, <1>1, <1>2, Zenon
<1>4. ASSUME NEW s \in Scopes, LeaseLive(s)'
      PROVE  gate'[s].lease \in Attempts /\ Holds(gate[s].lease, s)'
  <2>1. s \notin released
    <3>1. closeCircuit(gate[s]).leaseUntil = 0
      BY Zenon DEF closeCircuit
    <3> QED
      BY <1>0, <1>2, <1>4, <3>1 DEF LeaseLive
  <2>2. gate'[s] = gate[s] /\ LeaseLive(s)
    BY <1>0, <1>2, <1>4, <2>1, Zenon DEF LeaseLive
  <2>3. CASE gate[s].lease # a
    BY <1>3, <2>2, <2>3, HolderKept, Zenon DEF HolderInv, HeldOrRepeated
  <2>4. CASE gate[s].lease = a
    <3>1. s \in Scope(att[a].dim) /\ att[a].gens[s] = gate[s].gen
      BY <1>0, <2>2, <2>4 DEF HolderInv, HeldOrRepeated, Holds, Flying, Done, Lost
    <3>2. gens[s] = att[a].gens[s]
      BY <1>1, <2>1, <3>1, Zenon
    <3> QED
      BY <1>3, <2>2, <2>4, <3>1, <3>2, Zenon DEF Holds, Flying
  <2> QED
    BY <2>3, <2>4, Zenon
<1>5. SeenIsSettled'
  <2>1. \A b \in Attempts : att[b] = Done => att'[b] = Done
    BY <1>0, <1>3 DEF Flying, Done
  <2> QED
    BY <1>0, <2>1, SeenKept, Zenon DEF HolderInv
<1> QED
  BY <1>4, <1>5, Zenon DEF HolderInv, HeldOrRepeated

LEMMA ObserveHolders ==
  ASSUME IInv, HolderInv, NEW a \in Attempts, NEW o \in Outcomes, Observe(a, o)
  PROVE  HolderInv'
<1> DEFINE d == att[a].dim
           k == KeyOf[d]
           pair == <<d, RequestOf[a]>>
<1>0. /\ gate \in [Scopes -> Row] /\ now \in Nat /\ now' = now /\ DOMAIN att = Attempts
      /\ Flying(a) /\ \A s \in Scopes : SafeRow(gate[s], now)
  BY Zenon DEF IInv, TypeOK, Observe
<1>1. /\ d \in Dims /\ k \in Scopes /\ d \in Scopes /\ k # d /\ Scope(d) = {k, d}
  BY <1>0, ScopeFacts, FlyingShape, Zenon DEF IInv, Scope
<1>2. att'[a] = Done /\ \A b \in Attempts \ {a} : att'[b] = att[b]
  BY <1>0, Zenon DEF Observe
<1>3. \A s \in Scopes : Settles(gate'[s], gate[s], now)
  BY ObserveSettles, Zenon
<1>4. ASSUME NEW s \in Scopes, LeaseLive(s)'
      PROVE  gate'[s].lease \in Attempts /\ Holds(gate[s].lease, s)'
  <2>1. LeaseLive(s) /\ gate'[s].lease = gate[s].lease /\ gate'[s].gen = gate[s].gen
    BY <1>0, <1>3, <1>4, Zenon DEF Settles, LeaseLive
  <2>2. CASE gate[s].lease # a
    BY <1>2, <2>1, <2>2, HolderKept, Zenon DEF HolderInv, HeldOrRepeated
  <2>3. CASE gate[s].lease = a
    <3>1. s \in {k, d} /\ att[a].gens[s] = gate[s].gen
      BY <1>0, <1>1, <2>1, <2>3 DEF HolderInv, HeldOrRepeated, Holds, Flying, Done, Lost
    <3>2. ObservedKey(gate[s], a, gate[s].gen, o).leaseUntil = 0
          /\ ObservedDim(gate[s], a, gate[s].gen, o).leaseUntil = 0
      BY <1>0, <2>1, <2>3, ObserveGivesBack, Zenon DEF LeaseLive
    <3>3. pair \in seen
      <4> SUFFICES ASSUME pair \notin seen PROVE FALSE
        BY Zenon
      <4>1. gate' = [gate EXCEPT ![k] = ObservedKey(@, a, att[a].gens[k], o),
                                 ![d] = ObservedDim(@, a, att[a].gens[d], o)]
        BY Zenon DEF Observe
      <4>2. gate'[s] \in {ObservedKey(gate[s], a, att[a].gens[s], o),
                          ObservedDim(gate[s], a, att[a].gens[s], o)}
        BY <1>0, <1>1, <3>1, <4>1, Zenon
      <4>3. gate'[s].leaseUntil = 0
        BY <3>1, <3>2, <4>2, Zenon
      <4> QED
        BY <1>0, <1>4, <4>3 DEF LeaseLive
    <3>4. PICK b \in Attempts : att[b] = Done /\ RequestOf[b] = RequestOf[a]
      BY <3>3, Zenon DEF HolderInv, SeenIsSettled
    <3>5. b # a
      BY <1>0, <3>4 DEF Flying, Done
    <3> QED
      BY <1>2, <2>1, <2>3, <3>4, <3>5, Zenon DEF Holds, Repeats
  <2> QED
    BY <2>2, <2>3, Zenon
<1>5. SeenIsSettled'
  <2>1. seen' = seen \cup {pair}
    BY Zenon DEF Observe
  <2>2. ASSUME NEW p \in seen PROVE \E b \in Attempts : att'[b] = Done /\ p[2] = RequestOf[b]
    BY <1>2, Zenon DEF HolderInv, SeenIsSettled
  <2>3. att'[a] = Done /\ pair[2] = RequestOf[a]
    BY <1>2, Zenon
  <2> QED
    BY <2>1, <2>2, <2>3, Zenon DEF SeenIsSettled
<1> QED
  BY <1>4, <1>5, Zenon DEF HolderInv, HeldOrRepeated

(* Steps that admit and settle no attempt.                                 *)
LEMMA QuietHolders ==
  ASSUME HolderInv, UNCHANGED <<att, seen>>,
         \A s \in Scopes : LeaseLive(s)' =>
            LeaseLive(s) /\ gate'[s].lease = gate[s].lease /\ gate'[s].gen = gate[s].gen
  PROVE  HolderInv'
<1>1. ASSUME NEW s \in Scopes, LeaseLive(s)'
      PROVE  gate'[s].lease \in Attempts /\ Holds(gate[s].lease, s)'
  BY <1>1, HolderKept, Zenon
<1> QED
  BY <1>1, SeenKept, Zenon DEF HolderInv, HeldOrRepeated

LEMMA NextHolders == IInv /\ HolderInv /\ [Next]_vars => HolderInv'
<1> SUFFICES ASSUME IInv, HolderInv, [Next]_vars PROVE HolderInv'
  BY Zenon
<1>0. now \in Nat /\ gate \in [Scopes -> Row] /\ \A s \in Scopes : gate[s].leaseUntil \in Nat
  BY Zenon DEF IInv, TypeOK, Row
<1>1. CASE \E a \in Attempts, d \in Dims, recovery \in BOOLEAN : AdmitRequest(a, d, recovery)
  BY <1>1, AdmitHolders, Zenon
<1>2. CASE \E a \in Attempts, stored \in BOOLEAN : ReleaseOnOutput(a, stored)
  BY <1>2, ReleaseHolders, Zenon
<1>3. CASE \E a \in Attempts, o \in Outcomes : Observe(a, o)
  BY <1>3, ObserveHolders, Zenon
<1>4. ASSUME NEW a \in Attempts, AttemptLost(a) PROVE HolderInv'
  <2>1. att'[a] = Lost /\ \A b \in Attempts \ {a} : att'[b] = att[b]
    BY <1>4, Zenon DEF AttemptLost, IInv, TypeOK
  <2>2. UNCHANGED <<now, gate, seen>> /\ att[a].ph = "flying"
    BY <1>4, Zenon DEF AttemptLost, Flying
  <2>3. ASSUME NEW s \in Scopes, LeaseLive(s)'
        PROVE  gate'[s].lease \in Attempts /\ Holds(gate[s].lease, s)'
    <3>1. LeaseLive(s)
      BY <2>2, <2>3, Zenon DEF LeaseLive
    <3>2. CASE gate[s].lease = a
      BY <2>1, <2>2, <3>2, Zenon DEF Holds
    <3>3. CASE gate[s].lease # a
      BY <2>1, <2>2, <3>1, <3>3, HolderKept, Zenon DEF HolderInv, HeldOrRepeated
    <3> QED
      BY <3>2, <3>3, Zenon
  <2>4. \A b \in Attempts : att[b] = Done => att'[b] = Done
    BY <2>1, <2>2 DEF Done
  <2> QED
    BY <2>2, <2>3, <2>4, SeenKept, Zenon DEF HolderInv, HeldOrRepeated
<1>5. CASE UNCHANGED <<att, seen>> /\ now' = now /\ \A s \in Scopes : Settles(gate'[s], gate[s], now)
  BY <1>5, QuietHolders, Zenon DEF Settles, LeaseLive
<1>6. CASE UNCHANGED <<gate, att, seen>> /\ now' \in {now, now + 1}
  BY <1>0, <1>6, QuietHolders DEF LeaseLive
<1>7. ASSUME NEW c \in Checks, ClaimCheck(c) PROVE HolderInv'
  <2>1. UNCHANGED <<now, att, seen>>
    BY <1>7, Zenon DEF ClaimCheck
  <2>2. \A s \in Scopes : /\ gate'[s].lease = gate[s].lease /\ gate'[s].gen = gate[s].gen
                          /\ gate'[s].leaseUntil = gate[s].leaseUntil
    <3> TAKE s \in Scopes
    <3>1. \/ gate'[s] = gate[s]
          \/ gate'[s] = [gate[s] EXCEPT !.checkLease = c, !.checkUntil = now + CheckTTL,
                                       !.checkOK = FALSE]
      BY <1>0, <1>7, Zenon DEF ClaimCheck
    <3>2. gate[s] \in Row
      BY <1>0, Zenon
    <3> QED
      BY <3>1, <3>2, Zenon DEF Row
  <2> QED
    BY <2>1, <2>2, QuietHolders, Zenon DEF LeaseLive
<1>8. CASE \E c \in Checks, result \in {"success", "failure", "neutral"},
             retry \in RetryAfters : FinishCheck(c, result, retry)
  BY <1>5, <1>8, FinishCheckSettles, Zenon DEF FinishCheck
<1>9. CASE \E u \in Upstreams, positive \in BOOLEAN : FinishBalance(u, positive)
  BY <1>5, <1>9, FinishBalanceSettles, Zenon DEF FinishBalance
<1> QED
  BY <1>1, <1>2, <1>3, <1>4, <1>6, <1>7, <1>8, <1>9, Zenon
     DEF Next, vars, Scan, CheckLost, StartBalance, Tick

(* A live lease is in the hands of an attempt that can still settle it or  *)
(* died with it, or that of an attempt whose result was dropped because    *)
(* its request had been observed in the dimension before (the unique       *)
(* RoutingObservation): that one is left to run out.                       *)
THEOREM LeasesHeldOrRepeated == Spec => []HeldOrRepeated
<1>1. Init => HolderInv
  <2> SUFFICES ASSUME Init PROVE HolderInv
    BY Zenon
  <2>1. now = 1 /\ seen = {} /\ \A s \in Scopes : gate[s] = NewRow
    BY Zenon DEF Init
  <2>2. NewRow.leaseUntil = 0
    BY Zenon DEF NewRow
  <2> QED
    BY <2>1, <2>2 DEF HolderInv, HeldOrRepeated, SeenIsSettled, LeaseLive
<1>2. HolderInv => HeldOrRepeated
  BY Zenon DEF HolderInv
<1> QED
  BY <1>1, <1>2, NextHolders, Invariance, PTL DEF Spec

(* Where no request comes back to a dimension as another attempt, no       *)
(* settlement leaves its lease behind (AdmitRequest, Observe).             *)
THEOREM LeasesHaveHolders ==
  ASSUME \A a, b \in Attempts : RequestOf[a] = RequestOf[b] => a = b
  PROVE  Spec => []LiveLeaseHasHolder
<1>1. HeldOrRepeated => LiveLeaseHasHolder
  BY Zenon DEF HeldOrRepeated, LiveLeaseHasHolder, Holds, Repeats
<1> QED
  BY <1>1, LeasesHeldOrRepeated, PTL

-----------------------------------------------------------------------------
(* The picker's verdict and the admission's agree in every reachable state *)
(* of RoutingCircuit, for any keys, dimensions and settings.               *)
(*                                                                         *)
(* The picker tests a gate's check backoff before its cooldown and its     *)
(* check claim, the admission does not look at the backoff at all.  They   *)
(* agree because a gate that cools down or is being checked is never in    *)
(* backoff (Rests), which IInv keeps up: a check settles only a gate past  *)
(* its deadline.                                                           *)

RestedRow(r, t) ==
  /\ r.until > t \/ r.checkUntil > t => r.nextCheck <= t
  /\ r.checkOK => r.nextCheck = 0

Rests == \A s \in Scopes : RestedRow(gate[s], now)

(* Row q is no less rested than row r.                                     *)
KeepsRest(q, r) ==
  \/ q.nextCheck = 0
  \/ /\ q.nextCheck = r.nextCheck /\ q.until = r.until
     /\ q.checkUntil \in {r.checkUntil, 0} /\ q.checkOK = r.checkOK

LEMMA RestKept ==
  ASSUME NEW t \in Nat, NEW q, NEW r, r \in Row, RestedRow(r, t), KeepsRest(q, r)
  PROVE  RestedRow(q, t)
  BY DEF RestedRow, KeepsRest, Row

LEMMA CircuitRests ==
  ASSUME NEW r, NEW o
  PROVE  KeepsRest(closeCircuit(r), r) /\ KeepsRest(openCircuit(r, o), r)
  BY Zenon DEF KeepsRest, closeCircuit, openCircuit

LEMMA NeutralRests ==
  ASSUME NEW r \in Row, NEW a
  PROVE  KeepsRest(NeutralRow(r, a), r)
<1> DEFINE q == [r EXCEPT !.lease = NoToken, !.leaseUntil = 0,
                          !.checkLease = NoToken, !.checkUntil = 0]
<1>1. q.nextCheck = r.nextCheck /\ q.until = r.until /\ q.checkUntil = 0
      /\ q.checkOK = r.checkOK
  BY Zenon DEF Row
<1> HIDE DEF q
<1>2. KeepsRest(q, r) /\ KeepsRest(r, r)
  BY <1>1, Zenon DEF KeepsRest
<1>3. QED
  BY <1>2, Zenon DEF NeutralRow, q

LEMMA SuccessRests ==
  ASSUME NEW r \in Row
  PROVE  KeepsRest(SuccessRow(r), r)
<1> DEFINE q == [r EXCEPT !.fails = <<>>, !.backoff = 0, !.reason = "",
                          !.lease = NoToken, !.leaseUntil = 0,
                          !.checkLease = NoToken, !.checkUntil = 0]
<1>1. q.nextCheck = r.nextCheck /\ q.until = r.until /\ q.checkUntil = 0
      /\ q.checkOK = r.checkOK
  BY Zenon DEF Row
<1> HIDE DEF q
<1>2. KeepsRest(q, r)
  BY <1>1, Zenon DEF KeepsRest
<1>3. QED
  BY <1>2, CircuitRests, Zenon DEF SuccessRow, q

LEMMA WindowsRest ==
  ASSUME now \in Nat, NEW o \in Outcomes, NEW r, SafeRow(r, now)
  PROVE  /\ KeepsRest(Tried(r), r) /\ Tried(r) \in Row
         /\ KeepsRest(Failed(r, o), r) /\ Failed(r, o) \in Row
         /\ Tried(r).nextCheck = r.nextCheck /\ Tried(r).until = r.until
         /\ Tried(r).checkUntil = r.checkUntil /\ Tried(r).checkOK = r.checkOK
<1> DEFINE p == Tried(r)
<1>1. r \in Row /\ p \in Row /\ Failed(r, o) \in Row
  BY TriedSafe, FailedSafe, Zenon DEF SafeRow, TypedRow
<1>2. p.nextCheck = r.nextCheck /\ p.until = r.until /\ p.checkUntil = r.checkUntil
      /\ p.checkOK = r.checkOK
  <2> DEFINE w == trackTimestamp(r.tries, now, now - WindowSec, MaxAttempts)
  <2> HIDE DEF w
  <2>1. [r EXCEPT !.tries = w].nextCheck = r.nextCheck /\ [r EXCEPT !.tries = w].until = r.until
        /\ [r EXCEPT !.tries = w].checkUntil = r.checkUntil
        /\ [r EXCEPT !.tries = w].checkOK = r.checkOK
    BY <1>1, Zenon DEF Row
  <2>2. QED
    BY <2>1, Zenon DEF Tried, w
<1>3. Failed(r, o).nextCheck = p.nextCheck /\ Failed(r, o).until = p.until
      /\ Failed(r, o).checkUntil = p.checkUntil /\ Failed(r, o).checkOK = p.checkOK
  <2> DEFINE w == WithFailure(p.fails, Weight(o), now, now - WindowSec)
  <2> HIDE DEF w, p
  <2>1. [p EXCEPT !.fails = w].nextCheck = p.nextCheck /\ [p EXCEPT !.fails = w].until = p.until
        /\ [p EXCEPT !.fails = w].checkUntil = p.checkUntil
        /\ [p EXCEPT !.fails = w].checkOK = p.checkOK
    BY <1>1, Zenon DEF Row
  <2>2. QED
    BY <2>1, Zenon DEF Failed, w, p
<1>4. QED
  BY <1>1, <1>2, <1>3, Zenon DEF KeepsRest

LEMMA RestThroughWindows ==
  ASSUME NEW q, NEW p, NEW r, KeepsRest(q, p),
         p.nextCheck = r.nextCheck, p.until = r.until, p.checkUntil = r.checkUntil,
         p.checkOK = r.checkOK
  PROVE  KeepsRest(q, r)
  BY Zenon DEF KeepsRest

LEMMA ObservedKeyRests ==
  ASSUME NEW r \in Row, NEW a, NEW gen, NEW o \in Outcomes
  PROVE  KeepsRest(ObservedKey(r, a, gen, o), r)
<1>1. KeepsRest(r, r)
  BY Zenon DEF KeepsRest
<1>2. CASE Stale(r, a, gen)
  BY <1>1, <1>2, Zenon DEF ObservedKey
<1>3. CASE ~Stale(r, a, gen) /\ o.kind = "neutral"
  BY <1>3, NeutralRests, Zenon DEF ObservedKey
<1>4. CASE ~Stale(r, a, gen) /\ o.kind = "success"
  BY <1>4, SuccessRests, Zenon DEF ObservedKey
<1>5. CASE ~Stale(r, a, gen) /\ o.kind # "neutral" /\ o.kind # "success"
  BY <1>1, <1>5, CircuitRests, Zenon DEF ObservedKey
<1>6. QED
  BY <1>2, <1>3, <1>4, <1>5, Zenon

LEMMA ObservedDimRests ==
  ASSUME now \in Nat, NEW r, SafeRow(r, now), NEW a, NEW gen, NEW o \in Outcomes
  PROVE  KeepsRest(ObservedDim(r, a, gen, o), r)
<1>1. KeepsRest(r, r) /\ r \in Row
  BY Zenon DEF KeepsRest, SafeRow, TypedRow
<1>2. CASE Stale(r, a, gen)
  BY <1>1, <1>2, Zenon DEF ObservedDim
<1>3. CASE ~Stale(r, a, gen) /\ o.kind = "neutral"
  BY <1>1, <1>3, NeutralRests, Zenon DEF ObservedDim
<1>4. CASE ~Stale(r, a, gen) /\ o.kind = "success"
  <2>1. KeepsRest(SuccessRow(Tried(r)), Tried(r))
    BY WindowsRest, SuccessRests, Zenon
  <2>2. KeepsRest(SuccessRow(Tried(r)), r)
    BY <2>1, WindowsRest, RestThroughWindows, Zenon
  <2>3. QED
    BY <1>4, <2>2, Zenon DEF ObservedDim
<1>5. CASE ~Stale(r, a, gen) /\ o.kind # "neutral" /\ o.kind # "success"
  <2>1. KeepsRest(Failed(r, o), r) /\ KeepsRest(openCircuit(Failed(r, o), o), r)
    BY WindowsRest, Zenon DEF KeepsRest, openCircuit
  <2>2. QED
    BY <1>1, <1>5, <2>1, Zenon DEF ObservedDim
<1>6. QED
  BY <1>2, <1>3, <1>4, <1>5, Zenon

(* A finished check leaves the gate unclaimed, and past its deadline.      *)
LEMMA CheckedRests ==
  ASSUME NEW r, SafeRow(r, now), now \in Nat, r.checkUntil > now, NEW result, NEW retry
  PROVE  RestedRow(CheckedRow(r, result, retry), now)
<1> DEFINE ok == (result = "success")
           b == IF result = "failure" THEN nextCheckBackoff(r.checkBackoff)
                                      ELSE r.checkBackoff
           delay == IF result = "failure" THEN b ELSE NeutralDelay
           rested == [r EXCEPT !.checkLease = NoToken, !.checkUntil = 0, !.checkOK = ok]
           next == now + MaxOf(delay, retry)
           q == [rested EXCEPT !.checkBackoff = b, !.nextCheck = next]
<1>1. r \in Row /\ r.until \in Nat /\ r.until <= now
  BY Zenon DEF SafeRow, TypedRow, Row
<1> HIDE DEF ok, b, next
<1>2. q.until = r.until /\ q.checkUntil = 0 /\ q.checkOK = ok
  BY <1>1, Zenon DEF Row
<1>3. ~ok => RestedRow(q, now)
  BY <1>1, <1>2 DEF RestedRow
<1>4. RestedRow(closeCircuit(rested), now)
  BY DEF RestedRow, closeCircuit
<1>5. QED
  BY <1>3, <1>4, Zenon DEF CheckedRow, q, rested, next, b, ok

LEMMA ReleasedRests ==
  ASSUME NEW r
  PROVE  KeepsRest(ReleasedRow(r), r)
<1>1. ReleasedRow(r).nextCheck = 0
  BY Zenon DEF ReleasedRow, closeCircuit
<1>2. QED
  BY <1>1, Zenon DEF KeepsRest
-----------------------------------------------------------------------------
LEMMA RowsRest ==
  ASSUME IInv, Rests, now' = now,
         \A s \in Scopes : KeepsRest(gate'[s], gate[s]) \/ RestedRow(gate'[s], now)
  PROVE  Rests'
  BY RestKept, Zenon DEF Rests, IInv, TypeOK

LEMMA AdmitRests ==
  ASSUME IInv, Rests, NEW a \in Attempts, NEW d \in Dims, NEW recovery \in BOOLEAN,
         AdmitRequest(a, d, recovery)
  PROVE  Rests'
<1>1. now' = now /\ gate \in [Scopes -> Row]
  BY Zenon DEF AdmitRequest, IInv, TypeOK
<1>2. ASSUME NEW s \in Scopes PROVE KeepsRest(gate'[s], gate[s])
  <2> DEFINE q == [gate[s] EXCEPT !.lease = a, !.leaseUntil = LeaseEnd]
  <2>1. q.nextCheck = gate[s].nextCheck /\ q.until = gate[s].until
        /\ q.checkUntil = gate[s].checkUntil /\ q.checkOK = gate[s].checkOK
    BY <1>1, Zenon DEF Row
  <2>2. gate'[s] = q \/ gate'[s] = gate[s]
    BY Zenon DEF AdmitRequest
  <2>3. QED
    BY <2>1, <2>2, Zenon DEF KeepsRest
<1>3. QED
  BY <1>1, <1>2, RowsRest, Zenon

LEMMA ObserveRests ==
  ASSUME IInv, Rests, NEW a \in Attempts, NEW o \in Outcomes, Observe(a, o)
  PROVE  Rests'
<1> DEFINE d == att[a].dim
           k == KeyOf[d]
<1>1. now \in Nat /\ now' = now /\ gate \in [Scopes -> Row]
  BY Zenon DEF IInv, TypeOK, Observe
<1>2. d \in Dims /\ k \in Scopes /\ d \in Scopes /\ k # d
  BY ScopeFacts DEF IInv, TypeOK, AttemptTypeOK, Observe, Flying, Idle, Done, Lost
<1>3. gate' = gate \/ gate' = [gate EXCEPT ![k] = ObservedKey(@, a, att[a].gens[k], o),
                                          ![d] = ObservedDim(@, a, att[a].gens[d], o)]
  BY Zenon DEF Observe
<1>4. KeepsRest(ObservedKey(gate[k], a, att[a].gens[k], o), gate[k])
  BY <1>1, <1>2, ObservedKeyRests, Zenon
<1>5. KeepsRest(ObservedDim(gate[d], a, att[a].gens[d], o), gate[d])
  BY <1>1, <1>2, ObservedDimRests, Zenon DEF IInv
<1>6. \A s \in Scopes : KeepsRest(gate[s], gate[s])
  BY Zenon DEF KeepsRest
<1>7. \A s \in Scopes : KeepsRest(gate'[s], gate[s])
  BY <1>1, <1>2, <1>3, <1>4, <1>5, <1>6, Zenon
<1>8. QED
  BY <1>1, <1>7, RowsRest, Zenon

LEMMA ClaimRests ==
  ASSUME IInv, Rests, NEW c \in Checks, ClaimCheck(c)
  PROVE  Rests'
<1> DEFINE s0 == chk[c].scope
<1>1. now \in Nat /\ now' = now /\ gate \in [Scopes -> Row]
  BY Zenon DEF IInv, TypeOK, ClaimCheck
<1>2. CASE gate' = gate
  BY <1>1, <1>2, RowsRest, Zenon DEF KeepsRest
<1>3. CASE gate' # gate
  <2>1. Claimable(s0, chk[c].gen)
        /\ gate' = [gate EXCEPT ![s0].checkLease = c, ![s0].checkUntil = now + CheckTTL,
                                ![s0].checkOK = FALSE]
    BY <1>3, Zenon DEF ClaimCheck
  <2>2. s0 \in Scopes
    BY DEF ClaimCheck, IInv, TypeOK, CheckTypeOK, Idle, Done, Lost
  <2>3. gate[s0].nextCheck <= now
    BY <1>1, <2>1, <2>2 DEF Claimable, Backing, Row, Rests, RestedRow
  <2>4. ASSUME NEW s \in Scopes PROVE KeepsRest(gate'[s], gate[s]) \/ RestedRow(gate'[s], now)
    <3>1. CASE s # s0
      BY <1>1, <2>1, <2>2, <3>1, Zenon DEF KeepsRest
    <3>2. CASE s = s0
      <4>1. gate'[s].nextCheck = gate[s].nextCheck /\ gate'[s].checkOK = FALSE
        BY <1>1, <2>1, <2>2, <3>2 DEF Row
      <4>2. QED
        BY <2>3, <3>2, <4>1, Zenon DEF RestedRow
    <3>3. QED
      BY <3>1, <3>2, Zenon
  <2>5. QED
    BY <1>1, <2>4, RowsRest, Zenon
<1>4. QED
  BY <1>2, <1>3, Zenon

LEMMA FinishCheckRests ==
  ASSUME IInv, Rests, NEW c \in Checks, NEW result, NEW retry, FinishCheck(c, result, retry)
  PROVE  Rests'
<1> DEFINE s0 == chk[c].scope
<1>1. now \in Nat /\ now' = now /\ gate \in [Scopes -> Row]
  BY Zenon DEF IInv, TypeOK, FinishCheck
<1>2. s0 \in Scopes
  BY DEF FinishCheck, IInv, TypeOK, CheckTypeOK, Idle, Done, Lost
<1>3. \/ gate' = gate
      \/ /\ gate[s0].checkUntil > now
         /\ gate' = [gate EXCEPT ![s0] = CheckedRow(@, result, retry)]
  BY Zenon DEF FinishCheck
<1>4. gate[s0].checkUntil > now => RestedRow(CheckedRow(gate[s0], result, retry), now)
  BY <1>1, <1>2, CheckedRests, Zenon DEF IInv
<1>5. \A s \in Scopes : KeepsRest(gate[s], gate[s])
  BY Zenon DEF KeepsRest
<1>6. \A s \in Scopes : KeepsRest(gate'[s], gate[s]) \/ RestedRow(gate'[s], now)
  BY <1>1, <1>2, <1>3, <1>4, <1>5, Zenon
<1>7. QED
  BY <1>1, <1>6, RowsRest, Zenon

(* The other operations close gates or leave them alone.                   *)
LEMMA QuietRests ==
  ASSUME IInv, Rests, now' = now,
         \A s \in Scopes : gate'[s] \in {gate[s], closeCircuit(gate[s]), ReleasedRow(gate[s])}
  PROVE  Rests'
<1>1. \A s \in Scopes : KeepsRest(gate'[s], gate[s])
  <2> SUFFICES ASSUME NEW s \in Scopes PROVE KeepsRest(gate'[s], gate[s])
    BY Zenon
  <2>1. KeepsRest(gate[s], gate[s]) /\ KeepsRest(ReleasedRow(gate[s]), gate[s])
        /\ KeepsRest(closeCircuit(gate[s]), gate[s])
    BY CircuitRests, ReleasedRests, Zenon DEF KeepsRest
  <2>2. QED
    BY <2>1, Zenon
<1>2. QED
  BY <1>1, RowsRest, Zenon

LEMMA TickRests ==
  ASSUME IInv, Rests, Tick
  PROVE  Rests'
<1>1. now \in Nat /\ now' = now + 1 /\ gate' = gate /\ gate \in [Scopes -> Row]
  BY Zenon DEF IInv, TypeOK, Tick
<1>2. \A s \in Scopes : gate[s].until \in Nat /\ gate[s].checkUntil \in Nat
                        /\ gate[s].nextCheck \in Nat
  BY <1>1, Zenon DEF Row
<1>3. QED
  BY <1>1, <1>2 DEF Rests, RestedRow

LEMMA NextRests == IInv /\ Rests /\ [Next]_vars => Rests'
<1> SUFFICES ASSUME IInv, Rests, [Next]_vars PROVE Rests'
  BY Zenon
<1>1. CASE UNCHANGED vars
  BY <1>1, Zenon DEF vars, Rests
<1>2. ASSUME NEW a \in Attempts, NEW d \in Dims, NEW recovery \in BOOLEAN,
             AdmitRequest(a, d, recovery)
      PROVE  Rests'
  BY <1>2, AdmitRests, Zenon
<1>3. ASSUME NEW a \in Attempts, NEW stored \in BOOLEAN, ReleaseOnOutput(a, stored)
      PROVE  Rests'
  <2>1. now' = now
        /\ \A s \in Scopes : gate'[s] = gate[s] \/ gate'[s] = closeCircuit(gate[s])
    BY <1>3, Zenon DEF ReleaseOnOutput
  <2>2. QED
    BY <2>1, QuietRests, Zenon
<1>4. ASSUME NEW a \in Attempts, NEW o \in Outcomes, Observe(a, o) PROVE Rests'
  BY <1>4, ObserveRests, Zenon
<1>5. ASSUME NEW c \in Checks, ClaimCheck(c) PROVE Rests'
  BY <1>5, ClaimRests, Zenon
<1>6. ASSUME NEW c \in Checks, NEW result, NEW retry, FinishCheck(c, result, retry)
      PROVE  Rests'
  BY <1>6, FinishCheckRests, Zenon
<1>7. ASSUME NEW u \in Upstreams, NEW positive \in BOOLEAN, FinishBalance(u, positive)
      PROVE  Rests'
  <2>1. now' = now
        /\ \A s \in Scopes : gate'[s] = gate[s] \/ gate'[s] = ReleasedRow(gate[s])
    BY <1>7, Zenon DEF FinishBalance
  <2>2. QED
    BY <2>1, QuietRests, Zenon
<1>8. CASE Tick
  BY <1>8, TickRests, Zenon
<1>9. CASE \/ \E a \in Attempts : AttemptLost(a)
           \/ \E c \in Checks, s \in Scopes : Scan(c, s)
           \/ \E c \in Checks : CheckLost(c)
           \/ \E u \in Upstreams : StartBalance(u)
  <2>1. gate' = gate /\ now' = now
    BY <1>9, Zenon DEF AttemptLost, Scan, CheckLost, StartBalance
  <2>2. QED
    BY <2>1, Zenon DEF Rests
<1>10. QED
  BY <1>1, <1>2, <1>3, <1>4, <1>5, <1>6, <1>7, <1>8, <1>9, Zenon DEF Next

LEMMA InitRests == Init => Rests
<1> SUFFICES ASSUME Init PROVE Rests
  BY Zenon
<1>1. NewRow.nextCheck = 0
  BY Zenon DEF NewRow
<1>2. now = 1 /\ \A s \in Scopes : gate[s] = NewRow
  BY Zenon DEF Init
<1>3. QED
  BY <1>1, <1>2 DEF Rests, RestedRow

(* No gate in cooldown or under a check is in check backoff.               *)
THEOREM RestInvariance == Spec => []Rests
  BY Invariance, InitRests, NextRests, PTL DEF Spec
-----------------------------------------------------------------------------
(* What the invariants say of a single gate: busy means open and due; a    *)
(* backoff means neither cooling nor being checked.                        *)
LEMMA GateFacts ==
  ASSUME IInv, Rests, NEW s \in Scopes
  PROVE  /\ now \in Nat /\ gate[s].until \in Nat
         /\ Busy(s) => gate[s].open /\ ~Cooling(s)
         /\ Backing(s) => ~CheckLive(s) /\ ~Cooling(s)
<1>1. now \in Nat /\ gate[s] \in Row /\ SafeRow(gate[s], now) /\ RestedRow(gate[s], now)
  BY Zenon DEF IInv, TypeOK, Rests
<1>2. gate[s].until \in Nat /\ gate[s].leaseUntil \in Nat /\ gate[s].checkUntil \in Nat
      /\ gate[s].nextCheck \in Nat
  BY <1>1, Zenon DEF Row
<1>3. QED
  BY <1>1, <1>2 DEF SafeRow, RestedRow, Busy, LeaseLive, CheckLive, Cooling, Backing

LEMMA PriorityFacts ==
  ASSUME NEW s
  PROVE  /\ recoveryGatePriority(s) \in 1..5
         /\ Busy(s) <=> recoveryGatePriority(s) >= 4
         /\ ~Busy(s) => (recoveryGatePriority(s) = 3 <=> Cooling(s) \/ Backing(s))
  BY DEF recoveryGatePriority, Busy

LEMMA ReasonFacts ==
  ASSUME IInv, Rests, NEW s \in Scopes
  PROVE  /\ Recoverable(SkipReason(s)) <=> ~Busy(s) /\ ~Cooling(s)
         /\ WaitsFor(SkipReason(s)) <=> Busy(s)
  BY GateFacts, Zenon DEF SkipReason, Recoverable, WaitsFor, Busy

LEMMA KeyScopes ==
  ASSUME NEW d \in Dims
  PROVE  /\ Scope(d) \subseteq Scopes /\ Scope(d) \subseteq ScopesOfKey(KeyOf[d])
         /\ ScopesOfKey(KeyOf[d]) \subseteq Scopes
         /\ OpenGates(d) \subseteq Scopes /\ BusyByKey(d) \subseteq Scopes
  BY ScopeFacts, Zenon DEF Scope, ScopesOfKey, OpenGates, BusyByKey, Scopes

(* An unclaimed gate that is due was chosen because nothing outranks it:   *)
(* so no gate of the dimension cools down, and nobody else is at work.     *)
LEMMA DueGateAdmits ==
  ASSUME IInv, Rests, NEW d \in Dims, NEW s \in Scopes, IsGate(d, s),
         ~Busy(s), ~Cooling(s)
  PROVE  Admits(d, TRUE)
<1>1. OwnGate(d, s) /\ recoveryGatePriority(s) \in 1..3
  BY PriorityFacts DEF IsGate, BusyByKey
<1>2. \A t \in OpenGates(d) : recoveryGatePriority(t) <= 3
  BY <1>1, PriorityFacts DEF OwnGate
<1>3. ASSUME NEW t \in OpenGates(d) PROVE ~Busy(t) /\ ~Cooling(t)
  <2>1. ~Busy(t) /\ t \in Scopes
    BY <1>2, PriorityFacts, KeyScopes
  <2>2. ASSUME Cooling(t) PROVE FALSE
    <3>1. recoveryGatePriority(t) = 3
      BY <2>1, <2>2, PriorityFacts, Zenon
    <3>2. gate[t].until <= gate[s].until
      BY <1>1, <3>1, <2>1, GateFacts DEF OwnGate
    <3>3. QED
      BY <2>1, <2>2, <3>2, GateFacts DEF Cooling
  <2>3. QED
    BY <2>1, <2>2, Zenon
<1>4. ASSUME gate[KeyOf[d]].open, NEW t \in ScopesOfKey(KeyOf[d]), Busy(t) PROVE FALSE
  <2>1. t \in BusyByKey(d)
    BY <1>4, Zenon DEF BusyByKey
  <2>2. \A g \in OpenGates(d) : recoveryGatePriority(g) < recoveryGatePriority(t)
    BY <1>2, <1>4, PriorityFacts
  <2>3. ~(s \in BusyByKey(d))
    BY Zenon DEF BusyByKey
  <2>4. QED
    BY <2>1, <2>2, <2>3, Zenon DEF IsGate
<1>5. QED
  BY <1>3, <1>4, Zenon DEF Admits, OpenGates

LEMMA AdmittedGateDue ==
  ASSUME IInv, Rests, NEW d \in Dims, NEW s \in Scopes, IsGate(d, s), Admits(d, TRUE)
  PROVE  ~Busy(s) /\ ~Cooling(s)
<1>1. s \in OpenGates(d) \/ s \in BusyByKey(d)
  BY Zenon DEF IsGate, OwnGate
<1>2. CASE s \in OpenGates(d)
  BY <1>2, Zenon DEF OpenGates, Admits
<1>3. CASE s \in BusyByKey(d)
  <2>1. gate[KeyOf[d]].open /\ s \in ScopesOfKey(KeyOf[d]) /\ Busy(s)
    BY <1>3, Zenon DEF BusyByKey
  <2>2. QED
    BY <2>1, Zenon DEF Admits, Scope
<1>4. QED
  BY <1>1, <1>2, <1>3, Zenon

(* The picker's verdict on every dimension is the admission's.             *)
THEOREM PickVerdicts == Spec => []VerdictsAgree
<1>1. IInv /\ Rests => VerdictsAgree
  <2> SUFFICES ASSUME IInv, Rests, NEW d \in Dims
               PROVE  /\ OpenGates(d) = {} => Admits(d, FALSE)
                      /\ \A s \in Scopes : IsGate(d, s) =>
                           (Recoverable(SkipReason(s)) <=> Admits(d, TRUE))
    BY Zenon DEF VerdictsAgree
  <2>1. OpenGates(d) = {} => Admits(d, FALSE)
    BY Zenon DEF OpenGates, Admits, Scope
  <2>2. \A s \in Scopes : IsGate(d, s) => (Recoverable(SkipReason(s)) <=> Admits(d, TRUE))
    BY ReasonFacts, DueGateAdmits, AdmittedGateDue, Zenon
  <2>3. QED
    BY <2>1, <2>2, Zenon
<1>2. QED
  BY <1>1, Invariance, RestInvariance, PTL

(* The gateway waits for a candidate exactly when a claim stands in its    *)
(* way.                                                                    *)
THEOREM WaitingIsForClaims == Spec => []WaitsForClaims
<1>1. IInv /\ Rests => WaitsForClaims
  <2> SUFFICES ASSUME IInv, Rests, NEW d \in Dims, NEW s \in Scopes, IsGate(d, s)
               PROVE  WaitsFor(SkipReason(s)) <=>
                        \E t \in OpenGates(d) \cup BusyByKey(d) : Busy(t)
    BY Zenon DEF WaitsForClaims
  <2>1. s \in OpenGates(d) \cup BusyByKey(d)
    BY Zenon DEF IsGate, OwnGate
  <2>2. ASSUME ~Busy(s), NEW t \in OpenGates(d) \cup BusyByKey(d), Busy(t) PROVE FALSE
    <3>1. OwnGate(d, s) /\ recoveryGatePriority(s) \in 1..3
      BY <2>2, PriorityFacts DEF IsGate, BusyByKey
    <3>2. \A g \in OpenGates(d) : recoveryGatePriority(g) <= 3
      BY <3>1, PriorityFacts DEF OwnGate
    <3>3. t \in BusyByKey(d)
      BY <2>2, <3>2, PriorityFacts
    <3>4. \A g \in OpenGates(d) : recoveryGatePriority(g) < recoveryGatePriority(t)
      BY <2>2, <3>2, PriorityFacts
    <3>5. ~(s \in BusyByKey(d))
      BY <2>2, Zenon DEF BusyByKey
    <3>6. QED
      BY <3>3, <3>4, <3>5, Zenon DEF IsGate
  <2>3. QED
    BY <2>1, <2>2, ReasonFacts, Zenon
<1>2. QED
  BY <1>1, Invariance, RestInvariance, PTL

(* The picker agrees with the admission, and the gateway knows which of    *)
(* the refused candidates are worth a wait (applyRoutingHealth,            *)
(* recoveryWaitScopes).                                                    *)
THEOREM PickAgreement == Spec => []PickAgreesWithAdmit
  BY PickVerdicts, WaitingIsForClaims, PTL DEF PickAgreesWithAdmit

LEMMA BestOwnGate ==
  ASSUME IInv, Rests, NEW d \in Dims, OpenGates(d) # {}
  PROVE  \E s \in OpenGates(d) : OwnGate(d, s)
<1> DEFINE k == KeyOf[d]
<1>1. k \in Scopes /\ d \in Scopes /\ k # d /\ OpenGates(d) \subseteq {k, d}
  BY ScopeFacts, Zenon DEF OpenGates, Scope
<1>2. gate[k].until \in Nat /\ gate[d].until \in Nat
  BY <1>1, GateFacts, Zenon
<1>3. recoveryGatePriority(k) \in 1..5 /\ recoveryGatePriority(d) \in 1..5
  BY PriorityFacts, Zenon
<1>4. QED
  BY <1>1, <1>2, <1>3 DEF OwnGate

LEMMA BestGate ==
  ASSUME IInv, Rests, NEW d \in Dims, OpenGates(d) # {}
  PROVE  \E s \in Scopes : IsGate(d, s)
<1> DEFINE outranks(t) == \A g \in OpenGates(d) : recoveryGatePriority(g) < recoveryGatePriority(t)
<1>1. CASE ~\E t \in BusyByKey(d) : outranks(t)
  BY <1>1, BestOwnGate, KeyScopes, Zenon DEF IsGate
<1>2. CASE \E t \in BusyByKey(d) : outranks(t)
  <2>1. PICK t \in BusyByKey(d) : outranks(t)
    BY <1>2, Zenon
  <2>2. PICK s \in BusyByKey(d) : recoveryGatePriority(t) <= recoveryGatePriority(s)
          /\ \A u \in BusyByKey(d) : recoveryGatePriority(u) <= recoveryGatePriority(s)
    <3>1. \A u \in BusyByKey(d) : recoveryGatePriority(u) \in 4..5
      BY PriorityFacts DEF BusyByKey
    <3>2. QED
      BY <2>1, <3>1
  <2>3. outranks(s)
    BY <2>1, <2>2, PriorityFacts
  <2>4. QED
    BY <2>2, <2>3, KeyScopes, Zenon DEF IsGate
<1>3. QED
  BY <1>1, <1>2, Zenon

(* A candidate with an open gate is always skipped for some gate's reason. *)
THEOREM GateFound == Spec => []SomeGate
<1>1. IInv /\ Rests => SomeGate
  BY BestGate, Zenon DEF SomeGate
<1>2. QED
  BY <1>1, Invariance, RestInvariance, PTL

(* A pick that offers nobody leaves out nobody the admission would take.   *)
THEOREM OffersAll == Spec => []NothingWithheld
<1>1. IInv /\ Rests => NothingWithheld
  <2> SUFFICES ASSUME IInv, Rests, NEW C \in SUBSET Dims, Normal(C) = {},
                      Offered(C, FALSE, TRUE) = {}, NEW d \in C, Admits(d, TRUE)
               PROVE  FALSE
    BY Zenon DEF NothingWithheld
  <2>1. d \in Dims /\ OpenGates(d) # {} /\ Validatable(C) = {}
    BY Zenon DEF Normal, Offered
  <2>2. PICK s \in Scopes : IsGate(d, s)
    BY <2>1, BestGate, Zenon
  <2>3. Recoverable(SkipReason(s))
    BY <2>1, <2>2, AdmittedGateDue, ReasonFacts, Zenon
  <2>4. QED
    BY <2>1, <2>2, <2>3, Zenon DEF Validatable
<1>2. QED
  BY <1>1, Invariance, RestInvariance, PTL
=============================================================================
