--------------------------- MODULE RequestsProofs ---------------------------
(***************************************************************************)
(* Proofs about a request: the shared allowances it draws on, the loop of  *)
(* its attempts and the windows that its outcomes are kept in.             *)
(***************************************************************************)
EXTENDS RoutingBudget, Gateway, CircuitMathCheck, InductionLemmas

(* What the provers know of sequences, as lemmas to instantiate.           *)
LEMMA Concats ==
  ASSUME NEW u \in Seq(Nat), NEW v \in Seq(Nat)
  PROVE  /\ u \o v \in Seq(Nat)
         /\ Len(u \o v) = Len(u) + Len(v)
         /\ \A i \in 1..(Len(u) + Len(v)) :
              (u \o v)[i] = IF i <= Len(u) THEN u[i] ELSE v[i - Len(u)]
  OBVIOUS

LEMMA Slices ==
  ASSUME NEW s \in Seq(Nat), NEW m \in Nat, NEW n \in Nat,
         \A i \in m..n : s[i] \in Nat
  PROVE  /\ SubSeq(s, m, n) \in Seq(Nat)
         /\ Len(SubSeq(s, m, n)) = IF m <= n THEN n - m + 1 ELSE 0
         /\ \A i \in 1..(n - m + 1) : SubSeq(s, m, n)[i] = s[m + i - 1]
  OBVIOUS

LEMMA EmptySlice ==
  ASSUME NEW s, NEW m \in Int, NEW n \in Int, n < m
  PROVE  SubSeq(s, m, n) = <<>>
  OBVIOUS

LEMMA WholeSlice ==
  ASSUME NEW s \in Seq(Nat)
  PROVE  SubSeq(s, 1, Len(s)) = s
  OBVIOUS

LEMMA SameSeq ==
  ASSUME NEW u \in Seq(Nat), NEW v \in Seq(Nat), Len(u) = Len(v),
         \A i \in 1..Len(u) : u[i] = v[i]
  PROVE  u = v
  OBVIOUS

LEMMA SliceGrows ==
  ASSUME NEW s \in Seq(Nat), NEW m \in 1..Len(s), NEW n \in m..Len(s)
  PROVE  SubSeq(s, m, n) = SubSeq(s, m, n - 1) \o <<s[n]>>
<1> DEFINE a == SubSeq(s, m, n)
           b == SubSeq(s, m, n - 1)
           x == <<s[n]>>
           k == n - m
<1>1. /\ a \in Seq(Nat) /\ Len(a) = k + 1 /\ \A i \in 1..(k + 1) : a[i] = s[m + i - 1]
      /\ b \in Seq(Nat) /\ Len(b) = k /\ \A i \in 1..k : b[i] = s[m + i - 1]
  <2>1. a \in Seq(Nat) /\ Len(a) = k + 1 /\ \A i \in 1..(k + 1) : a[i] = s[m + i - 1]
    OBVIOUS
  <2>2. b \in Seq(Nat) /\ Len(b) = k /\ \A i \in 1..k : b[i] = s[m + i - 1]
    OBVIOUS
  <2> QED
    BY <2>1, <2>2, Zenon
<1>2. x \in Seq(Nat) /\ Len(x) = 1 /\ x[1] = s[n]
  OBVIOUS
<1>3. /\ m + (k + 1) - 1 = n /\ (k + 1) - k = 1 /\ ~(k + 1 <= k)
      /\ \A i \in 1..(k + 1) : i = k + 1 \/ (i \in 1..k /\ i <= k)
  OBVIOUS
<1> HIDE DEF a, b, x, k
<1>4. /\ b \o x \in Seq(Nat) /\ Len(b \o x) = k + 1
      /\ \A i \in 1..(k + 1) : (b \o x)[i] = IF i <= k THEN b[i] ELSE x[i - k]
  <2>1. /\ b \o x \in Seq(Nat) /\ Len(b \o x) = Len(b) + Len(x)
        /\ \A i \in 1..(Len(b) + Len(x)) : (b \o x)[i] = IF i <= Len(b) THEN b[i] ELSE x[i - Len(b)]
    BY <1>1, <1>2, Concats, Zenon
  <2> QED
    BY <1>1, <1>2, <2>1, Zenon
<1>5. ASSUME NEW i \in 1..(k + 1) PROVE a[i] = (b \o x)[i]
  <2>1. CASE i = k + 1
    BY <1>1, <1>2, <1>3, <1>4, <2>1, Zenon
  <2>2. CASE i \in 1..k /\ i <= k
    BY <1>1, <1>4, <2>2, Zenon
  <2> QED
    BY <1>3, <2>1, <2>2, Zenon
<1> QED
  BY <1>1, <1>4, <1>5, SameSeq, Zenon DEF a, b, x
-----------------------------------------------------------------------------
(* The shared allowances, for any intervals, calls and times.              *)

(* Since the first call after a change of the interval the counter is      *)
(* below it, and calls and slots tell how far the counter has come.        *)
ShareOK ==
  /\ calls = 0 => slots = 0
  /\ interval # 0 /\ calls # 0 =>
       /\ row.counter < interval
       /\ \E d \in 0..(interval - 1) : calls + d = slots * interval + row.counter

(* Grants are a spacing apart.                                             *)
Apart == \A t, u \in grants : t < u => t + 20 <= u

BudgetInv ==
  /\ now \in Nat /\ interval \in Nat \ {1} /\ row \in [made : BOOLEAN, counter : Nat] /\ after \in Nat
  /\ calls \in Nat /\ slots \in Nat /\ grants \subseteq Nat /\ IsFiniteSet(grants)
  /\ ~row.made => row.counter = 0
  /\ ShareOK /\ Apart
  /\ \A t \in grants : t + 20 <= after
-----------------------------------------------------------------------------
LEMMA Remainder ==
  ASSUME NEW n \in Nat, n > 0
  PROVE  /\ \A x \in Nat : x % n \in 0..(n - 1)
         /\ \A x \in 0..(n - 1) : x % n = x
         /\ n % n = 0
<1>1. \A x \in Nat : x % n \in 0..(n - 1)
  OBVIOUS
<1>2. \A x \in 0..(n - 1) : x % n = x
  OBVIOUS
<1>3. n % n = 0
  OBVIOUS
<1> QED BY <1>1, <1>2, <1>3, Zenon

LEMMA Spacing == recoverySpacing = 20 /\ NormalizedBudget(StoreBudget) = 3
<1>1. NormalizedBudget(StoreBudget) = 3
  BY Zenon DEF NormalizedBudget, StoreBudget
<1>2. 60 \div 3 = 20
  OBVIOUS
<1> QED BY <1>1, <1>2, Zenon DEF recoverySpacing, Minute

LEMMA BudgetStarts == BudgetInit => BudgetInv
BY BudgetAssumption, FS_EmptySet DEF BudgetInit, BudgetInv, ShareOK, Apart

LEMMA SlotKeeps ==
  ASSUME BudgetInv, Slot
  PROVE  BudgetInv'
<1> DEFINE c == (row.counter + 1) % interval
<1>1. /\ interval \in Nat /\ interval > 1 /\ row.counter \in Nat /\ calls \in Nat /\ slots \in Nat
      /\ row \in [made : BOOLEAN, counter : Nat]
  BY DEF BudgetInv, Slot
<1>2. c \in 0..(interval - 1) /\ row' = [made |-> TRUE, counter |-> c] /\ calls' = calls + 1
  BY <1>1, Remainder DEF Slot, Counted
<1>3. c % interval = c
  BY <1>1, <1>2, Remainder
<1>4. slots' = IF c = 0 THEN slots + 1 ELSE slots
  BY <1>2, <1>3 DEF Slot, Granted
<1>5. \E d \in 0..(interval - 1) : calls' + d = slots' * interval + c
  <2>1. CASE calls = 0
    <3>1. slots = 0
      BY <2>1, Zenon DEF BudgetInv, ShareOK
    <3>2. CASE c = 0
      <4>1. slots' = 1 /\ calls' = 1 /\ interval - 1 \in 0..(interval - 1)
        BY <1>1, <1>2, <1>4, <2>1, <3>1, <3>2
      <4>2. calls' + (interval - 1) = slots' * interval + c
        BY <1>1, <3>2, <4>1
      <4> QED BY <4>1, <4>2, Zenon
    <3>3. CASE c # 0
      <4>1. slots' = 0 /\ calls' = 1 /\ c - 1 \in 0..(interval - 1)
        BY <1>1, <1>2, <1>4, <2>1, <3>1, <3>3
      <4>2. calls' + (c - 1) = slots' * interval + c
        BY <1>1, <1>2, <3>3, <4>1
      <4> QED BY <4>1, <4>2, Zenon
    <3> QED BY <3>2, <3>3, Zenon
  <2>2. CASE calls # 0
    <3>1. PICK d \in 0..(interval - 1) : calls + d = slots * interval + row.counter
      BY <1>1, <2>2 DEF BudgetInv, ShareOK
    <3>2. row.counter < interval
      BY <1>1, <2>2 DEF BudgetInv, ShareOK
    <3>3. CASE row.counter + 1 = interval
      <4>1. c = 0 /\ slots' = slots + 1
        BY <1>1, <1>4, <3>3, Remainder
      <4>2. (slots + 1) * interval = slots * interval + interval /\ slots * interval \in Nat
        BY <1>1
      <4>3. calls' + d = slots' * interval + c
        BY <1>1, <1>2, <3>1, <3>3, <4>1, <4>2
      <4> QED BY <4>3, Zenon
    <3>4. CASE row.counter + 1 # interval
      <4>1. c = row.counter + 1 /\ c # 0 /\ slots' = slots
        BY <1>1, <1>4, <3>2, <3>4, Remainder
      <4> DEFINE p == slots * interval
      <4>2. p \in Nat /\ calls + d = p + row.counter /\ p = slots' * interval
        BY <1>1, <3>1, <4>1
      <4> HIDE DEF p, c
      <4>3. calls' + d = p + c
        BY <1>1, <1>2, <4>1, <4>2
      <4> QED BY <4>2, <4>3, Zenon
    <3> QED BY <3>3, <3>4, Zenon
  <2> QED BY <2>1, <2>2, Zenon
<1> HIDE DEF c
<1>6. ShareOK'
  <2>1. interval' = interval /\ row'.counter = c /\ c < interval /\ calls' # 0
    BY <1>1, <1>2 DEF Slot
  <2> QED BY <1>5, <2>1, Zenon DEF ShareOK
<1>7. UNCHANGED <<now, interval, after, grants>>
  BY Zenon DEF Slot
<1>8. slots' \in Nat /\ calls' \in Nat /\ row' \in [made : BOOLEAN, counter : Nat] /\ row'.made
  BY <1>1, <1>2, <1>4
<1> QED BY <1>6, <1>7, <1>8, Zenon DEF BudgetInv, Apart

LEMMA RecoverySlotKeeps ==
  ASSUME BudgetInv, RecoverySlot
  PROVE  BudgetInv'
<1>1. /\ now \in Nat /\ after \in Nat /\ grants \subseteq Nat /\ IsFiniteSet(grants)
      /\ Apart /\ \A t \in grants : t + 20 <= after
  BY Zenon DEF BudgetInv
<1>2. CASE Allowed
  <2>1. after' = now + 20 /\ grants' = grants \cup {now} /\ after <= now
    BY <1>2, Spacing, Zenon DEF RecoverySlot, Allowed
  <2>2. IsFiniteSet(grants') /\ grants' \subseteq Nat /\ after' \in Nat
    BY <1>1, <2>1, FS_AddElement
  <2>3. Apart' /\ \A t \in grants' : t + 20 <= after'
    BY <1>1, <2>1 DEF Apart
  <2> QED BY <2>2, <2>3, Zenon DEF BudgetInv, ShareOK, RecoverySlot
<1>3. CASE ~Allowed
  BY <1>3, Zenon DEF BudgetInv, ShareOK, Apart, RecoverySlot
<1> QED BY <1>2, <1>3, Zenon

LEMMA BudgetSteps == BudgetInv /\ [BudgetNext]_budgetVars => BudgetInv'
<1> SUFFICES ASSUME BudgetInv, [BudgetNext]_budgetVars PROVE BudgetInv'
  BY Zenon
<1>1. CASE Tick
  BY <1>1 DEF Tick, BudgetInv, ShareOK, Apart
<1>2. ASSUME NEW i \in Intervals, SetInterval(i) PROVE BudgetInv'
  BY <1>2, BudgetAssumption, Zenon DEF SetInterval, BudgetInv, ShareOK, Apart
<1>3. CASE UNCHANGED budgetVars
  BY <1>3, Zenon DEF budgetVars, BudgetInv, ShareOK, Apart
<1> QED BY <1>1, <1>2, <1>3, SlotKeeps, RecoverySlotKeeps, Zenon DEF BudgetNext

LEMMA ThreeAMinute ==
  ASSUME BudgetInv, NEW t \in grants
  PROVE  Cardinality({u \in grants : t <= u /\ u < t + Minute}) <= 3
<1> DEFINE W == {u \in grants : t <= u /\ u < t + Minute}
           f == [u \in W |-> IF u < t + 20 THEN 1 ELSE IF u < t + 40 THEN 2 ELSE 3]
<1>1. t \in Nat /\ grants \subseteq Nat /\ Apart
  BY Zenon DEF BudgetInv
<1>2. f \in [W -> 1..3]
  OBVIOUS
<1>3. ASSUME NEW u \in W, NEW v \in W, f[u] = f[v], u < v PROVE FALSE
  <2>1. u + 20 <= v /\ t <= u /\ v < t + 60 /\ u \in Nat /\ v \in Nat
    BY <1>1, <1>3, Zenon DEF Apart, Minute
  <2> QED BY <1>1, <1>3, <2>1
<1>4. IsInjective(f)
  <2> SUFFICES ASSUME NEW u \in W, NEW v \in W, f[u] = f[v] PROVE u = v
    BY <1>2, Zenon DEF IsInjective
  <2>1. u \in Nat /\ v \in Nat /\ ~(u < v) /\ ~(v < u)
    BY <1>1, <1>3, Zenon
  <2> QED BY <2>1
<1>5. 1 \in Int /\ 3 \in Int
  OBVIOUS
<1>6. IsFiniteSet(1..3) /\ Cardinality(1..3) = 3
  <2>1. IsFiniteSet(1..3) /\ Cardinality(1..3) = IF 1 > 3 THEN 0 ELSE 3 - 1 + 1
    BY <1>5, FS_Interval, Zenon
  <2> QED BY <2>1
<1> HIDE DEF W, f
<1>7. f \in Injection(W, 1..3)
  BY <1>2, <1>4, Zenon DEF Injection
<1>8. Cardinality(W) <= Cardinality(1..3)
  BY <1>6, <1>7, FS_Injection, Zenon
<1> QED BY <1>6, <1>8, Zenon DEF W

LEMMA BudgetShares == BudgetInv => ExplorationShare
<1> SUFFICES ASSUME BudgetInv PROVE ExplorationShare
  BY Zenon
<1>1. ASSUME interval # 0
      PROVE  /\ slots * interval < calls + interval /\ calls < slots * interval + interval
             /\ PreviewSlot <=> Granted(Counted(row))
  <2>1. interval \in Nat /\ interval > 1 /\ row.counter \in Nat /\ calls \in Nat /\ slots \in Nat
    BY <1>1 DEF BudgetInv
  <2>2. slots * interval \in Nat
    BY <2>1
  <2>3. slots * interval < calls + interval /\ calls < slots * interval + interval
    <3>1. CASE calls = 0
      <4>1. slots * interval = 0
        BY <2>1, <3>1 DEF BudgetInv, ShareOK
      <4> QED BY <2>1, <3>1, <4>1
    <3>2. CASE calls # 0
      <4>1. PICK d \in 0..(interval - 1) : calls + d = slots * interval + row.counter
        BY <1>1, <3>2, Zenon DEF BudgetInv, ShareOK
      <4>2. row.counter < interval
        BY <1>1, <3>2, Zenon DEF BudgetInv, ShareOK
      <4> DEFINE p == slots * interval
      <4>3. p \in Nat /\ calls + d = p + row.counter
        BY <2>2, <4>1, Zenon
      <4> HIDE DEF p
      <4>4. p < calls + interval /\ calls < p + interval
        BY <2>1, <4>2, <4>3
      <4> QED BY <4>4, Zenon DEF p
    <3> QED BY <3>1, <3>2, Zenon
  <2>4. PreviewSlot <=> Granted(Counted(row))
    <3> DEFINE c == (row.counter + 1) % interval
    <3>1. c \in 0..(interval - 1) /\ c % interval = c
      BY <2>1, Remainder
    <3>2. Granted(Counted(row)) <=> c = 0
      BY <3>1, Zenon DEF Granted, Counted
    <3>3. ~row.made => c # 0
      <4>1. 1 % interval = 1
        BY <2>1, Remainder
      <4> QED BY <4>1 DEF BudgetInv
    <3> HIDE DEF c
    <3>4. PreviewSlot <=> row.made /\ c = 0
      BY Zenon DEF PreviewSlot, c
    <3> QED BY <3>2, <3>3, <3>4, Zenon
  <2> QED BY <2>3, <2>4, Zenon
<1>2. \A t \in grants :
        Cardinality({u \in grants : t <= u /\ u < t + Minute}) <= NormalizedBudget(StoreBudget)
  BY ThreeAMinute, Spacing, Zenon
<1> QED BY <1>1, <1>2, Zenon DEF ExplorationShare

(* However calls interleave, the requests since the interval was set get   *)
(* their share of exploration slots to within one, previews tell what the  *)
(* next request gets, and no minute holds more recovery slots than the     *)
(* store's budget (Slot, RecoverySlot): for any intervals and times.       *)
THEOREM SharesHeld == BudgetSpec => []ExplorationShare
BY BudgetStarts, BudgetSteps, BudgetShares, PTL DEF BudgetSpec
-----------------------------------------------------------------------------
(* Proofs about Gateway for any keys, providers and settings: one answer,  *)
(* one end of the log and one observation of every admission, on every     *)
(* path out of the loop.                                                   *)

Admissions == [key : Keys \cup {NoKey}, rec : BOOLEAN, sends : Nat, observed : {0, 1}]
Places == {"enter", "resolve", "pick", "lastPick", "wait", "admit", "try", "sent", "pause", "done"}
Attempting == {"try", "sent", "pause"}

RequestTypeOK ==
  /\ pc \in Places /\ answers \in Nat /\ logs \in [begun : BOOLEAN, finished : Nat]
  /\ cur \in [key : Keys \cup {NoKey}, rec : BOOLEAN] /\ adms \in Seq(Admissions) /\ gone \in BOOLEAN

(* Nothing is answered or finished before the handler returns.             *)
AnswerAtTheEnd ==
  /\ pc # "done" => answers = 0 /\ logs.finished = 0 /\ (logs.begun <=> pc # "enter")
  /\ pc = "done" => /\ answers <= 1 /\ (answers = 1 \/ gone)
                    /\ logs.finished <= 1 /\ (logs.finished = 1 <=> logs.begun)

(* Only the admission of the attempt under way may be unobserved, and it   *)
(* is the picked key's; one that validates a gate is not sent again.       *)
OneOpenAdmission ==
  /\ \A i \in DOMAIN adms : /\ i < Len(adms) \/ pc \notin Attempting => adms[i].observed = 1
                            /\ adms[i].rec => adms[i].sends <= 1
  /\ pc \in Attempting => Len(adms) > 0 /\ adms[Len(adms)].rec = cur.rec
  /\ pc = "pause" => ~cur.rec
  /\ pc = "try" /\ cur.rec => adms[Len(adms)].sends = 0

RequestInv == RequestTypeOK /\ AnswerAtTheEnd /\ OneOpenAdmission

LEMMA RecordedOnce ==
  ASSUME NEW a \in Admissions
  PROVE  /\ Recorded(a) \in Admissions /\ Recorded(a).observed = 1
         /\ Recorded(a).rec = a.rec /\ Recorded(a).sends = a.sends
BY Zenon DEF Admissions, Recorded

(* proxy returns with an answer, or to a client that has hung up.          *)
LEMMA LeaveKeepsInv ==
  ASSUME RequestInv, pc \notin {"enter", "done"}, NEW n \in {0, 1}, n = 1 \/ gone,
         Leave(n, 1), UNCHANGED <<cur, gone>>
  PROVE  RequestInv'
<1>0. RequestTypeOK /\ AnswerAtTheEnd /\ OneOpenAdmission
  BY Zenon DEF RequestInv
<1>1. adms \in Seq(Admissions) /\ DOMAIN adms = 1..Len(adms) /\ Len(adms) \in Nat
  BY <1>0 DEF RequestTypeOK
<1>2. adms' = [i \in 1..Len(adms) |-> Recorded(adms[i])]
  BY <1>1, Zenon DEF Leave
<1>3. \A i \in 1..Len(adms) : adms[i] \in Admissions
  BY <1>1
<1>4. adms' \in Seq(Admissions) /\ Len(adms') = Len(adms) /\ DOMAIN adms' = 1..Len(adms)
  BY <1>1, <1>2, <1>3, RecordedOnce
<1>5. \A i \in DOMAIN adms' : adms'[i].observed = 1 /\ (adms'[i].rec => adms'[i].sends <= 1)
  BY <1>0, <1>1, <1>2, <1>3, <1>4, RecordedOnce, Zenon DEF OneOpenAdmission
<1>6. /\ pc' = "done" /\ answers' = n /\ logs' \in [begun : BOOLEAN, finished : Nat]
      /\ logs'.finished = 1 /\ logs'.begun
  BY <1>0 DEF RequestTypeOK, AnswerAtTheEnd, Leave
<1>7. RequestTypeOK'
  BY <1>0, <1>4, <1>6 DEF RequestTypeOK, Places
<1>8. AnswerAtTheEnd'
  BY <1>0, <1>6 DEF RequestTypeOK, AnswerAtTheEnd
<1>9. OneOpenAdmission'
  BY <1>5, <1>6, Zenon DEF OneOpenAdmission, Attempting
<1> QED
  BY <1>7, <1>8, <1>9, Zenon DEF RequestInv

(* The attempt under way is observed, and what it sent is not touched.     *)
LEMMA ObservingTheLast ==
  ASSUME RequestInv, pc \in Attempting
  PROVE  /\ LastObserved \in Seq(Admissions) /\ Len(LastObserved) = Len(adms)
         /\ \A i \in DOMAIN LastObserved : /\ LastObserved[i].observed = 1
                                           /\ LastObserved[i].rec => LastObserved[i].sends <= 1
<1>1. adms \in Seq(Admissions) /\ Len(adms) \in Nat /\ Len(adms) > 0
  BY DEF RequestInv, RequestTypeOK, OneOpenAdmission
<1>2. adms[Len(adms)] \in Admissions
  BY <1>1
<1>3. LastObserved \in Seq(Admissions) /\ Len(LastObserved) = Len(adms)
  BY <1>1, <1>2, RecordedOnce DEF LastObserved
<1>4. ASSUME NEW i \in 1..Len(adms)
      PROVE  LastObserved[i].observed = 1 /\ (LastObserved[i].rec => LastObserved[i].sends <= 1)
  <2>1. CASE i = Len(adms)
    BY <1>1, <1>2, <2>1, RecordedOnce DEF LastObserved, RequestInv, OneOpenAdmission
  <2>2. CASE i # Len(adms)
    BY <1>1, <2>2 DEF LastObserved, RequestInv, OneOpenAdmission
  <2> QED
    BY <2>1, <2>2, Zenon
<1> QED
  BY <1>1, <1>3, <1>4

(* What forwardOnce has written it has also settled.                       *)
LEMMA UnsettledIsUnwritten ==
  ASSUME NEW o \in Unsent \cup Replies, ~Seen(o).ok PROVE ~Seen(o).written
<1>1. \A s, a, r : ~Failure(s, a, r).written
  BY Zenon DEF Failure
<1>2. \A s, a, r, b : ~[Failure(s, a, r) EXCEPT !.failOver = b].written
  BY Zenon DEF Failure
<1>3. \A v : Answered(v).ok
  BY Zenon DEF Answered
<1>4. Seen(o).ok = o.ok /\ Seen(o).written = o.written
  BY DEF Seen
<1>5. CASE o \in Unsent
  <2>1. \/ \E s \in {"key", "provider"} : o = Failure(s, "other", FALSE)
        \/ o = [Failure("", "", FALSE) EXCEPT !.failOver = FALSE]
        \/ o = Failure("key", "skip", FALSE)
    BY <1>5, Zenon DEF Unsent
  <2> QED
    BY <1>1, <1>2, <1>4, <2>1, Zenon
<1>6. CASE o \in Replies
  <2>1. \/ \E a \in {"transient", "other"}, f \in BOOLEAN :
             o = [Failure("key_model", a, FALSE) EXCEPT !.failOver = f]
        \/ \E a \in {"transient", "other"}, r \in BOOLEAN : o = Failure("key_model", a, r)
        \/ o = Failure("key", "other", FALSE)
        \/ o = Answered(TRUE) \/ o = Answered(FALSE)
    <3>0. o \in LateReplies \/ o \in TimelyReplies
      BY <1>6, Zenon DEF Replies
    <3>1. CASE o \in LateReplies
      BY <3>1, Zenon DEF LateReplies
    <3>2. CASE o \in TimelyReplies
      BY <3>2, Zenon DEF TimelyReplies
    <3> QED
      BY <3>0, <3>1, <3>2, Zenon
  <2> QED
    BY <1>1, <1>2, <1>3, <1>4, <2>1, Zenon
<1> QED
  BY <1>5, <1>6, Zenon

LEMMA HandleKeepsInv ==
  ASSUME RequestInv, pc \in {"try", "sent"}, NEW o, ~o.ok => ~o.written, Handle(o)
  PROVE  RequestInv'
<1>0. RequestTypeOK /\ AnswerAtTheEnd /\ OneOpenAdmission
  BY Zenon DEF RequestInv
<1>1. /\ LastObserved \in Seq(Admissions) /\ Len(LastObserved) = Len(adms)
      /\ \A i \in DOMAIN LastObserved : /\ LastObserved[i].observed = 1
                                        /\ LastObserved[i].rec => LastObserved[i].sends <= 1
  BY ObservingTheLast, Zenon DEF Attempting
<1>2. CASE o.ok /\ Settle
  <2>1. DOMAIN adms = 1..Len(adms) /\ Len(adms) \in Nat /\ DOMAIN LastObserved = 1..Len(adms)
    BY <1>0, <1>1 DEF RequestTypeOK
  <2>2. adms' = [i \in 1..Len(adms) |-> Recorded(LastObserved[i])]
    BY <1>2, <2>1, Zenon DEF Settle
  <2>3. \A i \in 1..Len(adms) : LastObserved[i] \in Admissions
    BY <1>1, <2>1
  <2>4. adms' \in Seq(Admissions) /\ DOMAIN adms' = 1..Len(adms)
    BY <2>1, <2>2, <2>3, RecordedOnce
  <2>5. \A i \in DOMAIN adms' : adms'[i].observed = 1 /\ (adms'[i].rec => adms'[i].sends <= 1)
    BY <1>1, <2>1, <2>2, <2>3, <2>4, RecordedOnce, Zenon
  <2>6. /\ pc' = "done" /\ answers' = 1 /\ logs' \in [begun : BOOLEAN, finished : Nat]
        /\ logs'.finished = 1 /\ logs'.begun /\ UNCHANGED <<cur, gone>>
    BY <1>0, <1>2 DEF RequestTypeOK, AnswerAtTheEnd, Settle, control, clock
  <2>7. RequestTypeOK' /\ AnswerAtTheEnd'
    BY <1>0, <2>4, <2>6 DEF RequestTypeOK, AnswerAtTheEnd, Places
  <2>8. OneOpenAdmission'
    BY <2>5, <2>6, Zenon DEF OneOpenAdmission, Attempting
  <2> QED
    BY <2>7, <2>8, Zenon DEF RequestInv
<1>3. CASE MayRetry(o) /\ Retry(o)
  <2>1. RequestTypeOK' /\ AnswerAtTheEnd'
    BY <1>0, <1>3, Zenon DEF RequestTypeOK, AnswerAtTheEnd, Places, Retry, clock, history
  <2>2. OneOpenAdmission'
    BY <1>0, <1>3, Zenon DEF OneOpenAdmission, Attempting, MayRetry, Retry, history
  <2> QED
    BY <2>1, <2>2, Zenon DEF RequestInv
<1>4. CASE ~o.ok /\ Move(o)
  <2>1. UNCHANGED <<cur, gone>> /\ answers = 0 /\ ~o.written
    BY <1>0, <1>4, Zenon DEF Move, AnswerAtTheEnd, clock
  <2>2. CASE Leave(1, 1)
    BY <2>1, <2>2, LeaveKeepsInv, Zenon
  <2>3. CASE pc' = "pick" /\ adms' = LastObserved /\ answers' = answers + 0
             /\ logs' = [logs EXCEPT !.finished = @ + 0]
    <3>1. RequestTypeOK' /\ AnswerAtTheEnd'
      BY <1>0, <1>1, <2>1, <2>3 DEF RequestTypeOK, AnswerAtTheEnd, Places
    <3>2. OneOpenAdmission'
      BY <1>1, <2>3, Zenon DEF OneOpenAdmission, Attempting
    <3> QED
      BY <3>1, <3>2, Zenon DEF RequestInv
  <2> QED
    BY <1>4, <2>1, <2>2, <2>3 DEF Move
<1> QED
  BY <1>2, <1>3, <1>4, Zenon DEF Handle

LEMMA RequestInitInv == Init => RequestInv
<1> SUFFICES ASSUME Init PROVE RequestInv
  BY Zenon
<1>1. adms = <<>> /\ adms \in Seq(Admissions) /\ DOMAIN adms = {}
  BY DEF Init
<1>2. RequestTypeOK /\ AnswerAtTheEnd
  BY <1>1, Zenon DEF Init, RequestTypeOK, AnswerAtTheEnd, Places
<1>3. OneOpenAdmission
  BY <1>1, Zenon DEF Init, OneOpenAdmission, Attempting
<1> QED
  BY <1>2, <1>3, Zenon DEF RequestInv

LEMMA RequestStepInv == RequestInv /\ [Next]_vars => RequestInv'
<1> SUFFICES ASSUME RequestInv, [Next]_vars PROVE RequestInv'
  BY Zenon
<1>0. RequestTypeOK /\ AnswerAtTheEnd /\ OneOpenAdmission
  BY Zenon DEF RequestInv
<1>1. ASSUME Fail, pc \notin {"enter", "done"} PROVE RequestInv'
  BY <1>1, LeaveKeepsInv, Zenon DEF Fail, control, clock
<1>2. CASE ResolveFails \/ PickFails \/ AdmitFails \/ PauseCancelled
  BY <1>1, <1>2, Zenon DEF ResolveFails, PickFails, AdmitFails, PauseCancelled
<1>3. CASE Reject
  <2>1. RequestTypeOK'
    BY <1>0, <1>3 DEF RequestTypeOK, Places, Reject, control, clock
  <2>2. AnswerAtTheEnd'
    BY <1>0, <1>3 DEF RequestTypeOK, AnswerAtTheEnd, Reject, control, clock
  <2>3. OneOpenAdmission'
    BY <1>0, <1>3, Zenon DEF OneOpenAdmission, Attempting, Reject, control, clock
  <2> QED
    BY <2>1, <2>2, <2>3, Zenon DEF RequestInv
<1>4. CASE Begin
  <2>1. RequestTypeOK'
    BY <1>0, <1>4, Zenon DEF RequestTypeOK, Places, Begin, control, clock
  <2>2. AnswerAtTheEnd'
    BY <1>0, <1>4, Zenon DEF RequestTypeOK, AnswerAtTheEnd, Begin, control, clock
  <2>3. OneOpenAdmission'
    BY <1>0, <1>4, Zenon DEF OneOpenAdmission, Attempting, Begin, control, clock
  <2> QED
    BY <2>1, <2>2, <2>3, Zenon DEF RequestInv
<1>5. CASE \E A \in SUBSET Keys : Resolve(A)
  <2>1. RequestTypeOK'
    BY <1>0, <1>5, Zenon DEF RequestTypeOK, Places, Resolve, clock, history
  <2>2. AnswerAtTheEnd'
    BY <1>0, <1>5, Zenon DEF RequestTypeOK, AnswerAtTheEnd, Resolve, clock, history
  <2>3. OneOpenAdmission'
    BY <1>0, <1>5, Zenon DEF OneOpenAdmission, Attempting, Resolve, clock, history
  <2> QED
    BY <2>1, <2>2, <2>3, Zenon DEF RequestInv
<1>6. CASE \E k \in Keys, rec \in BOOLEAN : PickKey(k, rec)
  <2>1. RequestTypeOK'
    BY <1>0, <1>6 DEF RequestTypeOK, Places, PickKey, Pool, clock, history
  <2>2. AnswerAtTheEnd'
    BY <1>0, <1>6, Zenon DEF RequestTypeOK, AnswerAtTheEnd, PickKey, Pool, clock, history
  <2>3. OneOpenAdmission'
    BY <1>0, <1>6, Zenon DEF OneOpenAdmission, Attempting, PickKey, Pool, clock, history
  <2> QED
    BY <2>1, <2>2, <2>3, Zenon DEF RequestInv
<1>7. CASE StartWait
  <2>1. RequestTypeOK'
    BY <1>0, <1>7, Zenon DEF RequestTypeOK, Places, StartWait, control, history
  <2>2. AnswerAtTheEnd'
    BY <1>0, <1>7, Zenon DEF RequestTypeOK, AnswerAtTheEnd, StartWait, control, history
  <2>3. OneOpenAdmission'
    BY <1>0, <1>7, Zenon DEF OneOpenAdmission, Attempting, StartWait, control, history
  <2> QED
    BY <2>1, <2>2, <2>3, Zenon DEF RequestInv
<1>8. CASE GateChanged
  <2>1. RequestTypeOK'
    BY <1>0, <1>8, Zenon DEF RequestTypeOK, Places, GateChanged, control, clock, history
  <2>2. AnswerAtTheEnd'
    BY <1>0, <1>8, Zenon DEF RequestTypeOK, AnswerAtTheEnd, GateChanged, control, clock, history
  <2>3. OneOpenAdmission'
    BY <1>0, <1>8, Zenon DEF OneOpenAdmission, Attempting, GateChanged, control, clock, history
  <2> QED
    BY <2>1, <2>2, <2>3, Zenon DEF RequestInv
<1>9. CASE WaitEnds
  <2>1. RequestTypeOK'
    BY <1>0, <1>9, Zenon DEF RequestTypeOK, Places, WaitEnds, control, clock, history
  <2>2. AnswerAtTheEnd'
    BY <1>0, <1>9, Zenon DEF RequestTypeOK, AnswerAtTheEnd, WaitEnds, control, clock, history
  <2>3. OneOpenAdmission'
    BY <1>0, <1>9, Zenon DEF OneOpenAdmission, Attempting, WaitEnds, control, clock, history
  <2> QED
    BY <2>1, <2>2, <2>3, Zenon DEF RequestInv
<1>10. CASE Resume
  <2>1. RequestTypeOK'
    BY <1>0, <1>10, Zenon DEF RequestTypeOK, Places, Resume, clock, history
  <2>2. AnswerAtTheEnd'
    BY <1>0, <1>10, Zenon DEF RequestTypeOK, AnswerAtTheEnd, Resume, clock, history
  <2>3. OneOpenAdmission'
    BY <1>0, <1>10, Zenon DEF OneOpenAdmission, Attempting, Resume, clock, history
  <2> QED
    BY <2>1, <2>2, <2>3, Zenon DEF RequestInv
<1>11. CASE TimePasses
  <2>1. RequestTypeOK'
    BY <1>0, <1>11, Zenon DEF RequestTypeOK, Places, TimePasses, control, history
  <2>2. AnswerAtTheEnd'
    BY <1>0, <1>11, Zenon DEF RequestTypeOK, AnswerAtTheEnd, TimePasses, control, history
  <2>3. OneOpenAdmission'
    BY <1>0, <1>11, Zenon DEF OneOpenAdmission, Attempting, TimePasses, control, history
  <2> QED
    BY <2>1, <2>2, <2>3, Zenon DEF RequestInv
<1>12. CASE WaitExpires
  <2>1. RequestTypeOK'
    BY <1>0, <1>12, Zenon DEF RequestTypeOK, Places, WaitExpires, control, history
  <2>2. AnswerAtTheEnd'
    BY <1>0, <1>12, Zenon DEF RequestTypeOK, AnswerAtTheEnd, WaitExpires, control, history
  <2>3. OneOpenAdmission'
    BY <1>0, <1>12, Zenon DEF OneOpenAdmission, Attempting, WaitExpires, control, history
  <2> QED
    BY <2>1, <2>2, <2>3, Zenon DEF RequestInv
<1>13. CASE HangUp
  <2>1. RequestTypeOK'
    BY <1>0, <1>13, Zenon DEF RequestTypeOK, Places, HangUp, control, history
  <2>2. AnswerAtTheEnd'
    BY <1>0, <1>13, Zenon DEF RequestTypeOK, AnswerAtTheEnd, HangUp, control, history
  <2>3. OneOpenAdmission'
    BY <1>0, <1>13, Zenon DEF OneOpenAdmission, Attempting, HangUp, control, history
  <2> QED
    BY <2>1, <2>2, <2>3, Zenon DEF RequestInv
<1>14. CASE UNCHANGED vars
  <2>1. RequestTypeOK'
    BY <1>0, <1>14, Zenon DEF RequestTypeOK, Places, vars, control, clock, history
  <2>2. AnswerAtTheEnd'
    BY <1>0, <1>14, Zenon DEF RequestTypeOK, AnswerAtTheEnd, vars, control, clock, history
  <2>3. OneOpenAdmission'
    BY <1>0, <1>14, Zenon DEF OneOpenAdmission, Attempting, vars, control, clock, history
  <2> QED
    BY <2>1, <2>2, <2>3, Zenon DEF RequestInv
<1>15. CASE NoRoute
  <2>1. CASE LastResort
    <3>1. RequestTypeOK' /\ AnswerAtTheEnd'
      BY <1>0, <1>15, <2>1, Zenon DEF RequestTypeOK, AnswerAtTheEnd, Places, NoRoute, LastResort, clock,
             history
    <3>2. OneOpenAdmission'
      BY <1>0, <1>15, <2>1, Zenon DEF OneOpenAdmission, Attempting, NoRoute, LastResort, history
    <3> QED
      BY <3>1, <3>2, Zenon DEF RequestInv
  <2> QED
    BY <1>1, <1>15, <2>1, Zenon DEF NoRoute
<1>16. CASE Admitted
  <2> DEFINE a == [key |-> cur.key, rec |-> cur.rec, sends |-> 0, observed |-> 0]
  <2>1. a \in Admissions /\ a.sends = 0 /\ a.rec = cur.rec
    BY <1>0, Zenon DEF RequestTypeOK, Admissions
  <2>2. adms' = Append(adms, a) /\ pc = "admit" /\ pc' = "try"
        /\ UNCHANGED <<cur, gone, answers, logs>>
    BY <1>16, Zenon DEF Admitted, clock
  <2> HIDE DEF a
  <2>3. adms \in Seq(Admissions) /\ Len(adms) \in Nat
    BY <1>0 DEF RequestTypeOK
  <2>4. /\ adms' \in Seq(Admissions) /\ Len(adms') = Len(adms) + 1 /\ DOMAIN adms' = 1..Len(adms')
        /\ adms'[Len(adms')] = a /\ \A i \in 1..Len(adms) : adms'[i] = adms[i]
    BY <2>1, <2>2, <2>3
  <2>5. RequestTypeOK' /\ AnswerAtTheEnd'
    BY <1>0, <2>2, <2>4, Zenon DEF RequestTypeOK, AnswerAtTheEnd, Places
  <2>6. \A i \in 1..Len(adms) : adms[i].observed = 1 /\ (adms[i].rec => adms[i].sends <= 1)
    BY <1>0, <2>2, <2>3 DEF OneOpenAdmission, Attempting
  <2>7. OneOpenAdmission'
    BY <2>1, <2>2, <2>3, <2>4, <2>6 DEF OneOpenAdmission, Attempting
  <2> QED
    BY <2>5, <2>7, Zenon DEF RequestInv
<1>17. CASE Refused
  <2>1. CASE gone /\ Leave(0, 1) /\ UNCHANGED <<control, clock>>
    BY <1>17, <2>1, LeaveKeepsInv, Zenon DEF Refused, control, clock
  <2>2. CASE pc' = "pick" /\ UNCHANGED <<control, clock, history>>
    <3>1. RequestTypeOK' /\ AnswerAtTheEnd'
      BY <1>0, <1>17, <2>2, Zenon DEF RequestTypeOK, AnswerAtTheEnd, Places, Refused, control, clock, history
    <3>2. OneOpenAdmission'
      BY <1>0, <1>17, <2>2, Zenon DEF OneOpenAdmission, Attempting, Refused, history
    <3> QED
      BY <3>1, <3>2, Zenon DEF RequestInv
  <2> QED
    BY <1>1, <1>17, <2>1, <2>2, Zenon DEF Refused
<1>18. CASE Send
  <2>1. adms \in Seq(Admissions) /\ Len(adms) \in Nat /\ Len(adms) > 0
    BY <1>0, <1>18 DEF RequestTypeOK, OneOpenAdmission, Attempting, Send
  <2> DEFINE a == [adms[Len(adms)] EXCEPT !.sends = @ + 1]
  <2>2. adms[Len(adms)] \in Admissions
    BY <2>1
  <2>3. /\ a \in Admissions /\ a.rec = adms[Len(adms)].rec
        /\ a.sends = adms[Len(adms)].sends + 1
    BY <2>2 DEF Admissions
  <2>4. adms' = [adms EXCEPT ![Len(adms)] = a] /\ pc = "try" /\ pc' = "sent"
        /\ UNCHANGED <<cur, gone, answers, logs>>
    BY <1>18, Zenon DEF Send, control, clock
  <2> HIDE DEF a
  <2>5. /\ adms' \in Seq(Admissions) /\ Len(adms') = Len(adms) /\ DOMAIN adms' = 1..Len(adms)
        /\ adms'[Len(adms)] = a /\ \A i \in 1..Len(adms) : i # Len(adms) => adms'[i] = adms[i]
    BY <2>1, <2>3, <2>4
  <2>6. RequestTypeOK' /\ AnswerAtTheEnd'
    BY <1>0, <2>4, <2>5, Zenon DEF RequestTypeOK, AnswerAtTheEnd, Places
  <2>7. a.rec = cur.rec /\ (a.rec => a.sends <= 1)
    BY <1>0, <2>3, <2>4 DEF OneOpenAdmission, Attempting
  <2>8. \A i \in 1..Len(adms) : i # Len(adms) => adms[i].observed = 1 /\ (adms[i].rec => adms[i].sends <= 1)
    BY <1>0, <2>1 DEF OneOpenAdmission
  <2>9. OneOpenAdmission'
    <3>1. ASSUME NEW i \in 1..Len(adms)
          PROVE  /\ i < Len(adms) => adms'[i].observed = 1
                 /\ adms'[i].rec => adms'[i].sends <= 1
      <4>1. CASE i = Len(adms)
        <5>1. adms'[i] = a
          BY <2>5, <4>1, Zenon
        <5>2. ~(i < Len(adms))
          BY <2>1, <4>1
        <5> QED
          BY <2>7, <5>1, <5>2, Zenon
      <4>2. CASE i # Len(adms)
        <5>1. adms'[i] = adms[i]
          BY <2>5, <4>2, Zenon
        <5>2. adms[i].observed = 1 /\ (adms[i].rec => adms[i].sends <= 1)
          BY <2>8, <4>2, Zenon
        <5> QED
          BY <5>1, <5>2, Zenon
      <4> QED
        BY <4>1, <4>2, Zenon
    <3> QED
      BY <2>1, <2>4, <2>5, <2>7, <3>1, Zenon DEF OneOpenAdmission, Attempting
  <2> QED
    BY <2>6, <2>9, Zenon DEF RequestInv
<1>19. ASSUME NEW o, NotSent(o) \/ Reply(o) PROVE RequestInv'
  BY <1>19, UnsettledIsUnwritten, HandleKeepsInv, Zenon DEF NotSent, Reply
<1> QED
  BY <1>2, <1>3, <1>4, <1>5, <1>6, <1>7, <1>8, <1>9, <1>10, <1>11, <1>12, <1>13,
     <1>14, <1>15, <1>16, <1>17, <1>18, <1>19, Zenon
     DEF Next, Handler, Finished

(* One response and one end of the request log, on every path out of the   *)
(* loop, for any number of keys, attempts and retries (proxy,              *)
(* forwardOnce).                                                           *)
THEOREM OneAnswerOneLog == GatewaySpec => []AnsweredAndLoggedOnce
<1>1. RequestInv => AnsweredAndLoggedOnce
  BY DEF RequestInv, RequestTypeOK, AnswerAtTheEnd, AnsweredAndLoggedOnce
<1> QED
  BY <1>1, RequestInitInv, RequestStepInv, PTL DEF GatewaySpec

(* Every admission is observed exactly once, and one that validates an     *)
(* open gate is sent once (finishRouting and its deferred call).           *)
THEOREM EveryAdmissionObserved == GatewaySpec => []AdmissionsObservedOnce
<1>1. RequestInv => AdmissionsObservedOnce
  <2> SUFFICES ASSUME RequestInv, NEW i \in DOMAIN adms
               PROVE  /\ adms[i].observed <= 1
                      /\ i < Len(adms) \/ pc \in {"pick", "lastPick", "wait", "admit", "done"} =>
                           adms[i].observed = 1
                      /\ adms[i].rec => adms[i].sends <= 1
    BY Zenon DEF AdmissionsObservedOnce
  <2>1. adms[i] \in Admissions
    BY DEF RequestInv, RequestTypeOK
  <2> QED
    BY <2>1 DEF RequestInv, OneOpenAdmission, Attempting, Admissions
<1> QED
  BY <1>1, RequestInitInv, RequestStepInv, PTL DEF GatewaySpec
-----------------------------------------------------------------------------
(* The attempts of the loop are exact, for any keys, providers and         *)
(* settings: the invariant FailoverInv relates the loop's counters to the  *)
(* keys it has tried.                                                      *)

SendsOf(s) == [i \in DOMAIN s |-> s[i].sends]
KeysOf(s) == {s[i].key : i \in DOMAIN s}
UsesOf(s, k) == {i \in DOMAIN s : s[i].key = k}

LoopTypes ==
  /\ TypeOK /\ skips \in Nat /\ tries <= RetryMax
  /\ pc \notin {"enter", "resolve", "done"} => attempt < attempts
  /\ pc \in {"enter", "resolve"} => attempt = 0 /\ attempts = 0 /\ allow = {} /\ adms = <<>> /\ ~lastResort

(* The attempt under way has sent once per try; the ones before it, what   *)
(* their attempts and retries allow.                                       *)
Budget(n) == n * (RetryMax + 1) + skips * RetryMax

SendsBounded ==
  /\ pc = "try" => adms[Len(adms)].sends <= tries
  /\ pc = "sent" => adms[Len(adms)].sends <= tries + 1
  /\ pc = "pause" => adms[Len(adms)].sends <= tries + 1 /\ tries < RetryMax
  /\ pc \notin Attempting \cup {"done"} => Sends <= Budget(attempt)
  /\ pc \in Attempting => Sends <= Budget(attempt) + adms[Len(adms)].sends
  /\ pc = "done" => Sends <= Budget(attempts)

(* What may still be picked has not been used since the last resort.       *)
Again == IF lastResort THEN 1 ELSE 0

UsesBounded ==
  /\ \A k \in Keys : Uses(k) <= Again + 1
  /\ pc \in {"pick", "lastPick", "wait", "admit"} => \A k \in Pool : Uses(k) <= Again
  /\ pc \in Attempting => \A k \in Pool \ {cur.key} : Uses(k) <= Again
  /\ pc \in Attempting \cup {"admit"} => cur.key \in allow
  /\ pc = "admit" => cur.key \in Pool

(* Without the last resort every attempt made is one key of those allowed. *)
AttemptsAreKeys ==
  /\ ~lastResort => attempt + (IF pc \in Attempting THEN 1 ELSE 0) <= Cardinality(KeysOf(adms) \cap allow)
  /\ exhaust /\ Bound /\ allow # {} => Cardinality(allow) <= attempts

FailoverInv == LoopTypes /\ SendsBounded /\ UsesBounded /\ AttemptsAreKeys

Total(s) == SumOver(SendsOf(s), DOMAIN s)

(* What the sum of the sends is of: the same for sequences that differ in  *)
(* what is observed only.                                                  *)
SameSends(s, t) ==
  /\ s \in Seq(Admissions) /\ t \in Seq(Admissions) /\ Len(s) = Len(t)
  /\ \A i \in 1..Len(s) : s[i].sends = t[i].sends /\ s[i].key = t[i].key

LEMMA AdmissionsFinite ==
  ASSUME NEW s \in Seq(Admissions)
  PROVE  /\ DOMAIN s = 1..Len(s) /\ Len(s) \in Nat /\ IsFiniteSet(DOMAIN s)
         /\ \A i \in DOMAIN s : s[i] \in Admissions /\ SendsOf(s)[i] = s[i].sends
         /\ OnNaturals(SendsOf(s), DOMAIN s)
<1>1. DOMAIN s = 1..Len(s) /\ Len(s) \in Nat /\ \A i \in DOMAIN s : s[i] \in Admissions
  OBVIOUS
<1>2. IsFiniteSet(1..Len(s))
  <2>1. 1 \in Int /\ Len(s) \in Int
    BY <1>1
  <2> QED
    BY <2>1, FS_Interval, Zenon
<1>3. \A i \in DOMAIN s : SendsOf(s)[i] = s[i].sends
  BY Zenon DEF SendsOf
<1>4. OnNaturals(SendsOf(s), DOMAIN s)
  BY <1>1, <1>3, Zenon DEF OnNaturals, Admissions
<1> QED
  BY <1>1, <1>2, <1>3, <1>4, Zenon

LEMMA TotalType ==
  ASSUME NEW s \in Seq(Admissions)
  PROVE  Total(s) \in Nat /\ (s = <<>> => Total(s) = 0)
<1>1. IsFiniteSet(DOMAIN s) /\ OnNaturals(SendsOf(s), DOMAIN s)
  BY AdmissionsFinite, Zenon
<1>2. s = <<>> => DOMAIN s = {}
  OBVIOUS
<1> QED
  BY <1>1, <1>2, SumType, Zenon DEF Total

LEMMA TotalSame ==
  ASSUME NEW s, NEW t, SameSends(s, t)
  PROVE  Total(t) = Total(s)
<1>1. s \in Seq(Admissions) /\ t \in Seq(Admissions) /\ DOMAIN s = DOMAIN t
  BY DEF SameSends
<1>2. /\ IsFiniteSet(DOMAIN s) /\ OnNaturals(SendsOf(s), DOMAIN s) /\ DOMAIN s = 1..Len(s)
      /\ \A i \in DOMAIN s : SendsOf(s)[i] = s[i].sends /\ SendsOf(t)[i] = t[i].sends
  BY <1>1, AdmissionsFinite, Zenon
<1>3. \A i \in DOMAIN s : SendsOf(s)[i] = SendsOf(t)[i]
  BY <1>2, Zenon DEF SameSends
<1>4. SumOver(SendsOf(s), DOMAIN s) = SumOver(SendsOf(t), DOMAIN s)
  BY <1>2, <1>3, SumSame, Zenon
<1> QED
  BY <1>1, <1>4, Zenon DEF Total

LEMMA TotalAppend ==
  ASSUME NEW s \in Seq(Admissions), NEW a \in Admissions
  PROVE  Total(Append(s, a)) = Total(s) + a.sends
<1> DEFINE t == Append(s, a)
           n == Len(s) + 1
<1>1. t \in Seq(Admissions) /\ t[n] = a /\ \A i \in 1..Len(s) : t[i] = s[i]
  OBVIOUS
<1>2. DOMAIN t = DOMAIN s \cup {n} /\ n \notin DOMAIN s /\ n \in DOMAIN t
  OBVIOUS
<1> HIDE DEF t, n
<1>3. /\ IsFiniteSet(DOMAIN s) /\ OnNaturals(SendsOf(s), DOMAIN s) /\ DOMAIN s = 1..Len(s)
      /\ OnNaturals(SendsOf(t), DOMAIN t)
      /\ \A i \in DOMAIN s : SendsOf(s)[i] = s[i].sends
      /\ \A i \in DOMAIN t : SendsOf(t)[i] = t[i].sends
  BY <1>1, AdmissionsFinite, Zenon
<1>4. SumOver(SendsOf(t), DOMAIN t) = SendsOf(t)[n] + SumOver(SendsOf(t), DOMAIN s)
  BY <1>2, <1>3, SumAdd, Zenon
<1>5. SendsOf(t)[n] = a.sends /\ a.sends \in Nat
  BY <1>1, <1>2, <1>3, Zenon DEF Admissions
<1>6. \A i \in DOMAIN s : SendsOf(s)[i] = SendsOf(t)[i]
  BY <1>1, <1>2, <1>3, Zenon
<1>7. SumOver(SendsOf(s), DOMAIN s) = SumOver(SendsOf(t), DOMAIN s)
  BY <1>3, <1>6, SumSame, Zenon
<1>8. Total(s) \in Nat
  BY TotalType, Zenon
<1> QED
  BY <1>4, <1>5, <1>7, <1>8 DEF Total, t

\* One more send of the last admission.
LEMMA TotalSend ==
  ASSUME NEW s \in Seq(Admissions), NEW t \in Seq(Admissions), Len(s) > 0, Len(t) = Len(s),
         t[Len(s)].sends = s[Len(s)].sends + 1,
         \A i \in 1..Len(s) : i # Len(s) => t[i] = s[i]
  PROVE  Total(t) = Total(s) + 1
<1> DEFINE n == Len(s)
           D == DOMAIN s
           f == SendsOf(s)
           g == SendsOf(t)
<1>1. n \in D /\ DOMAIN t = D /\ D = 1..n /\ s[n] \in Admissions
  OBVIOUS
<1>2. /\ IsFiniteSet(D) /\ OnNaturals(f, D) /\ OnNaturals(g, D)
      /\ \A i \in D : f[i] = s[i].sends /\ g[i] = t[i].sends
  BY <1>1, AdmissionsFinite, Zenon
<1>3. \A i \in D \ {n} : f[i] = g[i]
  BY <1>1, <1>2, Zenon
<1>4. f[n] = s[n].sends /\ g[n] = s[n].sends + 1 /\ s[n].sends \in Nat
  BY <1>1, <1>2, Zenon DEF Admissions
<1>5. Total(s) = SumOver(f, D) /\ Total(t) = SumOver(g, D)
  BY <1>1, Zenon DEF Total
<1>6. Total(s) \in Nat /\ Total(t) \in Nat
  BY TotalType, Zenon
<1> HIDE DEF n, D, f, g
<1>7. DifferAt(f, g, D, n)
  BY <1>1, <1>2, <1>3, Zenon DEF DifferAt
<1>8. SumOver(g, D) + f[n] = SumOver(f, D) + g[n]
  BY <1>2, <1>7, SumChange
<1> QED
  BY <1>4, <1>5, <1>6, <1>8

LEMMA KeysSame ==
  ASSUME NEW s, NEW t, SameSends(s, t)
  PROVE  KeysOf(t) = KeysOf(s) /\ \A k : UsesOf(t, k) = UsesOf(s, k)
<1>1. DOMAIN s = 1..Len(s) /\ DOMAIN t = 1..Len(s) /\ \A i \in 1..Len(s) : s[i].key = t[i].key
  BY DEF SameSends
<1> QED
  BY <1>1, Zenon DEF KeysOf, UsesOf

LEMMA KeysAppend ==
  ASSUME NEW s \in Seq(Admissions), NEW a \in Admissions
  PROVE  /\ KeysOf(Append(s, a)) = KeysOf(s) \cup {a.key}
         /\ \A k : /\ Cardinality(UsesOf(s, k)) \in Nat
                   /\ Cardinality(UsesOf(Append(s, a), k)) =
                        Cardinality(UsesOf(s, k)) + (IF k = a.key THEN 1 ELSE 0)
                   /\ Cardinality(UsesOf(s, k)) = 0 => k \notin KeysOf(s)
<1> DEFINE t == Append(s, a)
           n == Len(s) + 1
<1>1. t[n] = a /\ \A i \in 1..Len(s) : t[i] = s[i]
  OBVIOUS
<1>2. DOMAIN t = DOMAIN s \cup {n} /\ n \notin DOMAIN s /\ DOMAIN s = 1..Len(s)
  OBVIOUS
<1> HIDE DEF t, n
<1>3. KeysOf(t) = KeysOf(s) \cup {a.key}
  BY <1>1, <1>2, Zenon DEF KeysOf
<1>4. ASSUME NEW k
      PROVE  /\ Cardinality(UsesOf(s, k)) \in Nat
             /\ Cardinality(UsesOf(t, k)) = Cardinality(UsesOf(s, k)) + (IF k = a.key THEN 1 ELSE 0)
             /\ Cardinality(UsesOf(s, k)) = 0 => k \notin KeysOf(s)
  <2>1. IsFiniteSet(UsesOf(s, k))
    <3>1. IsFiniteSet(DOMAIN s)
      BY AdmissionsFinite, Zenon
    <3>2. UsesOf(s, k) \in SUBSET DOMAIN s
      BY Zenon DEF UsesOf
    <3> QED
      BY <3>1, <3>2, FS_Subset, Zenon
  <2>2. Cardinality(UsesOf(s, k)) \in Nat
    BY <2>1, FS_CardinalityType, Zenon
  <2>3. Cardinality(UsesOf(s, k)) = 0 => k \notin KeysOf(s)
    <3>1. Cardinality(UsesOf(s, k)) = 0 => UsesOf(s, k) = {}
      BY <2>1, FS_EmptySet, Zenon
    <3> QED
      BY <3>1, Zenon DEF UsesOf, KeysOf
  <2>4. CASE k = a.key
    <3>1. UsesOf(t, k) = UsesOf(s, k) \cup {n} /\ n \notin UsesOf(s, k)
      BY <1>1, <1>2, <2>4, Zenon DEF UsesOf
    <3> QED
      BY <2>1, <2>2, <2>3, <2>4, <3>1, FS_AddElement, Zenon
  <2>5. CASE k # a.key
    <3>1. UsesOf(t, k) = UsesOf(s, k)
      BY <1>1, <1>2, <2>5, Zenon DEF UsesOf
    <3> QED
      BY <2>2, <2>3, <2>5, <3>1
  <2> QED
    BY <2>4, <2>5, Zenon
<1> QED
  BY <1>3, <1>4, Zenon DEF t

LEMMA Times ==
  ASSUME NEW a \in Nat, NEW b \in Nat, NEW c \in Nat
  PROVE  /\ a * c \in Nat /\ b * c \in Nat /\ (a + 1) * c = a * c + c /\ 0 * c = 0
         /\ a <= b => a * c <= b * c
<1>1. a * c \in Nat /\ b * c \in Nat /\ (a + 1) * c = a * c + c /\ 0 * c = 0
  OBVIOUS
<1>2. ASSUME a <= b PROVE a * c <= b * c
  <2>1. PICK d \in Nat : b = a + d
    BY <1>2
  <2>2. (a + d) * c = a * c + d * c /\ d * c \in Nat
    OBVIOUS
  <2> QED
    BY <1>1, <2>1, <2>2
<1> QED
  BY <1>1, <1>2, Zenon

LEMMA RecordedSame ==
  ASSUME NEW a \in Admissions
  PROVE  Recorded(a) \in Admissions /\ Recorded(a).sends = a.sends /\ Recorded(a).key = a.key
BY Zenon DEF Admissions, Recorded

LEMMA ObservedSame ==
  ASSUME NEW s \in Seq(Admissions)
  PROVE  /\ SameSends(s, [i \in DOMAIN s |-> Recorded(s[i])])
         /\ Len(s) > 0 => SameSends(s, [s EXCEPT ![Len(s)] = Recorded(@)])
<1>1. DOMAIN s = 1..Len(s) /\ Len(s) \in Nat /\ \A i \in 1..Len(s) : s[i] \in Admissions
  OBVIOUS
<1>2. SameSends(s, [i \in DOMAIN s |-> Recorded(s[i])])
  <2> DEFINE t == [i \in DOMAIN s |-> Recorded(s[i])]
  <2>1. \A i \in 1..Len(s) : t[i] \in Admissions /\ t[i].sends = s[i].sends /\ t[i].key = s[i].key
    BY <1>1, RecordedSame, Zenon
  <2>2. t \in Seq(Admissions) /\ Len(t) = Len(s)
    BY <1>1, <2>1
  <2> QED
    BY <2>1, <2>2, Zenon DEF SameSends
<1>3. ASSUME Len(s) > 0 PROVE SameSends(s, [s EXCEPT ![Len(s)] = Recorded(@)])
  <2> DEFINE a == Recorded(s[Len(s)])
             t == [s EXCEPT ![Len(s)] = a]
  <2>1. a \in Admissions /\ a.sends = s[Len(s)].sends /\ a.key = s[Len(s)].key
    BY <1>1, <1>3, RecordedSame
  <2> HIDE DEF a
  <2>2. t \in Seq(Admissions) /\ Len(t) = Len(s)
    BY <1>1, <1>3, <2>1
  <2>3. \A i \in 1..Len(s) : t[i] = IF i = Len(s) THEN a ELSE s[i]
    BY <1>1, Zenon
  <2>4. \A i \in 1..Len(s) : s[i].sends = t[i].sends /\ s[i].key = t[i].key
    BY <2>1, <2>3, Zenon
  <2> QED
    BY <2>2, <2>4, Zenon DEF SameSends, a
<1> QED
  BY <1>2, <1>3, Zenon

LEMMA SameTransitive ==
  ASSUME NEW s, NEW t, NEW u, SameSends(s, t), SameSends(t, u)
  PROVE  SameSends(s, u)
BY Zenon DEF SameSends

(* What the steps have in common that change no send and no key of an      *)
(* admission.                                                              *)
LEMMA SameCounts ==
  ASSUME SameSends(adms, adms')
  PROVE  /\ Sends' = Sends /\ KeysOf(adms') = KeysOf(adms) /\ \A k : Uses(k)' = Uses(k)
         /\ Len(adms') = Len(adms) /\ Sends \in Nat
         /\ Len(adms) > 0 => /\ adms'[Len(adms')].sends = adms[Len(adms)].sends
                             /\ adms[Len(adms)].sends \in Nat
<1>1. Total(adms') = Total(adms) /\ Total(adms) \in Nat
  <2>1. adms \in Seq(Admissions)
    BY Zenon DEF SameSends
  <2> QED
    BY <2>1, TotalSame, TotalType, Zenon
<1>2. Sends = Total(adms) /\ Sends' = Total(adms')
  BY Zenon DEF Sends, Total, SendsOf
<1>3. KeysOf(adms') = KeysOf(adms) /\ \A k : UsesOf(adms', k) = UsesOf(adms, k)
  BY KeysSame, Zenon
<1>4. \A k : Uses(k) = Cardinality(UsesOf(adms, k)) /\ Uses(k)' = Cardinality(UsesOf(adms', k))
  BY Zenon DEF Uses, UsesOf
<1>5. Len(adms') = Len(adms)
  BY Zenon DEF SameSends
<1>6. ASSUME Len(adms) > 0
      PROVE  adms'[Len(adms')].sends = adms[Len(adms)].sends /\ adms[Len(adms)].sends \in Nat
  <2>1. Len(adms) \in 1..Len(adms) /\ adms[Len(adms)] \in Admissions
    BY <1>6 DEF SameSends
  <2> QED
    BY <1>5, <2>1, Zenon DEF SameSends, Admissions
<1> QED
  BY <1>1, <1>2, <1>3, <1>4, <1>5, <1>6, Zenon

LEMMA BudgetFacts ==
  ASSUME LoopTypes
  PROVE  /\ \A n \in Nat : /\ Budget(n) \in Nat /\ Budget(n + 1) = Budget(n) + RetryMax + 1
                           /\ \A m \in Nat : n <= m => Budget(n) <= Budget(m)
         /\ RetryMax \in Nat /\ attempt \in Nat /\ attempts \in Nat /\ attempt <= attempts
         /\ tries \in Nat /\ tries <= RetryMax /\ skips \in Nat
         /\ pc \notin {"enter", "resolve", "done"} => attempt + 1 <= attempts
<1>1. /\ RetryMax \in Nat /\ FailoverMax \in Nat /\ IsFiniteSet(Keys)
      /\ Cardinality(Keys) \in Nat
  BY GatewayAssumption, FS_CardinalityType, Zenon
<1>2. attempts \in Nat /\ attempt \in Nat /\ attempt <= attempts /\ tries \in Nat
  BY <1>1 DEF LoopTypes, TypeOK
<1>3. RetryMax + 1 \in Nat /\ skips \in Nat /\ skips * RetryMax \in Nat
  BY <1>1, Times DEF LoopTypes
<1>4. ASSUME NEW n \in Nat, NEW m \in Nat
      PROVE  /\ n * (RetryMax + 1) \in Nat /\ m * (RetryMax + 1) \in Nat
             /\ (n + 1) * (RetryMax + 1) = n * (RetryMax + 1) + (RetryMax + 1)
             /\ n <= m => n * (RetryMax + 1) <= m * (RetryMax + 1)
  <2> DEFINE c == RetryMax + 1
  <2> HIDE DEF c
  <2>1. c \in Nat
    BY <1>3, Zenon DEF c
  <2> QED
    BY <2>1, Times, Zenon DEF c
<1>5. ASSUME NEW n \in Nat, NEW m \in Nat
      PROVE  /\ Budget(n) \in Nat /\ Budget(n + 1) = Budget(n) + RetryMax + 1
             /\ n <= m => Budget(n) <= Budget(m)
  <2> DEFINE x == n * (RetryMax + 1)
             y == m * (RetryMax + 1)
             w == (n + 1) * (RetryMax + 1)
             v == skips * RetryMax
  <2>1. Budget(n) = x + v /\ Budget(m) = y + v /\ Budget(n + 1) = w + v
    BY Zenon DEF Budget
  <2>2. x \in Nat /\ y \in Nat /\ w = x + (RetryMax + 1) /\ (n <= m => x <= y) /\ v \in Nat
    BY <1>3, <1>4, Zenon
  <2> HIDE DEF x, y, w, v
  <2> QED
    BY <1>1, <2>1, <2>2
<1>6. tries <= RetryMax /\ (pc \notin {"enter", "resolve", "done"} => attempt + 1 <= attempts)
  BY <1>2 DEF LoopTypes
<1> QED
  BY <1>1, <1>2, <1>3, <1>5, <1>6, Zenon

(* Whatever the last attempt sent, it stays within the budget of the       *)
(* request once it is over.                                                *)
LEMMA LeaveSends ==
  ASSUME RequestInv, FailoverInv, pc # "done", SameSends(adms, adms'),
         pc' = "done", attempts' = attempts, skips' = skips
  PROVE  SendsBounded'
<1>1. Sends' = Sends /\ Sends \in Nat
  BY SameCounts, Zenon
<1>2. Budget(attempts)' = Budget(attempts)
  BY Zenon DEF Budget
<1>3. Sends <= Budget(attempts)
  <2>0. /\ Budget(attempt) \in Nat /\ Budget(attempts) \in Nat /\ Budget(attempt) <= Budget(attempts)
        /\ Budget(attempt + 1) = Budget(attempt) + RetryMax + 1 /\ attempt \in Nat /\ attempts \in Nat
        /\ (pc \notin {"enter", "resolve", "done"} => Budget(attempt + 1) <= Budget(attempts))
        /\ RetryMax \in Nat /\ tries \in Nat /\ tries <= RetryMax
    <3>1. attempt \in Nat /\ attempts \in Nat
      BY BudgetFacts, Zenon DEF FailoverInv
    <3>2. attempt + 1 \in Nat
      BY <3>1
    <3> QED
      BY <3>1, <3>2, BudgetFacts, Zenon DEF FailoverInv
  <2>1. CASE pc \in Attempting
    <3>1. /\ adms[Len(adms)].sends \in Nat /\ adms[Len(adms)].sends <= tries + 1
          /\ Sends <= Budget(attempt) + adms[Len(adms)].sends
      <4>1. Len(adms) > 0
        BY <2>1, Zenon DEF RequestInv, OneOpenAdmission
      <4>2. adms[Len(adms)].sends \in Nat
        BY <4>1, SameCounts, Zenon
      <4> QED
        BY <2>0, <2>1, <4>2 DEF FailoverInv, SendsBounded, Attempting
    <3>2. Budget(attempt + 1) <= Budget(attempts)
      BY <2>0, <2>1, Zenon DEF Attempting
    <3> QED
      BY <1>1, <2>0, <3>1, <3>2
  <2>2. CASE pc \notin Attempting
    <3>1. Sends <= Budget(attempt)
      BY <2>2, Zenon DEF FailoverInv, SendsBounded
    <3> QED
      BY <1>1, <2>0, <3>1
  <2> QED
    BY <2>1, <2>2, Zenon
<1> QED
  BY <1>1, <1>2, <1>3, Zenon DEF SendsBounded, Attempting

LEMMA LeaveUses ==
  ASSUME FailoverInv, SameSends(adms, adms'), pc' = "done", lastResort' = lastResort
  PROVE  UsesBounded'
<1>1. \A k : Uses(k)' = Uses(k)
  BY SameCounts, Zenon
<1>2. \A k \in Keys : Uses(k)' <= Again' + 1
  BY <1>1, Zenon DEF FailoverInv, UsesBounded, Again
<1> QED
  BY <1>2, Zenon DEF UsesBounded, Attempting

(* proxy returns before or after an attempt whose count stays as it is.    *)
LEMMA LeaveKeepsFailover ==
  ASSUME RequestInv, FailoverInv, pc \notin {"enter", "done"}, SameSends(adms, adms'), pc' = "done",
         UNCHANGED <<control, skips>>, phase' = phase, waiting' = waiting, gone' = gone
  PROVE  FailoverInv'
<1>1. LoopTypes'
  BY Zenon DEF FailoverInv, LoopTypes, TypeOK, control
<1>2. SendsBounded'
  BY LeaveSends, Zenon DEF control
<1>3. UsesBounded'
  BY LeaveUses, Zenon DEF control
<1>4. AttemptsAreKeys'
  <2>1. KeysOf(adms') = KeysOf(adms)
    BY SameCounts, Zenon
  <2>2. attempt \in Nat
    BY BudgetFacts, Zenon DEF FailoverInv
  <2>3. IsFiniteSet(KeysOf(adms) \cap allow) /\ Cardinality(KeysOf(adms) \cap allow) \in Nat
    <3>1. IsFiniteSet(allow)
      BY GatewayAssumption, FS_Subset, Zenon DEF FailoverInv, LoopTypes, TypeOK
    <3> QED
      BY <3>1, FS_Intersection, FS_CardinalityType, Zenon
  <2> QED
    BY <2>1, <2>2, <2>3 DEF FailoverInv, AttemptsAreKeys, control, Attempting
<1> QED
  BY <1>1, <1>2, <1>3, <1>4, Zenon DEF FailoverInv

(* What an outcome says that allows failing over: whom it excludes.        *)
Blames(o) == /\ o.failOver /\ o.action # "skip" => o.scope \in {"key", "provider", "key_model"}
             /\ o.action \in {"", "skip", "transient", "other", "cancelled"}

LEMMA OutcomeBlames ==
  ASSUME NEW o \in Unsent \cup Replies
  PROVE  Blames(Seen(o)) /\ (o \in Replies => Seen(o).action # "skip")
<1>1. ASSUME NEW s \in {"key", "provider", "key_model"}, NEW a \in {"skip", "transient", "other"}, NEW r,
             o = Failure(s, a, r) \/ \E b : o = [Failure(s, a, r) EXCEPT !.failOver = b]
      PROVE  Blames(Seen(o)) /\ (a # "skip" => Seen(o).action # "skip")
  <2>1. o.scope = s /\ o.action = a
    BY <1>1 DEF Failure
  <2>2. CASE gone /\ ~o.valid
    <3>1. Seen(o).failOver = FALSE /\ Seen(o).action = "cancelled"
      BY <1>1, <2>2, Zenon DEF Seen, Failure
    <3> QED
      BY <3>1, Zenon DEF Blames
  <2>3. CASE ~(gone /\ ~o.valid)
    <3>1. Seen(o) = o
      BY <2>3, Zenon DEF Seen
    <3> QED
      BY <2>1, <3>1, Zenon DEF Blames
  <2> QED
    BY <2>2, <2>3, Zenon
<1>2. CASE o = [Failure("", "", FALSE) EXCEPT !.failOver = FALSE]
  <2>1. Seen(o).failOver = FALSE /\ Seen(o).action \in {"", "cancelled"}
    BY <1>2, Zenon DEF Seen, Failure
  <2> QED
    BY <2>1, Zenon DEF Blames
<1>3. ASSUME NEW v \in BOOLEAN, o = Answered(v) PROVE Blames(Seen(o)) /\ Seen(o).action # "skip"
  <2>1. Seen(o).failOver = FALSE /\ Seen(o).action \in {"", "other", "cancelled"}
    BY <1>3, Zenon DEF Seen, Answered
  <2> QED
    BY <2>1, Zenon DEF Blames
<1>4. CASE o \in Unsent /\ o \notin Replies
  <2>1. \/ \E s \in {"key", "provider"} : o = Failure(s, "other", FALSE)
        \/ o = [Failure("", "", FALSE) EXCEPT !.failOver = FALSE]
        \/ o = Failure("key", "skip", FALSE)
    BY <1>4, Zenon DEF Unsent
  <2> QED
    BY <1>1, <1>2, <1>4, <2>1, Zenon
<1>5. CASE o \in Replies
  <2>1. \/ \E a \in {"transient", "other"}, f \in BOOLEAN :
             o = [Failure("key_model", a, FALSE) EXCEPT !.failOver = f]
        \/ \E a \in {"transient", "other"}, r \in BOOLEAN : o = Failure("key_model", a, r)
        \/ o = Failure("key", "other", FALSE)
        \/ o = Answered(TRUE) \/ o = Answered(FALSE)
    <3>0. o \in LateReplies \/ o \in TimelyReplies
      BY <1>5, Zenon DEF Replies
    <3>1. CASE o \in LateReplies
      BY <3>1, Zenon DEF LateReplies
    <3>2. CASE o \in TimelyReplies
      BY <3>2, Zenon DEF TimelyReplies
    <3> QED
      BY <3>0, <3>1, <3>2, Zenon
  <2>2. ASSUME NEW a \in {"transient", "other"}, NEW f \in BOOLEAN,
               o = [Failure("key_model", a, FALSE) EXCEPT !.failOver = f]
        PROVE  Blames(Seen(o)) /\ Seen(o).action # "skip"
    BY <1>1, <2>2, Zenon
  <2>3. ASSUME NEW a \in {"transient", "other"}, NEW r, o = Failure("key_model", a, r)
        PROVE  Blames(Seen(o)) /\ Seen(o).action # "skip"
    BY <1>1, <2>3, Zenon
  <2>4. ASSUME o = Failure("key", "other", FALSE)
        PROVE  Blames(Seen(o)) /\ Seen(o).action # "skip"
    BY <1>1, <2>4, Zenon
  <2> QED
    BY <1>3, <2>1, <2>2, <2>3, <2>4, Zenon
<1> QED
  BY <1>4, <1>5, Zenon

LEMMA KeysFinite ==
  ASSUME FailoverInv
  PROVE  /\ IsFiniteSet(allow) /\ Cardinality(allow) \in Nat
         /\ \A U : IsFiniteSet(U \cap allow) /\ Cardinality(U \cap allow) \in Nat
<1>1. IsFiniteSet(allow)
  BY GatewayAssumption, FS_Subset, Zenon DEF FailoverInv, LoopTypes, TypeOK
<1> QED
  BY <1>1, FS_Intersection, FS_CardinalityType, Zenon

LEMMA TakeOne ==
  ASSUME NEW S, IsFiniteSet(S), NEW x
  PROVE  /\ IsFiniteSet(S \ {x}) /\ Cardinality(S \ {x}) \in Nat /\ Cardinality(S) \in Nat
         /\ Cardinality(S \ {x}) <= Cardinality(S) /\ Cardinality(S) <= Cardinality(S \ {x}) + 1
<1>1. IsFiniteSet(S \ {x}) /\ Cardinality(S \ {x}) \in Nat /\ Cardinality(S) \in Nat
  BY FS_RemoveElement, FS_CardinalityType, Zenon
<1>2. Cardinality(S \ {x}) = IF x \in S THEN Cardinality(S) - 1 ELSE Cardinality(S)
  BY FS_RemoveElement, Zenon
<1> QED
  BY <1>1, <1>2

(* The end of an attempt uses up one of the keys counted, or skips one.    *)
LEMMA MoveCounts ==
  ASSUME RequestInv, FailoverInv, pc \in Attempting, NEW o, Move(o), SameSends(adms, adms'),
         pc' \notin Attempting
  PROVE  AttemptsAreKeys'
<1>0. LoopTypes /\ UsesBounded /\ AttemptsAreKeys
  BY Zenon DEF FailoverInv
<1>1. /\ allow' = (IF o.action = "skip" THEN allow \ {cur.key} ELSE allow)
      /\ attempt' = (IF o.action = "skip" THEN attempt ELSE attempt + 1)
      /\ UNCHANGED <<attempts, exhaust, lastResort>>
  BY Zenon DEF Move, HandBack
<1>2. attempt \in Nat /\ attempts \in Nat
  BY <1>0, BudgetFacts, Zenon
<1>3. cur.key \in allow
  BY <1>0, Zenon DEF UsesBounded
<1> DEFINE U == KeysOf(adms)
<1>4. KeysOf(adms') = U
  BY SameCounts, Zenon
<1>5. /\ IsFiniteSet(allow) /\ Cardinality(allow) \in Nat
      /\ IsFiniteSet(U \cap allow) /\ Cardinality(U \cap allow) \in Nat
  BY KeysFinite, Zenon
<1>6. ~lastResort => attempt + 1 <= Cardinality(U \cap allow)
  BY <1>0, Zenon DEF AttemptsAreKeys
<1>7. ~lastResort' => attempt' <= Cardinality(U \cap allow')
  <2>1. CASE o.action = "skip"
    <3>1. U \cap allow' = (U \cap allow) \ {cur.key}
      BY <1>1, <2>1, Zenon
    <3>2. /\ Cardinality(U \cap allow) <= Cardinality(U \cap allow') + 1
          /\ Cardinality(U \cap allow') \in Nat
      BY <1>5, <3>1, TakeOne, Zenon
    <3>3. attempt' = attempt /\ lastResort' = lastResort
      BY <1>1, <2>1, Zenon
    <3> QED
      BY <1>2, <1>5, <1>6, <3>2, <3>3
  <2>2. CASE o.action # "skip"
    BY <1>1, <1>6, <2>2, Zenon
  <2> QED
    BY <2>1, <2>2, Zenon
<1>8. exhaust' /\ Bound /\ allow' # {} => Cardinality(allow') <= attempts'
  <2>1. Cardinality(allow') <= Cardinality(allow)
    <3>1. Cardinality(allow \ {cur.key}) <= Cardinality(allow)
      BY <1>5, TakeOne, Zenon
    <3> QED
      BY <1>1, <1>5, <3>1
  <2>2. Cardinality(allow') \in Nat
    BY <1>1, <1>5, TakeOne, Zenon
  <2> QED
    BY <1>0, <1>1, <1>2, <1>3, <1>5, <2>1, <2>2 DEF AttemptsAreKeys
<1>9. attempt' \in Nat
  BY <1>1, <1>2
<1>10. IsFiniteSet(U \cap allow') /\ Cardinality(U \cap allow') \in Nat
  BY <1>1, <1>5, FS_RemoveElement, FS_Intersection, FS_CardinalityType, Zenon
<1> QED
  BY <1>4, <1>7, <1>8, <1>9, <1>10 DEF AttemptsAreKeys, Attempting

(* An attempt ends and another key is tried.                               *)
LEMMA MoveOn ==
  ASSUME RequestInv, FailoverInv, pc \in {"try", "sent"}, NEW o, Blames(o),
         o.action = "skip" => pc = "try", Move(o),
         pc' = "pick", adms' = LastObserved,
         IF o.action = "skip" THEN allow \ {cur.key} # {} /\ skips' = skips + 1
                              ELSE o.failOver /\ attempt + 1 < attempts /\ skips' = skips
  PROVE  FailoverInv'
<1>0. /\ LoopTypes /\ SendsBounded /\ UsesBounded /\ AttemptsAreKeys
      /\ pc \in Attempting /\ Len(adms) > 0 /\ adms \in Seq(Admissions)
  BY Zenon DEF FailoverInv, RequestInv, RequestTypeOK, OneOpenAdmission, Attempting
<1>1. SameSends(adms, adms')
  BY <1>0, ObservedSame, Zenon DEF LastObserved
<1>2. /\ lastFail' \in {"transient", "other"} /\ excl' = excl \cup Excluded(o)
      /\ allow' = (IF o.action = "skip" THEN allow \ {cur.key} ELSE allow)
      /\ attempt' = (IF o.action = "skip" THEN attempt ELSE attempt + 1)
      /\ UNCHANGED <<attempts, exhaust, tries, lastResort, cur, clock>>
  BY Zenon DEF Move, HandBack
<1>3. /\ attempt \in Nat /\ attempts \in Nat /\ attempt + 1 <= attempts /\ tries \in Nat
      /\ tries <= RetryMax /\ RetryMax \in Nat /\ skips \in Nat
      /\ Budget(attempt) \in Nat /\ Budget(attempt + 1) = Budget(attempt) + RetryMax + 1
  BY <1>0, BudgetFacts, Zenon DEF Attempting
<1>4. cur.key \in allow /\ cur.key \in Keys
  BY <1>0, Zenon DEF UsesBounded, LoopTypes, TypeOK
<1>5. LoopTypes'
  <2>1. excl' \subseteq Keys
    BY <1>0, <1>2, <1>4, Zenon DEF LoopTypes, TypeOK, Excluded
  <2>2. attempt' \in 0..attempts /\ skips' \in Nat /\ attempt' < attempts
    BY <1>2, <1>3
  <2> QED
    BY <1>0, <1>2, <2>1, <2>2, Zenon DEF LoopTypes, TypeOK, clock
<1>6. Sends' <= Budget(attempt)'
  <2>1. Sends' = Sends /\ Sends \in Nat /\ adms[Len(adms)].sends \in Nat
    BY <1>0, <1>1, SameCounts, Zenon
  <2>2. Sends <= Budget(attempt) + adms[Len(adms)].sends
    BY <1>0, Zenon DEF SendsBounded
  <2>3. CASE o.action = "skip"
    <3>1. adms[Len(adms)].sends <= tries
      BY <1>0, <2>3, Zenon DEF SendsBounded
    <3>2. Budget(attempt)' = Budget(attempt) + RetryMax
      <4>1. (skips + 1) * RetryMax = skips * RetryMax + RetryMax /\ skips * RetryMax \in Nat
        BY <1>3, Times, Zenon
      <4>2. attempt * (RetryMax + 1) \in Nat
        BY <1>3
      <4>3. Budget(attempt)' = attempt * (RetryMax + 1) + (skips + 1) * RetryMax
        BY <1>2, <2>3, Zenon DEF Budget
      <4>4. Budget(attempt) = attempt * (RetryMax + 1) + skips * RetryMax
        BY Zenon DEF Budget
      <4> QED
        BY <1>3, <4>1, <4>2, <4>3, <4>4
    <3> QED
      BY <1>3, <2>1, <2>2, <3>1, <3>2
  <2>4. CASE o.action # "skip"
    <3>1. adms[Len(adms)].sends <= tries + 1
      BY <1>0, <1>3, <2>1 DEF SendsBounded
    <3>2. Budget(attempt)' = Budget(attempt + 1)
      BY <1>2, <2>4, Zenon DEF Budget
    <3> QED
      BY <1>3, <2>1, <2>2, <3>1, <3>2
  <2> QED
    BY <2>3, <2>4, Zenon
<1>7. SendsBounded'
  BY <1>6, Zenon DEF SendsBounded, Attempting
<1>8. Pool' \subseteq Pool \ {cur.key}
  <2>1. CASE o.action = "skip"
    BY <1>2, <2>1, Zenon DEF Pool
  <2>2. CASE o.action # "skip"
    <3>1. cur.key \in Excluded(o)
      BY <1>4, <2>2, Zenon DEF Blames, Excluded
    <3> QED
      BY <1>2, <2>2, <3>1, Zenon DEF Pool
  <2> QED
    BY <2>1, <2>2, Zenon
<1>9. UsesBounded'
  <2>1. \A k : Uses(k)' = Uses(k)
    BY <1>1, SameCounts, Zenon
  <2>2. Again' = Again
    BY <1>2, Zenon DEF Again
  <2>3. \A k \in Keys : Uses(k)' <= Again' + 1
    BY <1>0, <2>1, <2>2, Zenon DEF UsesBounded
  <2>4. \A k \in Pool' : Uses(k)' <= Again'
    BY <1>0, <1>8, <2>1, <2>2, Zenon DEF UsesBounded
  <2> QED
    BY <2>3, <2>4, Zenon DEF UsesBounded, Attempting
<1>10. AttemptsAreKeys'
  BY <1>1, MoveCounts, Zenon DEF Attempting
<1> QED
  BY <1>5, <1>7, <1>9, <1>10, Zenon DEF FailoverInv

(* The last attempt ends: its count goes up unless its key was skipped.    *)
LEMMA MoveOut ==
  ASSUME RequestInv, FailoverInv, pc \in {"try", "sent"}, NEW o, Blames(o),
         Move(o), pc' = "done", skips' = skips, adms' = [i \in DOMAIN adms |-> Recorded(adms[i])]
  PROVE  FailoverInv'
<1>0. /\ LoopTypes /\ SendsBounded /\ UsesBounded /\ AttemptsAreKeys
      /\ pc \in Attempting /\ Len(adms) > 0 /\ adms \in Seq(Admissions)
  BY Zenon DEF FailoverInv, RequestInv, RequestTypeOK, OneOpenAdmission, Attempting
<1>1. SameSends(adms, adms')
  BY <1>0, ObservedSame, Zenon
<1>2. /\ lastFail' \in {"transient", "other"} /\ excl' = excl \cup Excluded(o)
      /\ allow' = (IF o.action = "skip" THEN allow \ {cur.key} ELSE allow)
      /\ attempt' = (IF o.action = "skip" THEN attempt ELSE attempt + 1)
      /\ UNCHANGED <<attempts, exhaust, tries, lastResort, cur, clock>>
  BY Zenon DEF Move, HandBack
<1>3. /\ attempt \in Nat /\ attempts \in Nat /\ attempt + 1 <= attempts
      /\ skips \in Nat
  BY <1>0, BudgetFacts, Zenon DEF Attempting
<1>4. cur.key \in allow /\ cur.key \in Keys
  BY <1>0, Zenon DEF UsesBounded, LoopTypes, TypeOK
<1>5. LoopTypes'
  <2>1. excl' \subseteq Keys
    BY <1>0, <1>2, <1>4, Zenon DEF LoopTypes, TypeOK, Excluded
  <2>2. attempt' \in 0..attempts /\ skips' \in Nat
    BY <1>2, <1>3
  <2> QED
    BY <1>0, <1>2, <2>1, <2>2, Zenon DEF LoopTypes, TypeOK, clock
<1>6. SendsBounded'
  BY <1>0, <1>1, <1>2, LeaveSends, Zenon DEF Attempting
<1>7. UsesBounded'
  BY <1>1, <1>2, LeaveUses, Zenon
<1>8. AttemptsAreKeys'
  BY <1>1, MoveCounts, Zenon DEF Attempting
<1> QED
  BY <1>5, <1>6, <1>7, <1>8, Zenon DEF FailoverInv

\* A retry of the same key, and its pause.
LEMMA RetryKeepsFailover ==
  ASSUME RequestInv, FailoverInv, UNCHANGED <<attempt, attempts, exhaust, allow, excl, lastResort,
                                              lastFail, cur, clock, history>>,
         \/ /\ pc \in {"try", "sent"} /\ pc' = "pause" /\ tries < RetryMax /\ tries' = tries
         \/ /\ pc = "pause" /\ pc' = "try" /\ tries' = tries + 1
  PROVE  FailoverInv'
<1>0. LoopTypes /\ SendsBounded /\ UsesBounded /\ AttemptsAreKeys /\ Len(adms) > 0 /\ adms \in Seq(Admissions)
  BY Zenon DEF FailoverInv, RequestInv, RequestTypeOK, OneOpenAdmission, Attempting
<1>1. tries \in Nat /\ RetryMax \in Nat /\ tries <= RetryMax
  BY <1>0, BudgetFacts, Zenon
<1>2. adms[Len(adms)].sends \in Nat
  <2>1. adms[Len(adms)] \in Admissions
    BY <1>0
  <2> QED
    BY <2>1, Zenon DEF Admissions
<1>3. tries' \in Nat /\ tries' <= RetryMax
  BY <1>0, <1>1 DEF SendsBounded
<1>4. LoopTypes'
  BY <1>0, <1>3 DEF LoopTypes, TypeOK, clock, history
<1>5. SendsBounded'
  <2>1. Sends' = Sends /\ Budget(attempt)' = Budget(attempt) /\ adms' = adms
    BY Zenon DEF Sends, Budget, history
  <2>2. Sends <= Budget(attempt) + adms[Len(adms)].sends
    BY <1>0, Zenon DEF SendsBounded, Attempting
  <2> QED
    BY <1>0, <1>1, <1>2, <2>1, <2>2 DEF SendsBounded, Attempting
<1>6. UsesBounded'
  BY <1>0, Zenon DEF UsesBounded, Uses, Pool, Again, Attempting, history
<1>7. AttemptsAreKeys'
  BY <1>0, Zenon DEF AttemptsAreKeys, KeysOf, Attempting, history
<1> QED
  BY <1>4, <1>5, <1>6, <1>7, Zenon DEF FailoverInv

LEMMA HandleKeepsFailover ==
  ASSUME RequestInv, FailoverInv, pc \in {"try", "sent"}, NEW o, Blames(o),
         o.action = "skip" => pc = "try", Handle(o)
  PROVE  FailoverInv'
<1>0. Len(adms) > 0 /\ adms \in Seq(Admissions)
  BY Zenon DEF RequestInv, RequestTypeOK, OneOpenAdmission, Attempting
<1>1. CASE o.ok /\ Settle
  <2>1. SameSends(adms, LastObserved)
    BY <1>0, ObservedSame, Zenon DEF LastObserved
  <2>2. adms' = [i \in DOMAIN LastObserved |-> Recorded(LastObserved[i])]
    BY <1>0, <1>1, Zenon DEF Settle, LastObserved
  <2>3. LastObserved \in Seq(Admissions)
    BY <2>1, Zenon DEF SameSends
  <2>4. SameSends(LastObserved, adms')
    BY <2>2, <2>3, ObservedSame, Zenon
  <2>5. SameSends(adms, adms')
    BY <2>1, <2>4, SameTransitive, Zenon
  <2> QED
    BY <1>1, <2>5, LeaveKeepsFailover, Zenon DEF Settle, clock
<1>2. CASE MayRetry(o) /\ Retry(o)
  BY <1>2, RetryKeepsFailover, Zenon DEF MayRetry, Retry
<1>3. CASE Move(o)
  <2>1. CASE pc' = "done"
    <3>1. adms' = [i \in DOMAIN adms |-> Recorded(adms[i])] /\ skips' = skips
      BY <1>3, <2>1, Zenon DEF Move, Leave
    <3> QED
      BY <1>3, <2>1, <3>1, MoveOut, Zenon
  <2>2. CASE pc' # "done"
    <3>1. /\ pc' = "pick" /\ adms' = LastObserved
          /\ IF o.action = "skip" THEN allow \ {cur.key} # {} /\ skips' = skips + 1
                                  ELSE o.failOver /\ attempt + 1 < attempts /\ skips' = skips
      BY <1>3, <2>2, Zenon DEF Move, Leave
    <3> QED
      BY <1>3, <3>1, MoveOn, Zenon
  <2> QED
    BY <2>1, <2>2, Zenon
<1> QED
  BY <1>1, <1>2, <1>3, Zenon DEF Handle

(* Steps between the attempts that choose, wait or are refused.            *)
LEMMA QuietKeepsFailover ==
  ASSUME FailoverInv, TypeOK', pc \in {"pick", "lastPick", "wait", "admit"},
         pc' \in {"pick", "lastPick", "wait", "admit"}, pc' = "admit" => cur'.key \in Pool,
         UNCHANGED <<attempt, attempts, exhaust, tries, allow, excl, lastResort, history>>
  PROVE  FailoverInv'
<1>0. LoopTypes /\ SendsBounded /\ UsesBounded /\ AttemptsAreKeys
  BY Zenon DEF FailoverInv
<1>1. LoopTypes'
  BY <1>0, Zenon DEF LoopTypes, history
<1>2. SendsBounded'
  BY <1>0, Zenon DEF SendsBounded, Sends, Budget, Attempting, history
<1>3. UsesBounded'
  BY <1>0, Zenon DEF UsesBounded, Uses, Pool, Again, Attempting, history
<1>4. AttemptsAreKeys'
  BY <1>0, Zenon DEF AttemptsAreKeys, KeysOf, Attempting, history
<1> QED
  BY <1>1, <1>2, <1>3, <1>4, Zenon DEF FailoverInv

LEMMA ClockKeepsFailover ==
  ASSUME FailoverInv, TypeOK', UNCHANGED <<pc, control, history>>
  PROVE  FailoverInv'
<1>0. LoopTypes /\ SendsBounded /\ UsesBounded /\ AttemptsAreKeys
  BY Zenon DEF FailoverInv
<1>1. LoopTypes'
  BY <1>0, Zenon DEF LoopTypes, control, history
<1>2. SendsBounded'
  BY <1>0, Zenon DEF SendsBounded, Sends, Budget, Attempting, control, history
<1>3. UsesBounded'
  BY <1>0, Zenon DEF UsesBounded, Uses, Pool, Again, Attempting, control, history
<1>4. AttemptsAreKeys'
  BY <1>0, Zenon DEF AttemptsAreKeys, KeysOf, Attempting, control, history
<1> QED
  BY <1>1, <1>2, <1>3, <1>4, Zenon DEF FailoverInv

LEMMA UsesType ==
  ASSUME RequestInv PROVE \A k : Uses(k) \in Nat
<1> SUFFICES ASSUME NEW k PROVE Uses(k) \in Nat
  BY Zenon
<1>1. IsFiniteSet(DOMAIN adms)
  BY AdmissionsFinite, Zenon DEF RequestInv, RequestTypeOK
<1>2. {i \in DOMAIN adms : adms[i].key = k} \in SUBSET DOMAIN adms
  BY Zenon
<1> QED
  BY <1>1, <1>2, FS_Subset, FS_CardinalityType, Zenon DEF Uses

\* The exclusions are cleared, once.
LEMMA ResortKeepsFailover ==
  ASSUME RequestInv, FailoverInv, LastResort, pc \in {"pick", "lastPick"}
  PROVE  FailoverInv'
<1>0. LoopTypes /\ SendsBounded /\ UsesBounded /\ AttemptsAreKeys
  BY Zenon DEF FailoverInv
<1>1. LoopTypes'
  BY <1>0, Zenon DEF LoopTypes, TypeOK, LastResort, clock, history
<1>2. SendsBounded'
  BY <1>0, Zenon DEF SendsBounded, Sends, Budget, Attempting, LastResort, history
<1>3. UsesBounded'
  <2>1. Again = 0 /\ Again' = 1 /\ pc' = "pick" /\ \A k : Uses(k)' = Uses(k)
    BY Zenon DEF Again, LastResort, MayResort, Uses, history
  <2>2. \A k \in Keys : Uses(k) <= 1
    BY <1>0, <2>1 DEF UsesBounded
  <2>3. Pool' \subseteq Keys
    BY <1>1, Zenon DEF LoopTypes, TypeOK, Pool
  <2>4. \A k \in Keys : Uses(k) \in Nat
    BY UsesType, Zenon
  <2>5. \A k \in Keys : Uses(k)' <= Again' /\ Uses(k)' <= Again' + 1
    BY <2>1, <2>2, <2>4
  <2> QED
    BY <2>1, <2>3, <2>5, Zenon DEF UsesBounded, Attempting
<1>4. AttemptsAreKeys'
  BY <1>0, Zenon DEF AttemptsAreKeys, KeysOf, Attempting, LastResort, history
<1> QED
  BY <1>1, <1>2, <1>3, <1>4, Zenon DEF FailoverInv

\* A key picked is one that has not been used since the last resort.
LEMMA AdmittedKeepsFailover ==
  ASSUME RequestInv, FailoverInv, Admitted
  PROVE  FailoverInv'
<1>0. LoopTypes /\ SendsBounded /\ UsesBounded /\ AttemptsAreKeys /\ adms \in Seq(Admissions) /\ pc = "admit"
  BY Zenon DEF FailoverInv, RequestInv, RequestTypeOK, Admitted
<1> DEFINE a == [key |-> cur.key, rec |-> cur.rec, sends |-> 0, observed |-> 0]
<1>1. a \in Admissions /\ a.key = cur.key /\ a.sends = 0
  BY Zenon DEF RequestInv, RequestTypeOK, Admissions
<1>2. /\ adms' = Append(adms, a) /\ pc' = "try" /\ tries' = 0
      /\ UNCHANGED <<attempt, attempts, exhaust, allow, excl, lastResort, lastFail, cur, clock, skips>>
  BY Zenon DEF Admitted
<1>3. cur.key \in Pool /\ cur.key \in allow /\ cur.key \in Keys
  BY <1>0, Zenon DEF UsesBounded, Pool, LoopTypes, TypeOK
<1> HIDE DEF a
<1>4. adms'[Len(adms')] = a
  BY <1>0, <1>1, <1>2
<1>5. LoopTypes'
  <2>1. 0 \in Nat /\ 0 <= RetryMax
    BY GatewayAssumption
  <2> QED
    BY <1>0, <1>2, <2>1, Zenon DEF LoopTypes, TypeOK, clock
<1>6. SendsBounded'
  <2>1. Sends = Total(adms) /\ Sends' = Total(adms')
    BY Zenon DEF Sends, Total, SendsOf
  <2>2. Total(adms') = Total(adms) + 0 /\ Total(adms) \in Nat
    BY <1>0, <1>1, <1>2, TotalAppend, TotalType, Zenon
  <2>3. Budget(attempt)' = Budget(attempt) /\ Budget(attempt) \in Nat
    <3>1. Budget(attempt) \in Nat
      BY <1>0, BudgetFacts, Zenon
    <3> QED
      BY <1>2, <3>1, Zenon DEF Budget
  <2>4. Sends <= Budget(attempt)
    BY <1>0, Zenon DEF SendsBounded, Attempting
  <2> QED
    BY <1>1, <1>2, <1>4, <2>1, <2>2, <2>3, <2>4 DEF SendsBounded, Attempting
<1>7. \A k : /\ Uses(k)' = Uses(k) + (IF k = cur.key THEN 1 ELSE 0) /\ Uses(k) \in Nat
             /\ Uses(k) = 0 => k \notin KeysOf(adms)
  <2>1. \A k : Uses(k) = Cardinality(UsesOf(adms, k)) /\ Uses(k)' = Cardinality(UsesOf(adms', k))
    BY Zenon DEF Uses, UsesOf
  <2> QED
    BY <1>0, <1>1, <1>2, <2>1, KeysAppend
<1>8. UsesBounded'
  <2>1. Again' = Again /\ Again \in {0, 1} /\ Pool' = Pool /\ cur' = cur /\ allow' = allow
    BY <1>2, Zenon DEF Again, Pool
  <2>2. \A k \in Keys : Uses(k)' <= Again' + 1
    BY <1>0, <1>3, <1>7, <2>1 DEF UsesBounded
  <2>3. \A k \in Pool \ {cur.key} : Uses(k)' <= Again'
    BY <1>0, <1>7, <2>1 DEF UsesBounded
  <2> QED
    BY <1>2, <1>3, <2>1, <2>2, <2>3, Zenon DEF UsesBounded, Attempting
<1>9. AttemptsAreKeys'
  <2> DEFINE U == KeysOf(adms)
  <2>1. KeysOf(adms') = U \cup {cur.key}
    BY <1>0, <1>1, <1>2, KeysAppend, Zenon
  <2>2. IsFiniteSet(U \cap allow) /\ Cardinality(U \cap allow) \in Nat
    BY KeysFinite, Zenon
  <2>3. ASSUME ~lastResort PROVE attempt + 1 <= Cardinality(KeysOf(adms') \cap allow)
    <3>1. attempt \in Nat /\ attempt <= Cardinality(U \cap allow)
      <4>1. attempt \in Nat
        BY <1>0, BudgetFacts, Zenon
      <4> QED
        BY <1>0, <2>2, <2>3, <4>1 DEF AttemptsAreKeys, Attempting
    <3>2. Uses(cur.key) <= 0
      BY <1>0, <1>3, <2>3, Zenon DEF UsesBounded, Again
    <3>3. cur.key \notin U
      BY <1>7, <3>2
    <3>4. KeysOf(adms') \cap allow = (U \cap allow) \cup {cur.key} /\ cur.key \notin U \cap allow
      BY <1>3, <2>1, <3>3, Zenon
    <3>5. Cardinality((U \cap allow) \cup {cur.key}) = Cardinality(U \cap allow) + 1
      BY <2>2, <3>4, FS_AddElement, Zenon
    <3> QED
      BY <2>2, <3>1, <3>4, <3>5
  <2> QED
    BY <1>0, <1>2, <2>3, Zenon DEF AttemptsAreKeys, Attempting
<1> QED
  BY <1>5, <1>6, <1>8, <1>9, Zenon DEF FailoverInv

LEMMA SendKeepsFailover ==
  ASSUME RequestInv, FailoverInv, Send
  PROVE  FailoverInv'
<1>0. /\ LoopTypes /\ SendsBounded /\ UsesBounded /\ AttemptsAreKeys /\ adms \in Seq(Admissions)
      /\ Len(adms) > 0 /\ Len(adms) \in Nat /\ pc = "try" /\ pc' = "sent"
      /\ UNCHANGED <<control, clock, skips>>
  BY DEF FailoverInv, RequestInv, RequestTypeOK, OneOpenAdmission, Attempting, Send
<1> DEFINE n == Len(adms)
           a == [adms[n] EXCEPT !.sends = @ + 1]
<1>1. adms[n] \in Admissions
  BY <1>0
<1>2. a \in Admissions /\ a.key = adms[n].key /\ a.sends = adms[n].sends + 1 /\ adms[n].sends \in Nat
  BY <1>1 DEF Admissions
<1>3. adms' = [adms EXCEPT ![n] = a]
  BY Zenon DEF Send
<1> HIDE DEF a
<1>4. /\ adms' \in Seq(Admissions) /\ Len(adms') = n /\ adms'[n] = a
      /\ \A i \in 1..n : i # n => adms'[i] = adms[i]
  BY <1>0, <1>2, <1>3
<1>5. Total(adms') = Total(adms) + 1 /\ Total(adms) \in Nat
  BY <1>0, <1>2, <1>4, TotalSend, TotalType, Zenon
<1>6. LoopTypes'
  BY <1>0, <1>4, Zenon DEF LoopTypes, TypeOK, control, clock
<1>7. SendsBounded'
  <2>1. Sends = Total(adms) /\ Sends' = Total(adms')
    BY Zenon DEF Sends, Total, SendsOf
  <2>2. Budget(attempt)' = Budget(attempt) /\ Budget(attempt) \in Nat /\ tries \in Nat /\ tries' = tries
    <3>1. Budget(attempt) \in Nat /\ tries \in Nat
      BY <1>0, BudgetFacts, Zenon
    <3> QED
      BY <1>0, <3>1, Zenon DEF Budget, control
  <2>3. Sends <= Budget(attempt) + adms[n].sends /\ adms[n].sends <= tries
    BY <1>0, Zenon DEF SendsBounded, Attempting
  <2>4. adms'[Len(adms')].sends = adms[n].sends + 1
    BY <1>2, <1>4, Zenon
  <2>5. Sends' <= Budget(attempt)' + adms'[Len(adms')].sends /\ adms'[Len(adms')].sends <= tries' + 1
    BY <1>2, <1>5, <2>1, <2>2, <2>3, <2>4
  <2> QED
    BY <1>0, <2>5, Zenon DEF SendsBounded, Attempting
<1>8. KeysOf(adms') = KeysOf(adms) /\ \A k : Uses(k)' = Uses(k)
  <2>1. DOMAIN adms = 1..n /\ DOMAIN adms' = 1..n /\ \A i \in 1..n : adms'[i].key = adms[i].key
    BY <1>0, <1>2, <1>4
  <2> QED
    BY <2>1, Zenon DEF KeysOf, Uses
<1>9. UsesBounded'
  BY <1>0, <1>8, Zenon DEF UsesBounded, Again, Pool, Attempting, control
<1>10. AttemptsAreKeys'
  BY <1>0, <1>8, Zenon DEF AttemptsAreKeys, Attempting, control
<1> QED
  BY <1>6, <1>7, <1>9, <1>10, Zenon DEF FailoverInv

LEMMA BeginKeepsFailover ==
  ASSUME RequestInv, FailoverInv, Reject \/ Begin \/ \E A \in SUBSET Keys : Resolve(A)
  PROVE  FailoverInv'
<1>0. LoopTypes /\ SendsBounded /\ UsesBounded /\ AttemptsAreKeys /\ pc \in {"enter", "resolve"}
  BY Zenon DEF FailoverInv, Reject, Begin, Resolve
<1>1. adms' = adms /\ adms = <<>> /\ attempt' = attempt /\ attempt = 0 /\ skips' = skips /\ skips \in Nat
      /\ lastResort' = lastResort /\ ~lastResort /\ pc' \in {"done", "resolve", "pick"}
      /\ UNCHANGED <<exhaust, tries, excl, lastFail, cur, clock>>
  BY <1>0, Zenon DEF LoopTypes, Reject, Begin, Resolve, control, clock, history
<1>2. Cardinality(Keys) \in Nat /\ FailoverMax \in Nat \ {0} /\ RetryMax \in Nat
  BY GatewayAssumption, FS_CardinalityType, Zenon
<1>3. attempts' \in 0..FailoverMax + Cardinality(Keys) /\ allow' \subseteq Keys
      /\ (pc' = "resolve" => attempts' = 0 /\ allow' = {}) /\ (pc' = "pick" => attempts' > 0)
      /\ (exhaust' /\ Bound /\ allow' # {} => Cardinality(allow') <= attempts')
  <2>1. CASE Reject \/ Begin
    BY <1>0, <1>2, <2>1, Zenon DEF Reject, Begin, LoopTypes, TypeOK, control
  <2>2. ASSUME NEW A \in SUBSET Keys, Resolve(A)
        PROVE  /\ attempts' \in 0..FailoverMax + Cardinality(Keys) /\ allow' \subseteq Keys
               /\ (pc' = "resolve" => attempts' = 0 /\ allow' = {}) /\ (pc' = "pick" => attempts' > 0)
               /\ (exhaust' /\ Bound /\ allow' # {} => Cardinality(allow') <= attempts')
    <3>1. IsFiniteSet(A) /\ Cardinality(A) \in Nat /\ Cardinality(A) <= Cardinality(Keys)
          /\ (A # {} => Cardinality(A) > 0)
      <4>1. IsFiniteSet(A) /\ Cardinality(A) \in Nat /\ Cardinality(A) <= Cardinality(Keys)
        BY GatewayAssumption, FS_Subset, FS_CardinalityType, Zenon
      <4>2. Cardinality(A) = 0 => A = {}
        BY <4>1, FS_EmptySet, Zenon
      <4> QED
        BY <4>1, <4>2
    <3>2. attempts' = (IF exhaust /\ Bound /\ A # {} THEN Cardinality(A) ELSE FailoverMax)
          /\ allow' = A /\ pc' = "pick" /\ exhaust' = exhaust
      BY <2>2, Zenon DEF Resolve, Attempts
    <3> QED
      BY <1>2, <3>1, <3>2
  <2> QED
    BY <2>1, <2>2, Zenon
<1>4. LoopTypes'
  BY <1>0, <1>1, <1>2, <1>3 DEF LoopTypes, TypeOK, clock
<1>5. Sends' = 0 /\ \A n \in Nat : Budget(n)' \in Nat
  <2>1. Sends' = Total(adms')
    BY Zenon DEF Sends, Total, SendsOf
  <2>2. adms' = <<>> /\ adms' \in Seq(Admissions)
    BY <1>1
  <2>3. \A n \in Nat : n * (RetryMax + 1) \in Nat /\ skips * RetryMax \in Nat
    BY <1>1, <1>2
  <2>4. \A n \in Nat : Budget(n)' = n * (RetryMax + 1) + skips * RetryMax
    BY <1>1, Zenon DEF Budget
  <2>5. \A n \in Nat : Budget(n)' \in Nat
    BY <2>3, <2>4
  <2> QED
    BY <2>1, <2>2, <2>5, TotalType, Zenon
<1>6. SendsBounded'
  <2>1. attempt' \in Nat /\ attempts' \in Nat
    BY <1>1, <1>2, <1>3
  <2>2. Sends' <= Budget(attempt)' /\ Sends' <= Budget(attempts)'
    BY <1>5, <2>1
  <2> QED
    BY <1>1, <2>2, Zenon DEF SendsBounded, Attempting
<1>7. \A k : Uses(k)' = 0
  <2>1. \A k : Uses(k)' = Cardinality({i \in DOMAIN adms' : adms'[i].key = k}) /\ DOMAIN adms' = {}
    BY <1>1 DEF Uses
  <2>2. \A k : {i \in DOMAIN adms' : adms'[i].key = k} = {}
    BY <2>1, Zenon
  <2> QED
    BY <2>1, <2>2, FS_EmptySet, Zenon
<1>8. UsesBounded'
  BY <1>1, <1>7 DEF UsesBounded, Again, Attempting
<1>9. AttemptsAreKeys'
  <2>1. KeysOf(adms') \cap allow' = {}
    BY <1>1 DEF KeysOf
  <2>2. Cardinality(KeysOf(adms') \cap allow') = 0
    BY <2>1, FS_EmptySet, Zenon
  <2> QED
    BY <1>1, <1>3, <2>2 DEF AttemptsAreKeys, Attempting
<1> QED
  BY <1>4, <1>6, <1>8, <1>9, Zenon DEF FailoverInv

LEMMA FailoverInitInv == Init => FailoverInv
<1> SUFFICES ASSUME Init PROVE FailoverInv
  BY Zenon
<1>1. Cardinality(Keys) \in Nat /\ FailoverMax \in Nat \ {0} /\ RetryMax \in Nat
  BY GatewayAssumption, FS_CardinalityType, Zenon
<1>2. /\ adms = <<>> /\ attempt = 0 /\ attempts = 0 /\ skips = 0 /\ pc = "enter" /\ ~lastResort
      /\ allow = {} /\ tries = 0
  BY Zenon DEF Init
<1>3. LoopTypes
  <2>1. attempt \in 0..attempts /\ attempts \in 0..FailoverMax + Cardinality(Keys) /\ tries \in Nat
        /\ skips \in Nat /\ tries <= RetryMax
    BY <1>1, <1>2
  <2>2. cur \in [key : Keys \cup {NoKey}, rec : BOOLEAN]
    BY Zenon DEF Init
  <2>3. TypeOK
    BY <2>1, <2>2, Zenon DEF Init, TypeOK
  <2> QED
    BY <1>2, <2>1, <2>3, Zenon DEF LoopTypes
<1>4. SendsBounded
  <2>1. Sends = Total(adms)
    BY Zenon DEF Sends, Total, SendsOf
  <2>2. Sends = 0
    <3>1. adms \in Seq(Admissions)
      BY <1>2
    <3> QED
      BY <1>2, <2>1, <3>1, TotalType, Zenon
  <2>3. Budget(attempt) \in Nat
    BY <1>3, BudgetFacts, Zenon
  <2> QED
    BY <1>2, <2>2, <2>3 DEF SendsBounded, Attempting
<1>5. UsesBounded
  <2>1. \A k : {i \in DOMAIN adms : adms[i].key = k} = {}
    BY <1>2
  <2>2. \A k : Uses(k) = 0
    BY <2>1, FS_EmptySet, Zenon DEF Uses
  <2> QED
    BY <1>2, <2>2 DEF UsesBounded, Again, Attempting
<1>6. AttemptsAreKeys
  <2>1. KeysOf(adms) \cap allow = {}
    BY <1>2, Zenon
  <2>2. Cardinality(KeysOf(adms) \cap allow) = 0
    BY <2>1, FS_EmptySet, Zenon
  <2> QED
    BY <1>2, <2>2 DEF AttemptsAreKeys, Attempting
<1> QED
  BY <1>3, <1>4, <1>5, <1>6, Zenon DEF FailoverInv

LEMMA FailoverStepInv == RequestInv /\ FailoverInv /\ [Next]_vars => FailoverInv'
<1> SUFFICES ASSUME RequestInv, FailoverInv, [Next]_vars PROVE FailoverInv'
  BY Zenon
<1>0. TypeOK /\ adms \in Seq(Admissions)
  BY Zenon DEF FailoverInv, LoopTypes, RequestInv, RequestTypeOK
<1>1. ASSUME Leave(1, 1) \/ Leave(0, 1), UNCHANGED <<control, clock>>, pc \notin {"enter", "done"}
      PROVE  FailoverInv'
  <2>1. SameSends(adms, adms') /\ pc' = "done" /\ skips' = skips
    BY <1>0, <1>1, ObservedSame, Zenon DEF Leave
  <2> QED
    BY <1>1, <2>1, LeaveKeepsFailover, Zenon DEF clock
<1>2. CASE ResolveFails \/ PickFails \/ AdmitFails \/ PauseCancelled
  BY <1>1, <1>2, Zenon DEF ResolveFails, PickFails, AdmitFails, PauseCancelled, Fail
<1>3. CASE Reject \/ Begin \/ \E A \in SUBSET Keys : Resolve(A)
  BY <1>3, BeginKeepsFailover, Zenon
<1>4. ASSUME NEW k \in Keys, NEW rec \in BOOLEAN, PickKey(k, rec) PROVE FailoverInv'
  <2>1. cur' = [key |-> k, rec |-> rec] /\ cur'.key = k /\ k \in Pool
    BY <1>4, Zenon DEF PickKey
  <2>2. TypeOK'
    BY <1>0, <1>4, <2>1 DEF TypeOK, PickKey, clock
  <2> QED
    BY <1>4, <2>1, <2>2, QuietKeepsFailover, Zenon DEF PickKey
<1>5. CASE StartWait
  <2>1. TypeOK'
    BY <1>0, <1>5, Zenon DEF TypeOK, StartWait, control
  <2> QED
    BY <1>5, <2>1, QuietKeepsFailover, Zenon DEF StartWait, control
<1>6. CASE GateChanged \/ WaitEnds
  <2>1. TypeOK'
    BY <1>0, <1>6, Zenon DEF TypeOK, GateChanged, WaitEnds, control, clock
  <2> QED
    BY <1>6, <2>1, QuietKeepsFailover, Zenon DEF GateChanged, WaitEnds, control
<1>7. CASE NoRoute
  <2>1. CASE LastResort
    BY <1>7, <2>1, ResortKeepsFailover, Zenon DEF NoRoute
  <2> QED
    BY <1>1, <1>7, <2>1, Zenon DEF NoRoute, Fail
<1>8. CASE Admitted
  BY <1>8, AdmittedKeepsFailover, Zenon
<1>9. CASE Refused
  <2>1. CASE pc' = "pick" /\ UNCHANGED <<control, clock, history>>
    <3>1. TypeOK'
      BY <1>0, <2>1, Zenon DEF TypeOK, control, clock
    <3> QED
      BY <1>9, <2>1, <3>1, QuietKeepsFailover, Zenon DEF Refused, control
  <2> QED
    BY <1>1, <1>9, <2>1, Zenon DEF Refused, Fail
<1>10. CASE Send
  BY <1>10, SendKeepsFailover, Zenon
<1>11. ASSUME NEW o, NotSent(o) PROVE FailoverInv'
  BY <1>11, OutcomeBlames, HandleKeepsFailover, Zenon DEF NotSent
<1>12. ASSUME NEW o, Reply(o) PROVE FailoverInv'
  BY <1>12, OutcomeBlames, HandleKeepsFailover, Zenon DEF Reply
<1>13. CASE Resume
  BY <1>13, RetryKeepsFailover, Zenon DEF Resume
<1>14. CASE TimePasses \/ WaitExpires \/ HangUp
  <2>1. TypeOK'
    BY <1>0, <1>14, Zenon DEF TypeOK, TimePasses, WaitExpires, HangUp, control
  <2> QED
    BY <1>14, <2>1, ClockKeepsFailover, Zenon DEF TimePasses, WaitExpires, HangUp
<1>15. CASE UNCHANGED vars
  <2>1. TypeOK'
    BY <1>0, <1>15 DEF TypeOK, vars, control, clock
  <2> QED
    BY <1>15, <2>1, ClockKeepsFailover, Zenon DEF vars
<1> QED
  BY <1>2, <1>3, <1>4, <1>5, <1>6, <1>7, <1>8, <1>9, <1>10, <1>11, <1>12, <1>13, <1>14, <1>15, Zenon
     DEF Next, Handler, Finished

LEMMA FailoverInvExact == FailoverInv /\ RequestInv => FailoverExact
<1> SUFFICES ASSUME FailoverInv, RequestInv PROVE FailoverExact
  BY Zenon
<1>0. LoopTypes /\ SendsBounded /\ UsesBounded /\ AttemptsAreKeys /\ adms \in Seq(Admissions)
  BY Zenon DEF FailoverInv, RequestInv, RequestTypeOK
<1>1. Sends <= Budget(attempts)
  <2>1. CASE pc = "done"
    BY <1>0, <2>1, Zenon DEF SendsBounded
  <2>2. CASE pc # "done"
    <3>1. /\ Budget(attempt) \in Nat /\ Budget(attempts) \in Nat /\ Budget(attempt) <= Budget(attempts)
          /\ Budget(attempt + 1) = Budget(attempt) + RetryMax + 1
          /\ attempt \in Nat /\ RetryMax \in Nat /\ tries \in Nat /\ tries <= RetryMax
      BY <1>0, BudgetFacts, Zenon
    <3>2. Sends \in Nat
      <4>1. Sends = Total(adms)
        BY Zenon DEF Sends, Total, SendsOf
      <4> QED
        BY <1>0, <4>1, TotalType, Zenon
    <3>3. CASE pc \in Attempting
      <4>1. Len(adms) > 0 /\ adms[Len(adms)] \in Admissions
        BY <1>0, <3>3 DEF RequestInv, OneOpenAdmission
      <4>2. adms[Len(adms)].sends \in Nat
        BY <4>1, Zenon DEF Admissions
      <4>3. Sends <= Budget(attempt) + adms[Len(adms)].sends /\ adms[Len(adms)].sends <= tries + 1
        BY <1>0, <3>1, <3>3, <4>2 DEF SendsBounded, Attempting
      <4>4. Budget(attempt + 1) <= Budget(attempts)
        <5>1. attempt + 1 \in Nat /\ attempts \in Nat /\ attempt + 1 <= attempts
          <6>1. attempts \in Nat /\ attempt + 1 <= attempts
            BY <1>0, <3>3, BudgetFacts, Zenon DEF Attempting
          <6> QED
            BY <3>1, <6>1
        <5> QED
          BY <1>0, <5>1, BudgetFacts, Zenon
      <4> QED
        BY <3>1, <3>2, <4>2, <4>3, <4>4
    <3>4. CASE pc \notin Attempting
      <4>1. Sends <= Budget(attempt)
        BY <1>0, <2>2, <3>4, Zenon DEF SendsBounded
      <4> QED
        BY <3>1, <3>2, <4>1
    <3> QED
      BY <3>3, <3>4, Zenon
  <2> QED
    BY <2>1, <2>2, Zenon
<1>2. \A k \in Keys : Uses(k) <= (IF lastResort THEN 2 ELSE 1)
  BY <1>0 DEF UsesBounded, Again
<1>3. ASSUME pc = "done", exhaust, Bound, ~lastResort, attempt = attempts
      PROVE  allow \subseteq KeysOf(adms)
  <2> DEFINE U == KeysOf(adms)
  <2>1. CASE allow = {}
    BY <2>1, Zenon
  <2>2. CASE allow # {}
    <3>1. /\ IsFiniteSet(allow) /\ Cardinality(allow) \in Nat
          /\ Cardinality(U \cap allow) \in Nat /\ attempt \in Nat
      BY <1>0, KeysFinite, BudgetFacts, Zenon
    <3>2. attempt <= Cardinality(U \cap allow) /\ Cardinality(allow) <= attempts
      BY <1>0, <1>3, <2>2, <3>1 DEF AttemptsAreKeys, Attempting
    <3>3. U \cap allow \in SUBSET allow
      BY Zenon
    <3>4. Cardinality(U \cap allow) <= Cardinality(allow)
      BY <3>1, <3>3, FS_Subset, Zenon
    <3>5. Cardinality(allow) = Cardinality(U \cap allow)
      BY <1>3, <3>1, <3>2, <3>4
    <3>6. allow = U \cap allow
      BY <3>1, <3>3, <3>5, FS_Subset, Zenon
    <3> QED
      BY <3>6, Zenon
  <2> QED
    BY <2>1, <2>2, Zenon
<1>4. TypeOK
  BY <1>0, Zenon DEF LoopTypes
<1> QED
  BY <1>1, <1>2, <1>3, <1>4, Zenon DEF FailoverExact, Budget, KeysOf

(* However often attempts are handed back, the upstreams see no more sends *)
(* than the settings allow, no key is used more than once, or twice after  *)
(* the last resort, and with FailoverExhaustPool no allowed key is left    *)
(* out: for any keys, attempts and retries (the loop of proxy).            *)
THEOREM FailoverIsExact == GatewaySpec => []FailoverExact
<1>1. Init => RequestInv /\ FailoverInv
  BY RequestInitInv, FailoverInitInv, Zenon
<1>2. RequestInv /\ FailoverInv /\ [Next]_vars => RequestInv' /\ FailoverInv'
  BY RequestStepInv, FailoverStepInv, Zenon
<1> QED
  BY <1>1, <1>2, FailoverInvExact, PTL DEF GatewaySpec
-----------------------------------------------------------------------------
(* Proofs about the circuit's windows for any log of events and any cap.   *)

(* A log without its first k times.                                        *)
From(s, k) == SubSeq(s, k + 1, Len(s))

LEMMA FromFacts ==
  ASSUME NEW s \in Seq(Nat), NEW k \in 0..Len(s)
  PROVE  /\ From(s, k) \in Seq(Nat) /\ Len(From(s, k)) = Len(s) - k
         /\ \A i \in 1..(Len(s) - k) : From(s, k)[i] = s[k + i]
<1>1. Len(s) \in Nat /\ k \in Nat /\ k <= Len(s) /\ \A i \in (k + 1)..Len(s) : s[i] \in Nat
  OBVIOUS
<1>2. /\ From(s, k) \in Seq(Nat)
      /\ Len(From(s, k)) = IF k + 1 <= Len(s) THEN Len(s) - (k + 1) + 1 ELSE 0
      /\ \A i \in 1..(Len(s) - (k + 1) + 1) : From(s, k)[i] = s[k + 1 + i - 1]
  BY <1>1, Slices DEF From
<1> QED
  BY <1>1, <1>2

LEMMA FromFrom ==
  ASSUME NEW s \in Seq(Nat), NEW j \in 0..Len(s), NEW k \in 0..(Len(s) - j)
  PROVE  From(From(s, j), k) = From(s, j + k)
<1>1. /\ From(s, j) \in Seq(Nat) /\ Len(From(s, j)) = Len(s) - j
      /\ \A i \in 1..(Len(s) - j) : From(s, j)[i] = s[j + i]
  BY FromFacts, Zenon
<1>2. /\ From(From(s, j), k) \in Seq(Nat) /\ Len(From(From(s, j), k)) = Len(s) - j - k
      /\ \A i \in 1..(Len(s) - j - k) : From(From(s, j), k)[i] = From(s, j)[k + i]
  <2> DEFINE t == From(s, j)
  <2>1. t \in Seq(Nat) /\ k \in 0..Len(t) /\ Len(t) - k = Len(s) - j - k
    BY <1>1, Zenon
  <2> HIDE DEF t
  <2>2. /\ From(t, k) \in Seq(Nat) /\ Len(From(t, k)) = Len(t) - k
        /\ \A i \in 1..(Len(t) - k) : From(t, k)[i] = t[k + i]
    BY <2>1, FromFacts, Zenon
  <2> QED
    BY <2>1, <2>2, Zenon DEF t
<1>3. /\ From(s, j + k) \in Seq(Nat) /\ Len(From(s, j + k)) = Len(s) - (j + k)
      /\ \A i \in 1..(Len(s) - (j + k)) : From(s, j + k)[i] = s[j + k + i]
  <2>1. j + k \in 0..Len(s)
    OBVIOUS
  <2> QED
    BY <2>1, FromFacts, Zenon
<1>4. Len(s) - j - k = Len(s) - (j + k)
  OBVIOUS
<1>5. ASSUME NEW i \in 1..(Len(s) - (j + k)) PROVE From(From(s, j), k)[i] = From(s, j + k)[i]
  <2>1. k + i \in 1..(Len(s) - j) /\ j + (k + i) = j + k + i
    OBVIOUS
  <2> QED
    BY <1>1, <1>2, <1>3, <1>4, <2>1, Zenon
<1> QED
  BY <1>2, <1>3, <1>4, <1>5, SameSeq, Zenon

LEMMA FromConcat ==
  ASSUME NEW s \in Seq(Nat), NEW x \in Seq(Nat), NEW k \in 0..Len(s)
  PROVE  From(s, k) \o x = From(s \o x, k)
<1>1. Len(s) \in Nat /\ Len(x) \in Nat /\ k \in Nat /\ k <= Len(s)
  OBVIOUS
<1>2. /\ From(s, k) \in Seq(Nat) /\ Len(From(s, k)) = Len(s) - k
      /\ \A i \in 1..(Len(s) - k) : From(s, k)[i] = s[k + i]
  BY FromFacts, Zenon
<1>3. /\ s \o x \in Seq(Nat) /\ Len(s \o x) = Len(s) + Len(x)
      /\ \A i \in 1..(Len(s) + Len(x)) : (s \o x)[i] = IF i <= Len(s) THEN s[i] ELSE x[i - Len(s)]
  BY Concats, Zenon
<1>4. /\ From(s \o x, k) \in Seq(Nat) /\ Len(From(s \o x, k)) = Len(s) + Len(x) - k
      /\ \A i \in 1..(Len(s) + Len(x) - k) : From(s \o x, k)[i] = (s \o x)[k + i]
  <2> DEFINE t == s \o x
  <2>1. t \in Seq(Nat) /\ k \in 0..Len(t) /\ Len(t) - k = Len(s) + Len(x) - k
    BY <1>1, <1>3
  <2> HIDE DEF t
  <2>2. /\ From(t, k) \in Seq(Nat) /\ Len(From(t, k)) = Len(t) - k
        /\ \A i \in 1..(Len(t) - k) : From(t, k)[i] = t[k + i]
    BY <2>1, FromFacts, Zenon
  <2> QED
    BY <2>1, <2>2, Zenon DEF t
<1>5. /\ From(s, k) \o x \in Seq(Nat) /\ Len(From(s, k) \o x) = Len(s) - k + Len(x)
      /\ \A i \in 1..(Len(s) - k + Len(x)) :
           (From(s, k) \o x)[i] = IF i <= Len(s) - k THEN From(s, k)[i] ELSE x[i - (Len(s) - k)]
  <2> DEFINE t == From(s, k)
  <2>1. t \in Seq(Nat) /\ Len(t) = Len(s) - k
    BY <1>2, Zenon
  <2> HIDE DEF t
  <2>2. /\ t \o x \in Seq(Nat) /\ Len(t \o x) = Len(t) + Len(x)
        /\ \A i \in 1..(Len(t) + Len(x)) : (t \o x)[i] = IF i <= Len(t) THEN t[i] ELSE x[i - Len(t)]
    BY <2>1, Concats, Zenon
  <2> QED
    BY <2>1, <2>2, Zenon DEF t
<1>6. ASSUME NEW i \in 1..(Len(s) - k + Len(x)) PROVE (From(s, k) \o x)[i] = From(s \o x, k)[i]
  <2>1. /\ i \in 1..(Len(s) + Len(x) - k) /\ k + i \in 1..(Len(s) + Len(x))
        /\ (i <= Len(s) - k <=> k + i <= Len(s)) /\ k + i - Len(s) = i - (Len(s) - k)
        /\ i <= Len(s) - k => i \in 1..(Len(s) - k)
    BY <1>1
  <2>2. From(s \o x, k)[i] = (s \o x)[k + i]
    BY <1>4, <2>1, Zenon
  <2>3. CASE i <= Len(s) - k
    <3>1. (From(s, k) \o x)[i] = s[k + i]
      BY <1>2, <1>5, <2>1, <2>3, Zenon
    <3>2. (s \o x)[k + i] = s[k + i]
      BY <1>3, <2>1, <2>3, Zenon
    <3> QED
      BY <2>2, <3>1, <3>2, Zenon
  <2>4. CASE ~(i <= Len(s) - k)
    <3>1. (From(s, k) \o x)[i] = x[i - (Len(s) - k)]
      BY <1>5, <2>4, Zenon
    <3>2. (s \o x)[k + i] = x[k + i - Len(s)]
      <4>1. k + i \in 1..(Len(s) + Len(x)) /\ ~(k + i <= Len(s))
        BY <2>1, <2>4, Zenon
      <4> QED
        BY <1>3, <4>1
    <3> QED
      BY <2>1, <2>2, <3>1, <3>2, Zenon
  <2> QED
    BY <2>3, <2>4, Zenon
<1>7. Len(s) - k + Len(x) = Len(s) + Len(x) - k
  BY <1>1
<1> QED
  BY <1>4, <1>5, <1>6, <1>7, SameSeq, Zenon

(* The first e times of a log, and no others, are at or before c.          *)
Splits(s, c, e) == e \in 0..Len(s) /\ \A i \in 1..Len(s) : s[i] <= c <=> i <= e

Sorted(s) == \A i, j \in 1..Len(s) : i <= j => s[i] <= s[j]

LEMMA SortedSplits ==
  ASSUME NEW s \in Seq(Nat), Sorted(s), NEW c \in Int
  PROVE  \E e : Splits(s, c, e)
<1> DEFINE T == {i \in 1..Len(s) : ~(s[i] <= c)}
<1>1. CASE T = {}
  <2>1. Len(s) \in 0..Len(s) /\ \A i \in 1..Len(s) : i <= Len(s)
    OBVIOUS
  <2>2. Splits(s, c, Len(s))
    BY <1>1, <2>1, Zenon DEF Splits
  <2> QED
    BY <2>2, Zenon
<1>2. CASE T # {}
  <2>1. PICK m \in T : \A n \in T : m <= n
    <3>1. T \subseteq Nat
      OBVIOUS
    <3> QED
      BY <1>2, <3>1, LeastElement, Zenon
  <2>2. m \in 1..Len(s) /\ m - 1 \in 0..Len(s) /\ \A i \in 1..Len(s) : i <= m - 1 <=> ~(m <= i)
    BY <2>1
  <2>3. ASSUME NEW i \in 1..Len(s) PROVE s[i] <= c <=> ~(m <= i)
    <3>1. ASSUME m <= i PROVE ~(s[i] <= c)
      <4>1. s[m] <= s[i] /\ ~(s[m] <= c)
        BY <2>1, <2>2, <3>1, Zenon DEF Sorted
      <4>2. s[m] \in Nat /\ s[i] \in Nat
        BY <2>2
      <4> QED
        BY <4>1, <4>2
    <3>2. ASSUME ~(m <= i) PROVE s[i] <= c
      BY <2>1, <3>2, Zenon
    <3> QED
      BY <3>1, <3>2, Zenon
  <2>4. Splits(s, c, m - 1)
    BY <2>2, <2>3, Zenon DEF Splits
  <2> QED
    BY <2>4, Zenon
<1> QED
  BY <1>1, <1>2, Zenon

LEMMA AgedSplits ==
  ASSUME NEW s \in Seq(Nat), NEW c \in Int, NEW e, Splits(s, c, e)
  PROVE  Recent(s, c) = From(s, e)
<1>1. e \in Nat /\ e <= Len(s) /\ DOMAIN s = 1..Len(s) /\ \A i \in 1..Len(s) : s[i] <= c <=> i <= e
  BY DEF Splits
<1>2. {i \in DOMAIN s : s[i] <= c} = 1..e
  BY <1>1
<1>3. Cardinality(1..e) = e
  BY <1>1, FS_Interval
<1> QED
  BY <1>2, <1>3, Zenon DEF Recent, Aged, From

LEMMA SplitFrom ==
  ASSUME NEW s \in Seq(Nat), NEW c \in Int, NEW e, Splits(s, c, e), NEW k \in 0..Len(s)
  PROVE  Splits(From(s, k), c, MaxOf(e - k, 0))
<1>1. e \in 0..Len(s) /\ \A i \in 1..Len(s) : s[i] <= c <=> i <= e
  BY Zenon DEF Splits
<1>2. /\ Len(From(s, k)) = Len(s) - k
      /\ \A i \in 1..(Len(s) - k) : From(s, k)[i] = s[k + i]
  BY FromFacts, Zenon
<1>3. MaxOf(e - k, 0) \in 0..(Len(s) - k) /\ \A i \in 1..(Len(s) - k) : k + i <= e <=> i <= MaxOf(e - k, 0)
  BY <1>1 DEF MaxOf
<1>4. \A i \in 1..(Len(s) - k) : k + i \in 1..Len(s)
  OBVIOUS
<1> QED
  BY <1>1, <1>2, <1>3, <1>4, Zenon DEF Splits

LEMMA SplitConcat ==
  ASSUME NEW s \in Seq(Nat), NEW x \in Seq(Nat), NEW c \in Int, NEW e, Splits(s, c, e),
         \A i \in 1..Len(x) : x[i] > c
  PROVE  Splits(s \o x, c, e)
<1>1. e \in 0..Len(s) /\ \A i \in 1..Len(s) : s[i] <= c <=> i <= e
  BY Zenon DEF Splits
<1>2. /\ Len(s \o x) = Len(s) + Len(x)
      /\ \A i \in 1..(Len(s) + Len(x)) : (s \o x)[i] = IF i <= Len(s) THEN s[i] ELSE x[i - Len(s)]
  BY Concats, Zenon
<1>3. e \in 0..(Len(s) + Len(x))
  BY <1>1
<1>4. ASSUME NEW i \in 1..(Len(s) + Len(x)) PROVE (s \o x)[i] <= c <=> i <= e
  <2>1. CASE i <= Len(s)
    <3>1. i \in 1..Len(s)
      BY <2>1
    <3> QED
      BY <1>1, <1>2, <2>1, <3>1, Zenon
  <2>2. CASE ~(i <= Len(s))
    <3>1. i - Len(s) \in 1..Len(x) /\ ~(i <= e)
      BY <1>1, <2>2
    <3>2. x[i - Len(s)] > c /\ x[i - Len(s)] \in Nat
      BY <3>1
    <3>3. (s \o x)[i] = x[i - Len(s)]
      BY <1>2, <2>2, Zenon
    <3> QED
      BY <3>1, <3>2, <3>3
  <2> QED
    BY <2>1, <2>2, Zenon
<1> QED
  BY <1>2, <1>3, <1>4, Zenon DEF Splits

LEMMA CappedFrom ==
  ASSUME NEW s \in Seq(Nat), NEW cap \in Nat
  PROVE  /\ MaxOf(Len(s) - cap, 0) \in 0..Len(s)
         /\ Capped(s, cap) = From(s, MaxOf(Len(s) - cap, 0))
         /\ LastOf(s, cap) = Capped(s, cap)
<1>1. Len(s) \in Nat /\ MaxOf(Len(s) - cap, 0) \in 0..Len(s)
  BY DEF MaxOf
<1>2. CASE Len(s) > cap
  <2>1. MaxOf(Len(s) - cap, 0) = Len(s) - cap
    BY <1>1, <1>2 DEF MaxOf
  <2> QED
    BY <1>1, <1>2, <2>1, Zenon DEF Capped, From, LastOf
<1>3. CASE ~(Len(s) > cap)
  <2>1. MaxOf(Len(s) - cap, 0) = 0 /\ 0 + 1 = 1
    BY <1>1, <1>3 DEF MaxOf
  <2>2. SubSeq(s, 1, Len(s)) = s
    BY WholeSlice, Zenon
  <2> QED
    BY <1>1, <1>3, <2>1, <2>2, Zenon DEF Capped, From, LastOf
<1> QED
  BY <1>2, <1>3, Zenon

(* What a filter keeps of a log in clock order.                            *)
LEMMA KeptSplit ==
  ASSUME NEW s \in Seq(Nat), NEW c \in Int, NEW e, Splits(s, c, e)
  PROVE  Kept(s, {t \in Nat : t > c}) = From(s, e)
<1> DEFINE K == {t \in Nat : t > c}
<1>1. /\ e \in Nat /\ e <= Len(s) /\ Len(s) \in Nat
      /\ \A i \in 1..Len(s) : s[i] \in Nat /\ (s[i] \in K <=> ~(i <= e))
  BY DEF Splits
<1>2. PICK F : KeptUpTo(F, s, K) /\ Kept(s, K) = F[Len(s)]
  BY KeptRounds, Zenon
<1> HIDE DEF K
<1> DEFINE S == {m \in Nat : m <= Len(s) => F[m] = SubSeq(s, e + 1, m)}
<1>3. 0 \in S
  <2>1. F[0] = <<>>
    BY <1>2, Zenon DEF KeptUpTo
  <2>2. SubSeq(s, e + 1, 0) = <<>>
    BY <1>1, EmptySlice
  <2> QED
    BY <2>1, <2>2, Zenon
<1>4. ASSUME NEW m \in Nat, m \in S PROVE m + 1 \in S
  <2> SUFFICES ASSUME m + 1 <= Len(s) PROVE F[m + 1] = SubSeq(s, e + 1, m + 1)
    OBVIOUS
  <2>1. m + 1 \in 1..Len(s) /\ (m + 1) - 1 = m /\ m <= Len(s)
    BY <1>1
  <2>2. F[m] = SubSeq(s, e + 1, m)
    BY <1>4, <2>1, Zenon
  <2>3. F[m + 1] = IF s[m + 1] \in K THEN Append(F[m], s[m + 1]) ELSE F[m]
    BY <1>2, <2>1, Zenon DEF KeptUpTo
  <2>4. CASE m + 1 <= e
    <3>1. SubSeq(s, e + 1, m) = <<>> /\ SubSeq(s, e + 1, m + 1) = <<>>
      BY <1>1, <2>4, EmptySlice
    <3> QED
      BY <1>1, <2>1, <2>2, <2>3, <2>4, <3>1, Zenon
  <2>5. CASE ~(m + 1 <= e)
    <3>1. e + 1 \in 1..Len(s) /\ m + 1 \in (e + 1)..Len(s)
      BY <1>1, <2>1, <2>5
    <3>2. SubSeq(s, e + 1, m + 1) = SubSeq(s, e + 1, m) \o <<s[m + 1]>>
      BY <2>1, <3>1, SliceGrows, Zenon
    <3>3. SubSeq(s, e + 1, m) \in Seq(Nat)
      <4>1. \A i \in (e + 1)..m : s[i] \in Nat
        BY <1>1, <2>1
      <4> QED
        BY <1>1, <4>1, Slices
    <3>4. \A t \in Seq(Nat) : \A y : t \o <<y>> = Append(t, y)
      OBVIOUS
    <3> QED
      BY <1>1, <2>1, <2>2, <2>3, <2>5, <3>2, <3>3, <3>4, Zenon
  <2> QED
    BY <2>4, <2>5, Zenon
<1>5. Len(s) \in S
  <2> HIDE DEF S
  <2> QED
    BY <1>1, <1>3, <1>4, Induct, Zenon
<1>6. F[Len(s)] = SubSeq(s, e + 1, Len(s))
  BY <1>1, <1>5
<1> QED
  BY <1>2, <1>6, Zenon DEF From, K

(* The window of a log: its times after c, up to the cap.                  *)
Retained(s, c, cap) == Capped(Recent(s, c), cap)

After(x, d) == \A i \in 1..Len(x) : x[i] > d

Extended(s, x, c, d, cap) ==
  LET r == Recent(Retained(s, c, cap), d)
  IN  /\ r \in Seq(Nat)
      /\ Recent(r \o x, d) = r \o x
      /\ Capped(r \o x, cap) = Retained(s \o x, d, cap)

(* A window that has dropped what aged out before and what the cap took    *)
(* becomes, with the times x added, that of the whole log                  *)
(* (trackTimestamp).                                                       *)
LEMMA HeldStep ==
  ASSUME NEW s \in Seq(Nat), Sorted(s), NEW x \in Seq(Nat), NEW c \in Int, NEW d \in Int, c <= d,
         NEW cap \in Nat, After(x, d)
  PROVE  Extended(s, x, c, d, cap)
<1>0. \A i \in 1..Len(x) : x[i] > d
  BY Zenon DEF After
<1> DEFINE n == Len(s)
           w == Retained(s, c, cap)
           r == Recent(w, d)
<1>1. n \in Nat /\ Len(x) \in Nat
  OBVIOUS
<1>2. PICK e : Splits(s, c, e)
  BY SortedSplits, Zenon
<1>3. PICK g : Splits(s, d, g)
  BY SortedSplits, Zenon
<1>4. e \in 0..n /\ g \in 0..n /\ e <= g
  <2>1. e \in 0..n /\ g \in 0..n
    BY <1>2, <1>3, Zenon DEF Splits
  <2>2. ASSUME ~(e <= g) PROVE FALSE
    <3>1. e \in 1..Len(s) /\ e <= e /\ s[e] \in Nat
      BY <2>1, <2>2
    <3>2. s[e] <= c /\ ~(s[e] <= d)
      BY <1>2, <1>3, <2>2, <3>1, Zenon DEF Splits
    <3> QED
      BY <3>1, <3>2
  <2> QED
    BY <2>1, <2>2, Zenon
(* Where the window begins in the log, before and after it ages.           *)
<1> DEFINE k == MaxOf(e, n - cap)
           h == MaxOf(k, g)
<1>5. /\ k \in 0..n /\ h \in 0..n /\ h - k = MaxOf(g - k, 0)
      /\ k - e \in 0..(n - e) /\ k - e = MaxOf(n - e - cap, 0) /\ e + (k - e) = k
      /\ h - k \in 0..(n - k) /\ k + (h - k) = h
  <2> HIDE DEF n
  <2>1. k \in 0..n /\ k - e \in 0..(n - e) /\ e + (k - e) = k
    BY <1>1, <1>4 DEF MaxOf
  <2>2. k - e = MaxOf(n - e - cap, 0)
    BY <1>1, <1>4 DEF MaxOf
  <2> HIDE DEF k
  <2>3. h \in 0..n /\ h - k \in 0..(n - k) /\ k + (h - k) = h /\ h - k = MaxOf(g - k, 0)
    BY <1>1, <1>4, <2>1 DEF MaxOf
  <2> QED
    BY <2>1, <2>2, <2>3, Zenon
<1> HIDE DEF k, h
<1>6. w = From(s, k)
  <2> DEFINE t == From(s, e)
  <2>1. Recent(s, c) = t
    BY <1>2, AgedSplits, Zenon
  <2>2. t \in Seq(Nat) /\ Len(t) = n - e
    BY <1>4, FromFacts, Zenon
  <2>3. From(t, k - e) = From(s, k)
    BY <1>4, <1>5, FromFrom, Zenon
  <2> HIDE DEF t, n
  <2>4. Capped(t, cap) = From(t, k - e)
    BY <1>5, <2>2, CappedFrom, Zenon
  <2> QED
    BY <2>1, <2>3, <2>4, Zenon DEF Retained
<1>7. w \in Seq(Nat) /\ Len(w) = n - k
  BY <1>5, <1>6, FromFacts, Zenon
<1>8. Splits(w, d, h - k)
  BY <1>3, <1>5, <1>6, SplitFrom, Zenon
<1> HIDE DEF w
<1>9. r = From(s, h)
  <2>1. r = From(w, h - k)
    BY <1>7, <1>8, AgedSplits, Zenon
  <2> QED
    BY <1>5, <1>6, <2>1, FromFrom, Zenon
<1>10. r \in Seq(Nat) /\ Len(r) = n - h
  BY <1>5, <1>9, FromFacts, Zenon
<1>11. Splits(r, d, 0)
  <2>1. MaxOf(g - h, 0) = 0
    BY <1>1, <1>4, <1>5 DEF h, MaxOf
  <2> QED
    BY <1>3, <1>5, <1>9, <2>1, SplitFrom, Zenon
<1> HIDE DEF r, n
<1>12. r \o x \in Seq(Nat) /\ Recent(r \o x, d) = r \o x
  <2>1. r \o x \in Seq(Nat)
    BY <1>10, Concats, Zenon
  <2>2. Splits(r \o x, d, 0)
    BY <1>0, <1>10, <1>11, SplitConcat, Zenon
  <2>3. Recent(r \o x, d) = From(r \o x, 0)
    BY <2>1, <2>2, AgedSplits, Zenon
  <2>4. From(r \o x, 0) = r \o x
    <3>1. 0 + 1 = 1
      OBVIOUS
    <3> QED
      BY <2>1, <3>1, WholeSlice, Zenon DEF From
  <2> QED
    BY <2>1, <2>3, <2>4, Zenon
<1>13. Capped(r \o x, cap) = Retained(s \o x, d, cap)
  <2> DEFINE a == s \o x
             j == MaxOf((n + Len(x)) - h - cap, 0)
             i == MaxOf((n + Len(x)) - g - cap, 0)
  <2>1. a \in Seq(Nat) /\ Len(a) = n + Len(x)
    BY Concats, Zenon DEF n
  <2>2. r \o x = From(a, h)
    BY <1>5, <1>9, FromConcat, Zenon DEF n
  <2>3. Splits(a, d, g)
    BY <1>0, <1>3, SplitConcat, Zenon
  <2> HIDE DEF a
  <2>4. Recent(a, d) = From(a, g)
    BY <2>1, <2>3, AgedSplits, Zenon
  <2>5. /\ h \in 0..Len(a) /\ g \in 0..Len(a) /\ j \in 0..(Len(a) - h) /\ i \in 0..(Len(a) - g)
        /\ j = MaxOf(Len(a) - h - cap, 0) /\ i = MaxOf(Len(a) - g - cap, 0)
        /\ h + j = g + i
    <3> DEFINE m == n + Len(x)
    <3>1. m \in Nat /\ n \in Nat /\ n <= m /\ h \in 0..m /\ g \in 0..m /\ k \in Nat
      BY <1>1, <1>4, <1>5
    <3>2. h = g \/ (g <= h /\ h = k /\ (k = e \/ k = n - cap))
      BY <1>1, <1>4, <1>5, Zenon DEF h, k, MaxOf
    <3>3. h = g \/ (g <= h /\ h + cap <= n)
      BY <1>1, <1>4, <1>5, <3>2
    <3> HIDE DEF m
    <3>4. j \in 0..(m - h) /\ i \in 0..(m - g) /\ h + j = g + i
      <4>1. j = MaxOf(m - h - cap, 0) /\ i = MaxOf(m - g - cap, 0)
        BY Zenon DEF m
      <4> QED
        BY <3>1, <3>3, <4>1 DEF MaxOf
    <3> QED
      BY <2>1, <3>1, <3>4, Zenon DEF m
  <2> HIDE DEF i, j
  <2>6. /\ From(a, h) \in Seq(Nat) /\ Len(From(a, h)) = Len(a) - h
        /\ From(a, g) \in Seq(Nat) /\ Len(From(a, g)) = Len(a) - g
    BY <2>1, <2>5, FromFacts, Zenon
  <2>7. Capped(From(a, h), cap) = From(From(a, h), j)
    BY <2>5, <2>6, CappedFrom, Zenon
  <2>8. Capped(From(a, g), cap) = From(From(a, g), i)
    BY <2>5, <2>6, CappedFrom, Zenon
  <2>9. From(From(a, h), j) = From(a, h + j) /\ From(From(a, g), i) = From(a, g + i)
    BY <2>1, <2>5, FromFrom, Zenon
  <2> QED
    BY <2>2, <2>4, <2>5, <2>7, <2>8, <2>9, Zenon DEF Retained, a
<1> QED
  BY <1>10, <1>12, <1>13, Zenon DEF Extended, r, w

(* The inductive invariant: the logs are in clock order, and the windows   *)
(* are those of the logs as of the last attempt.                           *)
InOrder(s) == s \in Seq(Nat) /\ Sorted(s) /\ \A i \in 1..Len(s) : s[i] <= tick

HeldSince(c) ==
  /\ attemptTimes = Retained(attemptLog, c, MaxAttempts) /\ failureTimes = Retained(failureLog, c, MaxFailures)
  /\ attemptLog # <<>> => c = attemptLog[Len(attemptLog)] - WindowSec

WindowsInv ==
  /\ tick \in Nat \ {0} /\ InOrder(attemptLog) /\ InOrder(failureLog)
  /\ \E c \in Int : c <= Cut /\ HeldSince(c)

LEMMA NothingHeld ==
  ASSUME NEW c, NEW cap \in Nat
  PROVE  Retained(<<>>, c, cap) = <<>>
<1>1. Recent(<<>>, c) = <<>>
  <2>1. Len(<<>>) = 0 /\ {i \in DOMAIN <<>> : <<>>[i] <= c} = {}
    OBVIOUS
  <2>2. Aged(<<>>, c) = 0
    BY <2>1, FS_EmptySet, Zenon DEF Aged
  <2>3. SubSeq(<<>>, 0 + 1, 0) = <<>>
    BY EmptySlice
  <2> QED
    BY <2>1, <2>2, <2>3, Zenon DEF Recent
<1>2. ~(Len(<<>>) > cap)
  OBVIOUS
<1> QED
  BY <1>1, <1>2, Zenon DEF Retained, Capped

(* A log in clock order stays so when the present is added.                *)
LEMMA AddNow ==
  ASSUME NEW s, tick \in Nat, InOrder(s), NEW x \in Seq(Nat), \A i \in 1..Len(x) : x[i] = tick
  PROVE  InOrder(s \o x)
<1>1. s \in Seq(Nat) /\ Sorted(s) /\ \A i \in 1..Len(s) : s[i] <= tick
  BY Zenon DEF InOrder
<1>2. /\ s \o x \in Seq(Nat) /\ Len(s \o x) = Len(s) + Len(x)
      /\ \A i \in 1..(Len(s) + Len(x)) : (s \o x)[i] = IF i <= Len(s) THEN s[i] ELSE x[i - Len(s)]
  BY <1>1, Concats, Zenon
<1>3. /\ \A i \in 1..(Len(s) + Len(x)) : i <= Len(s) => i \in 1..Len(s)
      /\ \A i \in 1..(Len(s) + Len(x)) : ~(i <= Len(s)) => i - Len(s) \in 1..Len(x)
      /\ \A i, j \in 1..(Len(s) + Len(x)) : i <= j /\ j <= Len(s) => i <= Len(s)
  BY <1>1
<1>4. ASSUME NEW i \in 1..(Len(s) + Len(x))
      PROVE  (s \o x)[i] <= tick /\ (~(i <= Len(s)) => (s \o x)[i] = tick)
  <2>1. CASE i <= Len(s)
    BY <1>1, <1>2, <1>3, <2>1, Zenon
  <2>2. CASE ~(i <= Len(s))
    <3>1. (s \o x)[i] = tick
      BY <1>2, <1>3, <2>2, Zenon
    <3> QED
      BY <3>1
  <2> QED
    BY <2>1, <2>2, Zenon
<1>5. ASSUME NEW i \in 1..(Len(s) + Len(x)), NEW j \in 1..(Len(s) + Len(x)), i <= j
      PROVE  (s \o x)[i] <= (s \o x)[j]
  <2>1. CASE j <= Len(s)
    <3>1. i \in 1..Len(s) /\ j \in 1..Len(s) /\ i <= Len(s)
      BY <1>3, <1>5, <2>1, Zenon
    <3>2. s[i] <= s[j] /\ (s \o x)[i] = s[i] /\ (s \o x)[j] = s[j]
      BY <1>1, <1>2, <1>5, <2>1, <3>1, Zenon DEF Sorted
    <3> QED
      BY <3>2, Zenon
  <2>2. CASE ~(j <= Len(s))
    BY <1>4, <2>2, Zenon
  <2> QED
    BY <2>1, <2>2, Zenon
<1> QED
  BY <1>2, <1>4, <1>5, Zenon DEF InOrder, Sorted

LEMMA WindowsStart == MathInit => WindowsInv
<1> SUFFICES ASSUME MathInit PROVE WindowsInv
  BY Zenon
<1>1. /\ tick = 1 /\ attemptLog = <<>> /\ failureLog = <<>> /\ attemptTimes = <<>> /\ failureTimes = <<>>
      /\ WindowSec \in Nat /\ MaxAttempts \in Nat /\ MaxFailures \in Nat
  BY SettingsAssumption, Zenon DEF SettingsAssumption, MathInit
<1>2. InOrder(<<>>) /\ tick \in Nat \ {0}
  BY <1>1 DEF InOrder, Sorted
<1>3. Cut \in Int /\ Cut <= Cut
  BY <1>1 DEF Cut
<1>4. HeldSince(Cut)
  BY <1>1, <1>3, NothingHeld, Zenon DEF HeldSince
<1> QED
  BY <1>1, <1>2, <1>3, <1>4, Zenon DEF WindowsInv

(* What one attempt does to a log and its window.                          *)
LEMMA AttemptWindow ==
  ASSUME WindowsInv, NEW s, InOrder(s), NEW x \in Seq(Nat), \A i \in 1..Len(x) : x[i] = tick,
         NEW c \in Int, c <= Cut, NEW cap \in Nat
  PROVE  Extended(s, x, c, Cut, cap)
<1>1. tick \in Nat /\ WindowSec \in Nat /\ WindowSec > 0
  BY SettingsAssumption DEF SettingsAssumption, WindowsInv
<1>2. Cut \in Int /\ tick > Cut
  BY <1>1 DEF Cut
<1>3. s \in Seq(Nat) /\ Sorted(s) /\ After(x, Cut)
  BY <1>2, Zenon DEF InOrder, After
<1> QED
  BY <1>2, <1>3, HeldStep, Zenon

LEMMA AttemptKeeps ==
  ASSUME WindowsInv, Attempt, Succeeding \/ \E weight \in {1, FTTWeight} : Failing(weight)
  PROVE  WindowsInv'
<1>1. /\ tick \in Nat \ {0} /\ InOrder(attemptLog) /\ InOrder(failureLog)
      /\ MaxAttempts \in Nat /\ MaxFailures \in Nat /\ Cut \in Int /\ tick' = tick
  BY SettingsAssumption DEF SettingsAssumption, WindowsInv, Cut, Attempt
<1>2. PICK c \in Int : c <= Cut /\ HeldSince(c)
  BY Zenon DEF WindowsInv
<1>3. Cut' = Cut /\ Cut' <= Cut' /\ \A s : InOrder(s) => InOrder(s)'
  BY <1>1 DEF Cut, InOrder
<1> DEFINE this == <<tick>>
<1>4. this \in Seq(Nat) /\ Len(this) = 1 /\ \A i \in 1..Len(this) : this[i] = tick
  BY <1>1
<1>5. InOrder(attemptLog) /\ attemptLog' = attemptLog \o this /\ InOrder(attemptLog')
  <2>1. attemptLog' = attemptLog \o this
    BY <1>1 DEF Attempt, InOrder
  <2> HIDE DEF this
  <2> QED
    BY <1>1, <1>4, <2>1, AddNow, Zenon
<1>6. attemptTimes' = Retained(attemptLog', Cut, MaxAttempts)
  <2> DEFINE r == Recent(attemptTimes, Cut)
  <2>1. r = Recent(Retained(attemptLog, c, MaxAttempts), Cut)
    BY <1>2, Zenon DEF HeldSince
  <2>2. r \in Seq(Nat) /\ Capped(r \o this, MaxAttempts) = Retained(attemptLog', Cut, MaxAttempts)
    <3> HIDE DEF r, this
    <3>1. Extended(attemptLog, this, c, Cut, MaxAttempts)
      BY <1>1, <1>2, <1>4, AttemptWindow, Zenon
    <3> QED
      BY <1>5, <2>1, <3>1, Zenon DEF Extended
  <2>3. attemptTimes' = Capped(Append(r, tick), MaxAttempts)
    BY <1>1, Zenon DEF Attempt, trackTimestamp
  <2> HIDE DEF r
  <2>4. Append(r, tick) = r \o this
    BY <2>2
  <2> QED
    BY <2>2, <2>3, <2>4, Zenon
<1>7. attemptLog'[Len(attemptLog')] = tick
  <2>1. attemptLog \in Seq(Nat) /\ Len(attemptLog') = Len(attemptLog) + 1 /\ attemptLog' = Append(attemptLog, tick)
    BY <1>1 DEF Attempt, InOrder
  <2> QED
    BY <2>1
<1> HIDE DEF this
<1>8. InOrder(failureLog') /\ failureTimes' = Retained(failureLog', Cut, MaxFailures)
  <2>1. CASE Succeeding
    <3>1. failureLog' = <<>> /\ failureTimes' = <<>>
      BY <2>1, Zenon DEF Succeeding
    <3>2. InOrder(<<>>)
      BY <1>1 DEF InOrder, Sorted
    <3> QED
      BY <1>1, <3>1, <3>2, NothingHeld, Zenon
  <2>2. ASSUME NEW weight \in {1, FTTWeight}, Failing(weight)
        PROVE  InOrder(failureLog') /\ failureTimes' = Retained(failureLog', Cut, MaxFailures)
    <3> DEFINE x == [j \in 1..weight |-> tick]
               r == Recent(failureTimes, Cut)
    <3>1. weight \in Nat
      BY SettingsAssumption DEF SettingsAssumption
    <3>2. x \in Seq(Nat) /\ Len(x) = weight /\ \A i \in 1..Len(x) : x[i] = tick
      BY <1>1, <3>1
    <3>3. failureLog' = failureLog \o x
      BY <2>2, Zenon DEF Failing
    <3>4. failureTimes' = Capped(Recent(r \o x, Cut), MaxFailures)
      BY <2>2, Zenon DEF Failing, WithFailure, trackTimestamp
    <3>5. r = Recent(Retained(failureLog, c, MaxFailures), Cut)
      BY <1>2, Zenon DEF HeldSince
    <3> HIDE DEF x, r
    <3>6. InOrder(failureLog')
      BY <1>1, <3>2, <3>3, AddNow, Zenon
    <3>7. Recent(r \o x, Cut) = r \o x /\ Capped(r \o x, MaxFailures) = Retained(failureLog', Cut, MaxFailures)
      <4>1. Extended(failureLog, x, c, Cut, MaxFailures)
        BY <1>1, <1>2, <3>2, AttemptWindow, Zenon
      <4> QED
        BY <3>3, <3>5, <4>1, Zenon DEF Extended
    <3> QED
      BY <3>4, <3>6, <3>7, Zenon
  <2> QED
    BY <2>1, <2>2, Zenon
<1>9. HeldSince(Cut)'
  BY <1>1, <1>3, <1>6, <1>7, <1>8, Zenon DEF HeldSince, Cut
<1> QED
  BY <1>1, <1>3, <1>5, <1>8, <1>9, Zenon DEF WindowsInv, InOrder

LEMMA WindowsStep == WindowsInv /\ [MathNext]_mathVars => WindowsInv'
<1> SUFFICES ASSUME WindowsInv, [MathNext]_mathVars PROVE WindowsInv'
  BY Zenon
<1>1. /\ tick \in Nat \ {0} /\ InOrder(attemptLog) /\ InOrder(failureLog)
      /\ \E c \in Int : c <= Cut /\ HeldSince(c)
  BY Zenon DEF WindowsInv
<1>2. ASSUME UNCHANGED <<attemptLog, failureLog, attemptTimes, failureTimes>>,
             tick' \in Nat \ {0}, tick <= tick'
      PROVE  WindowsInv'
  <2>1. tick \in Nat /\ WindowSec \in Nat
    BY <1>1, SettingsAssumption, Zenon DEF SettingsAssumption
  <2>2. \A t \in Nat : t <= tick => t <= tick'
    BY <1>2, <2>1
  <2>3. \A t \in Int : t <= Cut => t <= Cut'
    <3>1. Cut = tick - WindowSec /\ Cut' = tick' - WindowSec
      BY Zenon DEF Cut
    <3>2. tick' \in Nat /\ tick <= tick'
      BY <1>2, Zenon
    <3>3. ASSUME NEW a \in Nat, NEW b \in Nat, NEW w \in Nat, NEW t \in Int, a <= b, t <= a - w
          PROVE  t <= b - w
      BY <3>3
    <3>4. \A t \in Int : t <= tick - WindowSec => t <= tick' - WindowSec
      BY <2>1, <3>2, <3>3, Zenon
    <3> QED
      BY <3>1, <3>4, Zenon
  <2>4. InOrder(attemptLog)' /\ InOrder(failureLog)'
    <3>1. ASSUME NEW s, InOrder(s)
          PROVE  s \in Seq(Nat) /\ Sorted(s) /\ \A i \in 1..Len(s) : s[i] <= tick'
      <4>1. s \in Seq(Nat) /\ Sorted(s) /\ \A i \in 1..Len(s) : s[i] <= tick
        BY <3>1, Zenon DEF InOrder
      <4>2. \A i \in 1..Len(s) : s[i] \in Nat
        BY <4>1
      <4> QED
        BY <2>2, <4>1, <4>2, Zenon
    <3> QED
      BY <1>1, <1>2, <3>1, Zenon DEF InOrder
  <2>5. \A c : HeldSince(c) => HeldSince(c)'
    BY <1>2, Zenon DEF HeldSince
  <2> QED
    BY <1>1, <1>2, <2>3, <2>4, <2>5, Zenon DEF WindowsInv
<1>3. CASE Pass
  <2>1. tick' \in Nat \ {0} /\ tick <= tick'
    BY <1>1, <1>3 DEF Pass
  <2> QED
    BY <1>2, <1>3, <2>1, Zenon DEF Pass
<1>4. CASE Succeeding
  BY <1>4, AttemptKeeps, Zenon DEF Succeeding
<1>5. CASE \E w \in {1, FTTWeight} : Failing(w)
  BY <1>5, AttemptKeeps, Zenon DEF Failing
<1>6. tick <= tick
  BY <1>1
<1>7. CASE \E retry \in Retries : Reopen(retry)
  BY <1>1, <1>2, <1>6, <1>7, Zenon DEF Reopen
<1>8. CASE UNCHANGED mathVars
  BY <1>1, <1>2, <1>6, <1>8, Zenon DEF mathVars
<1> QED
  BY <1>3, <1>4, <1>5, <1>7, <1>8, Zenon DEF MathNext

(* A window of the log is what is left of it by value and by number.       *)
LEMMA HeldIsKept ==
  ASSUME NEW s, InOrder(s), attemptLog \in Seq(Nat), attemptLog # <<>>, NEW c \in Int,
         c = attemptLog[Len(attemptLog)] - WindowSec, NEW cap \in Nat
  PROVE  Retained(s, c, cap) = LastOf(Kept(s, InWindow), cap)
<1>1. s \in Seq(Nat) /\ Sorted(s)
  BY Zenon DEF InOrder
<1>2. PICK e : Splits(s, c, e)
  BY <1>1, SortedSplits, Zenon
<1>3. InWindow = {t \in Nat : t > c}
  BY Zenon DEF InWindow
<1>4. Recent(s, c) = From(s, e)
  BY <1>1, <1>2, AgedSplits, Zenon
<1>5. Kept(s, InWindow) = From(s, e)
  BY <1>1, <1>2, <1>3, KeptSplit, Zenon
<1>6. From(s, e) \in Seq(Nat)
  BY <1>1, <1>2, FromFacts, Zenon DEF Splits
<1>7. Capped(From(s, e), cap) = LastOf(From(s, e), cap)
  BY <1>6, CappedFrom, Zenon DEF LastOf, From
<1> QED
  BY <1>4, <1>5, <1>7, Zenon DEF Retained

(* For every window length and every cap: the windows that trackTimestamp  *)
(* prunes and cuts as the attempts come hold exactly the newest times of   *)
(* the window, as if it were read off a complete log.                      *)
THEOREM WindowsKeepAll == MathSpec => []WindowsExact
<1>1. WindowsInv => WindowsExact
  <2> SUFFICES ASSUME WindowsInv, attemptLog # <<>>
               PROVE  /\ attemptTimes = LastOf(Kept(attemptLog, InWindow), MaxAttempts)
                      /\ failureTimes = LastOf(Kept(failureLog, InWindow), MaxFailures)
    BY Zenon DEF WindowsExact
  <2>1. MaxAttempts \in Nat /\ MaxFailures \in Nat
    BY SettingsAssumption, Zenon DEF SettingsAssumption
  <2>2. InOrder(attemptLog) /\ InOrder(failureLog) /\ attemptLog \in Seq(Nat)
    BY Zenon DEF WindowsInv, InOrder
  <2>3. PICK c \in Int : c <= Cut /\ HeldSince(c)
    BY Zenon DEF WindowsInv
  <2>4. c = attemptLog[Len(attemptLog)] - WindowSec
    BY <2>3, Zenon DEF HeldSince
  <2> QED
    BY <2>1, <2>2, <2>3, <2>4, HeldIsKept, Zenon DEF HeldSince
<1> QED
  BY <1>1, WindowsStart, WindowsStep, PTL DEF MathSpec
=============================================================================
