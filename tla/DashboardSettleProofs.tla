----------------------- MODULE DashboardSettleProofs ------------------------
(***************************************************************************)
(* The settlement of statistics by one instance, for any requests, limits  *)
(* and stops.                                                              *)
(***************************************************************************)
EXTENDS DashboardSettle, InductionLemmas

RequestRows == [completed : Nat, success : Nat, interrupted : Nat, cost : Nat]
AttemptRows == [ended : Nat, consumed : Nat, quality : Nat]
Aggregates == [request : RequestRows, attempt : AttemptRows]
Transactions == {NoTx} \cup [on : {TRUE}, read : Aggregates]
Processes == [st : {"up", "draining", "final", "down"}, q : Seq(Events), batch : Seq(Events),
              tx : Transactions, before : Nat, clean : BOOLEAN]
Handlers == [st : {"new", "idle", "attempt", "deferred", "done", "lost"}, n : 0..MaxAttempts,
             wire : BOOLEAN, sent : Nat, ended : BOOLEAN, business : BOOLEAN]
Facts == [st : {"none", "open", "done"}, success : BOOLEAN, interrupted : BOOLEAN,
          sent : 0..MaxAttempts, cost : Nat]
SentRows == [r : Reqs, n : 1..MaxAttempts, sent : BOOLEAN]

Pend(k) == Range(k.q) \cup Range(k.batch)

ProcessOK(k) ==
  /\ k \in Processes
  /\ k.tx.on => k.batch # <<>>
  /\ k.st = "down" => k.batch = <<>>

HandlerOK(h) ==
  /\ h \in Handlers
  /\ h.sent <= h.n /\ (h.st = "attempt" /\ ~h.wire => h.sent < h.n)
  /\ h.st \in {"attempt", "deferred"} => h.n > 0
  /\ h.ended => h.st \in {"deferred", "done", "lost"}
  /\ h.st = "new" => h.n = 0

TypesOK ==
  /\ inst \in [Instances -> Processes] /\ \A i \in Instances : ProcessOK(inst[i])
  /\ handler \in [Reqs -> Handlers] /\ \A r \in Reqs : HandlerOK(handler[r])
  /\ fact \in [Reqs -> Facts] /\ attempts \subseteq SentRows /\ IsFiniteSet(attempts)
  /\ agg \in Aggregates
  /\ overflow \in BOOLEAN /\ errors \in 0..MaxErrors /\ stops \in 0..MaxStops

(* What an event says is still true of its handler.                        *)
EventOK(e) ==
  /\ e.kind = "attempt" => e.n > 0
  /\ e.kind = "end" /\ ~e.intr => handler[e.r].ended /\ e.n = handler[e.r].sent

EventsOK == \A i \in Instances : \A e \in Pend(inst[i]) : EventOK(e)

(* The attempts sent for a request, settled, queued or under way, are no   *)
(* more than its handler counted.                                          *)
Row(r, n) == [r |-> r, n |-> n, sent |-> TRUE]
Queued(r) ==
  {x \in SentRows : \E i \in Instances : \E e \in Pend(inst[i]) :
     e.kind = "attempt" /\ e.flag /\ e.r = r /\ x = Row(r, e.n)}
Current(r) ==
  IF handler[r].st \in {"attempt", "deferred"} /\ handler[r].wire THEN {Row(r, handler[r].n)} ELSE {}
Noted(r) == Sent(r) \cup Queued(r) \cup Current(r)
NotedOK(r) == IsFiniteSet(Noted(r)) /\ Cardinality(Noted(r)) <= handler[r].sent

(* What is settled has its ledger row.                                     *)
LedgerOK ==
  /\ \A x \in attempts : <<"attempt", x.r, x.n>> \in ledger
  /\ \A r \in Reqs : fact[r].st # "none" <=> <<"start", r, 0>> \in ledger

DoneOK(r) ==
  fact[r].st = "done" /\ ~fact[r].interrupted => handler[r].ended /\ fact[r].cost = handler[r].sent

SumsOK ==
  /\ agg.request.completed = Cardinality(Settled)
  /\ agg.request.success = Cardinality({r \in Settled : fact[r].success})
  /\ agg.request.interrupted = Cardinality({r \in Settled : fact[r].interrupted})
  /\ agg.request.cost = SumOver([r \in Settled |-> fact[r].cost], Settled)
  /\ agg.attempt.ended = Cardinality(attempts)
  /\ agg.attempt.consumed = Cardinality({x \in attempts : x.sent})
  /\ agg.attempt.quality = Cardinality({x \in attempts : x.r \in Business})

(* A transaction has read what is there, and its event is still to settle. *)
TxOK(k) == k.tx.on => k.tx.read = agg /\ Key(Head(k.batch)) \notin ledger /\ Ready(Head(k.batch))

(* A pass of drainFinal that settled nothing has met only what must wait.  *)
FinalOK(k) ==
  /\ k.st = "final" /\ k.clean =>
       /\ Len(k.q) + Len(k.batch) <= k.before
       /\ Len(k.q) + Len(k.batch) = k.before => \A e \in Range(k.q) : ~Ready(e)
  /\ k.st = "down" /\ k.clean => \A e \in Range(k.q) : ~Ready(e)

LossOK ==
  stops = 0 => /\ \A i \in Instances : inst[i].st = "up"
               /\ \A r \in Reqs : Emitted(r) \subseteq ledger \cup Waiting \/ overflow

SettleInv ==
  /\ TypesOK /\ EventsOK /\ LedgerOK /\ SumsOK /\ LossOK
  /\ \A r \in Reqs : NotedOK(r) /\ DoneOK(r)
  /\ \A i \in Instances : TxOK(inst[i]) /\ FinalOK(inst[i])
-----------------------------------------------------------------------------
LEMMA SetOfAppend ==
  ASSUME NEW T, NEW s \in Seq(T), NEW e \in T
  PROVE  /\ Range(Append(s, e)) = Range(s) \cup {e} /\ Append(s, e) \in Seq(T)
         /\ Len(Append(s, e)) = Len(s) + 1
<1>1. \A y : Has(Append(s, e), y) <=> Has(s, y) \/ y = e
  BY HasAppend, Zenon
<1>2. \A t, y : y \in Range(t) <=> Has(t, y)
  BY Zenon DEF Range, Has
<1>3. Range(Append(s, e)) = Range(s) \cup {e}
  BY <1>1, <1>2, Zenon
<1> QED BY <1>3

LEMMA SetOfRest ==
  ASSUME NEW T, NEW s \in Seq(T), s # <<>>
  PROVE  /\ Range(s) = {Head(s)} \cup Range(Tail(s)) /\ Head(s) \in T /\ Tail(s) \in Seq(T)
         /\ Len(s) = Len(Tail(s)) + 1
<1>1. Len(s) \in Nat /\ Len(s) > 0 /\ DOMAIN s = 1..Len(s) /\ Head(s) = s[1] /\ Head(s) \in T
  OBVIOUS
<1>2. Tail(s) \in Seq(T) /\ Len(Tail(s)) = Len(s) - 1 /\ \A i \in 1..(Len(s) - 1) : Tail(s)[i] = s[i + 1]
  OBVIOUS
<1> DEFINE t == Tail(s)
<1>3. DOMAIN t = 1..(Len(s) - 1) /\ \A i \in 1..(Len(s) - 1) : t[i] = s[i + 1]
  BY <1>2
<1>4. Len(s) = Len(Tail(s)) + 1
  BY <1>1, <1>2
<1> HIDE DEF t
<1>5. ASSUME NEW y \in Range(s) PROVE y \in {Head(s)} \cup Range(t)
  <2>1. PICK i \in 1..Len(s) : y = s[i]
    BY <1>1, <1>5, Zenon DEF Range
  <2>2. CASE i = 1
    BY <1>1, <2>1, <2>2, Zenon
  <2>3. CASE i # 1
    <3>1. i - 1 \in 1..(Len(s) - 1) /\ (i - 1) + 1 = i
      BY <1>1, <2>3
    <3>2. t[i - 1] = s[i]
      BY <1>3, <3>1, Zenon
    <3> QED BY <1>3, <2>1, <3>1, <3>2, Zenon DEF Range
  <2> QED BY <2>2, <2>3, Zenon
<1>6. ASSUME NEW y \in {Head(s)} \cup Range(t) PROVE y \in Range(s)
  <2>1. CASE y = Head(s)
    BY <1>1, <2>1 DEF Range
  <2>2. CASE y \in Range(t)
    <3>1. PICK i \in 1..(Len(s) - 1) : y = t[i]
      BY <1>3, <2>2, Zenon DEF Range
    <3>2. i + 1 \in 1..Len(s) /\ y = s[i + 1]
      BY <1>1, <1>3, <3>1
    <3> QED BY <1>1, <3>2, Zenon DEF Range
  <2> QED BY <1>6, <2>1, <2>2, Zenon
<1>7. Range(s) = {Head(s)} \cup Range(t)
  BY <1>5, <1>6, Zenon
<1> QED BY <1>1, <1>2, <1>4, <1>7, Zenon DEF t

LEMMA SetIn == ASSUME NEW T, NEW s \in Seq(T) PROVE Range(s) \subseteq T /\ Range(<<>>) = {}
BY DEF Range

LEMMA SetOfKept ==
  ASSUME NEW T, NEW s \in Seq(T), NEW S
  PROVE  Kept(s, S) \in Seq(T) /\ \A y : y \in Range(Kept(s, S)) <=> y \in Range(s) /\ y \in S
<1>1. \A t, y : y \in Range(t) <=> Has(t, y)
  BY Zenon DEF Range, Has
<1>2. Kept(s, S) \in Seq(T) /\ \A y : Has(Kept(s, S), y) <=> Has(s, y) /\ y \in S
  BY KeptFacts, Zenon
<1> QED BY <1>1, <1>2, Zenon
-----------------------------------------------------------------------------
(* Steps of one instance that settle nothing.                              *)

Like(e, d) ==
  e.kind = d.kind /\ e.r = d.r /\ e.n = d.n /\ e.flag = d.flag /\ e.intr = d.intr

LEMMA LikeFacts ==
  ASSUME NEW e, NEW d, Like(e, d)
  PROVE  Key(e) = Key(d) /\ (EventOK(e) <=> EventOK(d)) /\ (Ready(e) <=> Ready(d))
BY Zenon DEF Like, Key, EventOK, Ready

LEMMA Limits == {MaxAttempts, QueueLimit, MaxErrors, MaxStops} \subseteq Nat /\ Home \in [Reqs -> Instances]
BY SettleAssumption, Zenon

Still == UNCHANGED <<handler, fact, attempts, ledger, agg>>

LEMMA StillFacts ==
  ASSUME SettleInv, Still
  PROVE  /\ LedgerOK' /\ SumsOK' /\ \A r \in Reqs : DoneOK(r)'
         /\ \A e : (Ready(e)' <=> Ready(e)) /\ (EventOK(e)' <=> EventOK(e))
         /\ \A r : Sent(r)' = Sent(r) /\ Current(r)' = Current(r) /\ Emitted(r)' = Emitted(r)
<1>1. LedgerOK'
  BY Zenon DEF SettleInv, Still, LedgerOK
<1>2. SumsOK'
  BY Zenon DEF SettleInv, Still, SumsOK, Settled, Business
<1>3. \A r \in Reqs : DoneOK(r)'
  BY Zenon DEF SettleInv, Still, DoneOK
<1>4. \A r : Sent(r)' = Sent(r)
  BY Zenon DEF Still, Sent
<1>5. \A r : Current(r)' = Current(r) /\ Emitted(r)' = Emitted(r)
  BY Zenon DEF Still, Current, Emitted
<1>6. \A e : (Ready(e)' <=> Ready(e)) /\ (EventOK(e)' <=> EventOK(e))
  BY <1>4, Zenon DEF Still, Ready, EventOK
<1> QED BY <1>1, <1>2, <1>3, <1>4, <1>5, <1>6, Zenon

LEMMA SentNat == ASSUME TypesOK, NEW r \in Reqs PROVE handler[r].sent \in Nat
<1>1. handler[r] \in Handlers
  BY Zenon DEF TypesOK, HandlerOK
<1> QED BY <1>1, Zenon DEF Handlers

LEMMA NotedLess ==
  ASSUME NEW r, NotedOK(r), handler[r].sent \in Nat, Noted(r)' \subseteq Noted(r), handler'[r].sent = handler[r].sent
  PROVE  NotedOK(r)'
<1> DEFINE S == Noted(r)
           T == Noted(r)'
<1>1. IsFiniteSet(S) /\ Cardinality(S) <= handler[r].sent /\ T \subseteq S
  BY Zenon DEF NotedOK
<1> HIDE DEF S, T
<1>2. IsFiniteSet(T) /\ Cardinality(T) <= Cardinality(S) /\ Cardinality(T) \in Nat /\ Cardinality(S) \in Nat
  BY <1>1, FS_Subset, FS_CardinalityType, Zenon
<1>3. IsFiniteSet(T) /\ Cardinality(T) <= handler'[r].sent
  BY <1>1, <1>2
<1> QED BY <1>3, Zenon DEF NotedOK, T

LEMMA InstanceStep ==
  ASSUME SettleInv, Still, overflow' \in BOOLEAN, errors' \in 0..MaxErrors, stops' \in 0..MaxStops,
         NEW i \in Instances, NEW k, inst' = [inst EXCEPT ![i] = k], ProcessOK(k),
         \A e \in Pend(k) : (\E d \in Pend(inst[i]) : Like(e, d)) \/ (e.kind = "end" /\ e.intr),
         TxOK(k), FinalOK(k), LossOK'
  PROVE  SettleInv'
<1>1. /\ LedgerOK' /\ SumsOK' /\ \A r \in Reqs : DoneOK(r)'
      /\ \A e : (Ready(e)' <=> Ready(e)) /\ (EventOK(e)' <=> EventOK(e))
      /\ \A r : Sent(r)' = Sent(r) /\ Current(r)' = Current(r)
  BY StillFacts, Zenon
<1>2. DOMAIN inst' = Instances /\ inst'[i] = k /\ \A j \in Instances \ {i} : inst'[j] = inst[j]
  BY Zenon DEF SettleInv, TypesOK
<1>3. TypesOK'
  <2>1. inst' \in [Instances -> Processes] /\ \A j \in Instances : ProcessOK(inst[j])'
    <3>1. k \in Processes /\ inst \in [Instances -> Processes]
      BY Zenon DEF ProcessOK, SettleInv, TypesOK
    <3>2. \A j \in Instances : ProcessOK(inst'[j])
      BY <1>2, Zenon DEF SettleInv, TypesOK
    <3> QED BY <3>1, <3>2, Zenon DEF ProcessOK
  <2>2. /\ handler' \in [Reqs -> Handlers] /\ \A r \in Reqs : HandlerOK(handler[r])'
        /\ fact' \in [Reqs -> Facts] /\ attempts' \subseteq SentRows /\ IsFiniteSet(attempts')
        /\ agg' \in Aggregates
    BY Zenon DEF SettleInv, TypesOK, Still, HandlerOK
  <2> QED BY <2>1, <2>2, Zenon DEF TypesOK
<1>4. EventsOK'
  <2> SUFFICES ASSUME NEW j \in Instances, NEW e \in Pend(inst'[j]) PROVE EventOK(e)
    BY <1>1, Zenon DEF EventsOK
  <2>1. CASE j # i
    BY <1>2, <2>1, Zenon DEF SettleInv, EventsOK
  <2>2. CASE j = i
    <3>1. CASE e.kind = "end" /\ e.intr
      BY <3>1, Zenon DEF EventOK
    <3>2. CASE \E d \in Pend(inst[i]) : Like(e, d)
      BY <3>2, LikeFacts, Zenon DEF SettleInv, EventsOK
    <3> QED BY <1>2, <2>2, <3>1, <3>2, Zenon
  <2> QED BY <2>1, <2>2, Zenon
<1>5. ASSUME NEW r \in Reqs PROVE NotedOK(r)'
  <2>1. Queued(r)' \subseteq Queued(r)
    <3> SUFFICES ASSUME NEW x \in SentRows, NEW j \in Instances, NEW e \in Pend(inst'[j]),
                        e.kind = "attempt", e.flag, e.r = r, x = Row(r, e.n)
                 PROVE  x \in Queued(r)
      BY Zenon DEF Queued
    <3>1. CASE j # i
      BY <1>2, <3>1, Zenon DEF Queued
    <3>2. CASE j = i
      <4>1. PICK d \in Pend(inst[i]) : Like(e, d)
        BY <1>2, <3>2, Zenon
      <4> QED BY <4>1, Zenon DEF Queued, Like
    <3> QED BY <3>1, <3>2, Zenon
  <2>2. Noted(r)' \subseteq Noted(r)
    BY <1>1, <2>1, Zenon DEF Noted
  <2> QED BY <2>2, NotedLess, SentNat, Zenon DEF SettleInv, Still
<1>6. ASSUME NEW j \in Instances PROVE TxOK(inst[j])' /\ FinalOK(inst[j])'
  <2>1. TxOK(inst'[j]) /\ FinalOK(inst'[j])
    BY <1>2, Zenon DEF SettleInv
  <2> QED BY <1>1, <2>1, Zenon DEF TxOK, FinalOK, Still
<1> QED BY <1>1, <1>3, <1>4, <1>5, <1>6, Zenon DEF SettleInv

LEMMA InWaiting ==
  ASSUME NEW j \in Instances, NEW e \in Pend(inst'[j])
  PROVE  Key(e) \in Waiting'
<1> DEFINE W(i) == {Key(x) : x \in Range(inst'[i].q) \cup Range(inst'[i].batch)}
<1>1. Key(e) \in W(j)
  BY Zenon DEF Pend
<1>2. Waiting' = UNION {W(i) : i \in Instances}
  BY Zenon DEF Waiting
<1> HIDE DEF W
<1> QED BY <1>1, <1>2, Zenon

LEMMA NothingLost ==
  ASSUME SettleInv, UNCHANGED <<handler, ledger>>, NEW i \in Instances, NEW k,
         inst' = [inst EXCEPT ![i] = k], stops' = 0 => stops = 0 /\ k.st = inst[i].st,
         overflow => overflow',
         \A d \in Pend(inst[i]) : \/ Key(d) \in ledger \/ overflow' \/ \A r \in Reqs : Key(d) \notin Emitted(r)
                                \/ \E e \in Pend(k) : Key(e) = Key(d)
  PROVE  LossOK'
<1> SUFFICES ASSUME stops' = 0
             PROVE  /\ \A j \in Instances : inst'[j].st = "up"
                    /\ \A r \in Reqs : Emitted(r)' \subseteq ledger' \cup Waiting' \/ overflow'
  BY Zenon DEF LossOK
<1>1. DOMAIN inst = Instances /\ inst'[i] = k /\ \A j \in Instances \ {i} : inst'[j] = inst[j]
  BY Zenon DEF SettleInv, TypesOK
<1>2. \A j \in Instances : inst[j].st = "up"
  BY Zenon DEF SettleInv, LossOK
<1>3. \A r : Emitted(r)' = Emitted(r)
  BY Zenon DEF Emitted
<1>4. ASSUME NEW r \in Reqs, ~overflow', NEW x \in Emitted(r) PROVE x \in ledger' \cup Waiting'
  <2>1. x \in ledger \cup Waiting
    BY <1>4, Zenon DEF SettleInv, LossOK
  <2>2. CASE x \in ledger
    BY <2>2, Zenon
  <2>3. CASE x \in Waiting
    <3>0. PICK j \in Instances : \E d \in Pend(inst[j]) : x = Key(d)
      BY <2>3, Zenon DEF Waiting, Pend
    <3>1. PICK d \in Pend(inst[j]) : x = Key(d)
      BY <3>0, Zenon
    <3>2. CASE j # i
      <4>1. d \in Pend(inst'[j])
        BY <1>1, <3>1, <3>2, Zenon
      <4> QED BY <3>1, <4>1, InWaiting, Zenon
    <3>3. CASE j = i
      <4>1. x \in ledger \/ \E e \in Pend(k) : Key(e) = x
        BY <1>4, <3>1, <3>3, Zenon
      <4>2. ASSUME NEW e \in Pend(k), Key(e) = x PROVE x \in Waiting'
        <5>1. e \in Pend(inst'[i])
          BY <1>1, <4>2, Zenon
        <5> QED BY <4>2, <5>1, InWaiting, Zenon
      <4> QED BY <4>1, <4>2, Zenon
    <3> QED BY <3>2, <3>3, Zenon
  <2> QED BY <2>1, <2>2, <2>3, Zenon
<1> QED BY <1>1, <1>2, <1>3, <1>4, Zenon

LEMMA ProcessFields ==
  ASSUME SettleInv, NEW i \in Instances
  PROVE  /\ inst[i] \in Processes /\ inst[i].q \in Seq(Events) /\ inst[i].batch \in Seq(Events)
         /\ inst[i].tx \in Transactions /\ inst[i].before \in Nat /\ inst[i].clean \in BOOLEAN
         /\ inst[i].st \in {"up", "draining", "final", "down"}
         /\ inst[i].tx.on => inst[i].batch # <<>>
         /\ inst[i].st = "down" => inst[i].batch = <<>>
         /\ TxOK(inst[i]) /\ FinalOK(inst[i])
         /\ Pend(inst[i]) \subseteq Events
<1>1. ProcessOK(inst[i]) /\ TxOK(inst[i]) /\ FinalOK(inst[i])
  BY Zenon DEF SettleInv, TypesOK
<1>2. inst[i] \in Processes
  BY <1>1, Zenon DEF ProcessOK
<1>3. /\ inst[i].q \in Seq(Events) /\ inst[i].batch \in Seq(Events)
      /\ inst[i].tx \in Transactions /\ inst[i].before \in Nat /\ inst[i].clean \in BOOLEAN
      /\ inst[i].st \in {"up", "draining", "final", "down"}
  BY <1>2, Zenon DEF Processes
<1>4. Pend(inst[i]) \subseteq Events
  BY <1>3, SetIn, Zenon DEF Pend
<1> QED BY <1>1, <1>2, <1>3, <1>4, Zenon DEF ProcessOK

LEMMA DrainOnceKeeps ==
  ASSUME SettleInv, NEW i \in Instances, drainOnce(i)
  PROVE  SettleInv'
<1>1. PICK waited \in BOOLEAN :
        LET due == {e \in Events : Due(e) \/ waited}
        IN  inst' = [inst EXCEPT ![i].batch = Kept(inst[i].q, due), ![i].q = Kept(inst[i].q, Events \ due)]
            /\ Kept(inst[i].q, due) # <<>>
  BY Zenon DEF drainOnce
<1> DEFINE due == {e \in Events : Due(e) \/ waited}
           b == Kept(inst[i].q, due)
           q == Kept(inst[i].q, Events \ due)
           k == [inst[i] EXCEPT !.batch = b, !.q = q]
<1>2. inst' = [inst EXCEPT ![i] = k]
  BY <1>1, Zenon
<1>3. /\ inst[i] \in Processes /\ inst[i].q \in Seq(Events) /\ Pend(inst[i]) \subseteq Events
      /\ inst[i].tx.on => inst[i].batch # <<>>
  BY ProcessFields, Zenon
<1>4. b \in Seq(Events) /\ q \in Seq(Events)
  BY <1>3, SetOfKept, Zenon
<1>5. Range(b) \cup Range(q) = Range(inst[i].q)
  <2>1. Range(inst[i].q) \subseteq Events
    BY <1>3, SetIn, Zenon
  <2>2. \A y : y \in Range(b) <=> y \in Range(inst[i].q) /\ y \in due
    BY <1>3, SetOfKept, Zenon
  <2>3. \A y : y \in Range(q) <=> y \in Range(inst[i].q) /\ y \in Events \ due
    BY <1>3, SetOfKept, Zenon
  <2> HIDE DEF due, b, q
  <2> QED BY <2>1, <2>2, <2>3, Zenon
<1> HIDE DEF due, b, q
<1>6. k \in Processes /\ k.st = inst[i].st /\ k.q = q /\ k.batch = b /\ k.tx = inst[i].tx
  BY <1>3, <1>4, Zenon DEF Processes
<1> HIDE DEF k
<1>7. inst[i].batch = <<>> /\ inst[i].st \in {"up", "draining"} /\ Range(inst[i].batch) = {}
  BY <1>3, SetIn, Zenon DEF drainOnce
<1>8. Pend(k) = Pend(inst[i])
  BY <1>5, <1>6, <1>7, Zenon DEF Pend
<1>9. ProcessOK(k) /\ TxOK(k) /\ FinalOK(k)
  BY <1>3, <1>6, <1>7, Zenon DEF ProcessOK, TxOK, FinalOK
<1>10. Still /\ UNCHANGED <<overflow, errors, stops>>
  BY Zenon DEF drainOnce, Still
<1>11. LossOK'
  BY <1>2, <1>6, <1>8, <1>10, NothingLost, Zenon DEF Still
<1>12. \A e \in Pend(k) : \E d \in Pend(inst[i]) : Like(e, d)
  BY <1>8, Zenon DEF Like
<1> QED BY <1>2, <1>9, <1>10, <1>11, <1>12, InstanceStep, Zenon DEF SettleInv, TypesOK

LEMMA BatchHead ==
  ASSUME SettleInv, NEW i \in Instances, inst[i].batch # <<>>
  PROVE  /\ Head1(i) \in Events /\ Head1(i) \in Pend(inst[i]) /\ Tail(inst[i].batch) \in Seq(Events)
         /\ Range(inst[i].batch) = {Head1(i)} \cup Range(Tail(inst[i].batch))
         /\ Len(inst[i].batch) = Len(Tail(inst[i].batch)) + 1 /\ inst[i].st # "down"
<1>1. inst[i].batch \in Seq(Events) /\ inst[i].st # "down"
  BY ProcessFields, Zenon
<1>2. /\ Range(inst[i].batch) = {Head(inst[i].batch)} \cup Range(Tail(inst[i].batch))
      /\ Head(inst[i].batch) \in Events /\ Tail(inst[i].batch) \in Seq(Events)
      /\ Len(inst[i].batch) = Len(Tail(inst[i].batch)) + 1
  BY <1>1, SetOfRest, Zenon
<1> QED BY <1>1, <1>2, Zenon DEF Head1, Pend

(* The event at the head is done with.                                     *)
LEMMA Drops ==
  ASSUME SettleInv, NEW i \in Instances, inst[i].batch # <<>>,
         NEW k \in Processes, k.st = inst[i].st, k.q = inst[i].q, k.batch = Tail(inst[i].batch),
         ~k.tx.on, k.before = inst[i].before, k.clean = inst[i].clean
  PROVE  /\ ProcessOK(k) /\ TxOK(k) /\ FinalOK(k)
         /\ Pend(inst[i]) = Pend(k) \cup {Head1(i)}
         /\ k.st = "final" /\ k.clean => Len(k.q) + Len(k.batch) <= k.before /\ Len(k.q) + Len(k.batch) # k.before
<1>1. /\ inst[i].q \in Seq(Events) /\ inst[i].before \in Nat /\ FinalOK(inst[i])
  BY ProcessFields, Zenon
<1>2. /\ Range(inst[i].batch) = {Head1(i)} \cup Range(Tail(inst[i].batch)) /\ inst[i].st # "down"
      /\ Len(inst[i].batch) = Len(Tail(inst[i].batch)) + 1 /\ Tail(inst[i].batch) \in Seq(Events)
  BY BatchHead, Zenon
<1>3. ProcessOK(k) /\ TxOK(k)
  BY <1>2, Zenon DEF ProcessOK, TxOK
<1>4. Len(inst[i].q) \in Nat /\ Len(Tail(inst[i].batch)) \in Nat
  BY <1>1, <1>2
<1>5. /\ FinalOK(k)
      /\ k.st = "final" /\ k.clean => Len(k.q) + Len(k.batch) <= k.before /\ Len(k.q) + Len(k.batch) # k.before
  <2> DEFINE m == Len(Tail(inst[i].batch))
  <2>1. Len(inst[i].batch) = m + 1 /\ Len(k.batch) = m /\ m \in Nat
    BY <1>2, <1>4, Zenon
  <2> HIDE DEF m
  <2>2. /\ inst[i].st = "final" /\ inst[i].clean => Len(inst[i].q) + (m + 1) <= inst[i].before
    BY <1>1, <2>1, Zenon DEF FinalOK
  <2>3. k.st = "final" /\ k.clean => Len(k.q) + m <= k.before /\ Len(k.q) + m # k.before
    <3>1. \A x, y, z \in Nat : x + (y + 1) <= z => x + y <= z /\ x + y # z
      OBVIOUS
    <3> QED BY <1>1, <1>4, <2>1, <2>2, <3>1, Zenon
  <2> QED BY <1>2, <2>1, <2>3, Zenon DEF FinalOK
<1>6. Pend(inst[i]) = Pend(k) \cup {Head1(i)}
  BY <1>2, Zenon DEF Pend
<1> QED BY <1>3, <1>5, <1>6, Zenon

LEMMA TakenIs ==
  ASSUME SettleInv, NEW i \in Instances, inst[i].batch # <<>>, NEW t \in Transactions
  PROVE  LET k == [inst[i] EXCEPT !.batch = Tail(inst[i].batch), !.tx = t]
         IN  /\ k \in Processes /\ k.st = inst[i].st /\ k.q = inst[i].q /\ k.batch = Tail(inst[i].batch)
             /\ k.tx = t /\ k.before = inst[i].before /\ k.clean = inst[i].clean
<1>1. inst[i] \in Processes /\ Tail(inst[i].batch) \in Seq(Events)
  BY ProcessFields, BatchHead, Zenon
<1> DEFINE b == Tail(inst[i].batch)
<1> HIDE DEF b
<1>2. [inst[i] EXCEPT !.batch = b, !.tx = t] \in Processes
  BY <1>1, Zenon DEF Processes, b
<1> QED BY <1>1, <1>2, Zenon DEF Processes, b

LEMMA Dropped ==
  ASSUME SettleInv, NEW i \in Instances, Idle(i), inst' = Taken(i, inst[i]), Still,
         UNCHANGED <<overflow, errors, stops>>,
         \/ stops # 0 \/ Known(Head1(i)) \/ overflow \/ \A r \in Reqs : Key(Head1(i)) \notin Emitted(r)
  PROVE  SettleInv'
<1> DEFINE k == [inst[i] EXCEPT !.batch = Tail(inst[i].batch), !.tx = inst[i].tx]
<1>1. inst[i].batch # <<>> /\ ~inst[i].tx.on
  BY Zenon DEF Idle
<1>2. inst[i] \in Processes /\ inst[i].tx \in Transactions
  BY ProcessFields, Zenon
<1>3. inst' = [inst EXCEPT ![i] = k]
  <2>1. k = [inst[i] EXCEPT !.batch = Tail(inst[i].batch)]
    BY <1>2, Zenon DEF Processes
  <2> QED BY <2>1, Zenon DEF Taken
<1>4. /\ k \in Processes /\ k.st = inst[i].st /\ k.q = inst[i].q /\ k.batch = Tail(inst[i].batch)
      /\ k.tx = inst[i].tx /\ k.before = inst[i].before /\ k.clean = inst[i].clean
  BY <1>1, <1>2, TakenIs, Zenon
<1> HIDE DEF k
<1>5. /\ ProcessOK(k) /\ TxOK(k) /\ FinalOK(k) /\ Pend(inst[i]) = Pend(k) \cup {Head1(i)}
  BY <1>1, <1>4, Drops, Zenon
<1>6. LossOK'
  <2>1. CASE stops # 0
    BY <2>1, Zenon DEF LossOK
  <2>2. CASE stops = 0
    BY <1>3, <1>4, <1>5, <2>2, NothingLost, Zenon DEF Still, Known
  <2> QED BY <2>1, <2>2, Zenon
<1>7. \A e \in Pend(k) : \E d \in Pend(inst[i]) : Like(e, d)
  BY <1>5, Zenon DEF Like
<1> QED BY <1>3, <1>5, <1>6, <1>7, InstanceStep, Zenon DEF SettleInv, TypesOK

LEMMA DuplicateKeeps ==
  ASSUME SettleInv, NEW i \in Instances, Duplicate(i)
  PROVE  SettleInv'
BY Dropped, Zenon DEF Duplicate, Still

(* A start that is neither settled nor waiting was refused by the queue.   *)
LEMMA ExpireKeeps ==
  ASSUME SettleInv, NEW i \in Instances, Expire(i)
  PROVE  SettleInv'
<1> DEFINE e == Head1(i)
           r == e.r
<1>1. Idle(i) /\ e.kind = "end" /\ fact[r].st = "none" /\ inst' = Taken(i, inst[i])
  BY Zenon DEF Expire
<1>2. \A j \in Instances : \A d \in Range(inst[j].q) \cup Range(inst[j].batch) : ~(d.kind = "start" /\ d.r = r)
  BY Zenon DEF Expire
<1>3. e \in Events /\ r \in Reqs
  <2>1. e \in Events
    BY <1>1, BatchHead, Zenon DEF Idle
  <2> QED BY <2>1, Zenon DEF Events
<1>4. <<"start", r, 0>> \notin ledger
  BY <1>1, <1>3, Zenon DEF SettleInv, LedgerOK
<1>5. <<"start", r, 0>> \notin Waiting
  <2> SUFFICES ASSUME NEW j \in Instances, NEW d \in Range(inst[j].q) \cup Range(inst[j].batch),
                      <<"start", r, 0>> = Key(d)
               PROVE  FALSE
    BY Zenon DEF Waiting
  <2> QED BY <1>2, Zenon DEF Key
<1>6. Still /\ UNCHANGED <<overflow, errors, stops>>
  BY Zenon DEF Expire, Still
<1>7. CASE stops = 0
  <2>1. Emitted(r) \subseteq ledger \cup Waiting \/ overflow
    BY <1>3, <1>7, Zenon DEF SettleInv, LossOK
  <2>2. handler[r].st # "new" => <<"start", r, 0>> \in Emitted(r)
    BY Zenon DEF Emitted
  <2>3. handler[r].st = "new" \/ overflow
    BY <1>4, <1>5, <2>1, <2>2, Zenon
  <2>4. ASSUME handler[r].st = "new", NEW s \in Reqs PROVE Key(e) \notin Emitted(s)
    <3>1. Key(e) = <<"end", r, 0>>
      BY <1>1, Zenon DEF Key
    <3>2. HandlerOK(handler[r])
      BY <1>3, Zenon DEF SettleInv, TypesOK
    <3>3. ~handler[r].ended
      BY <2>4, <3>2, Zenon DEF HandlerOK
    <3>4. CASE s = r
      BY <2>4, <3>1, <3>3, <3>4 DEF Emitted
    <3>5. CASE s # r
      BY <3>1, <3>5 DEF Emitted
    <3> QED BY <3>4, <3>5, Zenon
  <2> QED BY <1>1, <1>6, <2>3, <2>4, Dropped, Zenon
<1>8. CASE stops # 0
  <2> QED BY <1>1, <1>6, <1>8, Dropped, Zenon
<1> QED BY <1>7, <1>8, Zenon

(* The event at the head is put back into the queue.                       *)
Tried(i) == [Head1(i) EXCEPT !.tried = TRUE]
PutBack(i, c, t) ==
  [inst[i] EXCEPT !.q = Append(inst[i].q, Tried(i)), !.clean = c, !.batch = Tail(inst[i].batch), !.tx = t]

LEMMA AddOne == \A m, n \in Nat : (m + 1) + n = m + (n + 1)
OBVIOUS

(* The process k holds the events i held, with its flag c and its          *)
(* transaction t.                                                          *)
PutBackOK(i, c, t, k) ==
  /\ ProcessOK(k) /\ TxOK(k) /\ FinalOK(k) /\ k.st = inst[i].st /\ k.clean = c /\ k.tx = t
  /\ \A e \in Pend(k) : \E d \in Pend(inst[i]) : Like(e, d)
  /\ \A d \in Pend(inst[i]) : \E e \in Pend(k) : Like(d, e)

(* Putting the event back keeps what the process holds.                    *)
LEMMA Retries ==
  ASSUME SettleInv, NEW i \in Instances, inst[i].batch # <<>>, NEW c \in BOOLEAN, NEW t \in Transactions,
         ~t.on, c => inst[i].clean, c /\ inst[i].st = "final" => ~Ready(Head1(i))
  PROVE  PutBackOK(i, c, t, PutBack(i, c, t))
<1> DEFINE q == Append(inst[i].q, Tried(i))
           b == Tail(inst[i].batch)
           k == [inst[i] EXCEPT !.q = q, !.clean = c, !.batch = b, !.tx = t]
<1>1. /\ inst[i] \in Processes /\ inst[i].q \in Seq(Events) /\ inst[i].before \in Nat /\ FinalOK(inst[i])
  BY ProcessFields, Zenon
<1>2. /\ Head1(i) \in Events /\ Head1(i) \in Pend(inst[i]) /\ b \in Seq(Events)
      /\ Range(inst[i].batch) = {Head1(i)} \cup Range(b)
      /\ Len(inst[i].batch) = Len(b) + 1 /\ inst[i].st # "down"
  BY BatchHead, Zenon
<1>3. Tried(i) \in Events /\ Like(Tried(i), Head1(i)) /\ Like(Head1(i), Tried(i))
  BY <1>2, Zenon DEF Events, Tried, Like
<1>4. /\ Range(q) = Range(inst[i].q) \cup {Tried(i)} /\ q \in Seq(Events) /\ Len(q) = Len(inst[i].q) + 1
  BY <1>1, <1>3, SetOfAppend, Zenon
<1>5. Len(inst[i].q) \in Nat /\ Len(b) \in Nat
  BY <1>1, <1>2
<1> HIDE DEF q, b
<1>6. k \in Processes
  BY <1>1, <1>2, <1>4, Zenon DEF Processes
<1>7. k.st = inst[i].st /\ k.q = q /\ k.batch = b /\ k.tx = t /\ k.before = inst[i].before /\ k.clean = c
  BY <1>1, Zenon DEF Processes
<1> HIDE DEF k
<1>8. ProcessOK(k) /\ TxOK(k)
  BY <1>2, <1>6, <1>7, Zenon DEF ProcessOK, TxOK
<1>9. FinalOK(k)
  <2>1. ASSUME c, inst[i].st = "final"
        PROVE  /\ Len(q) + Len(b) <= inst[i].before
               /\ Len(q) + Len(b) = inst[i].before => \A e \in Range(q) : ~Ready(e)
    <3>1. /\ Len(inst[i].q) + Len(inst[i].batch) <= inst[i].before
          /\ Len(inst[i].q) + Len(inst[i].batch) = inst[i].before => \A e \in Range(inst[i].q) : ~Ready(e)
      BY <1>1, <2>1, Zenon DEF FinalOK
    <3>a. Len(q) = Len(inst[i].q) + 1 /\ Len(inst[i].batch) = Len(b) + 1
      BY <1>2, <1>4, Zenon
    <3>2. Len(q) + Len(b) = Len(inst[i].q) + Len(inst[i].batch)
      BY <1>5, <3>a, AddOne, Zenon
    <3>3. ~Ready(Tried(i))
      BY <1>3, <2>1, LikeFacts, Zenon
    <3> QED BY <1>4, <3>1, <3>2, <3>3, Zenon
  <2> QED BY <1>2, <1>7, <2>1, Zenon DEF FinalOK
<1>10. \A e \in Pend(k) : \E d \in Pend(inst[i]) : Like(e, d)
  <2> SUFFICES ASSUME NEW e \in Pend(k) PROVE \E d \in Pend(inst[i]) : Like(e, d)
    BY Zenon
  <2>1. e = Tried(i) \/ e \in Pend(inst[i])
    BY <1>2, <1>4, <1>7, Zenon DEF Pend
  <2>2. Like(e, e)
    BY Zenon DEF Like
  <2> QED BY <1>2, <1>3, <2>1, <2>2, Zenon
<1>11. \A d \in Pend(inst[i]) : \E e \in Pend(k) : Like(d, e)
  <2> SUFFICES ASSUME NEW d \in Pend(inst[i]) PROVE \E e \in Pend(k) : Like(d, e)
    BY Zenon
  <2>1. (d = Head1(i) /\ Tried(i) \in Pend(k)) \/ d \in Pend(k)
    BY <1>2, <1>4, <1>7, Zenon DEF Pend
  <2>2. Like(d, d)
    BY Zenon DEF Like
  <2> QED BY <1>3, <2>1, <2>2, Zenon
<1>12. k = PutBack(i, c, t)
  BY Zenon DEF k, q, b, PutBack
<1> HIDE DEF k
<1>13. PutBackOK(i, c, t, k)
  BY <1>7, <1>8, <1>9, <1>10, <1>11, Zenon DEF PutBackOK
<1> QED BY <1>12, <1>13, Zenon

LEMMA FailKeeps ==
  ASSUME SettleInv, NEW i \in Instances, Fail(i)
  PROVE  SettleInv'
<1>1. inst[i].batch # <<>> /\ ~inst[i].tx.on
  BY Zenon DEF Fail, Idle
<1>2. inst[i] \in Processes /\ inst[i].tx \in Transactions /\ inst[i].clean \in BOOLEAN
  BY ProcessFields, Zenon
<1>3. PICK err \in BOOLEAN : inst' = Retried(i, err) /\ (err \/ ~Ready(Head1(i))) /\ errors' \in 0..MaxErrors
  <2>1. errors \in 0..MaxErrors /\ MaxErrors \in Nat
    BY Limits, Zenon DEF SettleInv, TypesOK
  <2>2. CASE ~Ready(Head1(i)) /\ inst' = Retried(i, FALSE) /\ UNCHANGED errors
    BY <2>1, <2>2, Zenon
  <2>3. CASE errors < MaxErrors /\ errors' = errors + 1 /\ inst' = Retried(i, TRUE)
    <3>1. errors' \in 0..MaxErrors
      BY <2>1, <2>3
    <3> QED BY <2>3, <3>1, Zenon
  <2> QED BY <2>2, <2>3, Zenon DEF Fail
<1> DEFINE c == inst[i].clean /\ ~(err /\ inst[i].st = "final")
           k == PutBack(i, c, inst[i].tx)
<1>4. inst' = [inst EXCEPT ![i] = k]
  <2>1. k = [[inst[i] EXCEPT !.q = Append(@, Tried(i)), !.clean = @ /\ ~(err /\ inst[i].st = "final")]
               EXCEPT !.batch = Tail(@)]
    BY <1>2, Zenon DEF Processes, PutBack
  <2> QED BY <1>3, <2>1, Zenon DEF Retried, Taken, Tried
<1>5. /\ ProcessOK(k) /\ TxOK(k) /\ FinalOK(k) /\ k.st = inst[i].st
      /\ \A e \in Pend(k) : \E d \in Pend(inst[i]) : Like(e, d)
      /\ \A d \in Pend(inst[i]) : \E e \in Pend(k) : Like(d, e)
  <2>1. c \in BOOLEAN /\ (c => inst[i].clean) /\ (c /\ inst[i].st = "final" => ~Ready(Head1(i)))
    BY <1>3, Zenon
  <2> HIDE DEF c, k
  <2>2. PutBackOK(i, c, inst[i].tx, PutBack(i, c, inst[i].tx))
    BY <1>1, <1>2, <2>1, Retries, Zenon
  <2>3. k = PutBack(i, c, inst[i].tx)
    BY Zenon DEF k
  <2> QED BY <2>2, <2>3, Zenon DEF PutBackOK
<1> HIDE DEF k
<1>6. Still /\ UNCHANGED <<overflow, stops>>
  BY Zenon DEF Fail, Still
<1>7. LossOK'
  <2>1. \A d \in Pend(inst[i]) : \E e \in Pend(k) : Key(e) = Key(d)
    BY <1>5, LikeFacts, Zenon
  <2> QED BY <1>4, <1>5, <1>6, <2>1, NothingLost, Zenon DEF Still
<1> QED BY <1>3, <1>4, <1>5, <1>6, <1>7, InstanceStep, Zenon DEF SettleInv, TypesOK

LEMMA TransactionKeeps ==
  ASSUME SettleInv, NEW i \in Instances, Transaction(i)
  PROVE  SettleInv'
<1> DEFINE t == [on |-> TRUE, read |-> agg]
           k == [inst[i] EXCEPT !.tx = t]
<1>1. inst[i].batch # <<>> /\ ~Known(Head1(i)) /\ Ready(Head1(i))
  BY Zenon DEF Transaction, Idle
<1>2. inst[i] \in Processes /\ inst[i].st # "down" /\ FinalOK(inst[i])
  BY <1>1, ProcessFields, BatchHead, Zenon
<1>3. inst' = [inst EXCEPT ![i] = k]
  BY Zenon DEF Transaction
<1>4. t \in Transactions /\ t.on /\ t.read = agg
  BY Zenon DEF SettleInv, TypesOK, Transactions
<1> HIDE DEF t
<1>5. k \in Processes
  BY <1>2, <1>4, Zenon DEF Processes
<1>6. /\ k.st = inst[i].st /\ k.q = inst[i].q /\ k.batch = inst[i].batch /\ k.tx = t
      /\ k.before = inst[i].before /\ k.clean = inst[i].clean
  BY <1>2, Zenon DEF Processes
<1> HIDE DEF k
<1>7. ProcessOK(k) /\ TxOK(k) /\ FinalOK(k)
  BY <1>1, <1>2, <1>4, <1>5, <1>6, Zenon DEF ProcessOK, TxOK, FinalOK, Known, Head1
<1>8. Pend(k) = Pend(inst[i]) /\ \A e : Like(e, e)
  BY <1>6, Zenon DEF Pend, Like
<1>9. Still /\ UNCHANGED <<overflow, errors, stops>>
  BY Zenon DEF Transaction, Still
<1>10. LossOK'
  BY <1>3, <1>6, <1>8, <1>9, NothingLost, Zenon DEF Still
<1> QED BY <1>3, <1>7, <1>8, <1>9, <1>10, InstanceStep, Zenon DEF SettleInv, TypesOK

LEMMA StopKeeps ==
  ASSUME SettleInv, NEW i \in Instances, StopAccepting(i)
  PROVE  SettleInv'
<1> DEFINE k == [inst[i] EXCEPT !.st = "draining"]
<1>1. inst[i] \in Processes /\ TxOK(inst[i]) /\ (inst[i].tx.on => inst[i].batch # <<>>)
  BY ProcessFields, Zenon
<1>2. inst' = [inst EXCEPT ![i] = k]
  BY Zenon DEF StopAccepting
<1>3. /\ k \in Processes /\ k.st = "draining" /\ k.q = inst[i].q /\ k.batch = inst[i].batch
      /\ k.tx = inst[i].tx
  BY <1>1, Zenon DEF Processes
<1> HIDE DEF k
<1>4. ProcessOK(k) /\ TxOK(k) /\ FinalOK(k)
  BY <1>1, <1>3, Zenon DEF ProcessOK, TxOK, FinalOK
<1>5. Pend(k) = Pend(inst[i]) /\ \A e : Like(e, e)
  BY <1>3, Zenon DEF Pend, Like
<1>6. Still /\ UNCHANGED <<overflow, errors>> /\ stops' \in 0..MaxStops /\ stops' # 0
  BY Limits DEF StopAccepting, Still, SettleInv, TypesOK
<1>7. LossOK'
  BY <1>6, Zenon DEF LossOK
<1> QED BY <1>2, <1>4, <1>5, <1>6, <1>7, InstanceStep, Zenon DEF SettleInv, TypesOK

LEMMA Stopped == ASSUME SettleInv, NEW i \in Instances, inst[i].st # "up" PROVE stops # 0
BY Zenon DEF SettleInv, LossOK

LEMMA DrainFinalKeeps ==
  ASSUME SettleInv, NEW i \in Instances, drainFinal(i)
  PROVE  SettleInv'
<1>1. inst[i].st \in {"draining", "final"} /\ inst[i].batch = <<>>
  BY Zenon DEF drainFinal
<1>2. /\ inst[i] \in Processes /\ inst[i].q \in Seq(Events) /\ inst[i].before \in Nat
      /\ FinalOK(inst[i]) /\ ~inst[i].tx.on
  BY <1>1, ProcessFields, Zenon
<1>3. Still /\ UNCHANGED <<overflow, errors, stops>>
  BY Zenon DEF drainFinal, Still
<1>4. LossOK'
  BY <1>1, <1>3, Stopped, Zenon DEF LossOK
<1>5. Len(inst[i].q) \in Nat /\ Len(<<>>) = 0 /\ Range(<<>>) = {} /\ <<>> \in Seq(Events)
  BY <1>2, SetIn
<1>6. \A e : Like(e, e)
  BY Zenon DEF Like
<1>7. CASE inst[i].q # <<>> /\ MorePasses(i)
  <2> DEFINE n == Len(inst[i].q)
             q == <<>>
             k == [inst[i] EXCEPT !.st = "final", !.before = n, !.batch = inst[i].q, !.q = q, !.clean = TRUE]
  <2>1. inst' = [inst EXCEPT ![i] = k]
    BY <1>7, Zenon DEF drainFinal
  <2>2. n \in Nat /\ n = Len(inst[i].q) /\ q \in Seq(Events) /\ Len(q) = 0 /\ Range(q) = {} /\ 0 + n = n
    BY <1>5
  <2> HIDE DEF n, q
  <2>3. k \in Processes
    BY <1>2, <2>2, Zenon DEF Processes
  <2>4. k.st = "final" /\ k.before = n /\ k.batch = inst[i].q /\ k.q = q /\ k.tx = inst[i].tx
    BY <1>2, Zenon DEF Processes
  <2> HIDE DEF k
  <2>5. ProcessOK(k) /\ TxOK(k)
    BY <1>2, <2>3, <2>4, Zenon DEF ProcessOK, TxOK
  <2>6. FinalOK(k)
    <3>1. Len(k.q) + Len(k.batch) = n
      BY <2>2, <2>4, Zenon
    <3>2. n <= n /\ \A e \in Range(k.q) : ~Ready(e)
      BY <2>2, <2>4
    <3> QED BY <2>4, <3>1, <3>2, Zenon DEF FinalOK
  <2>7. Pend(k) = Pend(inst[i])
    BY <1>1, <1>5, <2>2, <2>4, Zenon DEF Pend
  <2> QED BY <1>3, <1>4, <1>6, <2>1, <2>5, <2>6, <2>7, InstanceStep, Zenon DEF SettleInv, TypesOK
<1>8. CASE ~(inst[i].q # <<>> /\ MorePasses(i))
  <2> DEFINE k == [inst[i] EXCEPT !.st = "down", !.before = 0]
  <2>1. inst' = [inst EXCEPT ![i] = k]
    BY <1>8, Zenon DEF drainFinal
  <2>2. k \in Processes
    <3>1. 0 \in Nat
      BY Zenon
    <3> QED BY <1>2, <3>1, Zenon DEF Processes
  <2>3. /\ k.st = "down" /\ k.batch = inst[i].batch /\ k.q = inst[i].q /\ k.tx = inst[i].tx
        /\ k.clean = inst[i].clean
    BY <1>2, Zenon DEF Processes
  <2> HIDE DEF k
  <2>4. ProcessOK(k) /\ TxOK(k)
    BY <1>1, <1>2, <2>2, <2>3, Zenon DEF ProcessOK, TxOK
  <2>5. FinalOK(k)
    <3>1. CASE inst[i].q = <<>>
      BY <1>5, <2>3, <3>1, Zenon DEF FinalOK
    <3>2. CASE inst[i].q # <<>> /\ ~MorePasses(i) /\ inst[i].clean
      <4>1. inst[i].st = "final" /\ ~(Len(inst[i].q) < inst[i].before)
        BY <1>1, <3>2, Zenon DEF MorePasses
      <4>2. /\ Len(inst[i].q) + Len(inst[i].batch) <= inst[i].before
            /\ Len(inst[i].q) + Len(inst[i].batch) = inst[i].before => \A e \in Range(inst[i].q) : ~Ready(e)
        BY <1>2, <3>2, <4>1, Zenon DEF FinalOK
      <4>3. Len(inst[i].q) + Len(inst[i].batch) = Len(inst[i].q)
        BY <1>1, <1>5
      <4>a. Len(inst[i].q) <= inst[i].before /\ Len(inst[i].q) \in Nat /\ inst[i].before \in Nat
        BY <1>2, <1>5, <4>2, <4>3, Zenon
      <4>b. \A m, n \in Nat : m <= n /\ ~(m < n) => m = n
        OBVIOUS
      <4>4. Len(inst[i].q) + Len(inst[i].batch) = inst[i].before
        BY <4>1, <4>3, <4>a, <4>b, Zenon
      <4> QED BY <2>3, <4>2, <4>4, Zenon DEF FinalOK
    <3>3. CASE ~inst[i].clean
      BY <2>3, <3>3, Zenon DEF FinalOK
    <3> QED BY <1>8, <3>1, <3>2, <3>3, Zenon
  <2>6. Pend(k) = Pend(inst[i])
    BY <2>3, Zenon DEF Pend
  <2> QED BY <1>3, <1>4, <1>6, <2>1, <2>4, <2>5, <2>6, InstanceStep, Zenon DEF SettleInv, TypesOK
<1> QED BY <1>7, <1>8, Zenon

(* Events join the queue, or the data are marked incomplete.               *)
Joined(i, E, k) ==
  /\ inst' = [inst EXCEPT ![i] = k] /\ ProcessOK(k) /\ TxOK(k) /\ FinalOK(k)
  /\ Pend(k) \subseteq Pend(inst[i]) \cup E /\ Pend(inst[i]) \subseteq Pend(k)
  /\ k.st = inst[i].st /\ k.tx = inst[i].tx /\ (E \subseteq Pend(k) \/ overflow') /\ (overflow => overflow')
  /\ overflow' \in BOOLEAN /\ errors' \in 0..MaxErrors

LEMMA Enqueues ==
  ASSUME SettleInv, NEW i \in Instances, inst[i].st # "down", NEW e \in Events, Enqueue(i, e)
  PROVE  \E k : Joined(i, {e}, k)
<1>1. /\ inst[i] \in Processes /\ inst[i].q \in Seq(Events) /\ TxOK(inst[i]) /\ FinalOK(inst[i])
      /\ inst[i].clean \in BOOLEAN /\ ProcessOK(inst[i])
  BY ProcessFields, Zenon DEF SettleInv, TypesOK
<1>2. overflow \in BOOLEAN /\ errors \in 0..MaxErrors /\ MaxErrors \in Nat
  BY Limits, Zenon DEF SettleInv, TypesOK
<1>3. CASE /\ inst' = [inst EXCEPT ![i].q = Append(@, e), ![i].clean = @ /\ inst[i].st # "final"]
           /\ UNCHANGED <<overflow, errors>>
  <2> DEFINE q == Append(inst[i].q, e)
             c == inst[i].clean /\ inst[i].st # "final"
             k == [inst[i] EXCEPT !.q = q, !.clean = c]
  <2>1. inst' = [inst EXCEPT ![i] = k]
    BY <1>3, Zenon
  <2>2. q \in Seq(Events) /\ Range(q) = Range(inst[i].q) \cup {e}
    BY <1>1, SetOfAppend
  <2>3. c \in BOOLEAN /\ (c => inst[i].st # "final")
    BY Zenon
  <2> HIDE DEF q, c
  <2>4. k \in Processes
    BY <1>1, <2>2, <2>3, Zenon DEF Processes
  <2>5. k.st = inst[i].st /\ k.q = q /\ k.batch = inst[i].batch /\ k.tx = inst[i].tx /\ k.clean = c
    BY <1>1, Zenon DEF Processes
  <2> HIDE DEF k
  <2>6. ProcessOK(k) /\ TxOK(k)
    BY <1>1, <2>4, <2>5, Zenon DEF ProcessOK, TxOK
  <2>7. FinalOK(k)
    BY <2>3, <2>5, Zenon DEF FinalOK
  <2>8. Pend(k) = Pend(inst[i]) \cup {e}
    BY <2>2, <2>5, Zenon DEF Pend
  <2>9. Joined(i, {e}, k)
    BY <1>2, <1>3, <2>1, <2>5, <2>6, <2>7, <2>8, Zenon DEF Joined
  <2> QED BY <2>9, Zenon
<1>4. CASE /\ UNCHANGED errors \/ (errors < MaxErrors /\ errors' = errors + 1)
           /\ overflow' = TRUE /\ UNCHANGED inst
  <2>1. errors' \in 0..MaxErrors
    BY <1>2, <1>4
  <2>2. inst = [inst EXCEPT ![i] = inst[i]]
    <3>1. inst = [j \in Instances |-> inst[j]]
      BY Zenon DEF SettleInv, TypesOK
    <3> QED BY <3>1, Zenon
  <2>3. Joined(i, {e}, inst[i])
    BY <1>1, <1>4, <2>1, <2>2, Zenon DEF Joined
  <2> QED BY <2>3, Zenon
<1> QED BY <1>3, <1>4, Zenon DEF Enqueue

LEMMA InterruptKeeps ==
  ASSUME SettleInv, NEW i \in Instances, NEW r \in Reqs, InterruptStale(i, r)
  PROVE  SettleInv'
<1> DEFINE e == EndOf(r, 0, FALSE, TRUE)
<1>1. e \in Events /\ e.kind = "end" /\ e.intr
  BY Limits DEF EndOf, Events
<1>2. inst[i].st # "down" /\ Enqueue(i, e) /\ Still /\ UNCHANGED stops
  BY Zenon DEF InterruptStale, Still
<1> HIDE DEF e
<1>3. PICK k : Joined(i, {e}, k)
  BY <1>1, <1>2, Enqueues, Zenon
<1>4. \A d : Like(d, d)
  BY Zenon DEF Like
<1>5. \A d \in Pend(k) : (\E x \in Pend(inst[i]) : Like(d, x)) \/ (d.kind = "end" /\ d.intr)
  BY <1>1, <1>3, <1>4, Zenon DEF Joined
<1>6. LossOK'
  BY <1>2, <1>3, NothingLost, Zenon DEF Joined, Still
<1> QED BY <1>2, <1>3, <1>5, <1>6, InstanceStep, Zenon DEF Joined, SettleInv, TypesOK

LEMMA RestartKeeps ==
  ASSUME SettleInv, NEW i \in Instances, Restart(i)
  PROVE  SettleInv'
<1>0. PICK R \in SUBSET {r \in Reqs : StaleFact(r)} :
        \E q \in Injection(1..Cardinality(R), {EndOf(r, 0, FALSE, TRUE) : r \in R}) :
          inst' = [inst EXCEPT ![i] = [Up EXCEPT !.q = q]]
  BY Zenon DEF Restart
<1> DEFINE S == {EndOf(r, 0, FALSE, TRUE) : r \in R}
<1>1. PICK q \in Injection(1..Cardinality(R), S) : inst' = [inst EXCEPT ![i] = [Up EXCEPT !.q = q]]
  BY <1>0, Zenon
<1> DEFINE k == [Up EXCEPT !.q = q]
<1>2. \A e \in S : e \in Events /\ e.kind = "end" /\ e.intr
  <2> SUFFICES ASSUME NEW r \in R PROVE LET e == EndOf(r, 0, FALSE, TRUE) IN e \in Events /\ e.kind = "end" /\ e.intr
    BY Zenon
  <2>1. r \in Reqs
    BY Zenon
  <2> QED BY <2>1, Limits DEF EndOf, Events
<1> HIDE DEF S
<1>3. Cardinality(R) \in Nat
  BY SettleAssumption, FS_Subset, FS_CardinalityType, Zenon
<1>4. q \in Seq(S)
  <2>1. q \in [1..Cardinality(R) -> S]
    BY <1>1, Zenon DEF Injection
  <2> QED BY <1>3, <2>1
<1>5. Range(q) \subseteq S /\ q \in Seq(Events)
  BY <1>2, <1>4, SetIn
<1>6. k \in Processes /\ k.st = "up" /\ k.q = q /\ k.batch = <<>> /\ ~k.tx.on
  <2>1. NoTx \in Transactions /\ ~NoTx.on /\ <<>> \in Seq(Events) /\ 0 \in Nat
    BY DEF NoTx, Transactions
  <2>2. Up \in Processes /\ Up.st = "up" /\ Up.batch = <<>> /\ Up.tx = NoTx
    BY <2>1, Zenon DEF Up, Processes
  <2>3. k \in Processes
    BY <1>5, <2>2, Zenon DEF Processes
  <2>4. k.st = Up.st /\ k.q = q /\ k.batch = Up.batch /\ k.tx = Up.tx
    BY <2>2, Zenon DEF Processes
  <2> QED BY <2>1, <2>2, <2>3, <2>4, Zenon
<1>7. inst' = [inst EXCEPT ![i] = k]
  BY <1>1, Zenon
<1> HIDE DEF k
<1>8. ProcessOK(k) /\ TxOK(k) /\ FinalOK(k)
  BY <1>6, Zenon DEF ProcessOK, TxOK, FinalOK
<1>9. \A e \in Pend(k) : e.kind = "end" /\ e.intr
  BY <1>2, <1>5, <1>6, SetIn, Zenon DEF Pend
<1>10. Still /\ UNCHANGED <<overflow, errors, stops>> /\ inst[i].st = "down"
  BY Zenon DEF Restart, Still
<1>11. LossOK'
  BY <1>10, Stopped, Zenon DEF LossOK
<1> QED BY <1>7, <1>8, <1>9, <1>10, <1>11, InstanceStep, Zenon DEF SettleInv, TypesOK
-----------------------------------------------------------------------------
(* Steps of a handler.                                                     *)

NewRows(r, E) == Current(r)' \cup {Row(r, e.n) : e \in {d \in E : d.kind = "attempt" /\ d.flag}}

LEMMA NotedGrows ==
  ASSUME SettleInv, NEW r \in Reqs, NEW i \in Instances, NEW E, NEW k, Joined(i, E, k), UNCHANGED attempts,
         \/ handler'[r].sent = handler[r].sent /\ NewRows(r, E) \subseteq Current(r)
         \/ handler'[r].sent = handler[r].sent + 1 /\ \E x : NewRows(r, E) \subseteq Current(r) \cup {x}
  PROVE  NotedOK(r)'
<1>1. inst'[i] = k /\ \A j \in Instances \ {i} : inst'[j] = inst[j]
  BY Zenon DEF Joined, SettleInv, TypesOK
<1>2. Pend(k) \subseteq Pend(inst[i]) \cup E
  BY Zenon DEF Joined
<1>3. Queued(r)' \subseteq Queued(r) \cup NewRows(r, E)
  <2> SUFFICES ASSUME NEW y \in SentRows, NEW j \in Instances, NEW e \in Pend(inst'[j]),
                      e.kind = "attempt", e.flag, e.r = r, y = Row(r, e.n), y \notin NewRows(r, E)
               PROVE  y \in Queued(r)
    BY Zenon DEF Queued
  <2>1. CASE j # i
    BY <1>1, <2>1, Zenon DEF Queued
  <2>2. CASE j = i
    <3>1. e \in Pend(inst[i])
      BY <1>1, <1>2, <2>2, Zenon DEF NewRows
    <3> QED BY <2>2, <3>1, Zenon DEF Queued
  <2> QED BY <2>1, <2>2, Zenon
<1>4. Sent(r)' = Sent(r) /\ Current(r)' \subseteq NewRows(r, E)
  BY Zenon DEF Sent, NewRows
<1>5. Noted(r)' \subseteq Noted(r) \cup NewRows(r, E)
  BY <1>3, <1>4, Zenon DEF Noted
<1>6. NotedOK(r) /\ handler[r].sent \in Nat
  BY SentNat, Zenon DEF SettleInv
<1>7. CASE handler'[r].sent = handler[r].sent /\ NewRows(r, E) \subseteq Current(r)
  <2>1. Noted(r)' \subseteq Noted(r)
    BY <1>5, <1>7, Zenon DEF Noted
  <2> QED BY <1>6, <1>7, <2>1, NotedLess, Zenon
<1>8. CASE handler'[r].sent = handler[r].sent + 1 /\ \E x : NewRows(r, E) \subseteq Current(r) \cup {x}
  <2>1. PICK x : NewRows(r, E) \subseteq Current(r) \cup {x}
    BY <1>8, Zenon
  <2> DEFINE S == Noted(r)
             T == Noted(r)'
             m == handler[r].sent
  <2>2. T \subseteq S \cup {x}
    BY <1>5, <2>1, Zenon DEF Noted
  <2>3. IsFiniteSet(S) /\ Cardinality(S) <= m /\ m \in Nat /\ handler'[r].sent = m + 1
    BY <1>6, <1>8, Zenon DEF NotedOK
  <2> HIDE DEF S, T, m
  <2>4. /\ IsFiniteSet(S \cup {x}) /\ Cardinality(S) \in Nat
        /\ Cardinality(S \cup {x}) = IF x \in S THEN Cardinality(S) ELSE Cardinality(S) + 1
    BY <2>3, FS_AddElement, FS_CardinalityType, Zenon
  <2>5. Cardinality(S \cup {x}) <= m + 1 /\ Cardinality(S \cup {x}) \in Nat
    BY <2>3, <2>4
  <2>6. IsFiniteSet(T) /\ Cardinality(T) <= Cardinality(S \cup {x}) /\ Cardinality(T) \in Nat
    BY <2>2, <2>4, FS_Subset, FS_CardinalityType, Zenon
  <2>7. IsFiniteSet(T) /\ Cardinality(T) <= handler'[r].sent
    BY <2>3, <2>5, <2>6
  <2> QED BY <2>7, Zenon DEF NotedOK, T
<1> QED BY <1>7, <1>8, Zenon

Numbered(h) == h.n - One(h.st \in {"attempt", "deferred"})

LEMMA EmittedGrows ==
  ASSUME NEW r, NEW K,
         handler'[r].st # "new" => handler[r].st # "new" \/ <<"start", r, 0>> \in K,
         handler'[r].ended => handler[r].ended \/ <<"end", r, 0>> \in K,
         \A n \in 1..Numbered(handler'[r]) : n \in 1..Numbered(handler[r]) \/ <<"attempt", r, n>> \in K
  PROVE  Emitted(r)' \subseteq Emitted(r) \cup K
<1> SUFFICES ASSUME NEW x \in Emitted(r)' PROVE x \in Emitted(r) \cup K
  BY Zenon
<1>1. CASE handler'[r].st # "new" /\ x = <<"start", r, 0>>
  BY <1>1, Zenon DEF Emitted
<1>2. CASE handler'[r].ended /\ x = <<"end", r, 0>>
  BY <1>2, Zenon DEF Emitted
<1>3. CASE \E n \in 1..Numbered(handler'[r]) : x = <<"attempt", r, n>>
  <2>1. PICK n \in 1..Numbered(handler'[r]) : x = <<"attempt", r, n>>
    BY <1>3, Zenon
  <2>2. n \in 1..Numbered(handler[r]) => x \in Emitted(r)
    BY <2>1, Zenon DEF Emitted, Numbered
  <2> QED BY <2>1, <2>2, Zenon
<1> QED BY <1>1, <1>2, <1>3, Zenon DEF Emitted, Numbered

LEMMA HandlerMoves ==
  ASSUME SettleInv, NEW r \in Reqs, NEW h, handler' = [handler EXCEPT ![r] = h],
         UNCHANGED <<fact, attempts, ledger, agg, stops>>, HandlerOK(h), h.business = handler[r].business,
         handler[r].ended => h.ended /\ h.sent = handler[r].sent,
         NEW E, NEW i \in Instances, NEW k, Joined(i, E, k),
         \A e \in E : EventOK(e)',
         \/ h.sent = handler[r].sent /\ NewRows(r, E) \subseteq Current(r)
         \/ h.sent = handler[r].sent + 1 /\ \E x : NewRows(r, E) \subseteq Current(r) \cup {x},
         \A e \in E : e.r = r,
         Emitted(r)' \subseteq Emitted(r) \cup {Key(e) : e \in E}
  PROVE  SettleInv'
<1>1. /\ inst \in [Instances -> Processes] /\ handler \in [Reqs -> Handlers]
      /\ \A j \in Instances : ProcessOK(inst[j]) /\ TxOK(inst[j]) /\ FinalOK(inst[j])
      /\ \A s \in Reqs : HandlerOK(handler[s])
  BY Zenon DEF SettleInv, TypesOK
<1>2. inst'[i] = k /\ \A j \in Instances \ {i} : inst'[j] = inst[j]
  BY <1>1, Zenon DEF Joined
<1>3. handler'[r] = h /\ \A s \in Reqs \ {r} : handler'[s] = handler[s]
  BY <1>1, Zenon
<1>4. k \in Processes /\ h \in Handlers /\ ProcessOK(k) /\ TxOK(k) /\ FinalOK(k)
  BY Zenon DEF Joined, ProcessOK, HandlerOK
<1>5. TypesOK'
  <2>1. inst' \in [Instances -> Processes] /\ \A j \in Instances : ProcessOK(inst'[j])
    BY <1>1, <1>2, <1>4, Zenon DEF Joined
  <2>2. handler' \in [Reqs -> Handlers] /\ \A s \in Reqs : HandlerOK(handler'[s])
    BY <1>1, <1>3, <1>4, Zenon
  <2>3. /\ \A j \in Instances : ProcessOK(inst[j])' /\ \A s \in Reqs : HandlerOK(handler[s])'
    BY <2>1, <2>2, Zenon DEF ProcessOK, HandlerOK
  <2>4. /\ fact' \in [Reqs -> Facts] /\ attempts' \subseteq SentRows /\ IsFiniteSet(attempts')
        /\ agg' \in Aggregates /\ stops' \in 0..MaxStops
    BY Zenon DEF SettleInv, TypesOK
  <2> QED BY <2>1, <2>2, <2>3, <2>4, Zenon DEF TypesOK, Joined
<1>6. EventsOK'
  <2> SUFFICES ASSUME NEW j \in Instances, NEW e \in Pend(inst'[j]) PROVE EventOK(e)'
    BY Zenon DEF EventsOK
  <2>1. CASE e \in E
    BY <2>1, Zenon
  <2>2. CASE e \notin E
    <3>1. e \in Pend(inst[j])
      BY <1>2, <2>2, Zenon DEF Joined
    <3>2. EventOK(e) /\ e \in Events
      BY <3>1, ProcessFields, Zenon DEF SettleInv, EventsOK
    <3>3. e.r \in Reqs
      BY <3>2, Zenon DEF Events
    <3> QED BY <1>3, <3>2, <3>3, Zenon DEF EventOK
  <2> QED BY <2>1, <2>2, Zenon
<1>7. LedgerOK'
  BY Zenon DEF SettleInv, LedgerOK
<1>8. SumsOK'
  <2>1. Business' = Business
    BY <1>3, Zenon DEF Business
  <2> QED BY <2>1, Zenon DEF SettleInv, SumsOK, Settled
<1>9. \A s \in Reqs : DoneOK(s)'
  BY <1>3 DEF SettleInv, DoneOK
<1>10. \A s : Sent(s)' = Sent(s)
  BY Zenon DEF Sent
<1>11. \A j \in Instances : TxOK(inst[j])' /\ FinalOK(inst[j])'
  <2>1. \A e : Ready(e)' <=> Ready(e)
    BY <1>10, Zenon DEF Ready
  <2>2. \A j \in Instances : TxOK(inst'[j]) /\ FinalOK(inst'[j])
    BY <1>1, <1>2, <1>4, Zenon
  <2> QED BY <2>1, <2>2, Zenon DEF TxOK, FinalOK
<1>12. \A s \in Reqs : NotedOK(s)'
  <2>1. NotedOK(r)'
    BY <1>3, NotedGrows, Zenon
  <2>2. ASSUME NEW s \in Reqs, s # r PROVE NotedOK(s)'
    <3>1. handler'[s] = handler[s] /\ handler[s].sent \in Nat /\ NotedOK(s)
      BY <1>3, <2>2, SentNat, Zenon DEF SettleInv
    <3>2. Current(s)' = Current(s)
      BY <3>1, Zenon DEF Current
    <3>3. Queued(s)' \subseteq Queued(s)
      <4> SUFFICES ASSUME NEW y \in SentRows, NEW j \in Instances, NEW e \in Pend(inst'[j]),
                          e.kind = "attempt", e.flag, e.r = s, y = Row(s, e.n)
                   PROVE  y \in Queued(s)
        BY Zenon DEF Queued
      <4>1. e \in Pend(inst[j])
        BY <1>2, <2>2, Zenon DEF Joined
      <4> QED BY <4>1, Zenon DEF Queued
    <3>4. Noted(s)' \subseteq Noted(s)
      BY <1>10, <3>2, <3>3, Zenon DEF Noted
    <3> QED BY <3>1, <3>4, NotedLess, Zenon
  <2> QED BY <2>1, <2>2, Zenon
<1>13. LossOK'
  <2> SUFFICES ASSUME stops = 0
               PROVE  /\ \A j \in Instances : inst'[j].st = "up"
                      /\ \A s \in Reqs : Emitted(s)' \subseteq ledger \cup Waiting' \/ overflow'
    BY Zenon DEF LossOK
  <2>1. \A j \in Instances : inst'[j].st = "up"
    BY <1>2, Zenon DEF SettleInv, LossOK, Joined
  <2>2. ASSUME NEW s \in Reqs, ~overflow', NEW x \in Emitted(s)' PROVE x \in ledger \cup Waiting'
    <3>1. \A t \in Reqs : Emitted(t) \subseteq ledger \cup Waiting
      BY <2>2, Zenon DEF SettleInv, LossOK, Joined
    <3>2. \A j \in Instances : Pend(inst[j]) \subseteq Pend(inst'[j])
      BY <1>2, Zenon DEF Joined
    <3>3. ASSUME NEW y \in Waiting PROVE y \in Waiting'
      <4>0. PICK j \in Instances : \E d \in Pend(inst[j]) : y = Key(d)
        BY <3>3, Zenon DEF Waiting, Pend
      <4>1. PICK d \in Pend(inst[j]) : y = Key(d)
        BY <4>0, Zenon
      <4>2. d \in Pend(inst'[j])
        BY <3>2, Zenon
      <4> QED BY <4>1, <4>2, InWaiting, Zenon
    <3>4. CASE s # r
      <4>1. Emitted(s)' = Emitted(s)
        BY <1>3, <3>4, Zenon DEF Emitted
      <4> QED BY <2>2, <3>1, <3>3, <4>1, Zenon
    <3>5. CASE s = r /\ x \in Emitted(r)
      BY <3>1, <3>3, <3>5, Zenon
    <3>6. CASE s = r /\ x \notin Emitted(r)
      <4>1. PICK e \in E : x = Key(e)
        BY <2>2, <3>6, Zenon
      <4>2. e \in Pend(inst'[i])
        BY <1>2, <2>2, Zenon DEF Joined
      <4> QED BY <4>1, <4>2, InWaiting, Zenon
    <3> QED BY <3>4, <3>5, <3>6, Zenon
  <2> QED BY <2>1, <2>2, Zenon
<1> QED BY <1>5, <1>6, <1>7, <1>8, <1>9, <1>11, <1>12, <1>13, Zenon DEF SettleInv

LEMMA HandlerFields ==
  ASSUME SettleInv, NEW r \in Reqs
  PROVE  /\ handler \in [Reqs -> Handlers] /\ handler[r] \in Handlers /\ HandlerOK(handler[r])
         /\ handler[r].n \in 0..MaxAttempts /\ handler[r].sent \in Nat
         /\ handler[r].wire \in BOOLEAN /\ handler[r].ended \in BOOLEAN /\ handler[r].business \in BOOLEAN
         /\ Home[r] \in Instances /\ MaxAttempts \in Nat
<1>1. handler \in [Reqs -> Handlers] /\ handler[r] \in Handlers /\ HandlerOK(handler[r])
  BY Zenon DEF SettleInv, TypesOK, HandlerOK
<1> QED BY <1>1, Limits, Zenon DEF Handlers

LEMMA HandlerEmits ==
  ASSUME SettleInv, NEW r \in Reqs, NEW h, NEW e \in Events, HandlerStep(r, h, <<e>>),
         HandlerOK(h), h.business = handler[r].business, h.sent = handler[r].sent,
         handler[r].ended => h.ended, e.r = r,
         e.kind = "attempt" => e.n > 0, e.kind = "end" /\ ~e.intr => h.ended /\ e.n = h.sent,
         Current(r)' \subseteq Current(r), e.kind = "attempt" /\ e.flag => Row(r, e.n) \in Current(r),
         Emitted(r)' \subseteq Emitted(r) \cup {Key(e)}
  PROVE  SettleInv'
<1>1. Home[r] \in Instances /\ handler \in [Reqs -> Handlers]
  BY HandlerFields, Zenon
<1>2. /\ inst[Home[r]].st # "down" /\ handler' = [handler EXCEPT ![r] = h]
      /\ UNCHANGED <<fact, attempts, ledger, agg, stops>>
  BY Zenon DEF HandlerStep
<1>3. Enqueue(Home[r], e)
  <2>1. <<e>> # <<>> /\ <<e>>[1] = e
    BY Zenon
  <2> QED BY <2>1, Zenon DEF HandlerStep
<1>4. PICK k : Joined(Home[r], {e}, k)
  BY <1>1, <1>2, <1>3, Enqueues, Zenon
<1>5. handler'[r] = h
  BY <1>1, <1>2, Zenon
<1>6. EventOK(e)'
  BY <1>5, Zenon DEF EventOK
<1>7. NewRows(r, {e}) \subseteq Current(r)
  BY Zenon DEF NewRows
<1>8. {Key(e)} = {Key(d) : d \in {e}}
  BY Zenon
<1> DEFINE E == {e}
<1>9. /\ \A d \in E : EventOK(d)' /\ d.r = r
      /\ NewRows(r, E) \subseteq Current(r) /\ Joined(Home[r], E, k)
      /\ Emitted(r)' \subseteq Emitted(r) \cup {Key(d) : d \in E}
  BY <1>4, <1>6, <1>7, <1>8, Zenon
<1> HIDE DEF E
<1> QED BY <1>1, <1>2, <1>9, HandlerMoves, Zenon

LEMMA HandlerSilent ==
  ASSUME SettleInv, NEW r \in Reqs, NEW h, HandlerStep(r, h, <<>>),
         HandlerOK(h), h.business = handler[r].business, ~handler[r].ended,
         \/ h.sent = handler[r].sent /\ Current(r)' \subseteq Current(r)
         \/ h.sent = handler[r].sent + 1 /\ \E x : Current(r)' \subseteq Current(r) \cup {x},
         Emitted(r)' \subseteq Emitted(r)
  PROVE  SettleInv'
<1>1. Home[r] \in Instances
  BY HandlerFields, Zenon
<1>2. /\ handler' = [handler EXCEPT ![r] = h] /\ UNCHANGED <<inst, overflow, errors>>
      /\ UNCHANGED <<fact, attempts, ledger, agg, stops>>
  BY Zenon DEF HandlerStep
<1>3. inst = [inst EXCEPT ![Home[r]] = inst[Home[r]]]
  BY <1>1, Zenon DEF SettleInv, TypesOK
<1> DEFINE E == {}
<1>4. Joined(Home[r], E, inst[Home[r]])
  BY <1>1, <1>2, <1>3, Zenon DEF Joined, SettleInv, TypesOK
<1>5. /\ \A d \in E : EventOK(d)' /\ d.r = r
      /\ NewRows(r, E) = Current(r)'
      /\ Emitted(r)' \subseteq Emitted(r) \cup {Key(d) : d \in E}
  BY Zenon DEF NewRows
<1>6. \/ h.sent = handler[r].sent /\ NewRows(r, E) \subseteq Current(r)
      \/ h.sent = handler[r].sent + 1 /\ \E x : NewRows(r, E) \subseteq Current(r) \cup {x}
  BY <1>5, Zenon
<1> HIDE DEF E
<1> QED BY <1>1, <1>2, <1>4, <1>5, <1>6, HandlerMoves, Zenon

LEMMA StartRequestKeeps ==
  ASSUME SettleInv, NEW r \in Reqs, StartRequest(r)
  PROVE  SettleInv'
<1> DEFINE h == [handler[r] EXCEPT !.st = "idle"]
           e == StartOf(r)
<1>1. /\ handler \in [Reqs -> Handlers] /\ handler[r] \in Handlers /\ HandlerOK(handler[r])
      /\ handler[r].n \in 0..MaxAttempts /\ handler[r].sent \in Nat /\ MaxAttempts \in Nat
  BY HandlerFields, Zenon
<1>2. HandlerStep(r, h, <<e>>) /\ handler[r].st = "new"
  BY Zenon DEF StartRequest
<1>3. /\ h \in Handlers /\ h.st = "idle" /\ h.n = handler[r].n /\ h.sent = handler[r].sent
      /\ h.ended = handler[r].ended /\ h.business = handler[r].business
  BY <1>1, Zenon DEF Handlers
<1>4. e \in Events /\ e.kind = "start" /\ e.r = r /\ Key(e) = <<"start", r, 0>>
  BY Limits DEF StartOf, Events, Key
<1>5. handler'[r] = h
  BY <1>1, <1>2, Zenon DEF HandlerStep
<1> HIDE DEF h, e
<1>6. HandlerOK(h)
  BY <1>1, <1>2, <1>3, Zenon DEF HandlerOK
<1>7. Current(r)' = {}
  BY <1>3, <1>5, Zenon DEF Current
<1>8. Emitted(r)' \subseteq Emitted(r) \cup {Key(e)}
  <2>1. Numbered(handler'[r]) = Numbered(handler[r])
    BY <1>2, <1>3, <1>5, Zenon DEF Numbered, One
  <2> QED BY <1>3, <1>4, <1>5, <2>1, EmittedGrows, Zenon
<1> QED BY <1>2, <1>3, <1>4, <1>6, <1>7, <1>8, HandlerEmits, Zenon

LEMMA StartAttemptKeeps ==
  ASSUME SettleInv, NEW r \in Reqs, StartAttempt(r)
  PROVE  SettleInv'
<1> DEFINE h == [handler[r] EXCEPT !.st = "attempt", !.n = @ + 1, !.wire = FALSE]
<1>1. /\ handler \in [Reqs -> Handlers] /\ handler[r] \in Handlers /\ HandlerOK(handler[r])
      /\ handler[r].n \in 0..MaxAttempts /\ handler[r].sent \in Nat /\ MaxAttempts \in Nat
  BY HandlerFields, Zenon
<1>2. HandlerStep(r, h, <<>>) /\ handler[r].st = "idle" /\ handler[r].n < MaxAttempts
  BY Zenon DEF StartAttempt
<1>3. handler[r].n + 1 \in 0..MaxAttempts
  BY <1>1, <1>2
<1>4. /\ h \in Handlers /\ h.st = "attempt" /\ h.n = handler[r].n + 1 /\ h.sent = handler[r].sent
      /\ h.ended = handler[r].ended /\ h.business = handler[r].business /\ ~h.wire
  BY <1>1, <1>3, Zenon DEF Handlers
<1>5. handler'[r] = h
  BY <1>1, <1>2, Zenon DEF HandlerStep
<1> HIDE DEF h
<1>6. HandlerOK(h) /\ ~handler[r].ended
  <2>1. handler[r].sent <= handler[r].n /\ ~handler[r].ended
    BY <1>1, <1>2, Zenon DEF HandlerOK
  <2>2. h.sent < h.n /\ h.sent <= h.n /\ h.n > 0
    BY <1>1, <1>4, <2>1
  <2> QED BY <1>4, <2>1, <2>2, Zenon DEF HandlerOK
<1>7. Current(r)' = {}
  BY <1>4, <1>5, Zenon DEF Current
<1>8. Emitted(r)' \subseteq Emitted(r)
  <2>1. Numbered(handler'[r]) = Numbered(handler[r])
    BY <1>1, <1>2, <1>4, <1>5 DEF Numbered, One
  <2>2. Emitted(r)' \subseteq Emitted(r) \cup {}
    BY <1>2, <1>4, <1>5, <2>1, EmittedGrows, Zenon
  <2> QED BY <2>2, Zenon
<1> QED BY <1>2, <1>4, <1>6, <1>7, <1>8, HandlerSilent, Zenon

LEMMA SendHTTPKeeps ==
  ASSUME SettleInv, NEW r \in Reqs, SendHTTP(r)
  PROVE  SettleInv'
<1> DEFINE h == [handler[r] EXCEPT !.wire = TRUE, !.sent = @ + 1]
<1>1. /\ handler \in [Reqs -> Handlers] /\ handler[r] \in Handlers /\ HandlerOK(handler[r])
      /\ handler[r].n \in 0..MaxAttempts /\ handler[r].sent \in Nat /\ MaxAttempts \in Nat
  BY HandlerFields, Zenon
<1>2. HandlerStep(r, h, <<>>) /\ handler[r].st = "attempt" /\ ~handler[r].wire
  BY Zenon DEF SendHTTP
<1>3. handler[r].sent + 1 \in Nat
  BY <1>1
<1>4. /\ h \in Handlers /\ h.st = handler[r].st /\ h.n = handler[r].n /\ h.sent = handler[r].sent + 1
      /\ h.ended = handler[r].ended /\ h.business = handler[r].business /\ h.wire
  BY <1>1, <1>3, Zenon DEF Handlers
<1>5. handler'[r] = h
  BY <1>1, <1>2, Zenon DEF HandlerStep
<1> HIDE DEF h
<1>6. HandlerOK(h) /\ ~handler[r].ended
  <2>1. handler[r].sent < handler[r].n /\ ~handler[r].ended
    BY <1>1, <1>2, Zenon DEF HandlerOK
  <2>2. h.sent <= h.n /\ h.n > 0
    BY <1>1, <1>4, <2>1
  <2> QED BY <1>2, <1>4, <2>1, <2>2, Zenon DEF HandlerOK
<1>7. Current(r)' \subseteq Current(r) \cup {Row(r, h.n)}
  BY <1>5, Zenon DEF Current
<1>8. Emitted(r)' \subseteq Emitted(r)
  <2>1. Numbered(handler'[r]) = Numbered(handler[r])
    BY <1>2, <1>4, <1>5, Zenon DEF Numbered, One
  <2>2. Emitted(r)' \subseteq Emitted(r) \cup {}
    BY <1>2, <1>4, <1>5, <2>1, EmittedGrows, Zenon
  <2> QED BY <2>2, Zenon
<1> QED BY <1>2, <1>4, <1>6, <1>7, <1>8, HandlerSilent, Zenon

(* The attempt under way is reported.                                      *)
LEMMA Reports ==
  ASSUME SettleInv, NEW r \in Reqs, NEW h, HandlerStep(r, h, <<LastAttempt(r)>>),
         handler[r].st \in {"attempt", "deferred"}, h.st \in {"idle", "done"},
         HandlerOK(h), h.n = handler[r].n, h.sent = handler[r].sent, h.ended = handler[r].ended,
         h.business = handler[r].business
  PROVE  SettleInv'
<1> DEFINE e == LastAttempt(r)
<1>1. /\ handler \in [Reqs -> Handlers] /\ HandlerOK(handler[r])
      /\ handler[r].n \in 0..MaxAttempts /\ handler[r].wire \in BOOLEAN /\ MaxAttempts \in Nat
  BY HandlerFields, Zenon
<1>2. handler[r].n > 0
  BY <1>1, Zenon DEF HandlerOK
<1>3. e \in Events
  BY <1>1, Zenon DEF LastAttempt, AttemptOf, Events
<1>4. e.kind = "attempt" /\ e.r = r /\ e.n = handler[r].n /\ e.flag = handler[r].wire
  BY Zenon DEF LastAttempt, AttemptOf
<1>5. handler'[r] = h
  BY <1>1, Zenon DEF HandlerStep
<1>6. HandlerStep(r, h, <<e>>)
  BY Zenon
<1> HIDE DEF e
<1>7. Key(e) = <<"attempt", r, handler[r].n>>
  BY <1>4, Zenon DEF Key
<1>8. Current(r)' = {}
  BY <1>5, Zenon DEF Current
<1>9. e.flag => Row(r, e.n) \in Current(r)
  BY <1>4, Zenon DEF Current
<1>10. Emitted(r)' \subseteq Emitted(r) \cup {Key(e)}
  <2>1. Numbered(handler'[r]) = handler[r].n /\ Numbered(handler[r]) = handler[r].n - 1
    BY <1>1, <1>5 DEF Numbered, One
  <2>2. \A n \in 1..Numbered(handler'[r]) : n \in 1..Numbered(handler[r]) \/ <<"attempt", r, n>> \in {Key(e)}
    BY <1>1, <1>7, <2>1
  <2>3. handler[r].st # "new"
    BY Zenon
  <2> QED BY <1>5, <2>2, <2>3, EmittedGrows, Zenon
<1> QED BY <1>2, <1>3, <1>4, <1>6, <1>8, <1>9, <1>10, HandlerEmits, Zenon

LEMMA FailoverKeeps ==
  ASSUME SettleInv, NEW r \in Reqs, Failover(r)
  PROVE  SettleInv'
<1> DEFINE h == [handler[r] EXCEPT !.st = "idle"]
<1>1. handler[r] \in Handlers /\ HandlerOK(handler[r])
  BY HandlerFields, Zenon
<1>2. HandlerStep(r, h, <<LastAttempt(r)>>) /\ handler[r].st = "attempt"
  BY Zenon DEF Failover
<1>3. /\ h \in Handlers /\ h.st = "idle" /\ h.n = handler[r].n /\ h.sent = handler[r].sent
      /\ h.ended = handler[r].ended /\ h.business = handler[r].business
  BY <1>1, Zenon DEF Handlers
<1> HIDE DEF h
<1>4. HandlerOK(h)
  BY <1>1, <1>2, <1>3, Zenon DEF HandlerOK
<1> QED BY <1>2, <1>3, <1>4, Reports, Zenon

LEMMA CompleteKeeps ==
  ASSUME SettleInv, NEW r \in Reqs, completeAttempt(r)
  PROVE  SettleInv'
<1> DEFINE h == [handler[r] EXCEPT !.st = "done"]
<1>1. handler[r] \in Handlers /\ HandlerOK(handler[r])
  BY HandlerFields, Zenon
<1>2. HandlerStep(r, h, <<LastAttempt(r)>>) /\ handler[r].st = "deferred"
  BY Zenon DEF completeAttempt
<1>3. /\ h \in Handlers /\ h.st = "done" /\ h.n = handler[r].n /\ h.sent = handler[r].sent
      /\ h.ended = handler[r].ended /\ h.business = handler[r].business
  BY <1>1, Zenon DEF Handlers
<1> HIDE DEF h
<1>4. HandlerOK(h)
  BY <1>1, <1>2, <1>3, Zenon DEF HandlerOK
<1> QED BY <1>2, <1>3, <1>4, Reports, Zenon

LEMMA FinishKeeps ==
  ASSUME SettleInv, NEW r \in Reqs, NEW ok \in BOOLEAN, NEW intr \in BOOLEAN, Finish(r, ok, intr)
  PROVE  SettleInv'
<1> DEFINE st == IF handler[r].st = "attempt" THEN "deferred" ELSE "done"
           h == [handler[r] EXCEPT !.st = st, !.ended = TRUE]
           e == EndOf(r, handler[r].sent, ok, intr)
<1>1. /\ handler \in [Reqs -> Handlers] /\ handler[r] \in Handlers /\ HandlerOK(handler[r])
      /\ handler[r].n \in 0..MaxAttempts /\ handler[r].sent \in Nat /\ MaxAttempts \in Nat
  BY HandlerFields, Zenon
<1>2. HandlerStep(r, h, <<e>>) /\ handler[r].st \in {"idle", "attempt"}
  BY Zenon DEF Finish
<1>3. (st = "deferred" /\ handler[r].st = "attempt") \/ (st = "done" /\ handler[r].st = "idle")
  BY <1>2, Zenon
<1> HIDE DEF st
<1>4. /\ h \in Handlers /\ h.st = st /\ h.n = handler[r].n /\ h.sent = handler[r].sent
      /\ h.wire = handler[r].wire /\ h.ended /\ h.business = handler[r].business
  BY <1>1, <1>3, Zenon DEF Handlers
<1>5. handler'[r] = h
  BY <1>1, <1>2, Zenon DEF HandlerStep
<1> HIDE DEF h
<1>6. HandlerOK(h)
  BY <1>1, <1>3, <1>4, Zenon DEF HandlerOK
<1>7. handler[r].sent \in 0..MaxAttempts
  BY <1>1 DEF HandlerOK
<1>8. e \in Events
  BY <1>7, Zenon DEF EndOf, Events
<1>9. e.kind = "end" /\ e.r = r /\ e.n = handler[r].sent /\ Key(e) = <<"end", r, 0>>
  BY Zenon DEF EndOf, Key
<1> HIDE DEF e
<1>10. Current(r)' \subseteq Current(r)
  BY <1>3, <1>4, <1>5, Zenon DEF Current
<1>11. Emitted(r)' \subseteq Emitted(r) \cup {Key(e)}
  <2>1. Numbered(handler'[r]) = Numbered(handler[r])
    BY <1>3, <1>4, <1>5, Zenon DEF Numbered, One
  <2>2. handler[r].st # "new" /\ <<"end", r, 0>> \in {Key(e)}
    BY <1>2, <1>9, Zenon
  <2> QED BY <1>5, <2>1, <2>2, EmittedGrows, Zenon
<1> QED BY <1>2, <1>4, <1>6, <1>8, <1>9, <1>10, <1>11, HandlerEmits, Zenon
-----------------------------------------------------------------------------
(* Steps that settle, and stops.                                           *)

LEMMA CrashKeeps ==
  ASSUME SettleInv, NEW i \in Instances, Crash(i)
  PROVE  SettleInv'
<1> DEFINE k == [Up EXCEPT !.st = "down", !.clean = FALSE]
           H(r) == IF Home[r] = i /\ handler[r].st \notin {"new", "done"}
                   THEN [handler[r] EXCEPT !.st = "lost"] ELSE handler[r]
<1>1. /\ inst' = [inst EXCEPT ![i] = k] /\ handler' = [r \in Reqs |-> H(r)]
      /\ UNCHANGED <<fact, attempts, ledger, agg, overflow, errors>> /\ stops < MaxStops /\ stops' = stops + 1
  BY Zenon DEF Crash
<1>2. /\ inst \in [Instances -> Processes] /\ handler \in [Reqs -> Handlers]
      /\ \A j \in Instances : ProcessOK(inst[j]) /\ TxOK(inst[j]) /\ FinalOK(inst[j])
      /\ \A s \in Reqs : HandlerOK(handler[s])
  BY Zenon DEF SettleInv, TypesOK
<1>3. k \in Processes /\ k.st = "down" /\ ~k.clean /\ k.q = <<>> /\ k.batch = <<>> /\ ~k.tx.on
  <2>1. NoTx \in Transactions /\ ~NoTx.on /\ <<>> \in Seq(Events) /\ 0 \in Nat
    BY DEF NoTx, Transactions
  <2>2. Up \in Processes /\ Up.q = <<>> /\ Up.batch = <<>> /\ Up.tx = NoTx
    BY <2>1, Zenon DEF Up, Processes
  <2> QED BY <2>1, <2>2, Zenon DEF Processes
<1>4. \A r \in Reqs : /\ H(r) \in Handlers /\ HandlerOK(H(r)) /\ H(r).ended = handler[r].ended
                      /\ H(r).sent = handler[r].sent /\ H(r).business = handler[r].business
                      /\ H(r).st = "lost" \/ H(r) = handler[r]
  <2> SUFFICES ASSUME NEW r \in Reqs
               PROVE  /\ H(r) \in Handlers /\ HandlerOK(H(r)) /\ H(r).ended = handler[r].ended
                      /\ H(r).sent = handler[r].sent /\ H(r).business = handler[r].business
                      /\ H(r).st = "lost" \/ H(r) = handler[r]
    BY Zenon
  <2> DEFINE h == [handler[r] EXCEPT !.st = "lost"]
  <2>1. handler[r] \in Handlers /\ HandlerOK(handler[r])
    BY <1>2, Zenon
  <2>2. /\ h \in Handlers /\ h.st = "lost" /\ h.ended = handler[r].ended /\ h.sent = handler[r].sent
        /\ h.business = handler[r].business /\ h.n = handler[r].n
    BY <2>1, Zenon DEF Handlers
  <2> HIDE DEF h
  <2>3. HandlerOK(h)
    BY <2>1, <2>2, Zenon DEF HandlerOK
  <2>4. H(r) = h \/ H(r) = handler[r]
    BY Zenon DEF h
  <2> QED BY <2>1, <2>2, <2>3, <2>4, Zenon
<1>5. \A r \in Reqs : handler'[r] = H(r)
  BY <1>1, Zenon
<1> HIDE DEF k, H
<1>6. inst'[i] = k /\ \A j \in Instances \ {i} : inst'[j] = inst[j]
  BY <1>1, <1>2, Zenon
<1>7. ProcessOK(k) /\ TxOK(k) /\ FinalOK(k) /\ Pend(k) = {}
  <2>1. Range(<<>>) = {}
    BY DEF Range
  <2>2. Pend(k) = {}
    BY <1>3, <2>1, Zenon DEF Pend
  <2> QED BY <1>3, <2>2, Zenon DEF ProcessOK, TxOK, FinalOK
<1>8. TypesOK'
  <2>1. inst' \in [Instances -> Processes] /\ \A j \in Instances : ProcessOK(inst'[j])
    BY <1>1, <1>2, <1>3, <1>6, <1>7, Zenon
  <2>2. handler' \in [Reqs -> Handlers] /\ \A s \in Reqs : HandlerOK(handler'[s])
    BY <1>1, <1>4, <1>5, Zenon
  <2>3. /\ \A j \in Instances : ProcessOK(inst[j])' /\ \A s \in Reqs : HandlerOK(handler[s])'
    BY <2>1, <2>2, Zenon DEF ProcessOK, HandlerOK
  <2>4. stops' \in 0..MaxStops
    BY <1>1, Limits DEF SettleInv, TypesOK
  <2>5. /\ fact' \in [Reqs -> Facts] /\ attempts' \subseteq SentRows /\ IsFiniteSet(attempts')
        /\ agg' \in Aggregates /\ overflow' \in BOOLEAN /\ errors' \in 0..MaxErrors
    BY <1>1, Zenon DEF SettleInv, TypesOK
  <2> QED BY <2>1, <2>2, <2>3, <2>4, <2>5, Zenon DEF TypesOK
<1>9. \A j \in Instances : Pend(inst'[j]) \subseteq Pend(inst[j])
  BY <1>6, <1>7, Zenon
<1>10. EventsOK'
  <2> SUFFICES ASSUME NEW j \in Instances, NEW e \in Pend(inst'[j]) PROVE EventOK(e)'
    BY Zenon DEF EventsOK
  <2>1. EventOK(e) /\ e \in Events
    BY <1>9, ProcessFields, Zenon DEF SettleInv, EventsOK
  <2>2. e.r \in Reqs
    BY <2>1, Zenon DEF Events
  <2> QED BY <1>4, <1>5, <2>1, <2>2, Zenon DEF EventOK
<1>11. LedgerOK'
  BY <1>1, Zenon DEF SettleInv, LedgerOK
<1>12. SumsOK'
  <2>1. Business' = Business
    BY <1>4, <1>5, Zenon DEF Business
  <2> QED BY <1>1, <2>1, Zenon DEF SettleInv, SumsOK, Settled
<1>13. \A s \in Reqs : DoneOK(s)'
  BY <1>1, <1>4, <1>5, Zenon DEF SettleInv, DoneOK
<1>14. \A s : Sent(s)' = Sent(s)
  BY <1>1, Zenon DEF Sent
<1>15. \A j \in Instances : TxOK(inst[j])' /\ FinalOK(inst[j])'
  <2>1. \A e : Ready(e)' <=> Ready(e)
    BY <1>1, <1>14, Zenon DEF Ready
  <2>2. \A j \in Instances : TxOK(inst'[j]) /\ FinalOK(inst'[j])
    BY <1>2, <1>6, <1>7, Zenon
  <2> QED BY <1>1, <2>1, <2>2, Zenon DEF TxOK, FinalOK
<1>16. ASSUME NEW s \in Reqs PROVE NotedOK(s)'
  <2>1. handler'[s].sent = handler[s].sent /\ handler[s].sent \in Nat /\ NotedOK(s)
    BY <1>4, <1>5, SentNat, Zenon DEF SettleInv
  <2>2. Current(s)' \subseteq Current(s)
    BY <1>4, <1>5, Zenon DEF Current
  <2>3. Queued(s)' \subseteq Queued(s)
    BY <1>9, Zenon DEF Queued
  <2>4. Noted(s)' \subseteq Noted(s)
    BY <1>14, <2>2, <2>3, Zenon DEF Noted
  <2> QED BY <2>1, <2>4, NotedLess, Zenon
<1>17. LossOK'
  <2>1. stops' # 0
    BY <1>1 DEF SettleInv, TypesOK
  <2> QED BY <2>1, Zenon DEF LossOK
<1> QED BY <1>8, <1>10, <1>11, <1>12, <1>13, <1>15, <1>16, <1>17, Zenon DEF SettleInv

(* One instance settles.                                                   *)
Lone == \A i, j \in Instances : i = j

(* The transaction of instance i is over, its event settled or tried again.*)
Finished(i, k) ==
  /\ inst' = [inst EXCEPT ![i] = k] /\ ProcessOK(k) /\ ~k.tx.on /\ k.st = inst[i].st /\ k.st # "down"
  /\ k.st = "final" /\ k.clean => Len(k.q) + Len(k.batch) <= k.before /\ Len(k.q) + Len(k.batch) # k.before
  /\ \A e \in Pend(k) : \E d \in Pend(inst[i]) : Like(e, d)
  /\ \A d \in Pend(inst[i]) : d = Head1(i) \/ \E e \in Pend(k) : Like(d, e)
  /\ errors' \in 0..MaxErrors

LEMMA Finishes ==
  ASSUME SettleInv, NEW i \in Instances, Commit(i)
  PROVE  \E k : Finished(i, k)
<1>1. inst[i].tx.on
  BY Zenon DEF Commit
<1>2. /\ inst[i] \in Processes /\ inst[i].batch # <<>> /\ inst[i].st # "down" /\ inst[i].clean \in BOOLEAN
      /\ inst \in [Instances -> Processes]
  BY <1>1, ProcessFields, BatchHead, Zenon DEF SettleInv, TypesOK
<1>3. NoTx \in Transactions /\ ~NoTx.on
  BY Zenon DEF NoTx, Transactions
<1>4. errors \in 0..MaxErrors /\ MaxErrors \in Nat
  BY Limits, Zenon DEF SettleInv, TypesOK
<1>5. CASE inst' = Taken(i, [inst[i] EXCEPT !.tx = NoTx]) /\ UNCHANGED errors
  <2> DEFINE k == [inst[i] EXCEPT !.batch = Tail(inst[i].batch), !.tx = NoTx]
  <2>1. inst' = [inst EXCEPT ![i] = k]
    <3>1. k = [[inst[i] EXCEPT !.tx = NoTx] EXCEPT !.batch = Tail(@)]
      BY <1>2, Zenon DEF Processes
    <3> QED BY <1>5, <3>1, Zenon DEF Taken
  <2>2. /\ k \in Processes /\ k.st = inst[i].st /\ k.q = inst[i].q /\ k.batch = Tail(inst[i].batch)
        /\ k.tx = NoTx /\ k.before = inst[i].before /\ k.clean = inst[i].clean
    BY <1>2, <1>3, TakenIs, Zenon
  <2> HIDE DEF k
  <2>3. /\ ProcessOK(k) /\ Pend(inst[i]) = Pend(k) \cup {Head1(i)}
        /\ k.st = "final" /\ k.clean => Len(k.q) + Len(k.batch) <= k.before /\ Len(k.q) + Len(k.batch) # k.before
    BY <1>2, <1>3, <2>2, Drops, Zenon
  <2>4. \A e : Like(e, e)
    BY Zenon DEF Like
  <2>5. Finished(i, k)
    BY <1>2, <1>3, <1>4, <1>5, <2>1, <2>2, <2>3, <2>4, Zenon DEF Finished
  <2> QED BY <2>5, Zenon
<1>6. CASE errors < MaxErrors /\ errors' = errors + 1 /\ inst' = [Retried(i, TRUE) EXCEPT ![i].tx = NoTx]
  <2> DEFINE c == inst[i].clean /\ ~(TRUE /\ inst[i].st = "final")
             k == PutBack(i, c, NoTx)
  <2>1. inst' = [inst EXCEPT ![i] = k]
    <3> DEFINE g == [[inst[i] EXCEPT !.q = Append(@, Tried(i)), !.clean = c] EXCEPT !.batch = Tail(@)]
    <3>1. k = [g EXCEPT !.tx = NoTx]
      BY <1>2, Zenon DEF Processes, PutBack
    <3>2. Retried(i, TRUE) = [inst EXCEPT ![i] = g]
      BY Zenon DEF Retried, Taken, Tried
    <3> HIDE DEF g, k
    <3>3. [[inst EXCEPT ![i] = g] EXCEPT ![i].tx = NoTx] = [inst EXCEPT ![i] = [g EXCEPT !.tx = NoTx]]
      BY <1>2, Zenon
    <3> QED BY <1>6, <3>1, <3>2, <3>3, Zenon
  <2>2. c \in BOOLEAN /\ (c => inst[i].clean) /\ ~(c /\ inst[i].st = "final")
    BY Zenon
  <2> HIDE DEF c, k
  <2>3. /\ ProcessOK(k) /\ k.st = inst[i].st /\ k.clean = c /\ k.tx = NoTx
        /\ \A e \in Pend(k) : \E d \in Pend(inst[i]) : Like(e, d)
        /\ \A d \in Pend(inst[i]) : \E e \in Pend(k) : Like(d, e)
    <3>1. PutBackOK(i, c, NoTx, PutBack(i, c, NoTx))
      BY <1>2, <1>3, <2>2, Retries, Zenon
    <3>2. k = PutBack(i, c, NoTx)
      BY Zenon DEF k
    <3> QED BY <3>1, <3>2, Zenon DEF PutBackOK
  <2>4. errors' \in 0..MaxErrors
    BY <1>4, <1>6
  <2>5. Finished(i, k)
    BY <1>2, <1>3, <2>1, <2>2, <2>3, <2>4, Zenon DEF Finished
  <2> QED BY <2>5, Zenon
<1> QED BY <1>5, <1>6, Zenon DEF Commit

LEMMA CommitMoves ==
  ASSUME SettleInv, Lone, NEW i \in Instances, NEW k, Finished(i, k), UNCHANGED <<handler, overflow, stops>>,
         ledger' = ledger \cup {Key(Head1(i))},
         fact' \in [Reqs -> Facts], attempts' \subseteq SentRows, IsFiniteSet(attempts'), agg' \in Aggregates,
         LedgerOK', SumsOK', \A r \in Reqs : DoneOK(r)' /\ Sent(r)' \subseteq Sent(r) \cup Queued(r)
  PROVE  SettleInv'
<1>1. /\ inst \in [Instances -> Processes] /\ k \in Processes /\ ProcessOK(k)
  BY Zenon DEF SettleInv, TypesOK, Finished, ProcessOK
<1>2. inst'[i] = k /\ \A j \in Instances : j = i
  BY <1>1, Zenon DEF Finished, Lone
<1>3. TypesOK'
  <2>1. inst' \in [Instances -> Processes] /\ \A j \in Instances : ProcessOK(inst'[j])
    BY <1>1, <1>2, Zenon DEF Finished
  <2>2. \A j \in Instances : ProcessOK(inst[j])'
    BY <2>1, Zenon DEF ProcessOK
  <2>3. handler' \in [Reqs -> Handlers] /\ \A s \in Reqs : HandlerOK(handler[s])'
    BY Zenon DEF SettleInv, TypesOK, HandlerOK
  <2> QED BY <2>1, <2>2, <2>3, Zenon DEF SettleInv, TypesOK, Finished
<1>4. EventsOK'
  <2> SUFFICES ASSUME NEW j \in Instances, NEW e \in Pend(inst'[j]) PROVE EventOK(e)'
    BY Zenon DEF EventsOK
  <2>1. PICK d \in Pend(inst[i]) : Like(e, d)
    BY <1>2, Zenon DEF Finished
  <2>2. EventOK(e)
    BY <2>1, LikeFacts, Zenon DEF SettleInv, EventsOK
  <2> QED BY <2>2, Zenon DEF EventOK
<1>5. ASSUME NEW r \in Reqs PROVE NotedOK(r)'
  <2>1. Queued(r)' \subseteq Queued(r)
    <3> SUFFICES ASSUME NEW x \in SentRows, NEW j \in Instances, NEW e \in Pend(inst'[j]),
                        e.kind = "attempt", e.flag, e.r = r, x = Row(r, e.n)
                 PROVE  x \in Queued(r)
      BY Zenon DEF Queued
    <3>1. PICK d \in Pend(inst[i]) : Like(e, d)
      BY <1>2, Zenon DEF Finished
    <3> QED BY <3>1, Zenon DEF Queued, Like
  <2>2. Current(r)' = Current(r)
    BY Zenon DEF Current
  <2>3. Noted(r)' \subseteq Noted(r)
    BY <2>1, <2>2, Zenon DEF Noted
  <2> QED BY <2>3, NotedLess, SentNat, Zenon DEF SettleInv
<1>6. TxOK(inst[i])' /\ FinalOK(inst[i])'
  BY <1>2, Zenon DEF TxOK, FinalOK, Finished
<1>7. LossOK'
  <2> SUFFICES ASSUME stops = 0
               PROVE  /\ \A j \in Instances : inst'[j].st = "up"
                      /\ \A s \in Reqs : Emitted(s)' \subseteq ledger' \cup Waiting' \/ overflow
    BY Zenon DEF LossOK
  <2>1. \A j \in Instances : inst'[j].st = "up"
    BY <1>2, Zenon DEF SettleInv, LossOK, Finished
  <2>2. ASSUME NEW s \in Reqs, ~overflow, NEW x \in Emitted(s)' PROVE x \in ledger' \cup Waiting'
    <3>1. Emitted(s)' = Emitted(s)
      BY Zenon DEF Emitted
    <3>2. x \in ledger \cup Waiting
      BY <2>2, <3>1, Zenon DEF SettleInv, LossOK
    <3>3. CASE x \in Waiting /\ x \notin ledger'
      <4>0. PICK j \in Instances : \E d \in Pend(inst[j]) : x = Key(d)
        BY <3>3, Zenon DEF Waiting, Pend
      <4>1. PICK d \in Pend(inst[i]) : x = Key(d)
        BY <1>2, <4>0, Zenon
      <4>2. PICK e \in Pend(k) : Like(d, e)
        BY <3>3, <4>1, Zenon DEF Finished
      <4>3. e \in Pend(inst'[i]) /\ x = Key(e)
        BY <1>2, <4>1, <4>2, LikeFacts, Zenon
      <4> QED BY <4>3, InWaiting, Zenon
    <3> QED BY <3>2, <3>3, Zenon
  <2> QED BY <2>1, <2>2, Zenon
<1> QED BY <1>2, <1>3, <1>4, <1>5, <1>6, <1>7, Zenon DEF SettleInv

LEMMA CommitEvent ==
  ASSUME SettleInv, NEW i \in Instances, Commit(i)
  PROVE  LET e == Head1(i)
         IN  /\ e \in Events /\ e.r \in Reqs /\ e \in Pend(inst[i]) /\ EventOK(e) /\ Ready(e)
             /\ Key(e) \notin ledger /\ inst[i].tx.read = agg
             /\ ledger' = ledger \cup {Key(e)} /\ UNCHANGED <<handler, overflow, stops>>
<1> DEFINE e == Head1(i)
<1>1. inst[i].tx.on /\ inst[i].batch # <<>> /\ TxOK(inst[i])
  BY ProcessFields, Zenon DEF Commit
<1>2. e \in Events /\ e \in Pend(inst[i])
  BY <1>1, BatchHead, Zenon
<1>3. e.r \in Reqs
  BY <1>2, Zenon DEF Events
<1>4. Ready(e) /\ Key(e) \notin ledger /\ inst[i].tx.read = agg
  BY <1>1, Zenon DEF TxOK, Head1
<1>5. EventOK(e)
  BY <1>2, Zenon DEF SettleInv, EventsOK
<1>6. ledger' = ledger \cup {Key(e)} /\ UNCHANGED <<handler, overflow, stops>>
  BY Zenon DEF Commit
<1> QED BY <1>2, <1>3, <1>4, <1>5, <1>6, Zenon

LEMMA Counting ==
  ASSUME NEW S, IsFiniteSet(S), NEW x, x \notin S, NEW T, NEW b \in BOOLEAN,
         T = IF b THEN S \cup {x} ELSE S
  PROVE  Cardinality(T) = Cardinality(S) + One(b) /\ Cardinality(S) \in Nat /\ Cardinality(T) \in Nat
<1>1. Cardinality(S) \in Nat
  BY FS_CardinalityType, Zenon
<1>2. CASE b
  <2>1. T = S \cup {x} /\ One(b) = 1
    BY <1>2, Zenon DEF One
  <2>2. Cardinality(S \cup {x}) = IF x \in S THEN Cardinality(S) ELSE Cardinality(S) + 1
    BY FS_AddElement, Zenon
  <2>3. Cardinality(T) = Cardinality(S) + 1
    BY <2>1, <2>2, Zenon
  <2> QED BY <1>1, <2>1, <2>3
<1>3. CASE ~b
  <2>1. T = S /\ One(b) = 0
    BY <1>3, Zenon DEF One
  <2> QED BY <1>1, <2>1
<1> QED BY <1>2, <1>3, Zenon

LEMMA AttemptCommits ==
  ASSUME SettleInv, Lone, NEW i \in Instances, Commit(i), Head1(i).kind = "attempt"
  PROVE  SettleInv'
<1> DEFINE e == Head1(i)
           x == [r |-> e.r, n |-> e.n, sent |-> e.flag]
           A == applyAttemptAgg(agg.attempt, e)
<1>1. /\ e \in Events /\ e.r \in Reqs /\ e \in Pend(inst[i]) /\ EventOK(e)
      /\ Key(e) \notin ledger /\ inst[i].tx.read = agg
      /\ ledger' = ledger \cup {Key(e)} /\ UNCHANGED <<handler, overflow, stops>>
  BY CommitEvent, Zenon
<1>2. fact' = fact /\ attempts' = attempts \cup {x} /\ agg' = [agg EXCEPT !.attempt = A]
  BY <1>1, Zenon DEF Commit
<1>3. e.n \in 1..MaxAttempts /\ e.flag \in BOOLEAN /\ e.kind = "attempt"
  BY <1>1, Limits DEF Events, EventOK
<1>4. x \in SentRows /\ x.r = e.r /\ x.n = e.n /\ x.sent = e.flag
  BY <1>1, <1>3, Zenon DEF SentRows
<1>5. Key(e) = <<"attempt", e.r, e.n>>
  BY <1>3, Zenon DEF Key
<1>6. /\ attempts \subseteq SentRows /\ IsFiniteSet(attempts) /\ agg \in Aggregates /\ fact \in [Reqs -> Facts]
      /\ LedgerOK /\ SumsOK
  BY Zenon DEF SettleInv, TypesOK
<1>7. x \notin attempts
  BY <1>1, <1>4, <1>5, <1>6, Zenon DEF LedgerOK
<1> HIDE DEF x
<1>8. attempts' \subseteq SentRows /\ IsFiniteSet(attempts')
  BY <1>2, <1>4, <1>6, FS_AddElement, Zenon
<1>9. LedgerOK'
  BY <1>1, <1>2, <1>4, <1>5, <1>6 DEF LedgerOK
<1>10. Business' = Business /\ Settled' = Settled
  BY <1>1, <1>2, Zenon DEF Business, Settled
<1>11. /\ Cardinality(attempts') = Cardinality(attempts) + 1
       /\ Cardinality({a \in attempts' : a.sent}) = Cardinality({a \in attempts : a.sent}) + One(e.flag)
       /\ Cardinality({a \in attempts' : a.r \in Business})
             = Cardinality({a \in attempts : a.r \in Business}) + Quality(e.r)
  <2>1. Cardinality(attempts') = Cardinality(attempts) + 1
    <3>1. Cardinality(attempts') = Cardinality(attempts) + One(TRUE)
      BY <1>2, <1>6, <1>7, Counting, Zenon
    <3>2. One(TRUE) = 1
      BY Zenon DEF One
    <3> QED BY <3>1, <3>2, Zenon
  <2>2. Cardinality({a \in attempts' : a.sent}) = Cardinality({a \in attempts : a.sent}) + One(e.flag)
    <3> DEFINE S == {a \in attempts : a.sent}
               T == {a \in attempts' : a.sent}
    <3>1. IsFiniteSet(S) /\ x \notin S
      BY <1>6, <1>7, FS_Subset, Zenon
    <3>2. T = IF e.flag THEN S \cup {x} ELSE S
      BY <1>2, <1>4, Zenon
    <3> HIDE DEF S, T, e
    <3>3. Cardinality(T) = Cardinality(S) + One(e.flag)
      BY <1>3, <3>1, <3>2, Counting, Zenon
    <3> QED BY <3>3, Zenon DEF S, T
  <2>3. Cardinality({a \in attempts' : a.r \in Business})
          = Cardinality({a \in attempts : a.r \in Business}) + Quality(e.r)
    <3> DEFINE S == {a \in attempts : a.r \in Business}
               T == {a \in attempts' : a.r \in Business}
               b == e.r \in Business
    <3>1. IsFiniteSet(S) /\ x \notin S
      BY <1>6, <1>7, FS_Subset, Zenon
    <3>2. T = (IF b THEN S \cup {x} ELSE S) /\ b \in BOOLEAN
      BY <1>2, <1>4
    <3>3. Quality(e.r) = One(b)
      BY Zenon DEF Quality
    <3> HIDE DEF S, T, b
    <3>4. Cardinality(T) = Cardinality(S) + One(b)
      BY <3>1, <3>2, Counting, Zenon
    <3> QED BY <3>3, <3>4, Zenon DEF S, T
  <2> QED BY <2>1, <2>2, <2>3, Zenon
<1>12. /\ agg'.request = agg.request /\ agg'.attempt = A
       /\ A.ended = agg.attempt.ended + 1 /\ A.consumed = agg.attempt.consumed + One(e.flag)
       /\ A.quality = agg.attempt.quality + Quality(e.r)
  BY <1>2, <1>6, Zenon DEF Aggregates, applyAttemptAgg
<1>13. agg' \in Aggregates
  <2>1. agg.attempt \in AttemptRows
    BY <1>6, Zenon DEF Aggregates
  <2>2. One(e.flag) \in Nat /\ Quality(e.r) \in Nat
    BY Zenon DEF One, Quality
  <2>3. A \in AttemptRows
    BY <2>1, <2>2 DEF AttemptRows, applyAttemptAgg
  <2> HIDE DEF A
  <2> QED BY <1>2, <1>6, <2>3, Zenon DEF Aggregates
<1> HIDE DEF A
<1>14. SumsOK'
  <2>1. /\ agg'.attempt.ended = Cardinality(attempts')
        /\ agg'.attempt.consumed = Cardinality({a \in attempts' : a.sent})
        /\ agg'.attempt.quality = Cardinality({a \in attempts' : a.r \in Business'})
    BY <1>6, <1>10, <1>11, <1>12, Zenon DEF SumsOK
  <2>2. /\ agg'.request.completed = Cardinality(Settled')
        /\ agg'.request.success = Cardinality({r \in Settled' : fact'[r].success})
        /\ agg'.request.interrupted = Cardinality({r \in Settled' : fact'[r].interrupted})
        /\ agg'.request.cost = SumOver([r \in Settled' |-> fact'[r].cost], Settled')
    BY <1>2, <1>6, <1>10, <1>12, Zenon DEF SumsOK
  <2> QED BY <2>1, <2>2, Zenon DEF SumsOK
<1>15. ASSUME NEW r \in Reqs PROVE DoneOK(r)' /\ Sent(r)' \subseteq Sent(r) \cup Queued(r)
  <2>1. DoneOK(r)'
    BY <1>1, <1>2, Zenon DEF SettleInv, DoneOK
  <2>2. x.r = r /\ x.sent => x \in Queued(r)
    <3> SUFFICES ASSUME e.r = r, e.flag PROVE x \in Queued(r)
      BY <1>4, Zenon
    <3>1. x = Row(r, e.n)
      BY Zenon DEF x, Row
    <3> QED BY <1>1, <1>3, <1>4, <3>1, Zenon DEF Queued
  <2>3. Sent(r)' \subseteq Sent(r) \cup Queued(r)
    BY <1>2, <2>2, Zenon DEF Sent
  <2> QED BY <2>1, <2>3, Zenon
<1>16. PICK k : Finished(i, k)
  BY Finishes, Zenon
<1>17. fact' \in [Reqs -> Facts]
  BY <1>2, <1>6, Zenon
<1> HIDE DEF e
<1> QED BY <1>1, <1>8, <1>9, <1>13, <1>14, <1>15, <1>16, <1>17, CommitMoves, Zenon DEF e

(* What the sums over settled requests see of a fact.                      *)
LEMMA SameSums ==
  ASSUME SettleInv, UNCHANGED handler, Settled' = Settled, UNCHANGED <<attempts, agg>>,
         \A r \in Settled : fact'[r] = fact[r]
  PROVE  SumsOK'
<1>1. Business' = Business
  BY Zenon DEF Business
<1>2. /\ {r \in Settled : fact'[r].success} = {r \in Settled : fact[r].success}
      /\ {r \in Settled : fact'[r].interrupted} = {r \in Settled : fact[r].interrupted}
  BY Zenon
<1>3. [r \in Settled |-> fact'[r].cost] = [r \in Settled |-> fact[r].cost]
  BY Zenon
<1> QED BY <1>1, <1>2, <1>3, Zenon DEF SettleInv, SumsOK

LEMMA StartCommits ==
  ASSUME SettleInv, Lone, NEW i \in Instances, Commit(i), Head1(i).kind = "start"
  PROVE  SettleInv'
<1> DEFINE e == Head1(i)
           f == [fact[e.r] EXCEPT !.st = "open"]
<1>1. /\ e \in Events /\ e.r \in Reqs /\ Key(e) \notin ledger
      /\ ledger' = ledger \cup {Key(e)} /\ UNCHANGED <<handler, overflow, stops>>
  BY CommitEvent, Zenon
<1>2. fact' = [fact EXCEPT ![e.r] = f] /\ UNCHANGED <<attempts, agg>>
  BY Zenon DEF Commit
<1>3. Key(e) = <<"start", e.r, 0>>
  BY Zenon DEF Key
<1>4. /\ attempts \subseteq SentRows /\ IsFiniteSet(attempts) /\ agg \in Aggregates /\ fact \in [Reqs -> Facts]
      /\ LedgerOK
  BY Zenon DEF SettleInv, TypesOK
<1>5. fact[e.r].st = "none" /\ fact[e.r] \in Facts
  BY <1>1, <1>3, <1>4, Zenon DEF LedgerOK
<1>6. f \in Facts /\ f.st = "open"
  BY <1>5, Zenon DEF Facts
<1> HIDE DEF f, e
<1>7. fact'[e.r] = f /\ \A s \in Reqs \ {e.r} : fact'[s] = fact[s]
  BY <1>1, <1>2, <1>4, Zenon
<1>8. fact' \in [Reqs -> Facts]
  BY <1>1, <1>2, <1>4, <1>6, Zenon
<1>9. LedgerOK'
  <2>1. \A x \in attempts' : <<"attempt", x.r, x.n>> \in ledger'
    BY <1>1, <1>2, <1>4, Zenon DEF LedgerOK
  <2>2. ASSUME NEW r \in Reqs PROVE fact'[r].st # "none" <=> <<"start", r, 0>> \in ledger'
    <3>1. CASE r = e.r
      BY <1>1, <1>3, <1>6, <1>7, <3>1, Zenon
    <3>2. CASE r # e.r
      <4>1. <<"start", r, 0>> # <<"start", e.r, 0>>
        BY <3>2, Zenon
      <4> QED BY <1>1, <1>3, <1>4, <1>7, <3>2, <4>1, Zenon DEF LedgerOK
    <3> QED BY <3>1, <3>2, Zenon
  <2> QED BY <2>1, <2>2, Zenon DEF LedgerOK
<1>10. Settled' = Settled /\ e.r \notin Settled
  BY <1>1, <1>5, <1>6, <1>7, Zenon DEF Settled, Business
<1>11. \A r \in Settled : fact'[r] = fact[r]
  BY <1>7, <1>10, Zenon DEF Settled, Business
<1>12. SumsOK'
  BY <1>1, <1>2, <1>10, <1>11, SameSums, Zenon
<1>13. ASSUME NEW r \in Reqs PROVE DoneOK(r)' /\ Sent(r)' \subseteq Sent(r) \cup Queued(r)
  BY <1>1, <1>2, <1>6, <1>7, Zenon DEF SettleInv, DoneOK, Sent
<1>14. PICK k : Finished(i, k)
  BY Finishes, Zenon
<1> QED BY <1>1, <1>2, <1>4, <1>8, <1>9, <1>12, <1>13, <1>14, CommitMoves, Zenon DEF e

LEMMA LateCommits ==
  ASSUME SettleInv, Lone, NEW i \in Instances, Commit(i), Head1(i).kind = "end", fact[Head1(i).r].st # "open"
  PROVE  SettleInv'
<1> DEFINE e == Head1(i)
<1>1. /\ e \in Events /\ e.r \in Reqs
      /\ ledger' = ledger \cup {Key(e)} /\ UNCHANGED <<handler, overflow, stops>>
  BY CommitEvent, Zenon
<1>2. UNCHANGED <<fact, attempts, agg>>
  BY Zenon DEF Commit
<1>3. Key(e) = <<"end", e.r, 0>>
  BY Zenon DEF Key
<1>4. /\ attempts \subseteq SentRows /\ IsFiniteSet(attempts) /\ agg \in Aggregates /\ fact \in [Reqs -> Facts]
      /\ LedgerOK
  BY Zenon DEF SettleInv, TypesOK
<1> HIDE DEF e
<1>5. LedgerOK'
  BY <1>1, <1>2, <1>3, <1>4 DEF LedgerOK
<1>6. Settled' = Settled
  BY <1>1, <1>2, Zenon DEF Settled, Business
<1>7. SumsOK'
  BY <1>1, <1>2, <1>6, SameSums, Zenon
<1>8. ASSUME NEW r \in Reqs PROVE DoneOK(r)' /\ Sent(r)' \subseteq Sent(r) \cup Queued(r)
  BY <1>1, <1>2, Zenon DEF SettleInv, DoneOK, Sent
<1>9. PICK k : Finished(i, k)
  BY Finishes, Zenon
<1> QED BY <1>1, <1>2, <1>4, <1>5, <1>7, <1>8, <1>9, CommitMoves, Zenon DEF e

LEMMA EndCommits ==
  ASSUME SettleInv, Lone, NEW i \in Instances, Commit(i), Head1(i).kind = "end", fact[Head1(i).r].st = "open"
  PROVE  SettleInv'
<1> DEFINE e == Head1(i)
           f == updateRequestFact(e)
           n == Cardinality(Sent(e.r))
<1>1. /\ e \in Events /\ e.r \in Reqs /\ EventOK(e) /\ Ready(e) /\ inst[i].tx.read = agg
      /\ ledger' = ledger \cup {Key(e)} /\ UNCHANGED <<handler, overflow, stops>>
  BY CommitEvent, Zenon
<1>2. /\ fact' = [fact EXCEPT ![e.r] = f] /\ UNCHANGED attempts
      /\ agg' = IF e.r \in Business THEN [agg EXCEPT !.request = applyRequestAgg(agg.request, f)] ELSE agg
  BY <1>1, Zenon DEF Commit
<1>3. Key(e) = <<"end", e.r, 0>> /\ e.n \in 0..MaxAttempts /\ e.flag \in BOOLEAN /\ e.intr \in BOOLEAN
  BY <1>1, Zenon DEF Key, Events
<1>4. /\ attempts \subseteq SentRows /\ IsFiniteSet(attempts) /\ agg \in Aggregates /\ fact \in [Reqs -> Facts]
      /\ LedgerOK /\ SumsOK /\ NotedOK(e.r) /\ handler[e.r].sent \in Nat
  BY <1>1, SentNat, Zenon DEF SettleInv, TypesOK
<1>5. n \in Nat /\ n <= handler[e.r].sent
  <2> DEFINE S == Sent(e.r)
             N == Noted(e.r)
  <2>1. S \subseteq N /\ IsFiniteSet(N) /\ Cardinality(N) <= handler[e.r].sent
    BY <1>4, Zenon DEF Noted, NotedOK
  <2> HIDE DEF S, N
  <2>2. IsFiniteSet(S) /\ Cardinality(S) <= Cardinality(N) /\ Cardinality(S) \in Nat /\ Cardinality(N) \in Nat
    BY <2>1, FS_Subset, FS_CardinalityType, Zenon
  <2>3. Cardinality(S) \in Nat /\ Cardinality(S) <= handler[e.r].sent
    BY <1>4, <2>1, <2>2
  <2> QED BY <2>3, Zenon DEF S
<1>6. ~e.intr => handler[e.r].ended /\ e.n = handler[e.r].sent /\ e.n <= n
  BY <1>1, Zenon DEF EventOK, Ready
<1>7. ~e.intr => handler[e.r].ended /\ n = handler[e.r].sent
  <2>1. ASSUME ~e.intr PROVE n = handler[e.r].sent
    <3>1. handler[e.r].sent <= n
      BY <1>6, <2>1, Zenon
    <3> HIDE DEF n
    <3> QED BY <1>4, <1>5, <3>1
  <2> QED BY <1>6, <2>1, Zenon
<1>8. f = [st |-> "done", success |-> e.flag, interrupted |-> e.intr, sent |-> e.n, cost |-> n]
  BY Zenon DEF updateRequestFact
<1> HIDE DEF n, f
<1>9. f \in Facts /\ f.st = "done" /\ f.success = e.flag /\ f.interrupted = e.intr /\ f.cost = n
  BY <1>3, <1>5, <1>8, Zenon DEF Facts
<1> HIDE DEF e
<1>10. fact'[e.r] = f /\ \A s \in Reqs \ {e.r} : fact'[s] = fact[s]
  BY <1>1, <1>2, <1>4, Zenon
<1>11. fact' \in [Reqs -> Facts]
  BY <1>1, <1>2, <1>4, <1>9, Zenon
<1>12. fact[e.r].st = "open" /\ e.r \notin Settled
  BY Zenon DEF e, Settled
<1>13. LedgerOK'
  <2>1. \A x \in attempts' : <<"attempt", x.r, x.n>> \in ledger'
    BY <1>1, <1>2, <1>4, Zenon DEF LedgerOK
  <2>2. ASSUME NEW r \in Reqs PROVE fact'[r].st # "none" <=> <<"start", r, 0>> \in ledger'
    <3>1. fact'[r].st # "none" <=> fact[r].st # "none"
      BY <1>9, <1>10, <1>12, Zenon
    <3>2. <<"start", r, 0>> # <<"end", e.r, 0>>
      BY Zenon
    <3> QED BY <1>1, <1>3, <1>4, <3>1, <3>2, Zenon DEF LedgerOK
  <2> QED BY <2>1, <2>2, Zenon DEF LedgerOK
<1>14. ASSUME NEW r \in Reqs PROVE DoneOK(r)' /\ Sent(r)' \subseteq Sent(r) \cup Queued(r)
  <2>1. DoneOK(r)'
    <3>1. CASE r = e.r
      BY <1>1, <1>7, <1>9, <1>10, <3>1, Zenon DEF DoneOK
    <3>2. CASE r # e.r
      BY <1>1, <1>10, <3>2, Zenon DEF SettleInv, DoneOK
    <3> QED BY <3>1, <3>2, Zenon
  <2> QED BY <1>2, <2>1, Zenon DEF Sent
<1>15. Business' = Business
  BY <1>1, Zenon DEF Business
<1>16. agg' \in Aggregates /\ SumsOK'
  <2>1. CASE e.r \notin Business
    <3>1. agg' = agg
      BY <1>2, <2>1, Zenon
    <3>2. Settled' = Settled
      BY <1>10, <1>15, <2>1, Zenon DEF Settled, Business
    <3>3. \A r \in Settled : fact'[r] = fact[r]
      BY <1>10, <1>12, Zenon DEF Settled, Business
    <3> QED BY <1>1, <1>2, <1>4, <3>1, <3>2, <3>3, SameSums, Zenon
  <2>2. CASE e.r \in Business
    <3> DEFINE S == Settled
               T == S \cup {e.r}
               Q == applyRequestAgg(agg.request, f)
    <3>1. Settled' = T /\ e.r \notin S
      BY <1>9, <1>10, <1>12, <1>15, <2>2, Zenon DEF Settled, Business
    <3>2. \A r \in S : fact'[r] = fact[r] /\ fact[r] \in Facts
      BY <1>4, <1>10, <1>12, Zenon DEF Settled, Business
    <3>3. IsFiniteSet(S)
      BY SettleAssumption, FS_Subset, Zenon DEF Settled, Business
    <3>4. agg.request \in RequestRows /\ agg.attempt \in AttemptRows
      BY <1>4, Zenon DEF Aggregates
    <3>5. agg' = [agg EXCEPT !.request = Q]
      BY <1>2, <2>2, Zenon
    <3>6. /\ Q.completed = agg.request.completed + 1 /\ Q.success = agg.request.success + One(e.flag)
          /\ Q.interrupted = agg.request.interrupted + One(e.intr) /\ Q.cost = agg.request.cost + n
      BY <1>9, Zenon DEF applyRequestAgg
    <3>7. Q \in RequestRows
      <4>1. One(f.success) \in Nat /\ One(f.interrupted) \in Nat /\ f.cost \in Nat
        BY <1>5, <1>9, Zenon DEF One
      <4> QED BY <3>4, <4>1 DEF RequestRows, applyRequestAgg
    <3> HIDE DEF Q
    <3>8. agg' \in Aggregates /\ agg'.request = Q /\ agg'.attempt = agg.attempt
      BY <1>4, <3>5, <3>7, Zenon DEF Aggregates
    <3>9. /\ agg.request.completed = Cardinality(S) /\ agg.request.success = Cardinality({r \in S : fact[r].success})
          /\ agg.request.interrupted = Cardinality({r \in S : fact[r].interrupted})
          /\ agg.request.cost = SumOver([r \in S |-> fact[r].cost], S)
      BY <1>4, Zenon DEF SumsOK
    <3> HIDE DEF S, T
    <3>10. Cardinality(T) = Cardinality(S) + 1
      <4>1. Cardinality(T) = Cardinality(S) + One(TRUE)
        BY <3>1, <3>3, Counting, Zenon DEF T
      <4>2. One(TRUE) = 1
        BY Zenon DEF One
      <4> QED BY <4>1, <4>2, Zenon
    <3>11. Cardinality({r \in T : fact'[r].success}) = Cardinality({r \in S : fact[r].success}) + One(e.flag)
      <4> DEFINE A == {r \in S : fact[r].success}
                 B == {r \in T : fact'[r].success}
      <4>1. IsFiniteSet(A) /\ e.r \notin A
        BY <3>1, <3>3, FS_Subset, Zenon
      <4>2. B = IF e.flag THEN A \cup {e.r} ELSE A
        BY <1>9, <1>10, <3>1, <3>2, Zenon DEF T
      <4> HIDE DEF A, B
      <4>3. Cardinality(B) = Cardinality(A) + One(e.flag)
        BY <1>3, <4>1, <4>2, Counting, Zenon
      <4> QED BY <4>3, Zenon DEF A, B
    <3>12. Cardinality({r \in T : fact'[r].interrupted}) = Cardinality({r \in S : fact[r].interrupted}) + One(e.intr)
      <4> DEFINE A == {r \in S : fact[r].interrupted}
                 B == {r \in T : fact'[r].interrupted}
      <4>1. IsFiniteSet(A) /\ e.r \notin A
        BY <3>1, <3>3, FS_Subset, Zenon
      <4>2. B = IF e.intr THEN A \cup {e.r} ELSE A
        BY <1>9, <1>10, <3>1, <3>2, Zenon DEF T
      <4> HIDE DEF A, B
      <4>3. Cardinality(B) = Cardinality(A) + One(e.intr)
        BY <1>3, <4>1, <4>2, Counting, Zenon
      <4> QED BY <4>3, Zenon DEF A, B
    <3>13. SumOver([r \in T |-> fact'[r].cost], T) = n + SumOver([r \in S |-> fact[r].cost], S)
      <4> DEFINE g == [r \in T |-> fact'[r].cost]
                 h == [r \in S |-> fact[r].cost]
      <4>1. \A r \in S : fact[r].cost \in Nat
        BY <3>2, Zenon DEF Facts
      <4>2. OnNaturals(h, S) /\ \A r \in S : h[r] = g[r]
        BY <3>2, <4>1, Zenon DEF OnNaturals, T
      <4>3. g[e.r] = n /\ OnNaturals(g, S \cup {e.r})
        BY <1>5, <1>9, <1>10, <3>2, <4>1, Zenon DEF OnNaturals, T
      <4> HIDE DEF g, h
      <4>4. SumOver(h, S) = SumOver(g, S)
        BY <3>3, <4>2, SumSame, Zenon
      <4>5. SumOver(g, S \cup {e.r}) = g[e.r] + SumOver(g, S)
        BY <3>1, <3>3, <4>3, SumAdd, Zenon
      <4>6. SumOver(g, T) = n + SumOver(h, S)
        BY <4>3, <4>4, <4>5, Zenon DEF T
      <4> QED BY <4>6, Zenon DEF g, h
    <3>14. SumOver([r \in S |-> fact[r].cost], S) \in Nat
      <4>1. agg.request.cost \in Nat
        BY <3>4, Zenon DEF RequestRows
      <4> QED BY <3>9, <4>1, Zenon
    <3>15. n + SumOver([r \in S |-> fact[r].cost], S) = SumOver([r \in S |-> fact[r].cost], S) + n
      BY <1>5, <3>14
    <3>16. /\ agg'.request.completed = Cardinality(Settled')
           /\ agg'.request.success = Cardinality({r \in Settled' : fact'[r].success})
           /\ agg'.request.interrupted = Cardinality({r \in Settled' : fact'[r].interrupted})
           /\ agg'.request.cost = SumOver([r \in Settled' |-> fact'[r].cost], Settled')
      BY <3>1, <3>6, <3>8, <3>9, <3>10, <3>11, <3>12, <3>13, <3>15, Zenon
    <3>17. /\ agg'.attempt.ended = Cardinality(attempts')
           /\ agg'.attempt.consumed = Cardinality({a \in attempts' : a.sent})
           /\ agg'.attempt.quality = Cardinality({a \in attempts' : a.r \in Business'})
      BY <1>2, <1>4, <1>15, <3>8, Zenon DEF SumsOK
    <3> QED BY <3>8, <3>16, <3>17, Zenon DEF SumsOK
  <2> QED BY <2>1, <2>2, Zenon
<1>17. PICK k : Finished(i, k)
  BY Finishes, Zenon
<1>18. attempts' \subseteq SentRows /\ IsFiniteSet(attempts')
  BY <1>2, <1>4, Zenon
<1> QED BY <1>1, <1>11, <1>13, <1>14, <1>16, <1>17, <1>18, CommitMoves, Zenon DEF e

LEMMA CommitKeeps ==
  ASSUME SettleInv, Lone, NEW i \in Instances, Commit(i)
  PROVE  SettleInv'
<1>1. Head1(i) \in Events
  BY CommitEvent, Zenon
<1>2. Head1(i).kind \in {"start", "attempt", "end"}
  BY <1>1, Zenon DEF Events
<1> QED BY <1>2, StartCommits, AttemptCommits, EndCommits, LateCommits, Zenon
-----------------------------------------------------------------------------
LEMMA SettleStarts ==
  ASSUME SettleInit
  PROVE  SettleInv
<1>1. /\ inst = [i \in Instances |-> Up] /\ fact = [r \in Reqs |-> NoFact] /\ attempts = {} /\ ledger = {}
      /\ agg = [request |-> NoRequests, attempt |-> NoAttempts]
      /\ overflow = FALSE /\ errors = 0 /\ stops = 0
  BY Zenon DEF SettleInit
<1>2. \A r \in Reqs : \E b \in BOOLEAN :
        handler[r] = [st |-> "new", n |-> 0, wire |-> FALSE, sent |-> 0, ended |-> FALSE, business |-> b]
  BY Zenon DEF SettleInit
<1>3. /\ Up \in Processes /\ Up.st = "up" /\ Up.batch = <<>> /\ Up.q = <<>> /\ ~Up.tx.on
  <2>1. NoTx \in Transactions /\ ~NoTx.on /\ <<>> \in Seq(Events) /\ 0 \in Nat
    BY DEF NoTx, Transactions
  <2> QED BY <2>1, Zenon DEF Up, Processes
<1>4. Range(<<>>) = {}
  BY DEF Range
<1>5. ProcessOK(Up) /\ TxOK(Up) /\ FinalOK(Up) /\ Pend(Up) = {}
  BY <1>3, <1>4, Zenon DEF ProcessOK, TxOK, FinalOK, Pend
<1>6. \A i \in Instances : inst[i] = Up
  BY <1>1, Zenon
<1>7. \A r \in Reqs : /\ handler[r] \in Handlers /\ HandlerOK(handler[r])
                      /\ handler[r].st = "new" /\ handler[r].n = 0 /\ handler[r].sent = 0 /\ ~handler[r].ended
  <2> SUFFICES ASSUME NEW r \in Reqs
               PROVE  /\ handler[r] \in Handlers /\ HandlerOK(handler[r])
                      /\ handler[r].st = "new" /\ handler[r].n = 0 /\ handler[r].sent = 0 /\ ~handler[r].ended
    BY Zenon
  <2>1. PICK b \in BOOLEAN :
          handler[r] = [st |-> "new", n |-> 0, wire |-> FALSE, sent |-> 0, ended |-> FALSE, business |-> b]
    BY <1>2, Zenon
  <2>2. 0 \in 0..MaxAttempts /\ 0 \in Nat /\ 0 <= 0
    BY Limits
  <2>3. handler[r] \in Handlers
    BY <2>1, <2>2 DEF Handlers
  <2>4. handler[r].st = "new" /\ handler[r].n = 0 /\ handler[r].sent = 0 /\ ~handler[r].ended
    BY <2>1
  <2> QED BY <2>2, <2>3, <2>4, Zenon DEF HandlerOK
<1>8. NoFact \in Facts /\ NoFact.st = "none"
  BY Limits DEF NoFact, Facts
<1>9. TypesOK
  <2>1. handler \in [Reqs -> Handlers]
    BY <1>7, Zenon DEF SettleInit
  <2>2. agg \in Aggregates
    BY <1>1, Zenon DEF Aggregates, RequestRows, AttemptRows, NoRequests, NoAttempts
  <2>3. IsFiniteSet({})
    BY FS_EmptySet, Zenon
  <2>4. inst \in [Instances -> Processes] /\ fact \in [Reqs -> Facts]
    BY <1>1, <1>3, <1>8, Zenon
  <2>a. 0 \in 0..MaxErrors /\ 0 \in 0..MaxStops
    BY Limits
  <2>5. overflow \in BOOLEAN /\ errors \in 0..MaxErrors /\ stops \in 0..MaxStops
    BY <1>1, <2>a, Zenon
  <2>6. \A i \in Instances : ProcessOK(inst[i])
    BY <1>5, <1>6, Zenon
  <2> QED BY <1>1, <1>7, <2>1, <2>2, <2>3, <2>4, <2>5, <2>6, Zenon DEF TypesOK
<1>10. EventsOK
  BY <1>5, <1>6, Zenon DEF EventsOK
<1>11. LedgerOK
  BY <1>1, <1>8, Zenon DEF LedgerOK
<1>12. Settled = {}
  BY <1>1, <1>8, Zenon DEF Settled, Business
<1>13. SumsOK
  <2>1. Cardinality({}) = 0 /\ IsFiniteSet({})
    BY FS_EmptySet, Zenon
  <2> DEFINE f == [r \in Settled |-> fact[r].cost]
  <2>2. \A x \in {} : f[x] = 0
    BY Zenon
  <2> HIDE DEF f
  <2>3. SumOver(f, {}) = 0
    BY <2>1, <2>2, SumZero, Zenon
  <2>4. SumOver([r \in Settled |-> fact[r].cost], Settled) = 0
    BY <1>12, <2>3, Zenon DEF f
  <2>5. /\ {r \in Settled : fact[r].success} = {} /\ {r \in Settled : fact[r].interrupted} = {}
        /\ {x \in attempts : x.sent} = {} /\ {x \in attempts : x.r \in Business} = {}
    BY <1>1, <1>12, Zenon
  <2>6. /\ agg.request.completed = 0 /\ agg.request.success = 0 /\ agg.request.interrupted = 0
        /\ agg.request.cost = 0
        /\ agg.attempt.ended = 0 /\ agg.attempt.consumed = 0 /\ agg.attempt.quality = 0
    BY <1>1, Zenon DEF NoRequests, NoAttempts
  <2> QED BY <1>1, <1>12, <2>1, <2>4, <2>5, <2>6, Zenon DEF SumsOK
<1>14. LossOK
  <2>1. \A r \in Reqs : Emitted(r) = {}
    BY <1>7 DEF Emitted, One
  <2> QED BY <1>3, <1>6, <2>1, Zenon DEF LossOK
<1>15. ASSUME NEW r \in Reqs PROVE NotedOK(r) /\ DoneOK(r)
  <2>1. Noted(r) = {}
    BY <1>1, <1>5, <1>6, <1>7, Zenon DEF Noted, Sent, Queued, Current
  <2>2. NotedOK(r)
    BY <1>7, <2>1, FS_EmptySet DEF NotedOK
  <2> QED BY <1>1, <1>8, <2>2, Zenon DEF DoneOK
<1>16. \A i \in Instances : TxOK(inst[i]) /\ FinalOK(inst[i])
  BY <1>5, <1>6, Zenon
<1> QED BY <1>9, <1>10, <1>11, <1>13, <1>14, <1>15, <1>16, Zenon DEF SettleInv

LEMMA RestKeeps ==
  ASSUME SettleInv, UNCHANGED settleVars
  PROVE  SettleInv'
<1>1. Still /\ UNCHANGED <<inst, overflow, errors, stops>>
  BY Zenon DEF settleVars, Still
<1>2. /\ LedgerOK' /\ SumsOK' /\ \A r \in Reqs : DoneOK(r)'
      /\ \A e : (Ready(e)' <=> Ready(e)) /\ (EventOK(e)' <=> EventOK(e))
      /\ \A r : Sent(r)' = Sent(r) /\ Current(r)' = Current(r) /\ Emitted(r)' = Emitted(r)
  BY <1>1, StillFacts, Zenon
<1>3. TypesOK'
  BY <1>1, Zenon DEF SettleInv, TypesOK, Still, ProcessOK, HandlerOK
<1>4. EventsOK'
  BY <1>1, <1>2, Zenon DEF SettleInv, EventsOK
<1>5. LossOK'
  <2>1. Waiting' = Waiting
    BY <1>1, Zenon DEF Waiting
  <2> QED BY <1>1, <1>2, <2>1, Zenon DEF SettleInv, LossOK, Still
<1>6. \A r \in Reqs : NotedOK(r)'
  <2>1. \A r : Queued(r)' = Queued(r)
    BY <1>1, Zenon DEF Queued
  <2>2. \A r : Noted(r)' = Noted(r)
    BY <1>2, <2>1, Zenon DEF Noted
  <2> QED BY <1>1, <2>2, Zenon DEF SettleInv, NotedOK, Still
<1>7. \A i \in Instances : TxOK(inst[i])' /\ FinalOK(inst[i])'
  BY <1>1, <1>2, Zenon DEF SettleInv, TxOK, FinalOK, Still
<1> QED BY <1>2, <1>3, <1>4, <1>5, <1>6, <1>7, Zenon DEF SettleInv

LEMMA SettleSteps ==
  ASSUME Lone, SettleInv, [SettleNext]_settleVars
  PROVE  SettleInv'
<1>1. CASE UNCHANGED settleVars
  BY <1>1, RestKeeps, Zenon
<1>2. ASSUME NEW r \in Reqs, StartRequest(r) \/ Serve(r) PROVE SettleInv'
  <2>1. ASSUME NEW ok \in BOOLEAN, NEW intr \in BOOLEAN, Finish(r, ok, intr) PROVE SettleInv'
    BY <2>1, FinishKeeps, Zenon
  <2> QED BY <1>2, <2>1, StartRequestKeeps, StartAttemptKeeps, SendHTTPKeeps, FailoverKeeps, CompleteKeeps, Zenon
          DEF Serve
<1>3. ASSUME NEW i \in Instances,
             Settle(i) \/ StopAccepting(i) \/ drainFinal(i) \/ Crash(i) \/ Restart(i)
      PROVE  SettleInv'
  BY <1>3, DrainOnceKeeps, DuplicateKeeps, FailKeeps, ExpireKeeps, TransactionKeeps, CommitKeeps,
     StopKeeps, DrainFinalKeeps, CrashKeeps, RestartKeeps, Zenon DEF Settle
<1>4. ASSUME NEW i \in Instances, NEW r \in Reqs, InterruptStale(i, r) PROVE SettleInv'
  BY <1>4, InterruptKeeps, Zenon
<1> QED BY <1>1, <1>2, <1>3, <1>4, Zenon DEF SettleNext

LEMMA SettleExact == ASSUME SettleInv PROVE AggregatesExact
<1>1. SettleTypeOK
  <2>1. ASSUME NEW i \in Instances
        PROVE  /\ inst[i].st \in {"up", "draining", "final", "down"}
               /\ Range(inst[i].q) \cup Range(inst[i].batch) \subseteq Events
               /\ inst[i].tx.on \in BOOLEAN /\ inst[i].tx.on => inst[i].batch # <<>>
    <3>1. /\ inst[i].st \in {"up", "draining", "final", "down"} /\ Pend(inst[i]) \subseteq Events
          /\ inst[i].tx \in Transactions /\ (inst[i].tx.on => inst[i].batch # <<>>)
      BY <2>1, ProcessFields, Zenon
    <3>2. inst[i].tx.on \in BOOLEAN
      <4>1. inst[i].tx = NoTx \/ inst[i].tx \in [on : {TRUE}, read : Aggregates]
        BY <3>1, Zenon DEF Transactions
      <4>2. CASE inst[i].tx = NoTx
        <5>1. NoTx.on = FALSE
          BY Zenon DEF NoTx
        <5> QED BY <4>2, <5>1, Zenon
      <4>3. CASE inst[i].tx \in [on : {TRUE}, read : Aggregates]
        <5>1. inst[i].tx.on = TRUE
          BY <4>3, Zenon
        <5> QED BY <5>1, Zenon
      <4> QED BY <4>1, <4>2, <4>3, Zenon
    <3> QED BY <3>1, <3>2, Zenon DEF Pend
  <2>2. ASSUME NEW r \in Reqs
        PROVE  /\ handler[r].st \in {"new", "idle", "attempt", "deferred", "done", "lost"}
               /\ handler[r].sent <= handler[r].n /\ handler[r].n <= MaxAttempts
               /\ fact[r].st \in {"none", "open", "done"}
    <3>1. handler[r] \in Handlers /\ HandlerOK(handler[r]) /\ fact[r] \in Facts
      BY <2>2, Zenon DEF SettleInv, TypesOK
    <3>2. handler[r].sent <= handler[r].n
      BY <3>1, Zenon DEF HandlerOK
    <3> QED BY <3>1, <3>2, Limits DEF Handlers, Facts
  <2>3. /\ attempts \subseteq [r : Reqs, n : 1..MaxAttempts, sent : BOOLEAN]
        /\ overflow \in BOOLEAN
    BY Zenon DEF SettleInv, TypesOK, SentRows
  <2>4. errors <= MaxErrors /\ stops <= MaxStops
    BY Limits DEF SettleInv, TypesOK
  <2> QED BY <2>1, <2>2, <2>3, <2>4, Zenon DEF SettleTypeOK
<1>2. agg.attempt = [ended |-> Cardinality(attempts),
                     consumed |-> Cardinality({a \in attempts : a.sent}),
                     quality |-> Cardinality({a \in attempts : a.r \in Business})]
  <2>1. agg.attempt \in AttemptRows
    BY Zenon DEF SettleInv, TypesOK, Aggregates
  <2>2. agg.attempt = [ended |-> agg.attempt.ended, consumed |-> agg.attempt.consumed,
                       quality |-> agg.attempt.quality]
    BY <2>1, Zenon DEF AttemptRows
  <2>3. /\ agg.attempt.ended = Cardinality(attempts)
        /\ agg.attempt.consumed = Cardinality({a \in attempts : a.sent})
        /\ agg.attempt.quality = Cardinality({a \in attempts : a.r \in Business})
    BY Zenon DEF SettleInv, SumsOK
  <2> QED BY <2>2, <2>3, Zenon
<1> QED BY <1>1, <1>2, Zenon DEF AggregatesExact, SettleInv, SumsOK, DoneOK

(* With one instance, every settled request and every attempt is in the    *)
(* aggregates once, and a request settled as finished includes every       *)
(* attempt that was sent (settle.go process): for any requests, attempts,  *)
(* queue limit, database errors, crashes and shutdowns.                    *)
THEOREM StatisticsExact ==
  ASSUME Lone
  PROVE  SettleSpec => []AggregatesExact
<1>1. SettleInit => SettleInv
  BY SettleStarts, Zenon
<1>2. SettleInv /\ [SettleNext]_settleVars => SettleInv'
  BY SettleSteps, Zenon
<1>3. SettleInv => AggregatesExact
  BY SettleExact, Zenon
<1> QED BY <1>1, <1>2, <1>3, PTL DEF SettleSpec

(* With one instance, what a handler emitted is settled, waits or is       *)
(* marked as lost until a process stops, and a shutdown whose last pass    *)
(* met no error leaves nothing that could be settled (drainFinal).         *)
THEOREM NothingLostInSilence ==
  ASSUME Lone
  PROVE  SettleSpec => []NoSilentLoss
<1>1. SettleInit => SettleInv
  BY SettleStarts, Zenon
<1>2. SettleInv /\ [SettleNext]_settleVars => SettleInv'
  BY SettleSteps, Zenon
<1>3. SettleInv => NoSilentLoss
  BY Zenon DEF SettleInv, LossOK, FinalOK, NoSilentLoss
<1> QED BY <1>1, <1>2, <1>3, PTL DEF SettleSpec
=============================================================================
