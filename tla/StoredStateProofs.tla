------------------------- MODULE StoredStateProofs --------------------------
(***************************************************************************)
(* Proofs about the state the gateway keeps in its stores: session         *)
(* bindings, quarantine records and request log rows.                      *)
(***************************************************************************)
EXTENDS SessionBinding, KeyQuarantine, RequestLog, TLAPS

(* Proofs about SessionBinding for any candidates, sessions, processes,    *)
(* requests and periods.                                                   *)

Bindings == [key : Candidates \cup {NoKey}, until : Nat, challenger : Candidates \cup {NoKey}, since : Nat]
States == [bind : [Sessions -> Bindings], explored : [Candidates -> Nat],
           reply : [session : Sessions, until : Nat]]
Runs == [of : Candidates \cup {NoKey}, by : Candidates \cup {NoKey}, since : Nat]

(* What is known of a request: where a failed or served one was decided.   *)
RequestOK(q) ==
  /\ "at" \in DOMAIN q
  /\ q.at \in {"served", "failed"} => q.session \in Sessions /\ q.proc \in Procs
  /\ q.at = "served" => q.key \in Candidates

BindingTypeOK ==
  /\ clock \in Nat /\ local \in Nat
  /\ shared \in States /\ copy \in [Procs -> States]
  /\ stood \in [Sessions -> Runs] /\ apart \in [Candidates -> Nat]
  /\ DOMAIN req = Requests
  /\ \A r \in Requests : RequestOK(req[r])

(* Nothing is dated after now.                                             *)
PastOnly ==
  /\ \A s \in Sessions : shared.bind[s].since <= clock /\ stood[s].since <= clock
  /\ \A k \in Candidates : apart[k] <= clock

(* A challenger in Redis has stood the comparisons since it is there, and  *)
(* Redis knows the last exploration of a key; or a copy was used since.    *)
ChallengerStood ==
  \A s \in Sessions :
    LET b == shared.bind[s]
    IN  b.challenger # NoKey =>
          \/ stood[s].of = b.key /\ stood[s].by = b.challenger /\ stood[s].since <= b.since
          \/ local >= b.since

ExplorationKnown ==
  \A k \in Candidates : shared.explored[k] >= apart[k] \/ local >= apart[k]

BindingInv == BindingTypeOK /\ PastOnly /\ ChallengerStood /\ ExplorationKnown

LEMMA UnboundTyped == Unbound \in Bindings /\ EmptyState \in States
<1>1. Unbound \in Bindings
  BY Zenon DEF Unbound, Bindings
<1> QED
  BY <1>1, BindingAssumption, Zenon DEF EmptyState, States, BindingAssumption

LEMMA BoundToTyped ==
  ASSUME clock \in Nat, NEW k \in Candidates
  PROVE  BoundTo(k) \in Bindings /\ BoundTo(k).challenger = NoKey /\ BoundTo(k).since = 0
BY BindingAssumption DEF BoundTo, Bindings, BindingAssumption

(* What has expired is gone, the rest stays (prepare).                     *)
LEMMA PrepareKeeps ==
  ASSUME NEW st \in States, clock \in Nat
  PROVE  /\ prepare(st) \in States /\ prepare(st).explored = st.explored
         /\ \A s \in Sessions : prepare(st).bind[s] = Unbound \/ prepare(st).bind[s] = st.bind[s]
<1>1. \A s \in Sessions : (IF st.bind[s].until <= clock THEN Unbound ELSE st.bind[s]) \in Bindings
  BY UnboundTyped, Zenon DEF States
<1>2. (IF st.reply.until <= clock THEN EmptyState.reply ELSE st.reply) \in [session : Sessions, until : Nat]
  BY UnboundTyped, Zenon DEF States
<1>3. prepare(st) \in States
  BY <1>1, <1>2, Zenon DEF prepare, States
<1> QED
  BY <1>3, Zenon DEF prepare, States

(* The two ways a decision or a commit changes a state.                    *)
LEMMA BindChanged ==
  ASSUME NEW st \in States, NEW s \in Sessions, NEW b \in Bindings
  PROVE  LET new == [st EXCEPT !.bind[s] = b]
         IN  /\ new \in States /\ new.explored = st.explored /\ new.reply = st.reply
             /\ new.bind[s] = b
             /\ \A x \in Sessions \ {s} : new.bind[x] = st.bind[x]
BY Zenon DEF States

LEMMA ExploredChanged ==
  ASSUME NEW st \in States, NEW k \in Candidates, clock \in Nat
  PROVE  /\ Recorded(st, k) \in States /\ Recorded(st, k).bind = st.bind
         /\ Recorded(st, k).explored[k] = clock
         /\ \A x \in Candidates \ {k} : Recorded(st, k).explored[x] = st.explored[x]
BY Zenon DEF States, Recorded

LEMMA ComparedTyped ==
  ASSUME NEW b \in Bindings, NEW v \in Views, clock \in Nat
  PROVE  Compared(b, v) \in Bindings
BY Zenon DEF Compared, Bindings, Views

(* What a decision is and what it leaves of the state (stableDecision).    *)
LEMMA DecideFacts ==
  ASSUME NEW st \in States, NEW s \in Sessions, NEW v \in Views, NEW failed, clock \in Nat,
         Possible(v, st.bind[s].key, failed)
  PROVE  LET d == Decide(st, s, v, failed)
             b == st.bind[s]
             b2 == IF b.key # NoKey /\ Keeps(v) THEN Compared(b, v) ELSE b
         IN  /\ d.state \in States /\ d.key \in Candidates /\ d.prev = b.key
             /\ d.state.bind[s] = b2
             /\ \A x \in Sessions \ {s} : d.state.bind[x] = st.bind[x]
             /\ d.why \in {"challenger_trial", "exploration"} =>
                  /\ Explorable(st, d.key)
                  /\ d.state.explored[d.key] = clock
                  /\ \A x \in Candidates \ {d.key} : d.state.explored[x] = st.explored[x]
             /\ d.why \notin {"challenger_trial", "exploration"} => d.state.explored = st.explored
             /\ d.why = "latency_improved" =>
                  b.key # NoKey /\ v.says = "confirmed" /\ clock - b2.since >= SwitchConfirm /\ d.key = v.best
<1> DEFINE b == st.bind[s]
           keeps == b.key # NoKey /\ Keeps(v)
           b2 == IF keeps THEN Compared(b, v) ELSE b
           switch == keeps /\ v.says = "confirmed" /\ clock - b2.since >= SwitchConfirm
           key == IF keeps /\ ~switch THEN b.key ELSE v.best
           st2 == [st EXCEPT !.bind[s] = b2]
           d == Decide(st, s, v, failed)
           trial == /\ s # NoSession /\ keeps /\ ~switch /\ v.best # b.key /\ v.slot
                    /\ Faster(v) /\ Explorable(st, v.best)
           other == /\ s = NoSession \/ b.key = NoKey
                    /\ v.other \notin {NoKey, key} /\ Explorable(st, v.other)
           why == IF switch THEN "latency_improved" ELSE IF keeps THEN "reuse" ELSE "initial"
<1>1. b \in Bindings /\ b2 \in Bindings
  BY ComparedTyped, Zenon DEF States
<1>2. v.best \in Candidates /\ v.other \in Candidates \cup {NoKey}
  BY Zenon DEF Views
<1>3. key \in Candidates
  BY <1>1, <1>2, Zenon DEF Bindings
<1>4. /\ st2 \in States /\ st2.explored = st.explored /\ st2.bind[s] = b2
      /\ \A x \in Sessions \ {s} : st2.bind[x] = st.bind[x]
  <2> HIDE DEF b2
  <2> QED BY <1>1, BindChanged
<1>5. d = IF failed # {} THEN [key |-> key, why |-> "failover", prev |-> b.key, state |-> st2]
          ELSE IF trial
               THEN [key |-> v.best, why |-> "challenger_trial", prev |-> b.key, state |-> Recorded(st2, v.best)]
          ELSE IF other
               THEN [key |-> v.other, why |-> "exploration", prev |-> b.key, state |-> Recorded(st2, v.other)]
          ELSE [key |-> key, why |-> why, prev |-> b.key, state |-> st2]
  BY Zenon DEF Decide
<1>6. switch => b.key # NoKey /\ v.says = "confirmed" /\ clock - b2.since >= SwitchConfirm /\ key = v.best
  BY Zenon
<1>7. trial => Explorable(st, v.best)
  BY Zenon
<1>8. other => Explorable(st, v.other) /\ v.other \in Candidates
  BY <1>2, Zenon
<1> HIDE DEF b, keeps, b2, switch, key, st2, d, trial, other
<1>9. /\ d.state \in States /\ d.key \in Candidates /\ d.prev = b.key
      /\ d.state.bind[s] = b2
      /\ \A x \in Sessions \ {s} : d.state.bind[x] = st.bind[x]
      /\ d.why \in {"challenger_trial", "exploration"} =>
           /\ Explorable(st, d.key)
           /\ d.state.explored[d.key] = clock
           /\ \A x \in Candidates \ {d.key} : d.state.explored[x] = st.explored[x]
      /\ d.why \notin {"challenger_trial", "exploration"} => d.state.explored = st.explored
      /\ d.why = "latency_improved" =>
           b.key # NoKey /\ v.says = "confirmed" /\ clock - b2.since >= SwitchConfirm /\ d.key = v.best
  <2>1. CASE failed # {}
    BY <2>1, <1>3, <1>4, <1>5, Zenon
  <2>2. CASE failed = {} /\ trial
    <3>1. /\ d.key = v.best /\ d.why = "challenger_trial" /\ d.prev = b.key
          /\ d.state = Recorded(st2, v.best)
      BY <2>2, <1>5, Zenon
    <3> DEFINE k == v.best
    <3>2. k \in Candidates
      BY <1>2, Zenon
    <3> HIDE DEF k
    <3>3. /\ Recorded(st2, k) \in States /\ Recorded(st2, k).bind = st2.bind
          /\ Recorded(st2, k).explored[k] = clock
          /\ \A x \in Candidates \ {k} : Recorded(st2, k).explored[x] = st2.explored[x]
      BY <3>2, <1>4, ExploredChanged, Zenon
    <3> QED
      BY <2>2, <3>1, <3>3, <1>2, <1>4, <1>7, Zenon DEF k
  <2>3. CASE failed = {} /\ ~trial /\ other
    BY <2>3, <1>4, <1>5, <1>8, ExploredChanged
  <2>4. CASE failed = {} /\ ~trial /\ ~other
    BY <2>4, <1>3, <1>4, <1>5, <1>6, Zenon
  <2> QED
    BY <2>1, <2>2, <2>3, <2>4, Zenon
<1> QED
  BY <1>9, Zenon DEF d, b, b2, keeps

LEMMA StoodTyped ==
  ASSUME NEW s \in Sessions, NEW b \in Bindings, NEW v \in Views, stood[s] \in Runs, clock \in Nat,
         stood[s].since <= clock
  PROVE  Stood(s, b, v) \in Runs /\ Stood(s, b, v).since <= clock
<1>1. v.best \in Candidates
  BY Zenon DEF Views
<1> QED
  BY <1>1 DEF Stood, Runs, Bindings

(* A write keeps the types of what it writes (withStableState).            *)
LEMMA WriteTyped ==
  ASSUME BindingTypeOK, NEW p \in Procs, NEW redis \in BOOLEAN, NEW st \in States, Saves(p, redis, st)
  PROVE  shared' \in States /\ copy' \in [Procs -> States] /\ local' \in Nat
BY Zenon DEF BindingTypeOK, RequestOK, Saves

LEMMA ReadTyped ==
  ASSUME BindingTypeOK, NEW p \in Procs, NEW redis \in BOOLEAN
  PROVE  Reads(p, redis) \in States
<1>1. (IF redis THEN shared ELSE copy[p]) \in States
  BY Zenon DEF BindingTypeOK, RequestOK
<1> QED
  BY <1>1, PrepareKeeps, Zenon DEF Reads, BindingTypeOK, RequestOK

(* A decision, for whatever request and session, keeps the invariant; it   *)
(* switches to a challenger that stood, and explores a key whose last      *)
(* exploration is old.                                                     *)
LEMMA PickStep ==
  ASSUME BindingInv, NEW p \in Procs, NEW r \in Requests, NEW s \in Sessions, NEW v \in Views,
         NEW failed, NEW redis \in BOOLEAN, Pick(p, r, s, v, failed, redis)
  PROVE  /\ BindingInv'
         /\ req'[r].session = s
         /\ \A x \in Requests \ {r} : req'[x] = req[x]
         /\ req'[r].why = "latency_improved" =>
              \/ stood'[s].of = req'[r].prev /\ stood'[s].by = req'[r].key /\ clock - stood'[s].since >= SwitchConfirm
              \/ local' >= shared.bind[s].since
         /\ req'[r].why \in {"exploration", "challenger_trial"} =>
              clock - apart[req'[r].key] >= ExploreEvery \/ local' >= apart[req'[r].key]
<1> DEFINE st == Reads(p, redis)
           b == st.bind[s]
           d == Decide(st, s, v, failed)
           b2 == IF b.key # NoKey /\ Keeps(v) THEN Compared(b, v) ELSE b
           q == [at |-> "served", proc |-> p, session |-> s, key |-> d.key,
                 why |-> d.why, prev |-> d.prev, failed |-> failed]
<1>1. /\ Possible(v, b.key, failed) /\ req' = [req EXCEPT ![r] = q]
      /\ Saves(p, redis, d.state)
      /\ stood' = [stood EXCEPT ![s] = Stood(s, b, v)]
      /\ apart' = IF d.why \in {"challenger_trial", "exploration"} THEN [apart EXCEPT ![d.key] = clock] ELSE apart
      /\ clock' = clock
  BY Zenon DEF Pick
<1>2. /\ BindingTypeOK /\ clock \in Nat /\ local \in Nat /\ shared \in States /\ st \in States
      /\ stood \in [Sessions -> Runs] /\ apart \in [Candidates -> Nat] /\ DOMAIN req = Requests
  BY ReadTyped, Zenon DEF BindingInv, BindingTypeOK, RequestOK
<1>3. b \in Bindings /\ v.best \in Candidates
  BY <1>2, Zenon DEF States, Views
<1>4. /\ d.state \in States /\ d.key \in Candidates /\ d.prev = b.key
      /\ d.state.bind[s] = b2
      /\ \A x \in Sessions \ {s} : d.state.bind[x] = st.bind[x]
      /\ d.why \in {"challenger_trial", "exploration"} =>
           /\ Explorable(st, d.key)
           /\ d.state.explored[d.key] = clock
           /\ \A x \in Candidates \ {d.key} : d.state.explored[x] = st.explored[x]
      /\ d.why \notin {"challenger_trial", "exploration"} => d.state.explored = st.explored
      /\ d.why = "latency_improved" =>
           b.key # NoKey /\ v.says = "confirmed" /\ clock - b2.since >= SwitchConfirm /\ d.key = v.best
  <2> HIDE DEF st
  <2> QED BY <1>1, <1>2, DecideFacts
<1>5. redis => /\ st.explored = shared.explored
               /\ \A x \in Sessions : st.bind[x] = Unbound \/ st.bind[x] = shared.bind[x]
  BY <1>2, PrepareKeeps, Zenon DEF Reads
<1> HIDE DEF st, d
<1>6. Stood(s, b, v) \in Runs /\ Stood(s, b, v).since <= clock
  BY <1>2, <1>3, StoodTyped, Zenon DEF BindingInv, PastOnly
<1>7. /\ req'[r] = q /\ DOMAIN req' = Requests
      /\ \A x \in Requests \ {r} : req'[x] = req[x]
  BY <1>1, <1>2, Zenon
<1>19. req'[r].session = s /\ req'[r].why = d.why /\ req'[r].key = d.key /\ req'[r].prev = d.prev
  BY <1>7
<1>8. /\ shared' = IF redis THEN d.state ELSE shared
      /\ local' = IF redis THEN local ELSE clock
  BY <1>1, Zenon DEF Saves
<1>9. shared' \in States /\ copy' \in [Procs -> States] /\ local' \in Nat
  BY <1>1, <1>2, <1>4, WriteTyped, Zenon
<1>10. /\ stood' \in [Sessions -> Runs] /\ stood'[s] = Stood(s, b, v)
       /\ \A x \in Sessions \ {s} : stood'[x] = stood[x]
  BY <1>1, <1>2, <1>6, Zenon
<1>11. /\ apart' \in [Candidates -> Nat]
       /\ \A x \in Candidates : apart'[x] = IF d.why \in {"challenger_trial", "exploration"} /\ x = d.key THEN clock ELSE apart[x]
  BY <1>1, <1>2, <1>4, Zenon
<1>12. BindingTypeOK'
  <2>1. \A x \in Requests : RequestOK(req'[x])
    <3>1. "at" \in DOMAIN q /\ q.session \in Sessions /\ q.proc \in Procs /\ q.key \in Candidates
      BY <1>4, Zenon
    <3> QED
      BY <3>1, <1>2, <1>7, Zenon DEF BindingTypeOK, RequestOK
  <2> QED
    BY <2>1, <1>1, <1>2, <1>7, <1>9, <1>10, <1>11, Zenon DEF BindingTypeOK, RequestOK
<1>13. \A x \in Sessions : redis => d.state.bind[x].since <= clock
  <2>1. Unbound.since = 0
    BY Zenon DEF Unbound
  <2>2. redis => \A x \in Sessions : st.bind[x].since <= clock
    BY <1>2, <1>5, <2>1 DEF BindingInv, PastOnly
  <2>3. redis => b2.since <= clock
    BY <1>2, <1>3, <2>2 DEF Compared, Bindings
  <2> QED
    BY <2>2, <2>3, <1>4, Zenon
<1>14. PastOnly'
  BY <1>1, <1>2, <1>6, <1>8, <1>10, <1>11, <1>13 DEF BindingInv, PastOnly
<1>15. ChallengerStood'
  <2> SUFFICES ASSUME NEW x \in Sessions, shared'.bind[x].challenger # NoKey
               PROVE  \/ /\ stood'[x].of = shared'.bind[x].key /\ stood'[x].by = shared'.bind[x].challenger
                         /\ stood'[x].since <= shared'.bind[x].since
                      \/ local' >= shared'.bind[x].since
    BY Zenon DEF ChallengerStood
  <2>1. CASE ~redis
    BY <2>1, <1>2, <1>8, Zenon DEF BindingInv, PastOnly, States, Bindings
  <2>2. ASSUME redis, st.bind[x].challenger # NoKey
        PROVE  /\ st.bind[x] = shared.bind[x]
               /\ \/ stood[x].of = st.bind[x].key /\ stood[x].by = st.bind[x].challenger /\ stood[x].since <= st.bind[x].since
                  \/ local >= st.bind[x].since
    BY <2>2, <1>5 DEF Unbound, BindingInv, ChallengerStood
  <2>3. CASE redis /\ x # s
    BY <2>2, <2>3, <1>4, <1>8, <1>10, Zenon
  <2>4. CASE redis /\ x = s
    <3>1. b2.challenger # NoKey /\ shared'.bind[s] = b2 /\ local' = local
      BY <2>4, <1>4, <1>8, Zenon
    <3>2. CASE b.key # NoKey /\ Keeps(v)
      <4>1. Improved(v)
        BY <3>1, <3>2, <1>3, Zenon DEF Compared, Bindings
      <4>2. CASE b.challenger = v.best
        <5>1. b2 = b
          BY <4>1, <4>2, <3>2, Zenon DEF Compared
        <5> QED
          BY <5>1, <4>1, <4>2, <3>1, <3>2, <2>2, <2>4, <1>10, Zenon DEF Stood
      <4>3. CASE b.challenger # v.best
        <5>1. b2.key = b.key /\ b2.challenger = v.best /\ b2.since = clock
          BY <4>1, <4>3, <3>2, <1>3, Zenon DEF Compared, Bindings
        <5>2. stood'[s].of = b.key /\ stood'[s].by = v.best
          BY <4>1, <3>2, <1>10 DEF Stood
        <5> QED
          BY <5>1, <5>2, <3>1, <2>4, <1>6, <1>10, Zenon
      <4> QED
        BY <4>2, <4>3, Zenon
    <3>3. CASE ~(b.key # NoKey /\ Keeps(v))
      <4>1. b2 = b
        BY <3>3, Zenon
      <4>2. Improved(v) => Keeps(v)
        BY Zenon DEF Improved, Keeps
      <4>3. stood'[s] = stood[s]
        BY <3>3, <4>2, <1>10, Zenon DEF Stood
      <4> QED
        BY <4>1, <4>3, <3>1, <2>2, <2>4, Zenon
    <3> QED
      BY <3>2, <3>3, Zenon
  <2> QED
    BY <2>1, <2>3, <2>4, Zenon
<1>16. ExplorationKnown'
  <2> SUFFICES ASSUME NEW k \in Candidates
               PROVE  shared'.explored[k] >= apart'[k] \/ local' >= apart'[k]
    BY Zenon DEF ExplorationKnown
  <2>1. CASE ~redis
    BY <2>1, <1>2, <1>8, <1>11 DEF BindingInv, PastOnly
  <2>2. CASE redis /\ d.why \in {"challenger_trial", "exploration"} /\ k = d.key
    BY <2>2, <1>2, <1>4, <1>8, <1>11
  <2>3. CASE redis /\ ~(d.why \in {"challenger_trial", "exploration"} /\ k = d.key)
    <3>1. d.state.explored[k] = shared.explored[k] /\ apart'[k] = apart[k]
      BY <2>3, <1>4, <1>5, <1>11, Zenon
    <3> QED
      BY <2>3, <3>1, <1>8, Zenon DEF BindingInv, ExplorationKnown
  <2> QED
    BY <2>1, <2>2, <2>3, Zenon
<1>17. ASSUME d.why = "latency_improved"
       PROVE  \/ stood'[s].of = d.prev /\ stood'[s].by = d.key /\ clock - stood'[s].since >= SwitchConfirm
              \/ local' >= shared.bind[s].since
  <2>1. CASE ~redis
    BY <2>1, <1>8, Zenon DEF BindingInv, PastOnly, BindingTypeOK, RequestOK, States, Bindings
  <2>2. CASE redis
    <3>1. /\ b.key # NoKey /\ Improved(v) /\ Keeps(v) /\ clock - b2.since >= SwitchConfirm /\ d.key = v.best
      BY <1>4, <1>17, Zenon DEF Improved, Keeps
    <3>2. b.challenger = v.best /\ b2 = b
      <4>1. CASE b.challenger = v.best
        BY <4>1, <3>1, Zenon DEF Compared
      <4>2. CASE b.challenger # v.best
        <5>1. b2.since = clock
          BY <4>2, <3>1, <1>3, Zenon DEF Compared, Bindings
        <5> QED
          BY <5>1, <3>1, <1>2, BindingAssumption DEF BindingAssumption
      <4> QED
        BY <4>1, <4>2, Zenon
    <3>3. st.bind[s] = shared.bind[s]
      BY <2>2, <3>1, <1>5 DEF Unbound
    <3>4. b.challenger # NoKey
      BY <3>2, <1>3, BindingAssumption, Zenon DEF BindingAssumption
    <3>5. CASE local >= b.since
      BY <3>5, <3>3, <2>2, <1>8, Zenon
    <3>6. CASE stood[s].of = b.key /\ stood[s].by = b.challenger /\ stood[s].since <= b.since
      <4>1. stood'[s] = stood[s]
        BY <3>6, <3>1, <3>2, <1>10, Zenon DEF Stood
      <4>2. b.since \in Nat /\ stood[s].since \in Nat
        BY <1>2, <1>3, Zenon DEF Bindings, Runs
      <4>3. clock - stood[s].since >= SwitchConfirm
        BY <4>2, <3>1, <3>2, <3>6, <1>2, BindingAssumption DEF BindingAssumption
      <4> QED
        BY <4>1, <4>3, <3>1, <3>2, <3>6, <1>4, Zenon
    <3> QED
      BY <3>3, <3>4, <3>5, <3>6, Zenon DEF BindingInv, ChallengerStood
  <2> QED
    BY <2>1, <2>2, Zenon
<1>18. ASSUME d.why \in {"exploration", "challenger_trial"}
       PROVE  clock - apart[d.key] >= ExploreEvery \/ local' >= apart[d.key]
  <2>1. CASE ~redis
    BY <2>1, <1>4, <1>8, Zenon DEF BindingInv, PastOnly, BindingTypeOK, RequestOK
  <2>2. CASE redis
    <3>1. clock - shared.explored[d.key] >= ExploreEvery
      BY <2>2, <1>4, <1>5, <1>18, Zenon DEF Explorable
    <3>2. shared.explored[d.key] \in Nat /\ apart[d.key] \in Nat
      BY <1>2, <1>4, Zenon DEF States
    <3>3. CASE shared.explored[d.key] >= apart[d.key]
      BY <3>1, <3>2, <3>3, <1>2, BindingAssumption DEF BindingAssumption
    <3>4. CASE local >= apart[d.key]
      BY <3>4, <2>2, <1>8, Zenon
    <3> QED
      BY <3>3, <3>4, <1>4, Zenon DEF BindingInv, ExplorationKnown
  <2> QED
    BY <2>1, <2>2, Zenon
<1> QED
  BY <1>7, <1>12, <1>14, <1>15, <1>16, <1>17, <1>18, <1>19, Zenon DEF BindingInv

(* A commit moves a binding, or extends it with the challenger it has.     *)
LEMMA CommitStep ==
  ASSUME BindingInv, NEW r \in Requests, NEW reply \in BOOLEAN, NEW redis \in BOOLEAN,
         CommitSuccess(r, reply, redis)
  PROVE  BindingInv' /\ req' = [req EXCEPT ![r] = Free]
<1> DEFINE q == req[r]
           st == Reads(q.proc, redis)
           b == Rebound(st.bind[q.session], q.key)
           st2 == IF Moves(st, q) THEN [st EXCEPT !.bind[q.session] = Rebound(@, q.key)] ELSE st
           st3 == IF reply THEN Replied(st2, q) ELSE st2
(* What the commit leaves of a binding that still has a challenger.        *)
           SameRun(new, old) == /\ new.key = old.key /\ new.challenger = old.challenger /\ new.since = old.since
<1>1. /\ q.at = "served" /\ Saves(q.proc, redis, st3) /\ req' = [req EXCEPT ![r] = Free]
      /\ clock' = clock /\ stood' = stood /\ apart' = apart
  BY Zenon DEF CommitSuccess
<1>2. /\ BindingTypeOK /\ clock \in Nat /\ local \in Nat /\ shared \in States
      /\ stood \in [Sessions -> Runs] /\ apart \in [Candidates -> Nat] /\ DOMAIN req = Requests
      /\ q.session \in Sessions /\ q.proc \in Procs /\ q.key \in Candidates
  BY <1>1, Zenon DEF BindingInv, BindingTypeOK, RequestOK
<1>3. st \in States
  BY <1>2, ReadTyped, Zenon
<1>4. redis => /\ st.explored = shared.explored
               /\ \A x \in Sessions : st.bind[x] = Unbound \/ st.bind[x] = shared.bind[x]
  BY <1>2, PrepareKeeps, Zenon DEF Reads
<1> HIDE DEF st
<1>5. /\ b \in Bindings
      /\ SameRun(b, st.bind[q.session]) \/ (b.challenger = NoKey /\ b.since = 0)
  <2>1. st.bind[q.session] \in Bindings
    BY <1>2, <1>3, Zenon DEF States
  <2>2. BoundTo(q.key) \in Bindings /\ BoundTo(q.key).challenger = NoKey /\ BoundTo(q.key).since = 0
    BY <1>2, BoundToTyped, Zenon
  <2> QED
    BY <2>1, <2>2, <1>2, BindingAssumption DEF Rebound, Bindings, BindingAssumption
<1>6. /\ st2 \in States /\ st2.explored = st.explored
      /\ \A x \in Sessions : SameRun(st2.bind[x], st.bind[x]) \/ (st2.bind[x].challenger = NoKey /\ st2.bind[x].since = 0)
  <2>1. [st EXCEPT !.bind[q.session] = Rebound(@, q.key)] = [st EXCEPT !.bind[q.session] = b]
    BY <1>2, <1>3, Zenon DEF States
  <2> HIDE DEF b
  <2>2. LET new == [st EXCEPT !.bind[q.session] = b]
        IN  /\ new \in States /\ new.explored = st.explored
            /\ new.bind[q.session] = b
            /\ \A x \in Sessions \ {q.session} : new.bind[x] = st.bind[x]
    BY <1>2, <1>3, <1>5, BindChanged
  <2> QED
    BY <2>1, <2>2, <1>3, <1>5, Zenon
<1> HIDE DEF st2
<1>7. /\ st3 \in States /\ st3.explored = st.explored
      /\ \A x \in Sessions : SameRun(st3.bind[x], st.bind[x]) \/ (st3.bind[x].challenger = NoKey /\ st3.bind[x].since = 0)
  <2> DEFINE t == IF q.session = NoSession THEN ReplySession ELSE q.session
             known == [st2 EXCEPT !.reply = [session |-> t, until |-> clock + StickyTTL]]
             made == BoundTo(q.key)
  <2>1. t \in Sessions /\ clock + StickyTTL \in Nat
    BY <1>2, BindingAssumption DEF BindingAssumption
  <2>2. known \in States /\ known.explored = st2.explored /\ known.bind = st2.bind
    BY <2>1, <1>6, Zenon DEF States
  <2>3. made \in Bindings /\ made.challenger = NoKey /\ made.since = 0
    BY <1>2, BoundToTyped, Zenon
  <2>4. Replied(st2, q) = IF q.session = NoSession THEN [known EXCEPT !.bind[t] = made] ELSE known
    BY Zenon DEF Replied
  <2> HIDE DEF t, known, made
  <2>5. LET new == [known EXCEPT !.bind[t] = made]
        IN  /\ new \in States /\ new.explored = known.explored
            /\ new.bind[t] = made
            /\ \A x \in Sessions \ {t} : new.bind[x] = known.bind[x]
    BY <2>1, <2>2, <2>3, BindChanged
  <2> QED
    BY <2>2, <2>3, <2>4, <2>5, <1>6
<1> HIDE DEF st3
<1>8. /\ shared' = IF redis THEN st3 ELSE shared
      /\ local' = IF redis THEN local ELSE clock
  BY <1>1, Zenon DEF Saves
<1>9. shared' \in States /\ copy' \in [Procs -> States] /\ local' \in Nat
  BY <1>1, <1>2, <1>7, WriteTyped, Zenon
<1>10. BindingTypeOK'
  <2>1. \A x \in Requests : req'[x] = req[x] \/ req'[x] = Free
    BY <1>1, <1>2, Zenon
  <2>2. DOMAIN Free = {"at"} /\ Free.at = "free"
    BY Zenon DEF Free
  <2>3. DOMAIN req' = Requests
    BY <1>1, <1>2, Zenon
  <2>4. \A x \in Requests : RequestOK(req'[x])
    BY <2>1, <2>2, <1>2, Zenon DEF BindingTypeOK, RequestOK
  <2> QED
    BY <2>3, <2>4, <1>1, <1>2, <1>9, Zenon DEF BindingTypeOK, RequestOK
<1>11. ASSUME redis, NEW x \in Sessions
       PROVE  SameRun(st3.bind[x], shared.bind[x]) \/ (st3.bind[x].challenger = NoKey /\ st3.bind[x].since = 0)
  BY <1>11, <1>4, <1>7 DEF Unbound
<1>12. PastOnly'
  BY <1>1, <1>2, <1>8, <1>11 DEF BindingInv, PastOnly
<1>13. ChallengerStood'
  <2>1. CASE redis
    BY <2>1, <1>1, <1>8, <1>11, Zenon DEF BindingInv, ChallengerStood
  <2>2. CASE ~redis
    BY <2>2, <1>1, <1>2, <1>8, Zenon DEF BindingInv, ChallengerStood, PastOnly, States, Bindings
  <2> QED
    BY <2>1, <2>2, Zenon
<1>14. ExplorationKnown'
  BY <1>1, <1>2, <1>4, <1>7, <1>8, Zenon DEF BindingInv, ExplorationKnown, PastOnly
<1> QED
  BY <1>1, <1>10, <1>12, <1>13, <1>14, Zenon DEF BindingInv

(* A step that only changes requests, to one that has what a failed        *)
(* attempt leaves or to a free one.                                        *)
LEMMA RequestStep ==
  ASSUME BindingInv, UNCHANGED <<clock, shared, copy, picks, stood, apart, local>>,
         NEW r \in Requests, NEW q, req' = [req EXCEPT ![r] = q],
         "at" \in DOMAIN q, q.at # "served",
         q.at = "failed" => q.session \in Sessions /\ q.proc \in Procs
  PROVE  BindingInv' /\ req'[r].at # "served" /\ \A x \in Requests \ {r} : req'[x] = req[x]
<1>1. /\ DOMAIN req = Requests /\ DOMAIN req' = Requests /\ req'[r] = q
      /\ \A x \in Requests \ {r} : req'[x] = req[x]
  BY Zenon DEF BindingInv, BindingTypeOK, RequestOK
<1>2. \A x \in Requests : RequestOK(req'[x])
  BY <1>1, Zenon DEF BindingInv, BindingTypeOK, RequestOK
<1>3. BindingTypeOK'
  BY <1>1, <1>2, Zenon DEF BindingInv, BindingTypeOK, RequestOK
<1> QED
  BY <1>1, <1>3, Zenon DEF BindingInv, PastOnly, ChallengerStood, ExplorationKnown

(* What the two properties say of one step.                                *)
EarnedStep ==
  \A r \in Requests : Decided(r, {"latency_improved"}) =>
    LET h == stood'[req'[r].session]
    IN  \/ h.of = req'[r].prev /\ h.by = req'[r].key /\ clock - h.since >= SwitchConfirm
        \/ local' >= shared.bind[req'[r].session].since

ApartStep ==
  \A r \in Requests : Decided(r, {"exploration", "challenger_trial"}) =>
    \/ clock - apart[req'[r].key] >= ExploreEvery
    \/ local' >= apart[req'[r].key]

LEMMA PickKeeps ==
  ASSUME BindingInv, NEW p \in Procs, NEW r \in Requests, NEW s \in Sessions, NEW v \in Views,
         NEW failed, NEW redis \in BOOLEAN, Pick(p, r, s, v, failed, redis)
  PROVE  BindingInv' /\ EarnedStep /\ ApartStep
BY PickStep DEF EarnedStep, ApartStep, Decided

LEMMA QuietStep ==
  ASSUME NEW r \in Requests, req'[r].at # "served", \A x \in Requests \ {r} : req'[x] = req[x]
  PROVE  EarnedStep /\ ApartStep
BY Zenon DEF EarnedStep, ApartStep, Decided

LEMMA BindingStarts == BindingInit => BindingInv
<1> SUFFICES ASSUME BindingInit PROVE BindingInv
  BY Zenon
<1> USE BindingAssumption DEF BindingAssumption
<1>1. /\ clock \in Nat /\ local = 0 /\ apart = [k \in Candidates |-> 0]
      /\ stood = [s \in Sessions |-> [of |-> NoKey, by |-> NoKey, since |-> 0]]
      /\ copy = [p \in Procs |-> EmptyState] /\ req = [r \in Requests |-> Free]
  BY Zenon DEF BindingInit
<1>2. PICK bound \in SUBSET Sessions, k \in Candidates :
        shared = [EmptyState EXCEPT !.bind = [s \in Sessions |-> IF s \in bound THEN BoundTo(k) ELSE Unbound]]
  BY Zenon DEF BindingInit
<1>3. \A s \in Sessions : /\ (IF s \in bound THEN BoundTo(k) ELSE Unbound) \in Bindings
                          /\ (IF s \in bound THEN BoundTo(k) ELSE Unbound).challenger = NoKey
                          /\ (IF s \in bound THEN BoundTo(k) ELSE Unbound).since = 0
  BY <1>1, BoundToTyped, UnboundTyped, Zenon DEF Unbound
<1>4. /\ shared \in States /\ shared.explored = EmptyState.explored
      /\ \A s \in Sessions : shared.bind[s].challenger = NoKey /\ shared.bind[s].since = 0
  BY <1>2, <1>3, UnboundTyped, Zenon DEF States
<1>5. \A r \in Requests : "at" \in DOMAIN req[r] /\ req[r].at = "free"
  BY <1>1, Zenon DEF Free
<1>6. BindingTypeOK
  BY <1>1, <1>4, <1>5, UnboundTyped, Zenon DEF BindingTypeOK, RequestOK, Runs
<1>7. PastOnly /\ ChallengerStood /\ ExplorationKnown
  BY <1>1, <1>4, <1>6 DEF PastOnly, ChallengerStood, ExplorationKnown, BindingTypeOK, RequestOK, States
<1> QED
  BY <1>6, <1>7, Zenon DEF BindingInv

LEMMA BindingNextStep ==
  ASSUME BindingInv, BindingNext
  PROVE  BindingInv' /\ EarnedStep /\ ApartStep
<1> USE BindingAssumption DEF BindingAssumption
<1>1. ASSUME NEW p \in Procs, NEW r \in Requests, NEW s \in Sessions, NEW v \in Views, NEW redis \in BOOLEAN,
             PickFirst(p, r, s, v, redis)
      PROVE  BindingInv' /\ EarnedStep /\ ApartStep
  BY <1>1, PickKeeps, Zenon DEF PickFirst
<1>2. ASSUME NEW p \in Procs, NEW r \in Requests, NEW v \in Views, NEW redis \in BOOLEAN, NEW known \in BOOLEAN,
             PickPrevious(p, r, v, redis, known)
      PROVE  BindingInv' /\ EarnedStep /\ ApartStep
  <2>1. Reads(p, redis).reply.session \in Sessions
    BY ReadTyped, Zenon DEF BindingInv, States
  <2> DEFINE s == IF known THEN Reads(p, redis).reply.session ELSE NoSession
  <2>2. s \in Sessions /\ PickFirst(p, r, s, v, redis)
    BY <1>2, <2>1, Zenon DEF PickPrevious
  <2> HIDE DEF s
  <2> QED
    BY <2>2, <1>1, Zenon
<1>3. ASSUME NEW r \in Requests, NEW v \in Views, NEW redis \in BOOLEAN, PickNext(r, v, redis)
      PROVE  BindingInv' /\ EarnedStep /\ ApartStep
  <2>1. req[r].session \in Sessions /\ req[r].proc \in Procs
    BY <1>3, Zenon DEF PickNext, BindingInv, BindingTypeOK, RequestOK
  <2> QED
    BY <2>1, <1>3, PickKeeps, Zenon DEF PickNext
<1>4. ASSUME NEW r \in Requests, AttemptFails(r)
      PROVE  BindingInv' /\ EarnedStep /\ ApartStep
  <2> DEFINE q == [at |-> "failed", proc |-> req[r].proc, session |-> req[r].session,
                   failed |-> req[r].failed \cup {req[r].key}]
  <2>1. req[r].session \in Sessions /\ req[r].proc \in Procs /\ DOMAIN req = Requests
    BY <1>4, Zenon DEF AttemptFails, BindingInv, BindingTypeOK, RequestOK
  <2>2. req' = [req EXCEPT ![r] = q] /\ UNCHANGED <<clock, shared, copy, picks, stood, apart, local>>
    BY <1>4, <2>1, Zenon DEF AttemptFails
  <2>3. "at" \in DOMAIN q /\ q.at = "failed" /\ q.session \in Sessions /\ q.proc \in Procs
    BY <2>1, Zenon
  <2> HIDE DEF q
  <2>4. BindingInv' /\ req'[r].at # "served" /\ \A x \in Requests \ {r} : req'[x] = req[x]
    BY <2>2, <2>3, RequestStep, Zenon
  <2> QED
    BY <2>4, QuietStep, Zenon
<1>5. ASSUME NEW r \in Requests, GiveUp(r) \/ CommitLost(r)
      PROVE  BindingInv' /\ EarnedStep /\ ApartStep
  <2>1. "at" \in DOMAIN Free /\ Free.at = "free"
    BY Zenon DEF Free
  <2>2. req' = [req EXCEPT ![r] = Free] /\ UNCHANGED <<clock, shared, copy, picks, stood, apart, local>>
    BY <1>5, Zenon DEF GiveUp, CommitLost
  <2>3. BindingInv' /\ req'[r].at # "served" /\ \A x \in Requests \ {r} : req'[x] = req[x]
    BY <2>1, <2>2, RequestStep, Zenon
  <2> QED
    BY <2>3, QuietStep, Zenon
<1>6. ASSUME NEW r \in Requests, NEW reply \in BOOLEAN, NEW redis \in BOOLEAN, CommitSuccess(r, reply, redis)
      PROVE  BindingInv' /\ EarnedStep /\ ApartStep
  <2>1. BindingInv' /\ req' = [req EXCEPT ![r] = Free]
    BY <1>6, CommitStep, Zenon
  <2>2. req'[r].at # "served" /\ \A x \in Requests \ {r} : req'[x] = req[x]
    BY <2>1, Zenon DEF BindingInv, BindingTypeOK, RequestOK, Free
  <2> QED
    BY <2>1, <2>2, QuietStep, Zenon
<1>7. ASSUME BindingTick
      PROVE  BindingInv' /\ EarnedStep /\ ApartStep
  <2>1. /\ clock \in Nat /\ clock' = clock + 1
        /\ UNCHANGED <<shared, copy, picks, req, stood, apart, local>>
    BY <1>7, Zenon DEF BindingTick, BindingInv, BindingTypeOK, RequestOK
  <2>2. BindingTypeOK'
    BY <2>1 DEF BindingInv, BindingTypeOK, RequestOK
  <2>3. PastOnly'
    BY <2>1 DEF BindingInv, PastOnly, BindingTypeOK, RequestOK, States, Bindings, Runs
  <2>4. ChallengerStood' /\ ExplorationKnown'
    BY <2>1, Zenon DEF BindingInv, ChallengerStood, ExplorationKnown
  <2>5. EarnedStep /\ ApartStep
    BY <2>1, Zenon DEF EarnedStep, ApartStep, Decided
  <2> QED
    BY <2>2, <2>3, <2>4, <2>5, Zenon DEF BindingInv
<1> QED
  BY <1>1, <1>2, <1>3, <1>4, <1>5, <1>6, <1>7, Zenon DEF BindingNext

(* The strengthening: what Redis holds of a challenger and of an           *)
(* exploration is what really happened, up to the last use of a copy.      *)
THEOREM BindingInvariant == BindingSpec => []BindingInv
<1>1. BindingInv /\ [BindingNext]_bindingVars => BindingInv'
  <2>1. CASE BindingNext
    BY <2>1, BindingNextStep, Zenon
  <2>2. CASE UNCHANGED bindingVars
    BY <2>2, Zenon DEF bindingVars, BindingInv, BindingTypeOK, RequestOK, PastOnly, ChallengerStood, ExplorationKnown
  <2> QED
    BY <2>1, <2>2, Zenon
<1> QED
  BY <1>1, BindingStarts, PTL DEF BindingSpec

(* A session leaves its key for a faster one only when one challenger      *)
(* stood every comparison of the confirmation period, by any process       *)
(* (stableDecision, CommitSuccess), unless a copy was used meanwhile.      *)
THEOREM SwitchesAreEarned == BindingSpec => LatencySwitchEarned
<1>1. BindingInv /\ [BindingNext]_bindingVars => [EarnedStep]_bindingVars
  BY BindingNextStep, Zenon
<1> QED
  BY <1>1, BindingInvariant, PTL DEF BindingSpec, LatencySwitchEarned, EarnedStep

(* A key is explored at most once per interval by all processes together   *)
(* (stableDecision), unless a copy was used since its last exploration.    *)
THEOREM ExplorationsAreApart == BindingSpec => ExploredApart
<1>1. BindingInv /\ [BindingNext]_bindingVars => [ApartStep]_bindingVars
  BY BindingNextStep, Zenon
<1> QED
  BY <1>1, BindingInvariant, PTL DEF BindingSpec, ExploredApart, ApartStep
-----------------------------------------------------------------------------
(* Proof that the quarantine's record and the group's members agree, for   *)
(* any number of keys, groups, edits and stops.                            *)

QuarantineTypeOK ==
  /\ plan \in [life : {"unborn", "live", "gone"}, enabled : BOOLEAN, quarantine : BOOLEAN,
               group : Groups, due : BOOLEAN]
  /\ DOMAIN groupLife = Groups
  /\ members \subseteq Groups \X Keys
  /\ DOMAIN qstate = Keys /\ \A k \in Keys : "status" \in DOMAIN qstate[k]
  /\ job = Idle \/ ("plan" \in DOMAIN job /\ job.plan.group \in Groups)
  /\ taken \in [Keys -> Groups \cup {NoGroup}]
  /\ dropping \in Groups \cup {NoGroup}

(* Only a group that exists has members, and only from such a group has    *)
(* the rule taken a key: DeleteRouteGroup leaves neither behind.           *)
OnlyLiveGroups ==
  /\ \A m \in members : Live(m[1])
  /\ \A k \in Keys : taken[k] # NoGroup => Live(taken[k])

\* No run, and so no removal, before there is a plan.
NoPlanNoRun == plan.life = "unborn" => job = Idle /\ \A k \in Keys : taken[k] = NoGroup

QuarantineInv == QuarantineTypeOK /\ OnlyLiveGroups /\ NoPlanNoRun /\ TakenOutIsOnRecord

LEMMA QuarantineInitInv == QuarantineInit => QuarantineInv
<1> SUFFICES ASSUME QuarantineInit PROVE QuarantineInv
  BY Zenon
<1> DEFINE g == CHOOSE h \in Groups : TRUE
<1>1. g \in Groups
  BY QuarantineAssumption, Zenon
<1>2. PICK life \in {"unborn", "live"} :
        /\ groupLife = [h \in Groups |-> IF h = g THEN "live" ELSE "unborn"]
        /\ plan = [life |-> life, enabled |-> TRUE, quarantine |-> TRUE, group |-> g, due |-> FALSE]
        /\ members = {g} \X Keys
  BY Zenon DEF QuarantineInit
<1> HIDE DEF g
<1>3. QuarantineTypeOK
  BY <1>1, <1>2, Zenon DEF QuarantineInit, QuarantineTypeOK, NoState
<1>4. OnlyLiveGroups
  BY <1>1, <1>2, Zenon DEF QuarantineInit, OnlyLiveGroups, Live
<1>5. NoPlanNoRun
  BY Zenon DEF QuarantineInit, NoPlanNoRun
<1>6. TakenOutIsOnRecord
  BY <1>1, <1>2, QuarantineAssumption, Zenon DEF QuarantineInit, TakenOutIsOnRecord
<1> QED
  BY <1>3, <1>4, <1>5, <1>6, Zenon DEF QuarantineInv

\* What a step leaves alone, it need not be asked about.
LEMMA QuarantineUntouched ==
  ASSUME QuarantineInv,
         UNCHANGED <<groupLife, members, taken, dropping>>,
         plan'.life = plan.life, plan'.group = plan.group,
         plan' \in [life : {"unborn", "live", "gone"}, enabled : BOOLEAN, quarantine : BOOLEAN,
                    group : Groups, due : BOOLEAN],
         DOMAIN qstate' = Keys, \A k \in Keys : "status" \in DOMAIN qstate'[k],
         \A k \in Keys : qstate'[k].status = qstate[k].status,
         job' = Idle \/ ("plan" \in DOMAIN job' /\ job'.plan.group \in Groups),
         plan.life = "unborn" => job' = Idle
  PROVE  QuarantineInv'
<1>1. QuarantineTypeOK'
  BY Zenon DEF QuarantineInv, QuarantineTypeOK
<1>2. OnlyLiveGroups'
  BY Zenon DEF QuarantineInv, OnlyLiveGroups, Live
<1>3. NoPlanNoRun'
  BY Zenon DEF QuarantineInv, NoPlanNoRun
<1>4. TakenOutIsOnRecord'
  BY Zenon DEF QuarantineInv, TakenOutIsOnRecord, Quarantined
<1> QED
  BY <1>1, <1>2, <1>3, <1>4, Zenon DEF QuarantineInv

\* The steps of a run other than the last one of a sample.
LEMMA RunSteps ==
  ASSUME QuarantineInv,
         \/ RunIntelPlanNow \/ RunDueIntelPlans \/ BeginSamples \/ PlanDue \/ RowsAge
         \/ \E k \in Keys : Ask(k) \/ (\E v \in Verdicts : Judge(k, v)) \/ TestDue(k)
         \/ \E kept \in 0..MinSamples : EndSamples(kept)
  PROVE  QuarantineInv'
<1>0. QuarantineTypeOK /\ NoPlanNoRun
  BY Zenon DEF QuarantineInv
<1> DEFINE Knows(j) == j = Idle \/ ("plan" \in DOMAIN j /\ j.plan.group \in Groups)
<1>a. ASSUME NEW s PROVE Knows(Starting(s))
  BY <1>0, Zenon DEF QuarantineTypeOK, Starting, PlanRead
<1>b. Knows(Finalized(job)) /\ (job = Idle => Finalized(job) = Idle)
  BY <1>0, Zenon DEF QuarantineTypeOK, Finalized, Idle
<1>1. CASE RunIntelPlanNow
  <2>1. Knows(job') /\ (plan.life = "unborn" => job' = Idle)
    BY <1>a, <1>1, Zenon DEF RunIntelPlanNow, CanRunPlan
  <2> QED
    BY <1>0, <1>1, <2>1, QuarantineUntouched, Zenon DEF QuarantineTypeOK, RunIntelPlanNow
<1>2. CASE RunDueIntelPlans
  <2>1. Knows(job') /\ (plan.life = "unborn" => job' = Idle)
    BY <1>0, <1>a, <1>b, <1>2, Zenon DEF RunDueIntelPlans, CanRunPlan, RetestDue, NoPlanNoRun
  <2> QED
    BY <1>0, <1>2, <2>1, QuarantineUntouched, Zenon DEF QuarantineTypeOK, RunDueIntelPlans
<1>3. CASE BeginSamples
  <2>1. job # Idle
    BY <1>3 DEF BeginSamples, Idle
  <2>2. Knows(job') /\ plan.life # "unborn"
    BY <1>0, <1>3, <2>1 DEF BeginSamples, QuarantineTypeOK, NoPlanNoRun
  <2>3. DOMAIN qstate' = Keys /\ \A k \in Keys : "status" \in DOMAIN qstate'[k]
    BY <1>0, <1>3 DEF BeginSamples, QuarantineTypeOK
  <2>4. \A k \in Keys : qstate'[k].status = qstate[k].status
    BY <1>0, <1>3 DEF BeginSamples, QuarantineTypeOK
  <2> QED
    BY <1>0, <1>3, <2>2, <2>3, <2>4, QuarantineUntouched, Zenon DEF QuarantineTypeOK, BeginSamples
<1>4. CASE PlanDue
  BY <1>0, <1>4, QuarantineUntouched, Zenon DEF QuarantineTypeOK, NoPlanNoRun, PlanDue
<1>5. CASE RowsAge
  <2>1. Knows(job') /\ (plan.life = "unborn" => job' = Idle)
    BY <1>0, <1>5, Zenon DEF RowsAge, QuarantineTypeOK, NoPlanNoRun, Idle
  <2> QED
    BY <1>0, <1>5, <2>1, QuarantineUntouched, Zenon DEF QuarantineTypeOK, RowsAge
<1>6. ASSUME NEW k \in Keys, Ask(k) \/ \E v \in Verdicts : Judge(k, v) PROVE QuarantineInv'
  <2>1. job # Idle /\ UNCHANGED <<plan, groupLife, members, qstate, taken, dropping>>
    <3>1. job.phase = "asking" /\ UNCHANGED <<plan, groupLife, members, qstate, taken, dropping>>
      BY <1>6, Zenon DEF Ask, Judge
    <3> QED
      BY <3>1 DEF Idle
  <2>2. Knows(job') /\ plan.life # "unborn"
    <3>1. \E x : job' = [job EXCEPT !.hand[k] = x]
      BY <1>6, Zenon DEF Ask, Judge
    <3> QED
      BY <1>0, <2>1, <3>1, Zenon DEF QuarantineTypeOK, NoPlanNoRun
  <2> QED
    BY <1>0, <2>1, <2>2, QuarantineUntouched, Zenon DEF QuarantineTypeOK
<1>7. ASSUME NEW k \in Keys, TestDue(k) PROVE QuarantineInv'
  <2>1. DOMAIN qstate' = Keys /\ \A q \in Keys : "status" \in DOMAIN qstate'[q]
    BY <1>0, <1>7, Zenon DEF TestDue, QuarantineTypeOK
  <2>2. \A q \in Keys : qstate'[q].status = qstate[q].status
    BY <1>0, <1>7, Zenon DEF TestDue, QuarantineTypeOK
  <2> QED
    BY <1>0, <1>7, <2>1, <2>2, QuarantineUntouched, Zenon DEF QuarantineTypeOK, NoPlanNoRun, TestDue
<1>8. ASSUME NEW kept \in 0..MinSamples, EndSamples(kept) PROVE QuarantineInv'
  <2>1. plan' \in [life : {"unborn", "live", "gone"}, enabled : BOOLEAN, quarantine : BOOLEAN,
                   group : Groups, due : BOOLEAN]
        /\ plan'.life = plan.life /\ plan'.group = plan.group
    BY <1>0, <1>8, Zenon DEF EndSamples, QuarantineTypeOK
  <2> QED
    BY <1>0, <1>8, <2>1, QuarantineUntouched, Zenon DEF QuarantineTypeOK, EndSamples
<1> QED
  BY <1>1, <1>2, <1>3, <1>4, <1>5, <1>6, <1>7, <1>8, Zenon

(* The outcome of a sample.  The rule takes a key from the group its run   *)
(* knows, which has members and so exists; where that is not the plan's    *)
(* group any more, nothing is claimed of the key.                          *)
LEMMA OutcomeSteps ==
  ASSUME QuarantineInv, NEW k \in Keys, Apply(k)
  PROVE  QuarantineInv'
<1> DEFINE g == job.plan.group
           verdict == job.hand[k].verdict
           seen == job.hand[k].seen
<1>0. QuarantineTypeOK /\ OnlyLiveGroups /\ NoPlanNoRun /\ TakenOutIsOnRecord
  BY Zenon DEF QuarantineInv
<1>1. /\ job.phase = "asking" /\ job' = [job EXCEPT !.hand[k] = Waiting]
      /\ UNCHANGED <<plan, groupLife, dropping>>
  BY Zenon DEF Apply
<1>2. job # Idle
  BY <1>1 DEF Idle
<1>3. g \in Groups /\ plan.life # "unborn" /\ "plan" \in DOMAIN job' /\ job'.plan.group \in Groups
  BY <1>0, <1>1, <1>2, Zenon DEF QuarantineTypeOK, NoPlanNoRun
<1>4. \/ UNCHANGED <<qstate, members, taken>>
      \/ /\ <<g, k>> \in members /\ members' = members \ {<<g, k>>}
         /\ qstate' = [qstate EXCEPT ![k] = Held(0, FALSE)] /\ taken' = [taken EXCEPT ![k] = g]
      \/ \E n : qstate' = [qstate EXCEPT ![k] = Held(n, FALSE)] /\ UNCHANGED <<members, taken>>
      \/ /\ Live(g) /\ members' = members \cup {<<g, k>>} /\ taken' = [taken EXCEPT ![k] = NoGroup]
         /\ qstate' = qstate \/ qstate' = [qstate EXCEPT ![k] = Restored]
      \/ /\ UNCHANGED members /\ taken' = [taken EXCEPT ![k] = NoGroup]
         /\ qstate' = [qstate EXCEPT ![k] = NoState]
  <2>1. CASE seen.status = "quarantined"
    <3>1. Outcome(k, verdict, seen)
      BY <2>1, Zenon DEF Apply
    <3>2. CASE verdict = "correct" /\ seen.streak + 1 >= RestoreAt
      <4>1. restoreIntelKey(k)
        BY <3>1, <3>2, Zenon DEF Outcome
      <4>2. CASE Live(g)
        BY <4>1, <4>2, Zenon DEF restoreIntelKey
      <4>3. CASE ~Live(g)
        BY <4>1, <4>3, Zenon DEF restoreIntelKey, Save
      <4> QED
        BY <4>2, <4>3, Zenon
    <3>3. CASE ~(verdict = "correct" /\ seen.streak + 1 >= RestoreAt)
      BY <3>1, <3>3, Zenon DEF Outcome, Save
    <3> QED
      BY <3>2, <3>3, Zenon
  <2>2. CASE seen.status # "quarantined"
    BY <2>2, Zenon DEF Apply, TakeOut, Save
  <2> QED
    BY <2>1, <2>2, Zenon
<1> HIDE DEF g, verdict, seen
<1>5. QuarantineTypeOK'
  BY <1>0, <1>1, <1>3, <1>4 DEF QuarantineTypeOK, Held, Restored, NoState
<1>6. OnlyLiveGroups'
  <2>1. <<g, k>> \in members => Live(g)
    BY <1>0, Zenon DEF OnlyLiveGroups
  <2>2. ASSUME NEW m \in members' PROVE Live(m[1])'
    <3>1. m \in members \/ (m = <<g, k>> /\ Live(g))
      BY <1>4, <2>2, Zenon
    <3> QED
      BY <1>0, <1>1, <3>1 DEF OnlyLiveGroups, Live
  <2>3. ASSUME NEW q \in Keys, taken'[q] # NoGroup PROVE Live(taken[q])'
    <3>1. taken'[q] = taken[q] \/ (taken'[q] = g /\ Live(g)) \/ taken'[q] = NoGroup
      BY <1>0, <1>4, <2>1, Zenon DEF QuarantineTypeOK
    <3> QED
      BY <1>0, <1>1, <2>3, <3>1, Zenon DEF OnlyLiveGroups, Live
  <2> QED
    BY <2>2, <2>3, Zenon DEF OnlyLiveGroups
<1>7. NoPlanNoRun'
  BY <1>1, <1>3, Zenon DEF NoPlanNoRun
<1>8. TakenOutIsOnRecord'
  <2> SUFFICES ASSUME NEW q \in Keys, taken'[q] = plan.group, plan.life = "live"
               PROVE  qstate'[q].status = "quarantined" /\ <<plan.group, q>> \notin members'
    BY <1>1, Zenon DEF TakenOutIsOnRecord, Quarantined
  <2>1. plan.group \in Groups
    BY <1>0, Zenon DEF QuarantineTypeOK
  <2>2. CASE q # k
    BY <1>0, <1>4, <2>1, <2>2, Zenon DEF QuarantineTypeOK, TakenOutIsOnRecord, Quarantined
  <2>3. CASE q = k
    BY <1>0, <1>4, <2>1, <2>3, QuarantineAssumption
       DEF QuarantineTypeOK, TakenOutIsOnRecord, Quarantined, Held
  <2> QED
    BY <2>2, <2>3, Zenon
<1> QED
  BY <1>5, <1>6, <1>7, <1>8, Zenon DEF QuarantineInv

(* A stop, and the repair at the next start: it drops the states of a plan *)
(* whose group does not exist, from which nothing is taken.                *)
LEMMA RestartStep ==
  ASSUME QuarantineInv, Restart
  PROVE  QuarantineInv'
<1>0. QuarantineTypeOK /\ OnlyLiveGroups /\ NoPlanNoRun /\ TakenOutIsOnRecord
  BY Zenon DEF QuarantineInv
<1>1. QuarantineTypeOK'
  BY <1>0, Zenon DEF QuarantineTypeOK, Restart, NoState
<1>2. OnlyLiveGroups'
  BY <1>0, Zenon DEF OnlyLiveGroups, Restart, Live
<1>3. NoPlanNoRun'
  BY <1>0, Zenon DEF NoPlanNoRun, Restart, QuarantineTypeOK
<1>4. TakenOutIsOnRecord'
  BY <1>0, QuarantineAssumption, Zenon
     DEF TakenOutIsOnRecord, OnlyLiveGroups, Quarantined, Restart, QuarantineTypeOK, Live
<1> QED
  BY <1>1, <1>2, <1>3, <1>4, Zenon DEF QuarantineInv

(* An edit of a group's keys.  Whatever edit clears a key's record in the  *)
(* plan's group also ends what is claimed of the key.                      *)
LEMMA MembershipEdits ==
  ASSUME QuarantineInv, NEW g \in Groups, NEW out \in SUBSET Keys, NEW add \in SUBSET Keys,
         NEW known \in SUBSET Keys, NEW cleared \in SUBSET Keys, add \cup cleared \subseteq known,
         Live(g)', \A h \in Groups : Live(h) => Live(h)',
         DOMAIN groupLife' = Groups,
         qstate' = Cleared(g, cleared),
         members' = Removed(g, out) \cup insertRouteGroupKeys(g, add),
         taken' = Touched(g, known),
         UNCHANGED <<plan, job, dropping>>
  PROVE  QuarantineInv'
<1>0. QuarantineTypeOK /\ OnlyLiveGroups /\ NoPlanNoRun /\ TakenOutIsOnRecord
  BY Zenon DEF QuarantineInv
<1>1. QuarantineTypeOK'
  BY <1>0, Zenon DEF QuarantineTypeOK, Cleared, Removed, insertRouteGroupKeys, Touched, NoState
<1>2. OnlyLiveGroups'
  <2>1. ASSUME NEW m \in members' PROVE Live(m[1])'
    <3>1. m \in members \/ m[1] = g
      BY <2>1, Zenon DEF Removed, insertRouteGroupKeys
    <3> QED
      BY <1>0, <3>1, Zenon DEF OnlyLiveGroups, QuarantineTypeOK
  <2>2. ASSUME NEW q \in Keys, taken'[q] # NoGroup PROVE Live(taken[q])'
    <3>1. taken'[q] = taken[q]
      BY <1>0, <2>2, Zenon DEF Touched
    <3> QED
      BY <1>0, <2>2, <3>1, Zenon DEF OnlyLiveGroups, QuarantineTypeOK
  <2> QED
    BY <2>1, <2>2, Zenon DEF OnlyLiveGroups
<1>3. NoPlanNoRun'
  BY <1>0, Zenon DEF NoPlanNoRun, Touched
<1>4. TakenOutIsOnRecord'
  <2> SUFFICES ASSUME NEW q \in Keys, taken'[q] = plan.group, plan.life = "live"
               PROVE  qstate'[q].status = "quarantined" /\ <<plan.group, q>> \notin members'
    BY Zenon DEF TakenOutIsOnRecord, Quarantined
  <2>1. plan.group \in Groups /\ plan.group # NoGroup
    BY <1>0, QuarantineAssumption, Zenon DEF QuarantineTypeOK
  <2>2. taken[q] = plan.group /\ (g = plan.group => q \notin known)
    BY <2>1, Zenon DEF Touched
  <2>3. qstate[q].status = "quarantined" /\ <<plan.group, q>> \notin members
    BY <1>0, <2>2, Zenon DEF TakenOutIsOnRecord, Quarantined
  <2> QED
    BY <2>2, <2>3, Zenon DEF Cleared, Removed, insertRouteGroupKeys
<1> QED
  BY <1>1, <1>2, <1>3, <1>4, Zenon DEF QuarantineInv

\* Edits that at most remove members.
LEMMA OtherEdits ==
  ASSUME QuarantineInv, members' \subseteq members,
         UNCHANGED <<plan, groupLife, qstate, job, taken>>,
         dropping' \in Groups \cup {NoGroup}
  PROVE  QuarantineInv'
<1>0. QuarantineTypeOK /\ OnlyLiveGroups /\ NoPlanNoRun /\ TakenOutIsOnRecord
  BY Zenon DEF QuarantineInv
<1>1. QuarantineTypeOK'
  BY <1>0, Zenon DEF QuarantineTypeOK
<1>2. OnlyLiveGroups'
  BY <1>0, Zenon DEF OnlyLiveGroups, Live
<1>3. NoPlanNoRun'
  BY <1>0, Zenon DEF NoPlanNoRun
<1>4. TakenOutIsOnRecord'
  BY <1>0, Zenon DEF TakenOutIsOnRecord, Quarantined
<1> QED
  BY <1>1, <1>2, <1>3, <1>4, Zenon DEF QuarantineInv

\* A group that comes, or comes back, with keys that nothing is claimed of.
LEMMA GroupComes ==
  ASSUME QuarantineInv, NEW g \in Groups, NEW add \in SUBSET Keys,
         add = {} \/ ~Live(g),
         groupLife' = [groupLife EXCEPT ![g] = "live"],
         members' = members \cup insertRouteGroupKeys(g, add),
         UNCHANGED <<plan, qstate, job, dropping, taken>>
  PROVE  QuarantineInv'
<1>0. QuarantineTypeOK /\ OnlyLiveGroups /\ NoPlanNoRun /\ TakenOutIsOnRecord
  BY Zenon DEF QuarantineInv
<1>1. QuarantineTypeOK'
  BY <1>0, Zenon DEF QuarantineTypeOK, insertRouteGroupKeys
<1>2. OnlyLiveGroups'
  <2>1. \A h \in Groups : h = g \/ Live(h) => Live(h)'
    BY <1>0, Zenon DEF QuarantineTypeOK, Live
  <2>2. ASSUME NEW m \in members' PROVE Live(m[1])'
    <3>1. (m \in members /\ m[1] \in Groups /\ Live(m[1])) \/ m[1] = g
      BY <1>0, <2>2, Zenon DEF insertRouteGroupKeys, QuarantineTypeOK, OnlyLiveGroups
    <3> QED
      BY <2>1, <3>1, Zenon
  <2>3. ASSUME NEW q \in Keys, taken'[q] # NoGroup PROVE Live(taken[q])'
    BY <1>0, <2>1, <2>3, Zenon DEF OnlyLiveGroups, QuarantineTypeOK
  <2> QED
    BY <2>2, <2>3, Zenon DEF OnlyLiveGroups
<1>3. NoPlanNoRun'
  BY <1>0, Zenon DEF NoPlanNoRun
<1>4. TakenOutIsOnRecord'
  BY <1>0, QuarantineAssumption
     DEF TakenOutIsOnRecord, Quarantined, OnlyLiveGroups, QuarantineTypeOK, insertRouteGroupKeys
<1> QED
  BY <1>1, <1>2, <1>3, <1>4, Zenon DEF QuarantineInv

LEMMA GroupEdits ==
  ASSUME QuarantineInv, NEW g \in Groups, NEW K \in SUBSET Keys,
         \/ SetRouteGroupKeys(g, K) \/ UpdateRouteGroup(g, K) \/ CreateRouteGroup(g, K)
  PROVE  QuarantineInv'
<1>0. DOMAIN groupLife = Groups
  BY Zenon DEF QuarantineInv, QuarantineTypeOK
<1>1. MembersOf(g) \ K \in SUBSET Keys
  BY Zenon DEF MembersOf
<1>2. ASSUME replaceRouteGroupKeys(g, K), Live(g)', \A h \in Groups : Live(h) => Live(h)',
             DOMAIN groupLife' = Groups, UNCHANGED <<plan, job, dropping>>
      PROVE  QuarantineInv'
  <2>1. /\ qstate' = Cleared(g, MembersOf(g) \ K)
        /\ members' = Removed(g, Keys) \cup insertRouteGroupKeys(g, K)
        /\ taken' = Touched(g, Keys)
    BY <1>2, Zenon DEF replaceRouteGroupKeys
  <2>2. K \cup (MembersOf(g) \ K) \subseteq Keys
    BY <1>1, Zenon
  <2> QED
    BY <1>1, <1>2, <2>1, <2>2, MembershipEdits, Zenon
<1>3. CASE SetRouteGroupKeys(g, K)
  BY <1>0, <1>2, <1>3, Zenon DEF SetRouteGroupKeys, Live
<1>4. CASE UpdateRouteGroup(g, K)
  <2>1. /\ groupLife' = [groupLife EXCEPT ![g] = "live"] /\ UNCHANGED <<plan, job, dropping>>
        /\ replaceRouteGroupKeys(g, K) \/ UNCHANGED <<qstate, members, taken>>
    BY <1>4, Zenon DEF UpdateRouteGroup
  <2>2. DOMAIN groupLife' = Groups /\ Live(g)' /\ \A h \in Groups : Live(h) => Live(h)'
    BY <1>0, <2>1, Zenon DEF Live
  <2>3. CASE replaceRouteGroupKeys(g, K)
    BY <1>2, <2>1, <2>2, <2>3, Zenon
  <2>4. CASE UNCHANGED <<qstate, members, taken>>
    <3>1. {} \in SUBSET Keys /\ members' = members \cup insertRouteGroupKeys(g, {})
      BY <2>4, Zenon DEF insertRouteGroupKeys
    <3> QED
      BY <2>1, <2>4, <3>1, GroupComes, Zenon
  <2> QED
    BY <2>1, <2>3, <2>4, Zenon
<1>5. CASE CreateRouteGroup(g, K)
  BY <1>5, GroupComes, Zenon DEF CreateRouteGroup, Live
<1> QED
  BY <1>3, <1>4, <1>5, Zenon

LEMMA BatchEdits ==
  ASSUME QuarantineInv, NEW g \in Groups, NEW a \in SUBSET Keys, NEW r \in SUBSET Keys,
         BatchRouteGroupKeys(g, a, r)
  PROVE  QuarantineInv'
<1>1. DOMAIN groupLife = Groups
  BY Zenon DEF QuarantineInv, QuarantineTypeOK
<1>2. /\ Live(g) /\ qstate' = Cleared(g, r) /\ taken' = Touched(g, a \cup r)
      /\ members' = Removed(g, r) \cup insertRouteGroupKeys(g, a)
      /\ UNCHANGED <<plan, groupLife, job, dropping>>
  BY Zenon DEF BatchRouteGroupKeys
<1>3. Live(g)' /\ \A h \in Groups : Live(h) => Live(h)'
  BY <1>2, Zenon DEF Live
<1>4. a \cup r \in SUBSET Keys
  BY Zenon
<1> QED
  BY <1>1, <1>2, <1>3, <1>4, MembershipEdits, Zenon

LEMMA KeyEdits ==
  ASSUME QuarantineInv, NEW k \in Keys, NEW G \in SUBSET Groups, SetKeyRouteGroups(k, G)
  PROVE  QuarantineInv'
<1>0. QuarantineTypeOK /\ OnlyLiveGroups /\ NoPlanNoRun /\ TakenOutIsOnRecord
  BY Zenon DEF QuarantineInv
<1>1. /\ \A g \in G : Live(g)
      /\ members' = (members \ (Groups \X {k})) \cup G \X {k}
      /\ taken' = [taken EXCEPT ![k] = NoGroup]
      /\ UNCHANGED <<plan, groupLife, job, dropping>>
  BY Zenon DEF SetKeyRouteGroups
<1>2. qstate' = Cleared(plan.group, {k}) \/ qstate' = qstate
  BY Zenon DEF SetKeyRouteGroups
<1>3. QuarantineTypeOK'
  BY <1>0, <1>1, <1>2 DEF QuarantineTypeOK, Cleared, NoState
<1>4. OnlyLiveGroups'
  BY <1>0, <1>1, Zenon DEF OnlyLiveGroups, QuarantineTypeOK, Live
<1>5. NoPlanNoRun'
  BY <1>0, <1>1, Zenon DEF NoPlanNoRun, QuarantineTypeOK
<1>6. TakenOutIsOnRecord'
  <2> SUFFICES ASSUME NEW q \in Keys, taken'[q] = plan.group, plan.life = "live"
               PROVE  qstate'[q].status = "quarantined" /\ <<plan.group, q>> \notin members'
    BY <1>1, Zenon DEF TakenOutIsOnRecord, Quarantined
  <2>1. q # k /\ taken[q] = plan.group
    BY <1>0, <1>1, QuarantineAssumption, Zenon DEF QuarantineTypeOK
  <2>2. qstate[q].status = "quarantined" /\ <<plan.group, q>> \notin members
    BY <1>0, <2>1, Zenon DEF TakenOutIsOnRecord, Quarantined
  <2> QED
    BY <1>1, <1>2, <2>1, <2>2, Zenon DEF Cleared
<1> QED
  BY <1>3, <1>4, <1>5, <1>6, Zenon DEF QuarantineInv

LEMMA PlanEdits ==
  ASSUME QuarantineInv, NEW g \in Groups, NEW on \in BOOLEAN, NEW q \in BOOLEAN,
         CreateIntelPlan(g, on, q) \/ UpdateIntelPlan(g, on, q)
  PROVE  QuarantineInv'
<1>0. QuarantineTypeOK /\ OnlyLiveGroups /\ NoPlanNoRun /\ TakenOutIsOnRecord
  BY Zenon DEF QuarantineInv
<1>1. /\ UNCHANGED <<groupLife, members, qstate, job, dropping>>
      /\ taken' = taken \/ taken' = [k \in Keys |-> NoGroup]
  BY Zenon DEF CreateIntelPlan, UpdateIntelPlan
<1>2. /\ plan' \in [life : {"unborn", "live", "gone"}, enabled : BOOLEAN, quarantine : BOOLEAN,
                    group : Groups, due : BOOLEAN]
      /\ plan'.life = "live" /\ plan'.group = g
  <2>1. CASE CreateIntelPlan(g, on, q)
    BY <2>1, Zenon DEF CreateIntelPlan
  <2>2. CASE UpdateIntelPlan(g, on, q)
    <3>1. plan.life = "live"
          /\ plan' = [plan EXCEPT !.enabled = on, !.quarantine = q, !.group = g, !.due = ~on]
      BY <2>2, Zenon DEF UpdateIntelPlan
    <3> QED
      BY <1>0, <3>1, Zenon DEF QuarantineTypeOK
  <2> QED
    BY <2>1, <2>2, Zenon
<1>3. \A k \in Keys : taken'[k] = g => taken'[k] = taken[k] /\ g = plan.group /\ plan.life = "live"
  <2>1. g # NoGroup
    BY QuarantineAssumption, Zenon
  <2>2. CASE CreateIntelPlan(g, on, q)
    BY <1>0, <2>1, <2>2, Zenon DEF CreateIntelPlan, NoPlanNoRun
  <2>3. CASE UpdateIntelPlan(g, on, q)
    BY <2>1, <2>3, Zenon DEF UpdateIntelPlan
  <2> QED
    BY <2>2, <2>3, Zenon
<1>4. QuarantineTypeOK'
  BY <1>0, <1>1, <1>2, Zenon DEF QuarantineTypeOK
<1>5. OnlyLiveGroups'
  BY <1>0, <1>1, Zenon DEF OnlyLiveGroups, Live
<1>6. NoPlanNoRun'
  BY <1>2, Zenon DEF NoPlanNoRun
<1>7. TakenOutIsOnRecord'
  BY <1>0, <1>1, <1>2, <1>3, Zenon DEF TakenOutIsOnRecord, Quarantined
<1> QED
  BY <1>4, <1>5, <1>6, <1>7, Zenon DEF QuarantineInv

LEMMA HandlerSteps ==
  ASSUME QuarantineInv, Handlers
  PROVE  QuarantineInv'
<1>0. QuarantineTypeOK /\ OnlyLiveGroups /\ NoPlanNoRun /\ TakenOutIsOnRecord
  BY Zenon DEF QuarantineInv
<1>1. CASE DeleteRouteGroup
  <2>0. /\ dropping \in Groups /\ dropping' = NoGroup
        /\ groupLife' = [groupLife EXCEPT ![dropping] = IF @ = "live" THEN "gone" ELSE @]
        /\ qstate' = Cleared(dropping, Keys)
        /\ plan' = IF plan.group = dropping THEN [plan EXCEPT !.enabled = FALSE] ELSE plan
        /\ members' = Removed(dropping, Keys)
        /\ taken' = Touched(dropping, Keys)
        /\ job' = job
    BY <1>0, <1>1, Zenon DEF DeleteRouteGroup, QuarantineTypeOK
  <2>1. /\ plan' \in [life : {"unborn", "live", "gone"}, enabled : BOOLEAN, quarantine : BOOLEAN,
                      group : Groups, due : BOOLEAN]
        /\ plan'.life = plan.life /\ plan'.group = plan.group
    BY <1>0, <2>0, Zenon DEF QuarantineTypeOK
  <2>2. \A k \in Keys : taken'[k] = NoGroup \/ (taken'[k] = taken[k] /\ taken[k] # dropping)
    BY <2>0, Zenon DEF Touched
  <2>3. \A h \in Groups : Live(h) /\ h # dropping => Live(h)'
    BY <1>0, <2>0, Zenon DEF Live, QuarantineTypeOK
  <2>4. QuarantineTypeOK'
    <3>1. DOMAIN groupLife' = Groups /\ members' \subseteq Groups \X Keys
          /\ taken' \in [Keys -> Groups \cup {NoGroup}] /\ dropping' \in Groups \cup {NoGroup}
      BY <1>0, <2>0, Zenon DEF QuarantineTypeOK, Removed, Touched
    <3>2. DOMAIN qstate' = Keys /\ \A k \in Keys : "status" \in DOMAIN qstate'[k]
      BY <1>0, <2>0, Zenon DEF QuarantineTypeOK, Cleared, NoState
    <3> QED
      BY <1>0, <2>0, <2>1, <3>1, <3>2, Zenon DEF QuarantineTypeOK
  <2>5. OnlyLiveGroups'
    <3>1. ASSUME NEW m \in members' PROVE Live(m[1])'
      <4>1. m \in members /\ m[1] \in Groups /\ m[1] # dropping
        BY <1>0, <2>0, <3>1, Zenon DEF QuarantineTypeOK, Removed
      <4> QED
        BY <1>0, <2>3, <4>1, Zenon DEF OnlyLiveGroups
    <3>2. ASSUME NEW k \in Keys, taken'[k] # NoGroup PROVE Live(taken[k])'
      <4>1. taken'[k] = taken[k] /\ taken[k] \in Groups /\ taken[k] # dropping /\ Live(taken[k])
        BY <1>0, <2>2, <3>2, Zenon DEF QuarantineTypeOK, OnlyLiveGroups
      <4> QED
        BY <2>3, <4>1, Zenon
    <3> QED
      BY <3>1, <3>2, Zenon DEF OnlyLiveGroups
  <2>6. NoPlanNoRun'
    BY <1>0, <2>0, <2>1, <2>2, Zenon DEF NoPlanNoRun
  <2>7. TakenOutIsOnRecord'
    <3> SUFFICES ASSUME NEW k \in Keys, taken'[k] = plan.group, plan.life = "live"
                 PROVE  qstate'[k].status = "quarantined" /\ <<plan.group, k>> \notin members'
      BY <2>1, Zenon DEF TakenOutIsOnRecord, Quarantined
    <3>1. taken[k] = plan.group /\ plan.group # dropping
      BY <1>0, <2>2, QuarantineAssumption, Zenon DEF QuarantineTypeOK
    <3>2. qstate[k].status = "quarantined" /\ <<plan.group, k>> \notin members
      BY <1>0, <3>1, Zenon DEF TakenOutIsOnRecord, Quarantined
    <3> QED
      BY <2>0, <3>1, <3>2, Zenon DEF Cleared, Removed
  <2> QED
    BY <2>4, <2>5, <2>6, <2>7, Zenon DEF QuarantineInv
<1>2. CASE RestoreIntelPlanQuarantined \/ DeleteIntelPlanData
  <2>0. /\ UNCHANGED <<plan, groupLife, dropping>> /\ taken' = [k \in Keys |-> NoGroup]
        /\ qstate' = qstate \/ qstate' = [k \in Keys |-> NoState]
    BY <1>2, Zenon DEF RestoreIntelPlanQuarantined, DeleteIntelPlanData
  <2>1. \A m \in members' : m \in members \/ (m \in Groups \X Keys /\ Live(m[1]))
    <3>1. CASE RestoreIntelPlanQuarantined
      BY <1>0, <3>1 DEF RestoreIntelPlanQuarantined, QuarantineTypeOK
    <3>2. CASE DeleteIntelPlanData
      BY <3>2, Zenon DEF DeleteIntelPlanData
    <3> QED
      BY <1>2, <3>1, <3>2, Zenon
  <2>2. job' = job \/ (job.phase = "asking" /\ job' = [job EXCEPT !.row = "closed"])
    BY <1>2, Zenon DEF RestoreIntelPlanQuarantined, DeleteIntelPlanData
  <2>3. job' = job \/ job # Idle
    BY <2>2, Zenon DEF Idle
  <2>4. QuarantineTypeOK'
    <3>1. members' \subseteq Groups \X Keys /\ taken' \in [Keys -> Groups \cup {NoGroup}]
      BY <1>0, <2>0, <2>1, Zenon DEF QuarantineTypeOK
    <3>2. DOMAIN qstate' = Keys /\ \A k \in Keys : "status" \in DOMAIN qstate'[k]
      BY <1>0, <2>0 DEF QuarantineTypeOK, NoState
    <3>3. job' = Idle \/ ("plan" \in DOMAIN job' /\ job'.plan.group \in Groups)
      BY <1>0, <2>2, <2>3, Zenon DEF QuarantineTypeOK
    <3> QED
      BY <1>0, <2>0, <3>1, <3>2, <3>3, Zenon DEF QuarantineTypeOK
  <2>5. OnlyLiveGroups'
    BY <1>0, <2>0, <2>1, Zenon DEF OnlyLiveGroups, Live
  <2>6. NoPlanNoRun'
    BY <1>0, <2>0, <2>3, Zenon DEF NoPlanNoRun
  <2>7. TakenOutIsOnRecord'
    BY <1>0, <2>0, QuarantineAssumption, Zenon DEF TakenOutIsOnRecord, QuarantineTypeOK
  <2> QED
    BY <2>4, <2>5, <2>6, <2>7, Zenon DEF QuarantineInv
<1>3. CASE DeleteIntelPlan
  <2>1. plan' = [plan EXCEPT !.life = "gone"]
        /\ UNCHANGED <<groupLife, members, qstate, job, dropping, taken>>
    BY <1>3, Zenon DEF DeleteIntelPlan
  <2>2. QuarantineTypeOK' /\ plan'.life = "gone"
    BY <1>0, <2>1, Zenon DEF QuarantineTypeOK
  <2>3. OnlyLiveGroups'
    BY <1>0, <2>1, Zenon DEF OnlyLiveGroups, Live
  <2> QED
    BY <2>2, <2>3, Zenon DEF QuarantineInv, NoPlanNoRun, TakenOutIsOnRecord
<1> QED
  BY <1>1, <1>2, <1>3, Zenon DEF Handlers

LEMMA QuarantineStepInv == QuarantineInv /\ [QuarantineNext]_quarantineVars => QuarantineInv'
<1> SUFFICES ASSUME QuarantineInv, [QuarantineNext]_quarantineVars PROVE QuarantineInv'
  BY Zenon
<1>1. CASE UNCHANGED quarantineVars
  BY <1>1, OtherEdits, Zenon DEF quarantineVars, QuarantineInv, QuarantineTypeOK
<1>2. CASE RunIntelPlanNow \/ RunDueIntelPlans \/ PlanDue \/ RowsAge \/ \E k \in Keys : TestDue(k)
  BY <1>2, RunSteps, Zenon
<1>3. CASE Work
  BY <1>3, RunSteps, OutcomeSteps, Zenon DEF Work, Sample
<1>4. CASE Operate
  <2>0. dropping \in Groups \cup {NoGroup}
    BY Zenon DEF QuarantineInv, QuarantineTypeOK
  <2>1. ASSUME NEW g \in Groups, FindUnbound(g) PROVE QuarantineInv'
    BY <2>1, OtherEdits, Zenon DEF FindUnbound
  <2>2. ASSUME NEW c, NEW g, setConsumerRouteGroups(c, g) PROVE QuarantineInv'
    BY <2>0, <2>2, OtherEdits, Zenon DEF setConsumerRouteGroups
  <2>3. ASSUME NEW c \in Consumers, DeleteConsumerKey(c) PROVE QuarantineInv'
    BY <2>0, <2>3, OtherEdits, Zenon DEF DeleteConsumerKey
  <2>4. ASSUME NEW k \in Keys, NEW st, SetKeyStatus(k, st) PROVE QuarantineInv'
    BY <2>0, <2>4, OtherEdits, Zenon DEF SetKeyStatus
  <2>5. ASSUME NEW K, BatchKeyDelete(K) PROVE QuarantineInv'
    <3>1. members' \subseteq members /\ UNCHANGED <<plan, groupLife, qstate, job, taken, dropping>>
      BY <2>5, Zenon DEF BatchKeyDelete
    <3> QED
      BY <2>0, <3>1, OtherEdits, Zenon
  <2>6. ASSUME DeletePlanChecked PROVE QuarantineInv'
    BY <2>0, <2>6, OtherEdits, Zenon DEF DeletePlanChecked
  <2> QED
    BY <1>4, <2>1, <2>2, <2>3, <2>4, <2>5, <2>6, GroupEdits, BatchEdits, KeyEdits, PlanEdits, Zenon
       DEF Operate, CreateConsumerKey, UpdateConsumerKey, DeleteKey, DeleteUpstream
<1> QED
  BY <1>1, <1>2, <1>3, <1>4, RestartStep, HandlerSteps, Zenon DEF QuarantineNext

(* Whatever runs, retests, stops, repairs and operators do, a key that the *)
(* rule took out of the plan's group and nobody has touched since is out   *)
(* of it and on record (evaluateIntelQuarantine, applyIntelOutcome,        *)
(* clearIntelQuarantineForKeys, cleanupIntelStaleReferences).              *)
THEOREM RecordAndGroupAgree == QuarantineSpec => []TakenOutIsOnRecord
<1>1. QuarantineInv => TakenOutIsOnRecord
  BY Zenon DEF QuarantineInv
<1> QED
  BY <1>1, QuarantineInitInv, QuarantineStepInv, PTL DEF QuarantineSpec
-----------------------------------------------------------------------------
(* The request log's safety, for any number of jobs and patches.           *)
(*                                                                         *)
(* ColumnsAdvance and ClosedRowComplete are not inductive: whether a late  *)
(* write takes a column back depends on what the writes under way carry.   *)
(* Versions orders them: of two versions of the row, the one of the higher *)
(* revision has the later value in every column, and the last write has    *)
(* every update made so far.                                               *)

Below(f, g) == \A c \in Cols : f[c] <= g[c]

Versions ==
  /\ row.rev <= lg.rev /\ Below(row.cols, lg.updates)
  /\ \A p \in pend : /\ p.rev <= lg.rev /\ Below(p.cols, lg.updates)
                     /\ row.rev < p.rev => Below(row.cols, p.cols)
  /\ \A p, q \in pend : p.rev < q.rev => Below(p.cols, q.cols)
  /\ \A p, q \in pend : p.rev = q.rev => p.cols = q.cols

Complete(cols) == \A c \in Cols : lg.updates[c] <= lg.rev => cols[c] = lg.updates[c]

Closing ==
  /\ lg.closed => pc \notin {"new", "run"}
  /\ ~lg.closed => lg.rev <= MaxUpdates /\ \A c \in Cols : lg.updates[c] <= lg.rev
  /\ lg.rev <= MaxUpdates + 1 /\ \A c \in Cols : lg.updates[c] <= lg.rev + 1
  /\ \A p \in pend : p.final => lg.closed /\ Complete(p.cols) /\ pc = "persist"
  /\ \A p, q \in pend : p.final /\ q.final => p = q
  /\ row.by = "handler" => lg.closed /\ Complete(row.cols)
  /\ row.by # "" => row.exists /\ ~row.inFlight
  /\ row.exists /\ row.by = "" => row.inFlight /\ ~row.ok
  /\ row.exists => pc # "new"
  /\ row.inFlight => row.exists

Outcomes ==
  /\ pc \in {"new", "run"} => outcome = "none"
  /\ row.ok => outcome = "success"
  /\ attempt = "success" => outcome = "success" /\ pc \notin {"new", "run", "persist", "settle"}
  /\ \A f \in Finalizers : fin[f].ok => outcome = "success"

Jobs ==
  ~SlowClient =>
    /\ aged => pc \in {"end", "dead"}
    /\ \A f \in Finalizers :
         /\ fin[f].st # "idle" => aged
         /\ fin[f].st = "judged" => (fin[f].ok <=> attempt = "success")
    /\ row.by = "stale" => aged /\ (row.ok <=> attempt = "success")

IInv == TypeOK /\ Versions /\ Closing /\ Outcomes /\ Jobs
-----------------------------------------------------------------------------
LEMMA InitIInv == Init => IInv
<1> SUFFICES ASSUME Init PROVE IInv
  BY Zenon
<1>1. Unset \in [Cols -> Revs] /\ \A c \in Cols : Unset[c] = 0
  BY RequestLogAssumption DEF Unset, Revs
<1>2. /\ NoRow.exists = FALSE /\ NoRow.inFlight = FALSE /\ NoRow.ok = FALSE /\ NoRow.by = "" /\ NoRow.rev = 0
      /\ NoRow.cols = Unset /\ NoRow \in Rows
  BY <1>1, RequestLogAssumption DEF NoRow, Rows, Revs
<1>3. lg.rev = 0 /\ ~lg.closed /\ lg.updates = Unset
  BY Zenon DEF Init
<1>0. lg \in [id : BOOLEAN, rev : Revs, closed : BOOLEAN, updates : [Cols -> Revs]]
  BY <1>1, RequestLogAssumption DEF Init, Revs
<1>4. fin \in [Finalizers -> [st : {"idle", "selected", "judged"}, rev : Revs, ok : BOOLEAN]]
  BY RequestLogAssumption DEF Init, Resting, Revs
<1>5. \A f \in Finalizers : fin[f].st = "idle" /\ fin[f].ok = FALSE
  BY Zenon DEF Init, Resting
<1>6. TypeOK
  BY <1>2, <1>0, <1>4, Zenon DEF Init, TypeOK
<1>7. Versions
  <2>1. row.rev = 0 /\ row.cols = Unset /\ pend = {}
    BY <1>2, Zenon DEF Init
  <2>2. Below(Unset, Unset)
    BY DEF Below, Unset
  <2>3. QED
    BY <1>3, <2>1, <2>2 DEF Versions
<1>8. Closing
  <2>1. ~row.exists /\ ~row.inFlight /\ row.by = "" /\ pend = {} /\ pc = "new"
    BY <1>2, Zenon DEF Init
  <2>2. \A c \in Cols : lg.updates[c] <= lg.rev
    BY <1>1, <1>3
  <2>3. lg.rev <= MaxUpdates /\ lg.rev <= MaxUpdates + 1
    BY <1>3, RequestLogAssumption
  <2>5. \A c \in Cols : lg.updates[c] <= lg.rev + 1
    BY <1>1, <1>3
  <2>4. QED
    BY <1>3, <2>1, <2>2, <2>3, <2>5, Zenon DEF Closing
<1>9. Outcomes /\ Jobs
  BY <1>2, <1>5, Zenon DEF Init, Outcomes, Jobs
<1>10. QED
  BY <1>6, <1>7, <1>8, <1>9, Zenon DEF IInv

(* What the types say of the parts the steps below take apart.             *)
LEMMA Parts ==
  ASSUME TypeOK
  PROVE  /\ lg.rev \in Nat /\ row.rev \in Nat /\ lg.updates \in [Cols -> Nat]
         /\ row.cols \in [Cols -> Nat]
         /\ \A p \in pend : p.rev \in Nat /\ p.cols \in [Cols -> Nat] /\ p.tries \in Nat
         /\ MaxUpdates \in Nat
<1>1. Revs \subseteq Nat /\ MaxUpdates \in Nat
  BY RequestLogAssumption DEF Revs
<1>2. lg.rev \in Revs /\ lg.updates \in [Cols -> Revs]
  BY Zenon DEF TypeOK
<1>3. row.rev \in Revs /\ row.cols \in [Cols -> Revs]
  BY Zenon DEF TypeOK, Rows
<1>4. \A p \in pend : p.rev \in Revs /\ p.cols \in [Cols -> Revs] /\ p.tries \in 0..(MaxTries - 1)
  BY Zenon DEF TypeOK, Writes
<1>5. \A p \in pend : p.tries \in Nat
  BY <1>4 DEF MaxTries
<1>6. \A f \in [Cols -> Revs] : f \in [Cols -> Nat]
  BY <1>1, Zenon
<1>7. QED
  BY <1>1, <1>2, <1>3, <1>4, <1>5, <1>6, Zenon

LEMMA BelowTransitive ==
  ASSUME NEW f \in [Cols -> Nat], NEW g \in [Cols -> Nat], NEW h \in [Cols -> Nat],
         Below(f, g), Below(g, h)
  PROVE  Below(f, h)
  BY DEF Below

(* Steps that only drop writes.                                            *)
LEMMA VersionsKept ==
  ASSUME Versions, pend' \subseteq pend, lg'.rev = lg.rev, lg'.updates = lg.updates,
         row'.rev = row.rev, row'.cols = row.cols
  PROVE  Versions'
<1>1. row'.rev <= lg'.rev /\ Below(row'.cols, lg'.updates)
  BY Zenon DEF Versions
<1>2. \A p \in pend' : /\ p.rev <= lg'.rev /\ Below(p.cols, lg'.updates)
                       /\ row'.rev < p.rev => Below(row'.cols, p.cols)
  BY Zenon DEF Versions
<1>3. \A p, q \in pend' : p.rev < q.rev => Below(p.cols, q.cols)
  BY Zenon DEF Versions
<1>4. \A p, q \in pend' : p.rev = q.rev => p.cols = q.cols
  BY Zenon DEF Versions
<1>5. QED
  BY <1>1, <1>2, <1>3, <1>4, Zenon DEF Versions, Below

(* A closed log that collects another update writes nothing.               *)
LEMMA UpdatesGrown ==
  ASSUME TypeOK, Versions, NEW ups \in [Cols -> Nat], Below(lg.updates, ups),
         pend' = pend, lg'.rev = lg.rev, lg'.updates = ups, row' = row
  PROVE  Versions'
<1>1. lg.updates \in [Cols -> Nat] /\ row.cols \in [Cols -> Nat]
      /\ \A p \in pend : p.cols \in [Cols -> Nat]
  BY Parts, Zenon
<1>2. row'.rev <= lg'.rev /\ Below(row'.cols, lg'.updates)
  BY <1>1, BelowTransitive, Zenon DEF Versions
<1>3. \A p \in pend' : /\ p.rev <= lg'.rev /\ Below(p.cols, lg'.updates)
                       /\ row'.rev < p.rev => Below(row'.cols, p.cols)
  BY <1>1, BelowTransitive, Zenon DEF Versions
<1>4. \A p, q \in pend' : p.rev < q.rev => Below(p.cols, q.cols)
  BY Zenon DEF Versions
<1>5. \A p, q \in pend' : p.rev = q.rev => p.cols = q.cols
  BY Zenon DEF Versions
<1>6. QED
  BY <1>2, <1>3, <1>4, <1>5, Zenon DEF Versions, Below

(* A new write is of a new revision and carries every update so far.       *)
LEMMA VersionAdded ==
  ASSUME TypeOK, Versions, NEW ups \in [Cols -> Nat], Below(lg.updates, ups),
         NEW w, w.rev = lg.rev + 1, w.cols = ups, pend' = pend \cup {w},
         lg'.rev = lg.rev + 1, lg'.updates = ups, row' = row
  PROVE  Versions'
<1>1. lg.rev \in Nat /\ row.rev \in Nat /\ row.rev <= lg.rev
  BY Parts, Zenon DEF Versions
<1>2. Below(row.cols, ups) /\ Below(ups, ups)
  <2>1. row.cols \in [Cols -> Nat] /\ lg.updates \in [Cols -> Nat] /\ Below(row.cols, lg.updates)
    BY Parts, Zenon DEF Versions
  <2>2. QED
    BY <2>1, BelowTransitive DEF Below
<1>3. \A p \in pend : p.rev \in Nat /\ p.rev <= lg.rev
  BY Parts, Zenon DEF Versions
<1>4. \A p \in pend : Below(p.cols, ups)
  <2>1. \A p \in pend : p.cols \in [Cols -> Nat] /\ Below(p.cols, lg.updates)
    BY Parts, Zenon DEF Versions
  <2>2. lg.updates \in [Cols -> Nat]
    BY Parts, Zenon
  <2>3. QED
    BY <2>1, <2>2, BelowTransitive, Zenon
<1>5. row'.rev <= lg'.rev
  BY <1>1
<1>6. ASSUME NEW p \in pend'
      PROVE  p.rev <= lg'.rev
  BY <1>1, <1>3
<1>7. ASSUME NEW p \in pend'
      PROVE  /\ Below(p.cols, lg'.updates)
             /\ row'.rev < p.rev => Below(row'.cols, p.cols)
  BY <1>2, <1>4, Zenon DEF Versions
<1>8. ASSUME NEW p \in pend', NEW q \in pend', p.rev < q.rev PROVE Below(p.cols, q.cols)
  <2>1. CASE p = w
    BY <1>1, <1>3, <1>8, <2>1
  <2>2. CASE p \in pend /\ q = w
    BY <1>4, <2>2, Zenon
  <2>3. CASE p \in pend /\ q \in pend
    BY <1>8, <2>3, Zenon DEF Versions
  <2>4. QED
    BY <2>1, <2>2, <2>3, Zenon
<1>9. ASSUME NEW p \in pend', NEW q \in pend', p.rev = q.rev PROVE p.cols = q.cols
  <2>1. CASE p \in pend /\ q \in pend
    BY <1>9, <2>1, Zenon DEF Versions
  <2>2. CASE p = w \/ q = w
    BY <1>1, <1>3, <1>9, <2>2
  <2>3. QED
    BY <2>1, <2>2, Zenon
<1>10. Below(row'.cols, lg'.updates)
  BY <1>2, Zenon
<1>11. QED
  BY <1>5, <1>6, <1>7, <1>8, <1>9, <1>10, Zenon DEF Versions, Below

(* One of the writes under way becomes the row, or none.                   *)
LEMMA VersionStored ==
  ASSUME TypeOK, Versions, lg' = lg, NEW p \in pend,
         \A q \in pend' : \E r \in pend : q.rev = r.rev /\ q.cols = r.cols,
         \/ row'.rev = row.rev /\ row'.cols = row.cols
         \/ row'.rev = p.rev /\ row'.cols = p.cols
  PROVE  Versions'
<1>1. row'.rev <= lg'.rev /\ Below(row'.cols, lg'.updates)
  BY Zenon DEF Versions
<1>2. ASSUME NEW q \in pend'
      PROVE  /\ q.rev <= lg'.rev /\ Below(q.cols, lg'.updates)
             /\ row'.rev < q.rev => Below(row'.cols, q.cols)
  <2>1. PICK r \in pend : q.rev = r.rev /\ q.cols = r.cols
    BY <1>2, Zenon
  <2>2. QED
    BY <2>1, Zenon DEF Versions
<1>3. ASSUME NEW q \in pend', NEW z \in pend'
      PROVE  (q.rev < z.rev => Below(q.cols, z.cols)) /\ (q.rev = z.rev => q.cols = z.cols)
  <2>1. PICK r \in pend : q.rev = r.rev /\ q.cols = r.cols
    BY <1>3, Zenon
  <2>2. PICK y \in pend : z.rev = y.rev /\ z.cols = y.cols
    BY <1>3, Zenon
  <2>3. QED
    BY <2>1, <2>2 DEF Versions
<1>4. QED
  BY <1>1, <1>2, <1>3, Zenon DEF Versions, Below

LEMMA BeginKeeps ==
  ASSUME IInv, NEW stored \in BOOLEAN, NEW known \in BOOLEAN, beginLog(stored, known)
  PROVE  IInv'
<1>0. Unset \in [Cols -> Revs]
  BY RequestLogAssumption DEF Unset, Revs
<1>1. /\ NoRow \in Rows /\ NewRow \in Rows
      /\ NoRow.rev = 0 /\ NewRow.rev = 0 /\ NoRow.cols = Unset /\ NewRow.cols = Unset
      /\ NoRow.by = "" /\ NewRow.by = "" /\ NoRow.ok = FALSE /\ NewRow.ok = FALSE
      /\ NoRow.exists = FALSE /\ NoRow.inFlight = FALSE /\ NewRow.exists = TRUE /\ NewRow.inFlight = TRUE
  BY <1>0, RequestLogAssumption DEF NoRow, NewRow, Rows, Revs
<1>2. /\ row'.rev = 0 /\ row'.cols = Unset /\ row'.by = "" /\ row'.ok = FALSE
      /\ row'.exists <=> row'.inFlight
  BY <1>1, Zenon DEF beginLog
<1>3. lg'.rev = lg.rev /\ lg'.closed = lg.closed /\ lg'.updates = lg.updates
  BY Zenon DEF beginLog, IInv, TypeOK
<1>4. TypeOK'
  <2>1. row' \in Rows
    BY <1>1, Zenon DEF beginLog
  <2>2. lg' \in [id : BOOLEAN, rev : Revs, closed : BOOLEAN, updates : [Cols -> Revs]]
    BY Zenon DEF beginLog, IInv, TypeOK
  <2>3. QED
    BY <2>1, <2>2, Zenon DEF beginLog, IInv, TypeOK
<1>5. Versions'
  <2>1. Below(Unset, lg.updates) /\ \A p \in pend : Below(Unset, p.cols)
    BY Parts DEF Below, Unset, IInv
  <2>2. pend' = pend /\ lg.rev \in Nat
    BY Parts, Zenon DEF beginLog, IInv
  <2>3. Versions
    BY Zenon DEF IInv
  <2>4. row'.rev <= lg'.rev
    <3>1. row'.rev = 0
      BY <1>2, Zenon
    <3>2. lg'.rev \in Nat
      BY <1>3, <2>2, Zenon
    <3>3. QED
      BY <3>1, <3>2
  <2>9. Below(row'.cols, lg'.updates)
    BY <1>2, <1>3, <2>1, Zenon
  <2>5. \A p \in pend' : p.rev <= lg'.rev /\ Below(p.cols, lg'.updates) /\ Below(row'.cols, p.cols)
    BY <1>2, <1>3, <2>1, <2>2, <2>3, Zenon DEF Versions
  <2>6. \A p, q \in pend' : p.rev < q.rev => Below(p.cols, q.cols)
    BY <2>2, <2>3, Zenon DEF Versions
  <2>7. \A p, q \in pend' : p.rev = q.rev => p.cols = q.cols
    BY <2>2, <2>3, Zenon DEF Versions
  <2>8. QED
    BY <2>4, <2>9, <2>5, <2>6, <2>7, Zenon DEF Versions, Below
<1>6. Closing'
  BY <1>2, <1>3, Zenon DEF beginLog, IInv, Closing, Complete
<1>7. Outcomes' /\ Jobs'
  BY <1>2, Zenon DEF beginLog, IInv, Outcomes, Jobs
<1>8. QED
  BY <1>4, <1>5, <1>6, <1>7, Zenon DEF IInv

LEMMA PatchKeeps ==
  ASSUME IInv, NEW c \in Cols, NEW trace \in BOOLEAN, patch(c, trace)
  PROVE  IInv'
<1> DEFINE ups == [lg.updates EXCEPT ![c] = lg.rev + 1]
           w == Write(ups, lg.rev + 1, FALSE)
<1>1. TypeOK /\ Versions /\ Closing /\ Outcomes /\ Jobs
  BY Zenon DEF IInv
<1>2. lg.rev \in Nat /\ lg.updates \in [Cols -> Nat] /\ MaxUpdates \in Nat
  BY <1>1, Parts, Zenon
<1>3. ups \in [Cols -> Nat] /\ ups[c] = lg.rev + 1 /\ \A x \in Cols : x # c => ups[x] = lg.updates[x]
  BY <1>2
<1>4. lg.rev <= MaxUpdates + 1 /\ lg.updates \in [Cols -> Revs]
  BY <1>1, Zenon DEF Closing, TypeOK
<1>5. ups \in [Cols -> Revs]
  BY <1>2, <1>4 DEF Revs
<1>6. w.rev = lg.rev + 1 /\ w.cols = ups /\ ~w.final /\ w.tries = 0
  BY Zenon DEF Write, Snapshot
<1> HIDE DEF ups, w
<1>12. Below(lg.updates, ups)
  <2>1. \A x \in Cols : lg.updates[x] <= lg.rev + 1
    BY <1>1, Zenon DEF Closing
  <2>2. QED
    BY <1>2, <1>3, <2>1 DEF Below
<1>7. row' = row /\ pc' = pc /\ UNCHANGED <<spare, attempt, outcome, aged, fin>>
  BY Zenon DEF patch
<1>8. Outcomes' /\ Jobs'
  BY <1>1, <1>7, Zenon DEF Outcomes, Jobs
<1>9. CASE lg.closed
  <2>1. pend' = pend /\ lg' = [lg EXCEPT !.updates = ups]
    BY <1>9, Zenon DEF patch, ups
  <2>2. lg'.rev = lg.rev /\ (lg'.closed <=> lg.closed) /\ lg'.updates = ups
    BY <1>1, <2>1, Zenon DEF TypeOK
  <2>3. TypeOK'
    <3>1. lg' \in [id : BOOLEAN, rev : Revs, closed : BOOLEAN, updates : [Cols -> Revs]]
      BY <1>1, <1>5, <2>1, Zenon DEF TypeOK
    <3>2. QED
      BY <1>1, <1>7, <2>1, <3>1, Zenon DEF TypeOK
  <2>4. Versions'
    BY <1>1, <1>3, <1>7, <1>12, <2>1, <2>2, UpdatesGrown, Zenon
  <2>5. \A x \in Cols : lg'.updates[x] <= lg'.rev + 1
    <3>1. \A x \in Cols : lg.updates[x] <= lg.rev + 1
      BY <1>1, Zenon DEF Closing
    <3>2. QED
      BY <1>2, <1>3, <2>2, <3>1
  <2>6. \A f : Complete(f) => Complete(f)'
    BY <1>2, <1>3, <2>2 DEF Complete
  <2>7. Closing'
    BY <1>1, <1>7, <1>9, <2>1, <2>2, <2>5, <2>6, Zenon DEF Closing
  <2>8. QED
    BY <1>8, <2>3, <2>4, <2>7, Zenon DEF IInv
<1>10. CASE ~lg.closed
  <2>1. /\ pend' = pend \cup {w} /\ lg.rev < MaxUpdates
        /\ lg' = [lg EXCEPT !.updates = ups, !.rev = lg.rev + 1]
    BY <1>10, Zenon DEF patch, ups, w
  <2>2. lg'.rev = lg.rev + 1 /\ ~lg'.closed /\ lg'.updates = ups
    BY <1>1, <1>10, <2>1, Zenon DEF TypeOK
  <2>3. TypeOK'
    <3>0. lg.rev + 1 \in Revs
      BY <1>2, <2>1 DEF Revs
    <3>1. lg' \in [id : BOOLEAN, rev : Revs, closed : BOOLEAN, updates : [Cols -> Revs]]
      BY <1>1, <1>5, <2>1, <3>0, Zenon DEF TypeOK
    <3>2. w \in Writes
      BY <1>5, <3>0 DEF w, Write, Snapshot, Writes, MaxTries
    <3>3. \A q \in pend' : q \in Writes
      BY <1>1, <2>1, <3>2, Zenon DEF TypeOK
    <3>4. QED
      BY <1>1, <1>7, <3>1, <3>3, Zenon DEF TypeOK
  <2>4. Versions'
    BY <1>1, <1>3, <1>6, <1>7, <1>12, <2>1, <2>2, VersionAdded, Zenon
  <2>5. lg'.rev <= MaxUpdates /\ lg'.rev <= MaxUpdates + 1
        /\ \A x \in Cols : lg'.updates[x] <= lg'.rev /\ lg'.updates[x] <= lg'.rev + 1
    <3>1. \A x \in Cols : lg.updates[x] <= lg.rev
      BY <1>1, <1>10, Zenon DEF Closing
    <3>2. QED
      BY <1>2, <1>3, <2>1, <2>2, <3>1
  <2>6. \A p \in pend' : ~p.final
    BY <1>1, <1>6, <1>10, <2>1, Zenon DEF Closing
  <2>7. row.by # "handler"
    BY <1>1, <1>10, Zenon DEF Closing
  <2>8. Closing'
    BY <1>1, <1>7, <1>10, <2>2, <2>5, <2>6, <2>7, Zenon DEF Closing
  <2>9. QED
    BY <1>8, <2>3, <2>4, <2>8, Zenon DEF IInv
<1>11. QED
  BY <1>9, <1>10, Zenon

LEMMA FinishKeeps ==
  ASSUME IInv, NEW ok \in BOOLEAN, NEW stored \in BOOLEAN, finishLog(ok, stored)
  PROVE  IInv'
<1> DEFINE w == Write(lg.updates, lg.rev + 1, TRUE)
<1>1. TypeOK /\ Versions /\ Closing /\ Outcomes /\ Jobs
  BY Zenon DEF IInv
<1>2. lg.rev \in Nat /\ lg.updates \in [Cols -> Nat] /\ MaxUpdates \in Nat
  BY <1>1, Parts, Zenon
<1>3. ~lg.closed /\ lg.rev <= MaxUpdates /\ \A x \in Cols : lg.updates[x] <= lg.rev
  BY <1>1, Zenon DEF Closing, finishLog
<1>4. w.rev = lg.rev + 1 /\ w.cols = lg.updates /\ w.final /\ w.tries = 0
  BY Zenon DEF Write, Snapshot
<1> HIDE DEF w
<1>5. row' = row /\ UNCHANGED <<attempt, aged, fin>> /\ pc = "run"
      /\ outcome' \in {"success", "failure"}
  BY Zenon DEF finishLog
<1>6. outcome = "none" /\ ~row.ok /\ attempt # "success" /\ \A f \in Finalizers : ~fin[f].ok
  BY <1>1, <1>5, Zenon DEF Outcomes
<1>7. pc' \in {"persist", "settle"} /\ spare' \in {"none", "success", "failure"}
  BY <1>1, <1>5, Zenon DEF finishLog, TypeOK
<1>8. Outcomes'
  BY <1>5, <1>6, <1>7, Zenon DEF Outcomes
<1>9. Jobs'
  BY <1>1, <1>5, Zenon DEF Jobs
<1>10. CASE lg.id
  <2>1. /\ pend' = pend \cup {w} /\ pc' = "persist"
        /\ lg' = [lg EXCEPT !.rev = lg.rev + 1, !.closed = TRUE]
    BY <1>10, Zenon DEF finishLog, w
  <2>2. lg'.rev = lg.rev + 1 /\ lg'.closed /\ lg'.updates = lg.updates
    BY <1>1, <2>1, Zenon DEF TypeOK
  <2>3. TypeOK'
    <3>1. lg.rev + 1 \in Revs /\ lg.updates \in [Cols -> Revs]
      BY <1>1, <1>2, <1>3 DEF Revs, TypeOK
    <3>2. lg' \in [id : BOOLEAN, rev : Revs, closed : BOOLEAN, updates : [Cols -> Revs]]
      BY <1>1, <2>1, <3>1, Zenon DEF TypeOK
    <3>3. w \in Writes
      BY <3>1 DEF w, Write, Snapshot, Writes, MaxTries
    <3>4. \A q \in pend' : q \in Writes
      BY <1>1, <2>1, <3>3, Zenon DEF TypeOK
    <3>5. QED
      BY <1>1, <1>5, <1>7, <3>2, <3>4, Zenon DEF TypeOK
  <2>4. Versions'
    <3>1. Below(lg.updates, lg.updates)
      BY <1>2 DEF Below
    <3>2. QED
      BY <1>1, <1>2, <1>4, <1>5, <2>1, <2>2, <3>1, VersionAdded, Zenon
  <2>5. lg'.rev <= MaxUpdates + 1 /\ \A x \in Cols : lg'.updates[x] <= lg'.rev + 1
    BY <1>2, <1>3, <2>2
  <2>6. \A p \in pend' : p.final => p = w
    BY <1>1, <1>3, <2>1, Zenon DEF Closing
  <2>8. row.by # "handler"
    BY <1>1, <1>3, Zenon DEF Closing
  <2>9. \A p \in pend' : p.final => Complete(p.cols)'
    BY <1>4, <2>2, <2>6, Zenon DEF Complete
  <2>10. Closing'
    BY <1>1, <1>5, <2>1, <2>2, <2>5, <2>6, <2>8, <2>9, Zenon DEF Closing
  <2>11. QED
    BY <1>8, <1>9, <2>3, <2>4, <2>10, Zenon DEF IInv
<1>11. CASE ~lg.id
  <2>1. lg' = lg /\ pend' = pend
    BY <1>11, Zenon DEF finishLog
  <2>2. TypeOK'
    BY <1>1, <1>5, <1>7, <2>1, Zenon DEF TypeOK
  <2>3. Versions'
    BY <1>1, <1>5, <2>1, VersionsKept, Zenon
  <2>4. Closing'
    BY <1>1, <1>3, <1>5, <1>7, <2>1, Zenon DEF Closing, Complete
  <2>5. QED
    BY <1>8, <1>9, <2>2, <2>3, <2>4, Zenon DEF IInv
<1>12. QED
  BY <1>10, <1>11, Zenon

LEMMA StoredCols ==
  ASSUME TypeOK, Versions, NEW p \in pend, Matches(p)
  PROVE  Updated(p).cols = p.cols
<1>1. p.cols \in [Cols -> Nat] /\ row.cols \in [Cols -> Nat] /\ Below(row.cols, p.cols)
  BY Parts, Zenon DEF Versions, Matches
<1>2. \A c \in Cols : (IF p.cols[c] = 0 THEN row.cols[c] ELSE p.cols[c]) = p.cols[c]
  <2>1. \A c \in Cols : p.cols[c] \in Nat /\ row.cols[c] \in Nat /\ row.cols[c] <= p.cols[c]
    BY <1>1, Zenon DEF Below
  <2>2. \A x, y \in Nat : y <= x /\ x = 0 => y = x
    OBVIOUS
  <2> QED
    BY <2>1, <2>2, Zenon
<1>3. Updated(p).cols = [c \in Cols |-> IF p.cols[c] = 0 THEN row.cols[c] ELSE p.cols[c]]
  BY Zenon DEF Updated
<1>4. QED
  BY <1>1, <1>2, <1>3, Zenon

LEMMA PersistKeeps ==
  ASSUME IInv, NEW p \in pend, NEW applied \in BOOLEAN, NEW reported \in BOOLEAN,
         persistLog(p, applied, reported)
  PROVE  IInv'
<1> DEFINE again == [p EXCEPT !.tries = p.tries + 1]
<1>1. TypeOK /\ Versions /\ Closing /\ Outcomes /\ Jobs
  BY Zenon DEF IInv
<1>2. p \in Writes
  BY <1>1, Zenon DEF TypeOK
<1>3. again.rev = p.rev /\ again.cols = p.cols /\ (again.final <=> p.final)
  BY <1>2, Zenon DEF Writes
<1>4. p.tries + 1 # MaxTries => again \in Writes
  BY <1>2 DEF Writes, MaxTries
<1> HIDE DEF again
<1>5. /\ lg' = lg /\ UNCHANGED <<spare, attempt, outcome, aged, fin>>
      /\ row' = row \/ (Matches(p) /\ row' = Updated(p))
  BY Zenon DEF persistLog
<1>15. \/ p.final /\ pend' = pend \ {p} /\ pc' = "settle"
       \/ p.final /\ pend' = (pend \ {p}) \cup {again} /\ pc' = pc
       \/ ~p.final /\ pend' = pend \ {p} /\ pc' = pc
  BY Zenon DEF persistLog, again
<1>6. /\ pend' \subseteq pend \cup {again}
      /\ again \in pend' => again \in pend \/ p.tries + 1 # MaxTries
  BY Zenon DEF persistLog, GivenUp, again
<1>7. p.final => lg.closed /\ Complete(p.cols) /\ pc = "persist"
  BY <1>1, Zenon DEF Closing
<1>8. Matches(p) => /\ Updated(p).rev = p.rev /\ Updated(p).cols = p.cols
                    /\ Updated(p).exists /\ (Updated(p).inFlight <=> ~p.final)
                    /\ Updated(p).by = (IF p.final THEN "handler" ELSE "")
                    /\ Updated(p).ok <=> (p.final /\ outcome = "success")
  <2>1. Matches(p) => Updated(p).cols = p.cols
    BY <1>1, StoredCols, Zenon
  <2>2. QED
    BY <2>1, Zenon DEF Updated
<1>9. TypeOK'
  <2>1. Updated(p) \in Rows
    <3>1. p.rev \in Revs /\ p.cols \in [Cols -> Revs] /\ row.cols \in [Cols -> Revs]
      BY <1>1, <1>2, Zenon DEF Writes, TypeOK, Rows
    <3>2. [c \in Cols |-> IF p.cols[c] = 0 THEN row.cols[c] ELSE p.cols[c]] \in [Cols -> Revs]
      BY <3>1, Zenon
    <3>3. (~p.final) \in BOOLEAN /\ (p.final /\ outcome = "success") \in BOOLEAN
      BY Zenon
    <3>4. (IF p.final THEN "handler" ELSE "") \in {"", "handler", "stale"}
      BY Zenon
    <3>5. QED
      BY <3>1, <3>2, <3>3, <3>4, Zenon DEF Updated, Rows
  <2>2. row' \in Rows
    BY <1>1, <1>5, <2>1, Zenon DEF TypeOK
  <2>3. \A q \in pend' : q \in Writes
    BY <1>1, <1>4, <1>6, Zenon DEF TypeOK
  <2>4. pc' \in {"new", "run", "persist", "settle", "end", "dead"}
    BY <1>1, <1>15, Zenon DEF TypeOK
  <2>5. QED
    BY <1>1, <1>5, <2>2, <2>3, <2>4, Zenon DEF TypeOK
<1>10. Versions'
  <2>1. \A q \in pend' : \E r \in pend : q.rev = r.rev /\ q.cols = r.cols
    BY <1>3, <1>6, Zenon
  <2>2. \/ row'.rev = row.rev /\ row'.cols = row.cols
        \/ row'.rev = p.rev /\ row'.cols = p.cols
    BY <1>5, <1>8, Zenon
  <2>3. QED
    BY <1>1, <1>5, <2>1, <2>2, VersionStored, Zenon
<1>11. Closing'
  <2>1. \A q \in pend' : q.final => lg.closed /\ Complete(q.cols)
    BY <1>1, <1>3, <1>6, <1>7, Zenon DEF Closing
  <2>7. \A q \in pend' : q.final => pc' = "persist"
    BY <1>1, <1>3, <1>7, <1>15, Zenon DEF Closing
  <2>8. \A q, r \in pend' : q.final /\ r.final => q = r
    BY <1>1, <1>3, <1>15, Zenon DEF Closing
  <2>2. \A f : Complete(f)' <=> Complete(f)
    BY <1>5, Zenon DEF Complete
  <2>3. /\ row'.by = "handler" => lg.closed /\ Complete(row'.cols)
        /\ row'.by # "" => row'.exists /\ ~row'.inFlight
        /\ row'.exists /\ row'.by = "" => row'.inFlight /\ ~row'.ok
        /\ row'.inFlight => row'.exists
    <3>1. CASE row' = row
      BY <1>1, <3>1, Zenon DEF Closing
    <3>2. CASE Matches(p) /\ row' = Updated(p)
      BY <1>7, <1>8, <3>2, Zenon
    <3>3. QED
      BY <1>5, <3>1, <3>2, Zenon
  <2>4. row'.exists => pc' # "new"
    <3>1. row'.exists => row.exists
      BY <1>5, Zenon DEF Matches
    <3>2. QED
      BY <1>1, <1>15, <3>1, Zenon DEF Closing
  <2>5. lg'.closed => pc' \notin {"new", "run"}
    BY <1>1, <1>5, <1>15, Zenon DEF Closing
  <2>6. QED
    BY <1>1, <1>5, <2>1, <2>2, <2>3, <2>4, <2>5, <2>7, <2>8, Zenon DEF Closing, Complete
<1>12. Outcomes'
  <2>1. row'.ok => outcome = "success"
    BY <1>1, <1>5, <1>8, Zenon DEF Outcomes
  <2>2. pc' \in {"new", "run"} => pc' = pc
    BY <1>15, Zenon
  <2>3. attempt = "success" => pc' \notin {"new", "run", "persist", "settle"}
    BY <1>1, <1>7, <1>15, Zenon DEF Outcomes
  <2>4. QED
    BY <1>1, <1>5, <2>1, <2>2, <2>3, Zenon DEF Outcomes
<1>13. Jobs'
  <2>1. row'.by = "stale" => row' = row
    BY <1>5, <1>8, Zenon
  <2>2. pc \in {"end", "dead"} => pc' = pc
    BY <1>7, <1>15, Zenon
  <2>3. QED
    BY <1>1, <1>5, <2>1, <2>2, Zenon DEF Jobs
<1>14. QED
  BY <1>9, <1>10, <1>11, <1>12, <1>13, Zenon DEF IInv

(* The steps that leave the row alone and write nothing.                   *)
LEMMA OtherKeeps ==
  ASSUME IInv, row' = row, lg' = lg, outcome' = outcome, spare' = spare,
         \/ \E stored \in BOOLEAN : attemptFails(stored) \/ settle(stored)
         \/ crash \/ age
  PROVE  IInv'
<1>1. TypeOK /\ Versions /\ Closing /\ Outcomes /\ Jobs
  BY Zenon DEF IInv
<1>2. fin' = fin /\ pend' \subseteq pend
  BY Zenon DEF attemptFails, settle, crash, age
<1>3. /\ pc' \in {"new", "run", "persist", "settle", "end", "dead"}
      /\ pc' # pc => pc' \in {"end", "dead"}
      /\ \A p \in pend' : p.final => pc' = pc
  <2>1. pc = "settle" => \A p \in pend : ~p.final
    BY <1>1, Zenon DEF Closing
  <2>2. QED
    BY <1>1, <2>1, Zenon DEF TypeOK, attemptFails, settle, crash, age
<1>4. /\ attempt' \in {"none", "failed", "success"} /\ aged' \in BOOLEAN
      /\ attempt' # attempt => pc \in {"run", "settle"}
      /\ attempt' = "success" /\ attempt # "success" => outcome = "success" /\ pc' = "end"
  BY <1>1, Zenon DEF TypeOK, attemptFails, settle, crash, age
<1>5. /\ aged => aged'
      /\ aged' /\ ~aged => (SlowClient \/ pc' \in {"end", "dead"}) /\ attempt' = attempt
  BY <1>1 DEF TypeOK, attemptFails, settle, crash, age
<1>6. TypeOK'
  BY <1>1, <1>2, <1>3, <1>4, Zenon DEF TypeOK
<1>7. Versions'
  BY <1>1, <1>2, VersionsKept, Zenon
<1>8. Closing'
  BY <1>1, <1>2, <1>3, Zenon DEF Closing, Complete
<1>9. Outcomes'
  BY <1>1, <1>2, <1>3, <1>4, Zenon DEF Outcomes
<1>10. Jobs'
  BY <1>1, <1>2, <1>3, <1>4, <1>5, Zenon DEF Jobs
<1>11. QED
  BY <1>6, <1>7, <1>8, <1>9, <1>10, Zenon DEF IInv

LEMMA JobKeeps ==
  ASSUME IInv, NEW f \in Finalizers,
         selectStale(f) \/ readAttempt(f) \/ jobFails(f) \/ closeStale(f)
  PROVE  IInv'
<1>1. TypeOK /\ Versions /\ Closing /\ Outcomes /\ Jobs
  BY Zenon DEF IInv
<1>2. UNCHANGED <<pc, lg, pend, spare, attempt, outcome, aged>>
  BY Zenon DEF selectStale, readAttempt, jobFails, closeStale
<1>3. /\ \A g \in Finalizers : g # f => fin'[g] = fin[g]
      /\ fin' \in [Finalizers -> [st : {"idle", "selected", "judged"}, rev : Revs, ok : BOOLEAN]]
  <2> DEFINE Job == [st : {"idle", "selected", "judged"}, rev : Revs, ok : BOOLEAN]
  <2>1. row.rev \in Revs /\ fin[f].rev \in Revs
    BY <1>1, Zenon DEF TypeOK, Rows
  <2>2. 0 \in Revs
    BY RequestLogAssumption DEF Revs
  <2>3. Verdict \in BOOLEAN
    BY Zenon DEF Verdict
  <2>4. /\ Resting \in Job /\ [st |-> "selected", rev |-> row.rev, ok |-> FALSE] \in Job
        /\ [st |-> "judged", rev |-> fin[f].rev, ok |-> Verdict] \in Job
    BY <2>1, <2>2, <2>3, Zenon DEF Resting
  <2>5. \E v \in Job : fin' = [fin EXCEPT ![f] = v]
    BY <2>4, Zenon DEF selectStale, readAttempt, jobFails, closeStale
  <2> HIDE DEF Job
  <2>6. fin \in [Finalizers -> Job]
    BY <1>1, Zenon DEF TypeOK, Job
  <2>7. fin' \in [Finalizers -> Job] /\ \A g \in Finalizers : g # f => fin'[g] = fin[g]
    BY <2>5, <2>6, Zenon
  <2>8. QED
    BY <2>7, Zenon DEF Job
<1>4. \/ fin'[f].st = "idle" /\ ~fin'[f].ok
      \/ fin'[f].st = "selected" /\ ~fin'[f].ok /\ aged
      \/ /\ fin'[f].st = "judged" /\ (fin'[f].ok <=> attempt = "success")
         /\ fin[f].st = "selected"
  <2>0. DOMAIN fin = Finalizers
    BY <1>1, Zenon DEF TypeOK
  <2>1. CASE selectStale(f)
    <3>1. fin'[f] = [st |-> "selected", rev |-> row.rev, ok |-> FALSE] /\ aged
      BY <2>0, <2>1, Zenon DEF selectStale, Stale
    <3>2. \A n : LET x == [st |-> "selected", rev |-> n, ok |-> FALSE] IN x.st = "selected" /\ ~x.ok
      BY Zenon
    <3>3. QED
      BY <3>1, <3>2, Zenon
  <2>2. CASE readAttempt(f)
    <3>1. fin'[f] = [st |-> "judged", rev |-> fin[f].rev, ok |-> Verdict] /\ fin[f].st = "selected"
      BY <2>0, <2>2, Zenon DEF readAttempt
    <3>2. fin'[f].st = "judged" /\ fin'[f].ok = Verdict
      BY <3>1
    <3>3. QED
      BY <3>1, <3>2, Zenon DEF Verdict
  <2>3. CASE jobFails(f) \/ closeStale(f)
    <3>1. fin'[f] = Resting
      BY <2>0, <2>3, Zenon DEF jobFails, closeStale
    <3>2. QED
      BY <3>1 DEF Resting
  <2>4. QED
    BY <2>1, <2>2, <2>3, Zenon
<1>5. \/ row' = row
      \/ /\ row.inFlight /\ fin[f].st = "judged"
         /\ row' = [row EXCEPT !.inFlight = FALSE, !.by = "stale", !.ok = fin[f].ok]
  BY Zenon DEF selectStale, readAttempt, jobFails, closeStale
<1>6. fin[f].ok \in BOOLEAN
  BY <1>1, Zenon DEF TypeOK
<1>7. row' \in Rows /\ row'.rev = row.rev /\ row'.cols = row.cols /\ (row'.exists <=> row.exists)
  <2>1. row \in Rows
    BY <1>1, Zenon DEF TypeOK
  <2>2. CASE row' = row
    BY <2>1, <2>2, Zenon
  <2>3. CASE row' = [row EXCEPT !.inFlight = FALSE, !.by = "stale", !.ok = fin[f].ok]
    BY <1>6, <2>1, <2>3, Zenon DEF Rows
  <2>4. QED
    BY <1>5, <2>2, <2>3, Zenon
<1>8. \/ row' = row
      \/ /\ row'.by = "stale" /\ ~row'.inFlight /\ (row'.ok <=> fin[f].ok)
         /\ row.inFlight /\ fin[f].st = "judged"
  BY <1>1, <1>5, Zenon DEF TypeOK, Rows
<1>9. TypeOK'
  BY <1>1, <1>2, <1>3, <1>7, Zenon DEF TypeOK
<1>10. Versions'
  BY <1>1, <1>2, <1>7, VersionsKept, Zenon
<1>11. Closing'
  BY <1>1, <1>2, <1>7, <1>8, Zenon DEF Closing, Complete
<1>12. Outcomes'
  BY <1>1, <1>2, <1>3, <1>4, <1>8, Zenon DEF Outcomes
<1>13. Jobs'
  BY <1>1, <1>2, <1>3, <1>4, <1>8, Zenon DEF Jobs
<1>14. QED
  BY <1>9, <1>10, <1>11, <1>12, <1>13, Zenon DEF IInv

LEMMA NextIInv == IInv /\ [Next]_vars => IInv'
<1> SUFFICES ASSUME IInv, [Next]_vars PROVE IInv'
  BY Zenon
<1>1. CASE UNCHANGED vars
  <2>1. TypeOK /\ Versions /\ Closing /\ Outcomes /\ Jobs
    BY Zenon DEF IInv
  <2>2. TypeOK'
    BY <1>1, <2>1, Zenon DEF vars, TypeOK
  <2>3. Versions'
    BY <1>1, <2>1, Zenon DEF vars, Versions, Below
  <2>4. Closing'
    BY <1>1, <2>1, Zenon DEF vars, Closing, Complete
  <2>5. Outcomes' /\ Jobs'
    BY <1>1, <2>1, Zenon DEF vars, Outcomes, Jobs
  <2>6. QED
    BY <2>2, <2>3, <2>4, <2>5, Zenon DEF IInv
<1>2. ASSUME NEW stored \in BOOLEAN, NEW known \in BOOLEAN, beginLog(stored, known) PROVE IInv'
  BY <1>2, BeginKeeps, Zenon
<1>3. ASSUME NEW ok \in BOOLEAN, NEW stored \in BOOLEAN, finishLog(ok, stored) PROVE IInv'
  BY <1>3, FinishKeeps, Zenon
<1>4. ASSUME NEW p \in pend, NEW applied \in BOOLEAN, NEW reported \in BOOLEAN,
             persistLog(p, applied, reported)
      PROVE  IInv'
  BY <1>4, PersistKeeps, Zenon
<1>5. ASSUME NEW c \in Cols, NEW trace \in BOOLEAN, patch(c, trace) PROVE IInv'
  BY <1>5, PatchKeeps, Zenon
<1>6. CASE \/ \E stored \in BOOLEAN : attemptFails(stored) \/ settle(stored)
           \/ crash \/ age
  <2>1. row' = row /\ lg' = lg /\ outcome' = outcome /\ spare' = spare
    BY <1>6, Zenon DEF attemptFails, settle, crash, age
  <2>2. QED
    BY <1>6, <2>1, OtherKeeps, Zenon
<1>7. ASSUME NEW f \in Finalizers,
             selectStale(f) \/ readAttempt(f) \/ jobFails(f) \/ closeStale(f)
      PROVE  IInv'
  BY <1>7, JobKeeps, Zenon
<1>8. QED
  BY <1>1, <1>2, <1>3, <1>4, <1>5, <1>6, <1>7, Zenon DEF Next, Handler

(* The invariant the other theorems rest on holds of every behaviour.      *)
THEOREM LogInvariance == Spec => []IInv
  BY InitIInv, NextIInv, PTL DEF Spec

(* Revisions and tries stay within their bounds, whatever is lost.         *)
THEOREM LogTypeCorrectness == Spec => []TypeOK
<1>1. IInv => TypeOK
  BY Zenon DEF IInv
<1>2. QED
  BY <1>1, LogInvariance, PTL

(* A row the handler closed has every update made before.                  *)
THEOREM ClosedComplete == Spec => []ClosedRowComplete
<1>1. IInv => ClosedRowComplete
  BY Zenon DEF IInv, Closing, Complete, ClosedRowComplete
<1>2. QED
  BY <1>1, LogInvariance, PTL

(* No row says success unless the handler reported one, even when the      *)
(* client keeps the handler busy past the stale age.                       *)
THEOREM SuccessIsTrue == Spec => []NoFalseSuccess
<1>1. IInv => NoFalseSuccess
  BY Zenon DEF IInv, Outcomes, NoFalseSuccess
<1>2. QED
  BY <1>1, LogInvariance, PTL

(* While handlers end before the stale age, the stale-log job closes a row *)
(* as its latest stored attempt ended.                                     *)
THEOREM StaleVerdict ==
  ASSUME ~SlowClient
  PROVE  Spec => []StaleTellsAttempt
<1>1. IInv => StaleTellsAttempt
  BY Zenon DEF IInv, Jobs, StaleTellsAttempt
<1>2. QED
  BY <1>1, LogInvariance, PTL

(* No write, retry or second job changes a closed row.                     *)
THEOREM ClosedStands == Spec => ClosedRowStands
<1>1. IInv /\ [Next]_vars => [row.exists /\ ~row.inFlight => row' = row]_vars
  <2> SUFFICES ASSUME IInv, Next, row.exists, ~row.inFlight PROVE row' = row
    BY Zenon DEF vars
  <2>1. pc # "new"
    BY Zenon DEF IInv, Closing
  <2>2. QED
    BY <2>1, Zenon DEF Next, Handler, beginLog, finishLog, persistLog, Matches, settle, patch,
                attemptFails, crash, age, selectStale, readAttempt, closeStale, jobFails
<1>2. QED
  BY <1>1, LogInvariance, PTL DEF Spec, ClosedRowStands

(* Before beginLog there is nothing to take back.                          *)
Fresh == pc = "new" => row = NoRow

LEMMA FreshUntilBegun == Spec => []Fresh
<1>1. Init => Fresh
  BY Zenon DEF Init, Fresh
<1>2. Fresh /\ [Next]_vars => Fresh'
  <2> SUFFICES ASSUME Fresh, Next, pc' = "new" PROVE row' = row /\ pc = "new"
    BY Zenon DEF Fresh, vars
  <2>1. pc = "new"
    BY Zenon DEF Next, Handler, beginLog, finishLog, persistLog, settle, patch, attemptFails,
           crash, age, selectStale, readAttempt, closeStale, jobFails
  <2>2. ~row.exists /\ ~row.inFlight
    <3>1. NoRow.exists = FALSE /\ NoRow.inFlight = FALSE
      BY Zenon DEF NoRow
    <3>2. row = NoRow
      BY <2>1, Zenon DEF Fresh
    <3>3. QED
      BY <3>1, <3>2, Zenon
  <2>3. QED
    BY <2>1, <2>2, Zenon DEF Next, Handler, beginLog, finishLog, persistLog, Matches, settle, patch,
       attemptFails, crash, age, selectStale, readAttempt, closeStale, jobFails
<1>3. QED
  BY <1>1, <1>2, PTL DEF Spec

(* No write, however late, takes a column back.                            *)
THEOREM ColumnsOnlyAdvance == Spec => ColumnsAdvance
<1>1. IInv /\ Fresh /\ [Next]_vars => [\A c \in Cols : row'.cols[c] >= row.cols[c]]_vars
  <2> SUFFICES ASSUME IInv, Fresh, Next PROVE \A c \in Cols : row'.cols[c] >= row.cols[c]
    BY Zenon
  <2>1. row.cols \in [Cols -> Nat] /\ TypeOK /\ Versions /\ Closing
    BY Parts, Zenon DEF IInv
  <2>2. \A c \in Cols : row.cols[c] >= row.cols[c]
    BY <2>1
  <2>3. ASSUME NEW p \in pend, NEW applied \in BOOLEAN, NEW reported \in BOOLEAN,
               persistLog(p, applied, reported)
        PROVE  \A c \in Cols : row'.cols[c] >= row.cols[c]
    <3>1. CASE row' = row
      BY <2>2, <3>1, Zenon
    <3>2. CASE Matches(p) /\ row' = Updated(p)
      <4>1. row'.cols = p.cols /\ p.cols \in [Cols -> Nat]
        BY <2>1, <3>2, StoredCols, Parts, Zenon
      <4>2. Below(row.cols, p.cols)
        BY <2>1, <3>2, Zenon DEF Versions, Matches
      <4>3. QED
        BY <2>1, <4>1, <4>2, Zenon DEF Below
    <3>3. QED
      BY <2>3, <3>1, <3>2, Zenon DEF persistLog
  <2>4. ASSUME NEW stored \in BOOLEAN, NEW known \in BOOLEAN, beginLog(stored, known)
        PROVE  \A c \in Cols : row'.cols[c] >= row.cols[c]
    <3>1. NoRow.cols = Unset /\ NewRow.cols = Unset
      BY Zenon DEF NoRow, NewRow
    <3>2. row = NoRow /\ (row' = NoRow \/ row' = NewRow)
      BY <2>4, Zenon DEF beginLog, Fresh
    <3>3. QED
      BY <2>2, <3>1, <3>2, Zenon
  <2>5. CASE row'.cols = row.cols
    BY <2>2, <2>5, Zenon
  <2>6. QED
    <3>1. \/ \E stored, known \in BOOLEAN : beginLog(stored, known)
          \/ \E p \in pend, applied, reported \in BOOLEAN : persistLog(p, applied, reported)
          \/ row' = row
          \/ \E f \in Finalizers : closeStale(f)
      BY Zenon DEF Next, Handler, finishLog, settle, patch, attemptFails, crash, age,
             selectStale, readAttempt, jobFails
    <3>2. ASSUME NEW f \in Finalizers, closeStale(f) PROVE row'.cols = row.cols
      BY <2>1, <3>2, Zenon DEF closeStale, TypeOK, Rows
    <3>3. QED
      BY <2>3, <2>4, <2>5, <3>1, <3>2, Zenon
<1>2. QED
  BY <1>1, LogInvariance, FreshUntilBegun, PTL DEF Spec, ColumnsAdvance
=============================================================================
