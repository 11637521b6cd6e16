--------------------------- MODULE SessionBinding ---------------------------
(***************************************************************************)
(* The stable-latency picker's memory of one route scope                   *)
(* (picker/stable.go): which key a session is bound to, which challenger   *)
(* is being confirmed, when a key was last explored and which session a    *)
(* response belongs to.  The state lives in Redis and is replaced as a     *)
(* whole under WATCH; every process keeps a copy of the state it last      *)
(* wrote and works on that while Redis does not answer.  A request         *)
(* decides, is served for as long as it takes, and commits its success to  *)
(* whatever the state has become.                                          *)
(*                                                                         *)
(* What the candidates' samples say is an input of a decision (a view).    *)
(* Times are ticks.  stood, apart and local are history: the run of        *)
(* evidence behind a challenger, when a key was last explored, and when a  *)
(* copy was last used.                                                     *)
(***************************************************************************)
EXTENDS Naturals, FiniteSets

CONSTANTS
  Candidates, Sessions, Procs, Requests,
  NoKey,            \* not a key
  NoSession,        \* the session of a request without one
  ReplySession,     \* the session made for a response to such a request
  SwitchConfirm,    \* switch_confirm_sec, in ticks
  ExploreEvery,     \* one minute, in ticks
  StickyTTL,        \* sticky_ttl_sec, and of the sessionless binding
  MaxClock,         \* bound
  MaxPicks          \* bound: decisions and operations on a copy

ASSUME BindingAssumption ==
  /\ {NoSession, ReplySession} \subseteq Sessions /\ NoSession # ReplySession /\ NoKey \notin Candidates
  /\ SwitchConfirm \in Nat \ {0} /\ ExploreEvery \in Nat \ {0} /\ StickyTTL \in Nat \ {0}
  /\ MaxClock \in Nat /\ MaxPicks \in Nat

VARIABLES
  clock,
  shared,    \* the state in Redis
  copy,      \* each process's copy (stableStates)
  picks,
  req,       \* requests: what they decided
  stood,     \* history: per session, the pair compared and since when it held
  apart,     \* history: when a key was last explored
  local      \* history: the last tick at which a copy was used instead of Redis

bindingVars == <<clock, shared, copy, picks, req, stood, apart, local>>

Unbound == [key |-> NoKey, until |-> 0, challenger |-> NoKey, since |-> 0]
BoundTo(k) == [key |-> k, until |-> clock + StickyTTL, challenger |-> NoKey, since |-> 0]
EmptyState == [bind |-> [s \in Sessions |-> Unbound], explored |-> [k \in Candidates |-> 0],
               reply |-> [session |-> NoSession, until |-> 0]]
Free == [at |-> "free"]

\* Redis may hold bindings that an earlier process left.
BindingInit ==
  /\ clock = ExploreEvery
  /\ \E bound \in SUBSET Sessions, k \in Candidates :
       shared = [EmptyState EXCEPT !.bind = [s \in Sessions |-> IF s \in bound THEN BoundTo(k) ELSE Unbound]]
  /\ copy = [p \in Procs |-> EmptyState]
  /\ req = [r \in Requests |-> Free] /\ picks = 0
  /\ stood = [s \in Sessions |-> [of |-> NoKey, by |-> NoKey, since |-> 0]]
  /\ apart = [k \in Candidates |-> 0] /\ local = 0

\* prepare: what has expired is not there.
prepare(st) ==
  [bind |-> [s \in Sessions |-> IF st.bind[s].until <= clock THEN Unbound ELSE st.bind[s]],
   explored |-> st.explored,
   reply |-> IF st.reply.until <= clock THEN EmptyState.reply ELSE st.reply]

(* withStableState: the state Redis holds, or the process's copy when      *)
(* Redis fails.  A writer leaves its copy behind in either case.           *)
Spends(decisions, redis) ==
  /\ picks' = picks + decisions + (IF redis THEN 0 ELSE 1)
  /\ picks' <= MaxPicks
Reads(p, redis) == prepare(IF redis THEN shared ELSE copy[p])
Saves(p, redis, st) ==
  /\ shared' = IF redis THEN st ELSE shared
  /\ copy' = [copy EXCEPT ![p] = st]
  /\ local' = IF redis THEN local ELSE clock
-----------------------------------------------------------------------------
(* A view: the best eligible key, whether the request has an exploration   *)
(* slot and another key to explore with it, and what the samples say of    *)
(* the bound key: not eligible or not good enough to keep; good enough;    *)
(* the best one may be faster, improves on it, does so with three samples  *)
(* since the challenge began.                                              *)
Views ==
  {v \in [best : Candidates, other : Candidates \cup {NoKey}, slot : BOOLEAN,
          says : {"dropped", "good", "slower", "improvable", "confirmed"}] :
     v.other # NoKey => v.slot}
Possible(v, cur, failed) ==
  /\ v.best \notin failed /\ v.other \notin failed
  /\ v.says \in {"slower", "improvable", "confirmed"} => v.best # cur
  /\ cur \in failed \cup {NoKey} => v.says = "dropped"

Keeps(v) == v.says # "dropped"
Faster(v) == v.says \in {"slower", "improvable", "confirmed"}
Improved(v) == v.says \in {"improvable", "confirmed"}

\* Mutant: evidence against the challenger does not end its confirmation.
Compared_Lenient(b, v) ==
  IF ~Improved(v) \/ b.challenger = v.best THEN b
  ELSE [b EXCEPT !.challenger = v.best, !.since = clock]

\* The challenger of a bound session after it was compared with the best.
Compared(b, v) ==
  IF ~Improved(v) THEN [b EXCEPT !.challenger = NoKey, !.since = 0]
  ELSE IF b.challenger = v.best THEN b
  ELSE [b EXCEPT !.challenger = v.best, !.since = clock]

\* Mutant: the slot is spent without a note of it.
Recorded_Forgets(st, k) == st

Recorded(st, k) == [st EXCEPT !.explored[k] = clock]
Explorable(st, k) == clock - st.explored[k] >= ExploreEvery

(* stableDecision for session s on state st: the decision and the state it *)
(* leaves.  failed: keys this request already failed at.                  *)
Decide(st, s, v, failed) ==
  LET b == st.bind[s]
      bound == b.key # NoKey
      keeps == bound /\ Keeps(v)
      b2 == IF keeps THEN Compared(b, v) ELSE b
      switch == keeps /\ v.says = "confirmed" /\ clock - b2.since >= SwitchConfirm
      key == IF keeps /\ ~switch THEN b.key ELSE v.best
      st2 == [st EXCEPT !.bind[s] = b2]
      out(k, why, new) == [key |-> k, why |-> why, prev |-> b.key, state |-> new]
  IN  IF failed # {} THEN out(key, "failover", st2)
      ELSE IF /\ s # NoSession /\ keeps /\ ~switch /\ v.best # b.key /\ v.slot
              /\ Faster(v) /\ Explorable(st, v.best)
           THEN out(v.best, "challenger_trial", Recorded(st2, v.best))
      ELSE IF /\ s = NoSession \/ ~bound
              /\ v.other \notin {NoKey, key} /\ Explorable(st, v.other)
           THEN out(v.other, "exploration", Recorded(st2, v.other))
      ELSE out(key, IF switch THEN "latency_improved" ELSE IF keeps THEN "reuse" ELSE "initial", st2)

(* What the comparison says of the bound key and the best one.             *)
Stood(s, b, v) ==
  IF b.key # NoKey /\ Improved(v)
  THEN IF stood[s].of = b.key /\ stood[s].by = v.best THEN stood[s]
       ELSE [of |-> b.key, by |-> v.best, since |-> clock]
  ELSE IF b.key # NoKey /\ Keeps(v) THEN [of |-> NoKey, by |-> NoKey, since |-> 0]
  ELSE stood[s]

\* PickDecision of a new request, or of the next attempt of one that failed.
Pick(p, r, s, v, failed, redis) ==
  LET st == Reads(p, redis)
      d == Decide(st, s, v, failed)
  IN  /\ Spends(1, redis) /\ Possible(v, st.bind[s].key, failed)
      /\ req' = [req EXCEPT ![r] = [at |-> "served", proc |-> p, session |-> s, key |-> d.key,
                                    why |-> d.why, prev |-> d.prev, failed |-> failed]]
      /\ Saves(p, redis, d.state)
      /\ stood' = [stood EXCEPT ![s] = Stood(s, st.bind[s], v)]
      /\ apart' = IF d.why \in {"challenger_trial", "exploration"} THEN [apart EXCEPT ![d.key] = clock] ELSE apart
      /\ UNCHANGED clock

PickFirst(p, r, s, v, redis) ==
  /\ req[r] = Free
  /\ Pick(p, r, s, v, {}, redis)

PickNext(r, v, redis) ==
  /\ req[r].at = "failed"
  /\ Pick(req[r].proc, r, req[r].session, v, req[r].failed, redis)

\* ResolvePrevious: a request that names a response joins its session, if known.
PickPrevious(p, r, v, redis, known) ==
  PickFirst(p, r, IF known THEN Reads(p, redis).reply.session ELSE NoSession, v, redis)

(* The upstream fails: another attempt, or the end of the request.  A      *)
(* decision that loses five WATCH races ends it too.                       *)
AttemptFails(r) ==
  /\ req[r].at = "served"
  /\ req' = [req EXCEPT ![r] = [at |-> "failed", proc |-> @.proc, session |-> @.session,
                                failed |-> @.failed \cup {@.key}]]
  /\ UNCHANGED <<clock, shared, copy, picks, stood, apart, local>>

GiveUp(r) ==
  /\ req[r].at = "failed"
  /\ req' = [req EXCEPT ![r] = Free]
  /\ UNCHANGED <<clock, shared, copy, picks, stood, apart, local>>

(* CommitSuccess: the binding moves to the key that served, unless it was  *)
(* moved meanwhile; a trial never moves it, and an exploration only that   *)
(* of a session.  reply: the response has an id.                           *)
Moves(st, q) ==
  /\ q.why # "challenger_trial" /\ (q.why = "exploration" => q.session # NoSession)
  /\ st.bind[q.session].key \in {NoKey, q.key, q.prev}

Rebound(b, k) == IF b.key = k THEN [b EXCEPT !.until = clock + StickyTTL] ELSE BoundTo(k)

\* The response is mapped to the session; without one it gets a session of its own.
Replied(st, q) ==
  LET t == IF q.session = NoSession THEN ReplySession ELSE q.session
      known == [st EXCEPT !.reply = [session |-> t, until |-> clock + StickyTTL]]
  IN  IF q.session = NoSession THEN [known EXCEPT !.bind[t] = BoundTo(q.key)] ELSE known

CommitSuccess(r, reply, redis) ==
  LET q == req[r]
      st == Reads(q.proc, redis)
      st2 == IF Moves(st, q) THEN [st EXCEPT !.bind[q.session] = Rebound(@, q.key)] ELSE st
  IN  /\ q.at = "served" /\ Spends(0, redis)
      /\ Saves(q.proc, redis, IF reply THEN Replied(st2, q) ELSE st2)
      /\ req' = [req EXCEPT ![r] = Free]
      /\ UNCHANGED <<clock, stood, apart>>

\* The commit loses five races, or its context ends: the success is not kept.
CommitLost(r) ==
  /\ req[r].at = "served"
  /\ req' = [req EXCEPT ![r] = Free]
  /\ UNCHANGED <<clock, shared, copy, picks, stood, apart, local>>

BindingTick ==
  /\ clock < MaxClock /\ clock' = clock + 1
  /\ UNCHANGED <<shared, copy, picks, req, stood, apart, local>>

(* One response is followed: a second sessionless one would have another   *)
(* session.                                                                *)
BindingNext ==
  \/ \E p \in Procs, r \in Requests, v \in Views, redis \in BOOLEAN :
       \/ \E s \in Sessions \ {ReplySession} : PickFirst(p, r, s, v, redis)
       \/ \E known \in BOOLEAN : PickPrevious(p, r, v, redis, known)
  \/ \E r \in Requests, v \in Views, redis \in BOOLEAN : PickNext(r, v, redis)
  \/ \E r \in Requests : AttemptFails(r) \/ GiveUp(r) \/ CommitLost(r)
  \/ \E r \in Requests, reply, redis \in BOOLEAN : CommitSuccess(r, reply, redis)
  \/ BindingTick

BindingSpec == BindingInit /\ [][BindingNext]_bindingVars
-----------------------------------------------------------------------------
Decided(r, why) == req'[r] # req[r] /\ req'[r].at = "served" /\ req'[r].why \in why

(* A session leaves its key for a faster one only when every comparison    *)
(* made for it during the confirmation period, by any process, found the   *)
(* same challenger better, unless a copy was used meanwhile: neither       *)
(* another request's success, a failover nor an expiry lends a challenger  *)
(* time that it did not stand (docs/stable-latency-rollout.md: "persist    *)
(* for 60 seconds").                                                       *)
LatencySwitchEarned ==
  [][\A r \in Requests : Decided(r, {"latency_improved"}) =>
       LET h == stood'[req'[r].session]
       IN  \/ h.of = req'[r].prev /\ h.by = req'[r].key /\ clock - h.since >= SwitchConfirm
           \/ local' >= shared.bind[req'[r].session].since]_bindingVars

(* A key is explored at most once a minute in a scope, whichever process   *)
(* and whichever kind of request spends the slot, as long as Redis answers *)
(* (docs/stable-latency-rollout.md: "Each candidate has a one-minute       *)
(* exploration interval").                                                 *)
ExploredApart ==
  [][\A r \in Requests : Decided(r, {"exploration", "challenger_trial"}) =>
       \/ clock - apart[req'[r].key] >= ExploreEvery
       \/ local' >= apart[req'[r].key]]_bindingVars
=============================================================================
