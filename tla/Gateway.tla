------------------------------- MODULE Gateway ------------------------------
(***************************************************************************)
(* The life of one proxied request (handler/gateway.go, proxy and          *)
(* forwardOnce): resolve the keys the consumer may use, then pick a key,   *)
(* be admitted through its routing gates, send, and on a failure retry the *)
(* same key, fail over to another one, or give the route one last clean    *)
(* re-pick.  The for loop hands an attempt back (attempt--) in three       *)
(* places: the last resort, a refused admission and a key whose probe      *)
(* switch was turned off.                                                  *)
(*                                                                         *)
(* Which key a pick returns, whether its gates admit it and what the       *)
(* upstream answers are the environment's choice: RoutingCircuit and       *)
(* StreamHold model them.  The deferred calls of proxy run when it         *)
(* returns, so Leave makes them.                                           *)
(***************************************************************************)
EXTENDS Integers, Sequences, FiniteSets, Collections

CONSTANTS
  Keys,          \* platform keys
  ProviderOf,    \* the upstream each key belongs to
  FailoverMax,   \* attempts a request may make
  RetryMax,      \* retries of an attempt on its own key
  Bound,         \* the consumer is bound to a route group
  Probe,         \* the request needs the keys' probe permission
  NoKey          \* no key picked

ASSUME GatewayAssumption ==
  /\ IsFiniteSet(Keys) /\ NoKey \notin Keys
  /\ FailoverMax \in Nat \ {0} /\ RetryMax \in Nat
  /\ {Bound, Probe} \subseteq BOOLEAN

VARIABLES
  pc,          \* where the handler is
  attempt,     \* the loop counter
  attempts,    \* its bound
  exhaust,     \* FailoverExhaustPool as the request reads it: one attempt per key
  tries,       \* r: retries made in this attempt
  allow,       \* keys the request may use
  excl,        \* keys the exclusion lists rule out
  lastResort,  \* the last resort has been used
  lastFail,    \* lastFailAction: transient, or not
  cur,         \* the key picked, and whether it validates an open gate
  phase,       \* of the 300 s: early, late (15 s left), over
  waiting,     \* recoveryWaitState.deadline: unset, running, over
  gone,        \* the client has hung up
  adms,        \* history: admissions, with their sends and observations
  answers,     \* history: responses begun
  logs,        \* history: lifecycle of the request log: begun, then finished n times
  skips        \* history: attempts handed back because a probe switch is off

control == <<attempt, attempts, exhaust, tries, allow, excl, lastResort, lastFail, cur>>
clock   == <<phase, waiting, gone>>
history == <<adms, answers, logs, skips>>
vars    == <<pc, control, clock, history>>

Pool == allow \ excl
WaitOver == waiting = "over" \/ (waiting = "running" /\ phase = "over")

Init ==
  /\ pc = "enter" /\ attempt = 0 /\ attempts = 0 /\ exhaust \in BOOLEAN /\ tries = 0
  /\ allow = {} /\ excl = {} /\ lastResort = FALSE /\ lastFail = "none"
  /\ cur = [key |-> NoKey, rec |-> FALSE]
  /\ phase = "early" /\ waiting = "unset" /\ gone = FALSE
  /\ adms = <<>> /\ answers = 0 /\ logs = [begun |-> FALSE, finished |-> 0]
  /\ skips = 0
-----------------------------------------------------------------------------
\* Mutant: an outcome is recorded again by the deferred call.
Recorded_Always(a) == [a EXCEPT !.observed = @ + 1]

\* finishRouting: the outcome of an admission is recorded once.
Recorded(a) == IF a.observed = 0 THEN [a EXCEPT !.observed = 1] ELSE a

(* proxy returns: what was admitted and not yet observed is observed; the  *)
(* deferred call finishes the log unless the request is settled.           *)
Leave(answered, finished) ==
  /\ pc' = "done"
  /\ answers' = answers + answered
  /\ adms' = [i \in DOMAIN adms |-> Recorded(adms[i])]
  /\ logs' = [logs EXCEPT !.finished = @ + finished]
  /\ UNCHANGED skips

Fail == Leave(1, 1) /\ UNCHANGED <<control, clock>>

(* authConsumer, the binding snapshot and the body: a request turned away  *)
(* here is answered and leaves no log.                                     *)
Reject ==
  /\ pc = "enter" /\ pc' = "done"
  /\ answers' = answers + 1
  /\ UNCHANGED <<control, clock, adms, logs, skips>>

Begin ==
  /\ pc = "enter" /\ pc' = "resolve"
  /\ logs' = [logs EXCEPT !.begun = TRUE]
  /\ UNCHANGED <<control, clock, adms, answers, skips>>

ResolveFails == pc = "resolve" /\ Fail

(* The group's keys, or every key; a probe is restricted to the keys that  *)
(* allow probes, which may leave none.                                     *)
Routes == IF Bound THEN SUBSET Keys \ {{}} ELSE {Keys}
ProbeRoutes(A) == IF Probe THEN SUBSET A ELSE {A}

\* Mutant: the pool's size counts the key already at hand.
Attempts_OneLess(A) ==
  IF exhaust /\ Bound /\ Cardinality(A) > 1 THEN Cardinality(A) - 1 ELSE FailoverMax

Attempts(A) == IF exhaust /\ Bound /\ A # {} THEN Cardinality(A) ELSE FailoverMax

Resolve(A) ==
  /\ pc = "resolve" /\ pc' = "pick"
  /\ A \in UNION {ProbeRoutes(R) : R \in Routes}
  /\ allow' = A
  /\ attempts' = Attempts(A)
  /\ UNCHANGED <<attempt, exhaust, tries, excl, lastResort, lastFail, cur, clock, history>>
-----------------------------------------------------------------------------
PickKey(k, rec) ==
  /\ pc \in {"pick", "lastPick"} /\ k \in Pool
  /\ pc' = "admit" /\ cur' = [key |-> k, rec |-> rec]
  /\ UNCHANGED <<attempt, attempts, exhaust, tries, allow, excl, lastResort, lastFail, clock, history>>

(* The picker or the wait's reads fail; a client that hung up gets a 499.  *)
PickFails == pc \in {"pick", "lastPick", "wait"} /\ Fail

(* No candidate, but one is being validated or checked: wait for its gate, *)
(* five seconds in all for the request.                                    *)
StartWait ==
  /\ pc = "pick" /\ Pool # {} /\ ~WaitOver
  /\ pc' = "wait" /\ waiting' = "running"
  /\ UNCHANGED <<control, phase, gone, history>>

GateChanged ==
  /\ pc = "wait" /\ ~gone
  /\ pc' = "pick"
  /\ UNCHANGED <<control, clock, history>>

WaitEnds ==
  /\ pc = "wait" /\ WaitOver
  /\ pc' = "lastPick"
  /\ UNCHANGED <<control, clock, history>>

(* A long stall emptied the candidates: clear the exclusions and re-pick,  *)
(* once, with at least 15 s left.                                          *)
MayResort == /\ attempt > 0 /\ ~lastResort /\ lastFail = "transient"
             /\ excl # {} /\ phase = "early"

LastResort ==
  /\ MayResort
  /\ pc' = "pick" /\ excl' = {} /\ lastResort' = TRUE
  /\ UNCHANGED <<attempt, attempts, exhaust, tries, allow, lastFail, cur, clock, history>>

NoRoute ==
  /\ pc \in {"pick", "lastPick"}
  /\ \/ LastResort
     \/ ~MayResort /\ Fail
-----------------------------------------------------------------------------
Admitted ==
  /\ pc = "admit" /\ pc' = "try" /\ tries' = 0
  /\ adms' = Append(adms, [key |-> cur.key, rec |-> cur.rec, sends |-> 0, observed |-> 0])
  /\ UNCHANGED <<attempt, attempts, exhaust, allow, excl, lastResort, lastFail, cur, clock,
                 answers, logs, skips>>

\* Mutant: a refused admission is tried again without looking at the time.
RefusedForGood_Never == FALSE

RefusedForGood == phase = "over" \/ WaitOver

\* Mutant: a request whose wait ran out is dropped without an answer.
Refused_Silent ==
  /\ pc = "admit"
  /\ \/ RefusedForGood /\ Leave(0, 1) /\ UNCHANGED <<control, clock>>
     \/ ~RefusedForGood /\ pc' = "pick" /\ UNCHANGED <<control, clock, history>>

(* A racing claim refused the admission: re-pick after 10 ms, unless the   *)
(* request or its wait has run out.                                        *)
Refused ==
  /\ pc = "admit"
  /\ \/ RefusedForGood /\ Fail
     \/ ~RefusedForGood /\ gone /\ Leave(0, 1) /\ UNCHANGED <<control, clock>>
     \/ ~RefusedForGood /\ ~gone /\ pc' = "pick" /\ UNCHANGED <<control, clock, history>>

AdmitFails == pc = "admit" /\ Fail
-----------------------------------------------------------------------------
(* What forwardOnce reports.  ok: the request is settled; valid: with a    *)
(* complete success; written: the response has begun and its log is        *)
(* finished.                                                               *)
Failure(scope, action, retry) ==
  [ok |-> FALSE, valid |-> FALSE, written |-> FALSE, failOver |-> TRUE, retry |-> retry,
   scope |-> scope, action |-> action]

Answered(valid) ==
  [ok |-> TRUE, valid |-> valid, written |-> TRUE, failOver |-> FALSE, retry |-> FALSE,
   scope |-> IF valid THEN "" ELSE "key_model",
   action |-> IF valid THEN "" ELSE "other"]

(* Before the send: no capacity left, a local error, the probe switch is   *)
(* off.                                                                    *)
Unsent ==
  {Failure(s, "other", FALSE) : s \in {"key", "provider"}}
    \cup {[Failure("", "", FALSE) EXCEPT !.failOver = FALSE]}
    \cup (IF Probe THEN {Failure("key", "skip", FALSE)} ELSE {})

(* After it: transport errors and stalls before the first byte, rejected   *)
(* and malformed responses (classifyHTTPFailure), a request the upstream   *)
(* refuses for good or a stream broken after its start (passed on as they  *)
(* are), a success.  Once the 300 s are over the attempt's context has     *)
(* expired, which breaks what was still running.                           *)
TimelyReplies ==
  {Failure("key", "other", FALSE), Answered(TRUE), Answered(FALSE)}
    \cup UNION {{Failure("key_model", a, r) : r \in BOOLEAN} : a \in {"transient", "other"}}

LateReplies ==
  {Answered(FALSE)}
    \cup UNION {{[Failure("key_model", a, FALSE) EXCEPT !.failOver = f] : f \in BOOLEAN} :
                  a \in {"transient", "other"}}

Replies == IF phase = "over" THEN LateReplies ELSE TimelyReplies

\* A client that hung up ends the failover, and nobody is blamed.
Seen(o) ==
  IF gone /\ ~o.valid
  THEN [o EXCEPT !.failOver = FALSE, !.retry = FALSE, !.scope = "", !.action = "cancelled"]
  ELSE o

\* A validation of an open gate is never retried on its key.
MayRetry(o) == o.retry /\ ~cur.rec /\ tries < RetryMax

Excluded(o) ==
  CASE o.scope = "" -> {}
    [] o.scope = "provider" -> {k \in Keys : ProviderOf[k] = ProviderOf[cur.key]}
    [] OTHER -> {cur.key}

LastObserved == [adms EXCEPT ![Len(adms)] = Recorded(@)]

\* forwardOnce has finished the log of a request it answered.
Settle ==
  /\ pc' = "done" /\ answers' = answers + 1
  /\ logs' = [logs EXCEPT !.finished = @ + 1]
  /\ adms' = [i \in DOMAIN adms |-> Recorded(LastObserved[i])]
  /\ UNCHANGED <<control, clock, skips>>

Retry(o) ==
  /\ pc' = "pause"
  /\ UNCHANGED <<attempt, attempts, exhaust, tries, allow, excl, lastResort, lastFail, cur, clock, history>>

\* attempt-- and the loop's attempt++.
HandBack == attempt

(* The attempt is over: record it, exclude what failed, and go on while    *)
(* the outcome allows failing over and attempts are left.                  *)
Move(o) ==
  LET skip  == o.action = "skip"
      left  == IF skip THEN allow \ {cur.key} ELSE allow
      next  == IF skip THEN HandBack ELSE attempt + 1
      again == IF skip THEN left # {} ELSE o.failOver /\ next < attempts
      wrote == IF o.written THEN 1 ELSE 0
  IN  /\ lastFail' = (IF o.action = "transient" THEN "transient" ELSE "other")
      /\ excl' = excl \cup Excluded(o)
      /\ allow' = left
      /\ attempt' = next
      /\ UNCHANGED <<attempts, exhaust, tries, lastResort, cur, clock>>
      /\ \/ /\ again /\ pc' = "pick"
            /\ adms' = LastObserved
            /\ skips' = IF skip THEN skips + 1 ELSE skips
            /\ answers' = answers + wrote
            /\ logs' = [logs EXCEPT !.finished = @ + wrote]
         \/ ~again /\ Leave(IF answers + wrote > 0 THEN wrote ELSE 1, 1 + wrote)

Handle(o) ==
  \/ o.ok /\ Settle
  \/ ~o.ok /\ MayRetry(o) /\ Retry(o)
  \/ ~o.ok /\ ~MayRetry(o) /\ Move(o)

NotSent(o) == pc = "try" /\ o \in Unsent /\ Handle(Seen(o))

Send ==
  /\ pc = "try" /\ pc' = "sent"
  /\ adms' = [adms EXCEPT ![Len(adms)].sends = @ + 1]
  /\ UNCHANGED <<control, clock, answers, logs, skips>>

Reply(o) == pc = "sent" /\ o \in Replies /\ Handle(Seen(o))

\* The 250 ms before a retry; the client may hang up in it.
Resume ==
  /\ pc = "pause" /\ ~gone
  /\ pc' = "try" /\ tries' = tries + 1
  /\ UNCHANGED <<attempt, attempts, exhaust, allow, excl, lastResort, lastFail, cur, clock, history>>

PauseCancelled == pc = "pause" /\ gone /\ Fail
-----------------------------------------------------------------------------
Handler ==
  \/ Reject \/ Begin \/ ResolveFails \/ \E A \in SUBSET Keys : Resolve(A)
  \/ \E k \in Keys, rec \in BOOLEAN : PickKey(k, rec)
  \/ PickFails \/ StartWait \/ GateChanged \/ WaitEnds \/ NoRoute
  \/ Admitted \/ Refused \/ AdmitFails
  \/ \E o \in Unsent : NotSent(o)
  \/ Send \/ \E o \in Replies : Reply(o)
  \/ Resume \/ PauseCancelled

TimePasses ==
  /\ pc # "done" /\ phase # "over"
  /\ phase' = IF phase = "early" THEN "late" ELSE "over"
  /\ UNCHANGED <<pc, control, waiting, gone, history>>

WaitExpires ==
  /\ pc # "done" /\ waiting = "running" /\ waiting' = "over"
  /\ UNCHANGED <<pc, control, phase, gone, history>>

HangUp ==
  /\ pc # "done" /\ ~gone /\ gone' = TRUE
  /\ UNCHANGED <<pc, control, phase, waiting, history>>

Finished == pc = "done" /\ UNCHANGED vars

Next == Handler \/ TimePasses \/ WaitExpires \/ HangUp \/ Finished

(* The handler's goroutine is scheduled, its attempts carry the deadline   *)
(* of the request, and time passes.                                        *)
GatewayFairness ==
  WF_vars(Handler) /\ WF_vars(TimePasses) /\ WF_vars(WaitExpires)

GatewaySpec == Init /\ [][Next]_vars /\ GatewayFairness
-----------------------------------------------------------------------------
(* Every variable has its shape.                                           *)
TypeOK ==
  /\ pc \in {"enter", "resolve", "pick", "lastPick", "wait", "admit", "try", "sent", "pause", "done"}
  /\ attempt \in 0 .. attempts /\ tries \in Nat
  /\ attempts \in 0 .. FailoverMax + Cardinality(Keys)
  /\ allow \subseteq Keys /\ excl \subseteq Keys /\ {lastResort, exhaust} \subseteq BOOLEAN
  /\ lastFail \in {"none", "transient", "other"}
  /\ cur \in [key : Keys \cup {NoKey}, rec : BOOLEAN]
  /\ phase \in {"early", "late", "over"} /\ waiting \in {"unset", "running", "over"}
  /\ gone \in BOOLEAN

Sends == SumOver([i \in DOMAIN adms |-> adms[i].sends], DOMAIN adms)

(* The client gets one response: none is begun after another, whatever     *)
(* failed in between, and a handler that returns without one has lost its  *)
(* client.  A request log that was begun is finished exactly once, by      *)
(* forwardOnce or by the deferred call of proxy, on every path out of the  *)
(* loop (the Written() guards, settled).                                   *)
AnsweredAndLoggedOnce ==
  /\ answers <= 1 /\ logs.finished <= 1
  /\ pc = "done" => /\ answers = 1 \/ gone
                    /\ logs.finished = 1 <=> logs.begun

(* Every admission is observed exactly once, before the next one is taken  *)
(* and before the handler returns: a lease is never left to run out, and   *)
(* no outcome counts twice.  One that validates an open gate is sent once, *)
(* so its one result is what settles the gate (finishRouting, its defer,   *)
(* retrySame).                                                             *)
AdmissionsObservedOnce ==
  \A i \in DOMAIN adms :
    /\ adms[i].observed <= 1
    /\ i < Len(adms) \/ pc \in {"pick", "lastPick", "wait", "admit", "done"} => adms[i].observed = 1
    /\ adms[i].rec => adms[i].sends <= 1

Uses(k) == Cardinality({i \in DOMAIN adms : adms[i].key = k})

(* However often an attempt is handed back, the upstreams see no more      *)
(* sends than the attempts and retries the settings allow, and what a key  *)
(* skipped on its retry had already sent; and a key whose attempt failed   *)
(* is not used again, except after the last resort, and then not a third   *)
(* time (the loops and exclusion lists of proxy).  Nor are they too few:   *)
(* with FailoverExhaustPool a request whose attempts are used up has tried *)
(* every key of its group, and no key's attempt is spent on another one    *)
(* (gateway.go:276).                                                       *)
FailoverExact ==
  /\ TypeOK
  /\ Sends <= attempts * (RetryMax + 1) + skips * RetryMax
  /\ \A k \in Keys : Uses(k) <= (IF lastResort THEN 2 ELSE 1)
  /\ pc = "done" /\ exhaust /\ Bound /\ ~lastResort /\ attempts > 0 /\ attempt = attempts =>
       allow \subseteq {adms[i].key : i \in DOMAIN adms}

(* The handler returns, although every refused admission repeats the loop  *)
(* (the 300 s deadline).                                                   *)
Terminates == pc # "enter" ~> pc = "done"
=============================================================================
