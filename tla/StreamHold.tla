----------------------------- MODULE StreamHold -----------------------------
(***************************************************************************)
(* One streamed attempt of the gateway (handler/gateway.go): the handler's *)
(* goroutine sends the request and copies the SSE body (forwardOnce,       *)
(* copySSE), the first-token watch is a timer goroutine that cancels the   *)
(* attempt when no output came in time.  Bytes are held back until the     *)
(* first token, so that an earlier failure can still move to another key.  *)
(*                                                                         *)
(* The two goroutines share the watch (its mutex mu) and the held prefix   *)
(* (holdMu).  A critical section that takes no second lock is one step.    *)
(* The timer's section runs onFire, which takes holdMu and then mu once    *)
(* more, and releaseHeld takes mu inside holdMu: those are several steps.  *)
(*                                                                         *)
(* The text APIs are modelled (strict): the SSE reader returns one line at *)
(* a time, so a chunk is one line, or two where it repairs a missing blank *)
(* line.  Lines are numbered; a frame is what a closing line dispatches.   *)
(***************************************************************************)
EXTENDS Naturals, Sequences

CONSTANTS
  Repair,       \* the upstream may leave out the blank line between two frames
  HoldCap,      \* MaxSSEEventBytes, in lines: what the held prefix may grow to
  MaxLines      \* bound: lines the upstream sends

ASSUME StreamAssumption ==
  /\ Repair \in BOOLEAN
  /\ HoldCap \in Nat \ {0} /\ MaxLines \in Nat

VARIABLES
  req,       \* stream: asked for, so the watch starts with the send; responses:
             \* the path is /v1/responses; holdUntilToken: the setting
  copier,        \* where the handler's goroutine is
  timer,     \* where the watch's timer goroutine is
  watch,     \* firstTokenWatch: mu, stopped, fired, onFire
  hold,      \* holdMu, holdPending, holdReleased, holdDead
  col,       \* what the collector has parsed
  chunk,     \* the lines of the last read
  tail,      \* lines read after the release and not yet written
  ctx,       \* the attempt's context: live, cancelled, expired (the deadline)
  hungUp,      \* the client has hung up
  client,    \* the lines the client got; 0 is the gateway's own error event
  written,   \* the response has begun: its headers are out
  ret,       \* the error copySSE returns
  out,       \* the outcome forwardOnce returns
  read,      \* history: lines read so far
  ends,      \* history: the lines that closed a frame
  outputs    \* history: calls of the first-output callback

shared == <<watch, hold, timer>>
body   == <<col, chunk, read, ends>>
result == <<ret, out>>
sent   == <<client, written>>
streamVars   == <<req, copier, shared, body, tail, ctx, hungUp, sent, result, outputs>>

Events == {"ping", "lifecycle", "compacting", "text", "done", "failed", "bad"}
Errors == {"none", "timeout", "other", "prefix", "upstream", "invalid"}
Requests == [stream: BOOLEAN, responses: BOOLEAN, holdUntilToken: BOOLEAN]
NoOutcome == [failOver |-> FALSE, retrySame |-> FALSE, success |-> FALSE, action |-> "none"]

StreamInit ==
  /\ req \in Requests
  /\ copier = "send" /\ timer = IF req.stream THEN "armed" ELSE "off"
  /\ watch = [mu |-> "free", stopped |-> FALSE, fired |-> FALSE, onFire |-> FALSE]
  /\ hold = [mu |-> "free", pending |-> <<>>, released |-> FALSE, dead |-> FALSE]
  /\ col = [open |-> FALSE, token |-> FALSE, compaction |-> FALSE, committable |-> FALSE,
            terminal |-> FALSE, err |-> "none"]
  /\ chunk = <<>> /\ tail = <<>> /\ ctx = "live" /\ hungUp = FALSE
  /\ client = <<>> /\ written = FALSE /\ ret = "none" /\ out = NoOutcome
  /\ read = 0 /\ ends = {} /\ outputs = 0
-----------------------------------------------------------------------------
(* The response headers announce an event stream.  A watch that does not   *)
(* run yet gets its salvage callback and starts with what is left of the   *)
(* wait; nothing left means it fires at once.                              *)
Headers ==
  /\ copier = "send" /\ copier' = "read"
  /\ \/ req.stream /\ UNCHANGED <<watch, timer>>
     \/ ~req.stream /\ watch' = [watch EXCEPT !.onFire = TRUE] /\ timer' = "armed"
     \/ ~req.stream /\ watch' = [watch EXCEPT !.onFire = TRUE, !.fired = TRUE] /\ timer' = "cancel"
  /\ UNCHANGED <<req, hold, body, tail, ctx, hungUp, sent, result, outputs>>

(* What an event does to the collector (finishEvent).                      *)
Parsed(e) ==
  LET newCompaction == e = "compacting" /\ req.responses /\ ~col.token
      errorOf == CASE e = "bad" -> "invalid" [] e = "failed" -> "upstream" [] OTHER -> "none"
  IN [open        |-> FALSE,
      token       |-> col.token \/ e = "text",
      compaction  |-> col.compaction \/ newCompaction,
      committable |-> col.committable \/ (req.responses /\ e \notin {"ping", "bad", "failed"}),
      terminal    |-> e \in {"done", "failed", "bad"},
      err         |-> errorOf]

(* feed, a line inside a frame.                                            *)
Line ==
  /\ copier = "read" /\ read < MaxLines
  /\ copier' = "check" /\ read' = read + 1 /\ chunk' = <<read + 1>>
  /\ col' = [col EXCEPT !.open = TRUE]
  /\ UNCHANGED <<req, shared, ends, tail, ctx, hungUp, sent, result, outputs>>

(* feed, the line that closes a frame: compaction and the first token stop *)
(* the watch.  A repaired boundary comes with the next frame's first line, *)
(* which a terminal event drops.                                           *)
Event(e, repaired) ==
  LET keeps == IF repaired /\ ~Parsed(e).terminal THEN 2 ELSE 1
  IN  /\ copier = "read" /\ col.open /\ read + keeps <= MaxLines
      /\ repaired => Repair
      /\ col' = [Parsed(e) EXCEPT !.open = keeps = 2]
      /\ read' = read + keeps /\ ends' = ends \union {read + 1}
      /\ chunk' = [i \in 1..keeps |-> read + i]
      /\ copier' = IF col'.compaction # col.compaction \/ col'.token # col.token
               THEN "stop" ELSE "check"
      /\ UNCHANGED <<req, shared, tail, ctx, hungUp, sent, result, outputs>>

\* firstTokenWatch.stop: a timer that has already fired finds the flag.
Stopped(w) == [w EXCEPT !.stopped = TRUE]
Disarmed == IF timer = "armed" THEN "off" ELSE timer

(* onCompaction, onFirstOutput: stop the watch; the first output is also   *)
(* reported to the routing health.                                         *)
StopWatch ==
  /\ copier = "stop" /\ watch.mu = "free" /\ copier' = "check"
  /\ watch' = Stopped(watch) /\ timer' = Disarmed
  /\ outputs' = outputs + (IF col.token THEN 1 ELSE 0)
  /\ UNCHANGED <<req, hold, body, tail, ctx, hungUp, sent, result>>

Check ==
  /\ copier = "check" /\ hold.mu = "free"
  /\ copier' = IF hold.released THEN "tail" ELSE "buffer"
  /\ UNCHANGED <<req, shared, body, tail, ctx, hungUp, sent, result, outputs>>

\* copySSE returns: the hold is dead from here on.
Return(err) ==
  /\ copier' = "settle" /\ ret' = err /\ hold' = [hold EXCEPT !.dead = TRUE]
  /\ UNCHANGED <<req, watch, timer, body, ctx, hungUp, out, outputs>>

\* Mutant: the hold-until-token setting is forgotten.
MayCommit_Eager == col.token \/ (col.committable /\ col.err = "none")

MayCommit ==
  \/ col.token
  \/ col.committable /\ ~req.holdUntilToken /\ col.err = "none"

Overflows == hold.released \/ hold.dead \/ Len(hold.pending) + Len(chunk) > HoldCap

(* holdBuffer, and whether the prefix may be committed.                    *)
Buffer ==
  /\ copier = "buffer" /\ hold.mu = "free"
  /\ IF Overflows
       THEN Return("prefix") /\ UNCHANGED <<tail, sent>>
       ELSE /\ hold' = [hold EXCEPT !.pending = @ \o chunk]
            /\ copier' = IF MayCommit THEN "release" ELSE "term"
            /\ UNCHANGED <<req, watch, timer, body, tail, ctx, hungUp, sent, result, outputs>>

\* tail = append(tail, chunk...)
Unwritten == tail \o chunk

(* The forwarding path after the release: whole frames only.  A frame that *)
(* a Responses stream must not see is left to the caller's error event.    *)
Forward ==
  LET all == Unwritten
      refused == col.err = "invalid" /\ req.responses
      flush == col.terminal \/ ~col.open
  IN  /\ copier = "tail"
      /\ \/ refused /\ Return(col.err) /\ tail' = all /\ UNCHANGED sent
         \/ ~refused /\ flush /\ hungUp /\ Return("other") /\ tail' = <<>> /\ UNCHANGED sent
         \/ /\ ~refused /\ copier' = "term"
            /\ IF flush THEN client' = client \o all /\ tail' = <<>>
                        ELSE UNCHANGED client /\ tail' = all
            /\ UNCHANGED <<req, shared, body, ctx, hungUp, written, result, outputs>>

(* The end of the read loop's body: a good terminal event releases what is *)
(* still held.                                                             *)
Term ==
  /\ copier = "term"
  /\ \/ /\ col.terminal /\ (col.err # "none" \/ hold.released)
        /\ col.err = "none" => hold.mu = "free"
        /\ Return(col.err) /\ UNCHANGED <<tail, sent>>
     \/ /\ \/ ~col.terminal /\ copier' = "read"
           \/ col.terminal /\ col.err = "none" /\ ~hold.released /\ copier' = "release"
        /\ UNCHANGED <<req, shared, body, tail, ctx, hungUp, sent, result, outputs>>

(* The read fails: a cancelled context, or the connection; an end of the   *)
(* stream before a terminal event is an error as well.  writeTail is not   *)
(* reached: a partial frame stays behind.                                  *)
ReadFails(err) ==
  /\ copier = "read"
  /\ err \in {"timeout", "other"} /\ (err = "timeout" => ctx # "live" \/ hungUp)
  /\ Return(err) /\ UNCHANGED <<tail, sent>>
-----------------------------------------------------------------------------
(* releaseHeld, first half: take holdMu; nothing to do once released or    *)
(* dead.  The watch's callback holds mu meanwhile, and gives it back with  *)
(* the attempt salvaged.                                                   *)
LockHold(self) ==
  /\ hold.mu = "free"
  /\ IF self = "reader" THEN copier = "release" ELSE timer = "salvage"
  /\ IF hold.released \/ hold.dead
       THEN /\ UNCHANGED hold
            /\ IF self = "reader" THEN copier' = "term" /\ UNCHANGED <<timer, watch>>
               ELSE timer' = "off" /\ watch' = [watch EXCEPT !.mu = "free"] /\ UNCHANGED copier
       ELSE /\ hold' = [hold EXCEPT !.mu = self, !.released = TRUE]
            /\ UNCHANGED watch
            /\ IF self = "reader" THEN copier' = "commit" /\ UNCHANGED timer
               ELSE timer' = "commit" /\ UNCHANGED copier
  /\ UNCHANGED <<req, body, tail, ctx, hungUp, sent, result, outputs>>

(* releaseHeld, second half: commitHeaders stops the watch, which takes    *)
(* mu; then the prefix is written and flushed.                             *)
Commit(self) ==
  /\ hold.mu = self /\ watch.mu = "free"
  /\ watch' = Stopped(watch)
  /\ IF self = "reader" THEN copier' = "term" /\ timer' = Disarmed
                        ELSE timer' = "off" /\ UNCHANGED copier
  /\ written' = TRUE /\ client' = client \o hold.pending
  /\ hold' = [hold EXCEPT !.mu = "free", !.pending = <<>>]
  /\ UNCHANGED <<req, body, tail, ctx, hungUp, result, outputs>>
-----------------------------------------------------------------------------
\* time.AfterFunc: the callback's goroutine starts and goes for mu.
TimerFires ==
  /\ timer = "armed" /\ timer' = "fired"
  /\ UNCHANGED <<req, copier, watch, hold, body, tail, ctx, hungUp, sent, result, outputs>>

\* What the callback decides under mu.
Expired ==
  IF watch.stopped THEN "off"
  ELSE IF watch.onFire /\ read > 0 THEN "salvage" ELSE "cancel"

\* Mutant: the early return for a stopped watch keeps the mutex.
Expire_Locked ==
  /\ timer = "fired" /\ watch.mu = "free" /\ timer' = Expired
  /\ watch' = CASE Expired \in {"off", "salvage"} -> [watch EXCEPT !.mu = "timer"]
                [] OTHER -> [watch EXCEPT !.fired = TRUE]
  /\ UNCHANGED <<req, copier, hold, body, tail, ctx, hungUp, sent, result, outputs>>

(* The callback holds mu: a stopped watch does nothing, one with bytes to  *)
(* show and a callback commits them, the others mark the timeout.          *)
Expire ==
  /\ timer = "fired" /\ watch.mu = "free" /\ timer' = Expired
  /\ watch' = CASE Expired = "off" -> watch
                [] Expired = "salvage" -> [watch EXCEPT !.mu = "timer"]
                [] OTHER -> [watch EXCEPT !.fired = TRUE]
  /\ UNCHANGED <<req, copier, hold, body, tail, ctx, hungUp, sent, result, outputs>>

\* cancel(), after mu was given back.
Cancel ==
  /\ timer = "cancel" /\ timer' = "off"
  /\ ctx' = IF ctx = "live" THEN "cancelled" ELSE ctx
  /\ UNCHANGED <<req, copier, watch, hold, body, tail, hungUp, sent, result, outputs>>

Deadline ==
  /\ copier # "done" /\ ctx # "expired" /\ ctx' = "expired"
  /\ UNCHANGED <<req, copier, shared, body, tail, hungUp, sent, result, outputs>>

ClientHangsUp ==
  /\ copier # "done" /\ ~hungUp /\ hungUp' = TRUE
  /\ UNCHANGED <<req, copier, shared, body, tail, ctx, sent, result, outputs>>
-----------------------------------------------------------------------------
\* forwardOnce's deferred call: a client that hung up ends the request.
Outcome(o) ==
  IF hungUp /\ ~o.success
  THEN [o EXCEPT !.failOver = FALSE, !.retrySame = FALSE, !.action = "client_cancelled"] ELSE o

(* forwardOnce returns; its deferred stop and timedOut take mu.            *)
LeaveAttempt(o) ==
  /\ watch.mu = "free" /\ copier' = "done"
  /\ watch' = Stopped(watch) /\ timer' = Disarmed
  /\ out' = Outcome(o)
  /\ UNCHANGED <<req, hold, body, tail, ctx, hungUp, ret, outputs>>

(* DoRaw fails before any header: the same key may be tried again unless   *)
(* time ran out.                                                           *)
SendFails(err) ==
  /\ copier = "send"
  /\ err \in {"timeout", "other"} /\ (err = "timeout" => ctx # "live" \/ hungUp)
  /\ LeaveAttempt([failOver |-> TRUE, retrySame |-> ~watch.fired /\ err = "other",
            success |-> FALSE, action |-> "transport_failure"])
  /\ UNCHANGED sent

\* The class of a copy that failed before anything was written.
FailAction ==
  CASE ret # "timeout" -> "invalid_response"
    [] ret = "timeout" /\ watch.fired -> "first_token_timeout"
    [] ret = "timeout" /\ ~watch.fired /\ col.compaction -> "compaction_timeout"
    [] OTHER -> "upstream_timeout"

\* Mutant: the copy's error alone decides, not whether the response has begun.
MayMove_Always == ret # "none"

MayMove == ret # "none" /\ ~written

(* copySSE failed with nothing written: another key may take over, until   *)
(* the request's deadline.                                                 *)
SettleUnwritten ==
  /\ copier = "settle" /\ MayMove
  /\ LeaveAttempt([failOver |-> ctx # "expired", retrySame |-> FALSE, success |-> FALSE,
            action |-> FailAction])
  /\ UNCHANGED sent

(* The response has begun, or ended well: a Responses stream cut short is  *)
(* closed with an error event.                                             *)
SettleWritten ==
  /\ copier = "settle" /\ ~MayMove
  /\ LET closing == ret # "none" /\ req.responses /\ col.err # "upstream" /\ ~hungUp
     IN  client' = IF closing THEN Append(client, 0) ELSE client
  /\ LeaveAttempt([failOver |-> FALSE, retrySame |-> FALSE, success |-> ret = "none",
            action |-> CASE ret = "none" -> "none"
                         [] ret = "timeout" /\ col.compaction /\ ~col.token -> "compaction_timeout"
                         [] ret = "timeout" -> "upstream_timeout"
                         [] OTHER -> "response_failure"])
  /\ UNCHANGED written
-----------------------------------------------------------------------------
Upstream == Headers \/ Line \/ \E e \in Events, r \in BOOLEAN : Event(e, r)

Copies == StopWatch \/ Check \/ Buffer \/ Forward \/ Term \/ SettleUnwritten \/ SettleWritten

Releases(self) == LockHold(self) \/ Commit(self)

Broken == \E err \in {"timeout", "other"} : SendFails(err) \/ ReadFails(err)

StreamNext ==
  \/ Upstream \/ Copies \/ Broken \/ \E self \in {"reader", "timer"} : Releases(self)
  \/ TimerFires \/ Expire \/ Cancel \/ Deadline \/ ClientHangsUp

(* Goroutines that can run do, a read under a cancelled context returns,   *)
(* and the 300 s of the request pass.  The upstream owes nothing.          *)
StreamFairness ==
  /\ WF_streamVars(Copies \/ Releases("reader"))
  /\ WF_streamVars(Expire \/ Releases("timer") \/ Cancel)
  /\ WF_streamVars(Deadline)
  /\ WF_streamVars(SendFails("timeout") \/ ReadFails("timeout"))

StreamSpec == StreamInit /\ [][StreamNext]_streamVars /\ StreamFairness
-----------------------------------------------------------------------------
\* The values the variables range over.
StreamTypeOK ==
  /\ req \in Requests
  /\ copier \in {"send", "read", "stop", "check", "buffer", "release", "commit", "tail", "term",
             "settle", "done"}
  /\ timer \in {"off", "armed", "fired", "salvage", "commit", "cancel"}
  /\ watch \in [mu: {"free", "timer"}, stopped: BOOLEAN, fired: BOOLEAN, onFire: BOOLEAN]
  /\ hold \in [mu: {"free", "reader", "timer"}, pending: Seq(1..MaxLines),
               released: BOOLEAN, dead: BOOLEAN]
  /\ Len(hold.pending) <= HoldCap
  /\ col.err \in Errors /\ ret \in Errors /\ ctx \in {"live", "cancelled", "expired"}
  /\ client \in Seq(0..MaxLines) /\ tail \in Seq(1..MaxLines) /\ read \in 0..MaxLines
  /\ ends \subseteq 1..read /\ outputs \in 0..1

(* The attempt keeps the promise of StreamPromise: across the hold, its    *)
(* release by either goroutine, the tail and the end of the copy, the      *)
(* client sees a prefix of the upstream's stream, and the outcome that     *)
(* forwardOnce returns says the truth about what the client has seen       *)
(* (copySSE, releaseHeld, forwardOnce's Written tests).                    *)
Promise == INSTANCE StreamPromise WITH
  sent <- read, seen <- client, begun <- written, Closing <- 0,
  verdict <- IF copier # "done" THEN "open" ELSE IF out.success THEN "served"
             ELSE IF out.failOver THEN "moved" ELSE "failed"
KeepsPromise == Promise!PromiseSpec

(* The race between the first token and the watch has one winner.  With    *)
(* the hold-until-token setting the response begins only with a text token *)
(* or a good end of the stream, so that every failure before it can still  *)
(* move to another key (copySSE).  A timeout is blamed on the upstream     *)
(* only when the watch fired, the copy was cut short by it and no token    *)
(* had come, and once the routing health has been told of output the       *)
(* attempt serves the client and does not fail over, unless the held       *)
(* prefix was full (onFirstOutput runs before holdBuffer; forwardOnce's    *)
(* classification).                                                        *)
FirstTokenDecides ==
  /\ StreamTypeOK
  /\ req.holdUntilToken /\ written => col.token \/ (col.terminal /\ col.err = "none")
  /\ out.action = "first_token_timeout" => watch.fired /\ ret = "timeout" /\ ~col.token
  /\ outputs > 0 => ~out.failOver \/ ret = "prefix"

(* Every attempt of a stream request returns to its caller, whatever the   *)
(* upstream does and whenever the watch fires (forwardOnce).               *)
StreamReturns == req.stream => <>(copier = "done")

(* So does an attempt that did not ask for a stream and got one: the       *)
(* release is safe to call from the watch's timer goroutine                *)
(* (releaseHeld's comment).                                                *)
HandlerReturns == <>(copier = "done")
=============================================================================
