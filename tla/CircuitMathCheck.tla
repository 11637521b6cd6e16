-------------------------- MODULE CircuitMathCheck --------------------------
(***************************************************************************)
(* The circuit's windows and cooldowns driven through runs of events and   *)
(* compared with reference definitions: the windows with logs from which   *)
(* nothing is ever dropped, the cooldowns with the documented sequence of  *)
(* seconds.                                                                *)
(***************************************************************************)
EXTENDS CircuitMath, Collections

CONSTANTS
  MaxTicks,         \* bound on the time
  MaxEvents,        \* bound on the recorded events
  Retries,          \* Retry-After values (0: none)
  CooldownLadder    \* documented seconds of consecutive failed validations

ASSUME LadderAssumption ==
  /\ {MaxTicks, MaxEvents} \subseteq Nat /\ Retries \subseteq Nat
  /\ CooldownLadder \in Seq(Nat) /\ CooldownLadder # <<>>

VARIABLES
  tick,
  attemptLog,    \* the times of all attempts
  failureLog,    \* those of all failures since the last success, by their weight
  attemptTimes,  \* AttemptTimes as the code keeps it
  failureTimes,  \* FailureTimes as the code keeps it
  reopened,      \* Retry-After of each opening since the gate last closed
  backoff        \* BackoffSec

mathVars == <<tick, attemptLog, failureLog, attemptTimes, failureTimes, reopened, backoff>>

MathInit ==
  /\ tick = 1 /\ attemptLog = <<>> /\ failureLog = <<>> /\ attemptTimes = <<>> /\ failureTimes = <<>>
  /\ reopened = <<>> /\ backoff = 0

Cut == tick - WindowSec

Attempt ==
  /\ Len(attemptLog) < MaxEvents
  /\ attemptLog' = Append(attemptLog, tick)
  /\ attemptTimes' = trackTimestamp(attemptTimes, tick, Cut, MaxAttempts)
  /\ UNCHANGED <<tick, reopened, backoff>>

(* A failed attempt of the given weight stands in the window that often.   *)
Failing(weight) ==
  /\ Attempt
  /\ failureLog' = failureLog \o [j \in 1..weight |-> tick]
  /\ failureTimes' = WithFailure(failureTimes, weight, tick, Cut)

(* A success joins the attempts and clears the failures.                   *)
Succeeding ==
  /\ Attempt
  /\ failureLog' = <<>> /\ failureTimes' = <<>>

Pass ==
  /\ tick < MaxTicks
  /\ tick' = tick + 1
  /\ UNCHANGED <<attemptLog, failureLog, attemptTimes, failureTimes, reopened, backoff>>

Reopen(retry) ==
  /\ Len(reopened) < MaxEvents
  /\ reopened' = Append(reopened, retry)
  /\ backoff' = MinOf(openSeconds(reopened # <<>>, backoff, retry), MaxCooldownSec)
  /\ UNCHANGED <<tick, attemptLog, failureLog, attemptTimes, failureTimes>>

(* Windows and cooldowns have no state in common and run apart.            *)
MathNext ==
  \/ reopened = <<>> /\ (Pass \/ Succeeding \/ \E w \in {1, FTTWeight} : Failing(w))
  \/ tick = 1 /\ attemptLog = <<>> /\ \E retry \in Retries : Reopen(retry)

MathSpec == MathInit /\ [][MathNext]_mathVars
-----------------------------------------------------------------------------
(* The times of the window that ends with the last attempt.                *)
InWindow == {t \in Nat : t > attemptLog[Len(attemptLog)] - WindowSec}

LastOf(s, n) == SubSeq(s, MaxOf(Len(s) - n, 0) + 1, Len(s))

(* Pruning and capping as the events come keeps exactly the newest times   *)
(* of the window that the whole log has: trackTimestamp loses none but to  *)
(* the cap, however often it drops some on the way, and keeps none that    *)
(* has aged out (trackTimestamp, Observe).                                 *)
WindowsExact ==
  attemptLog # <<>> =>
    /\ attemptTimes = LastOf(Kept(attemptLog, InWindow), MaxAttempts)
    /\ failureTimes = LastOf(Kept(failureLog, InWindow), MaxFailures)

Step(ladder, n) == ladder[MinOf(n, Len(ladder))]

(* Consecutive failed validations without a Retry-After back off 30, 60,   *)
(* 120, 300 seconds, and a Retry-After never lets the ladder fall below    *)
(* the cooldown or pass the maximum on the next ordinary failure (open).   *)
LadderAsDocumented ==
  reopened # <<>> =>
    /\ (\A i \in DOMAIN reopened : reopened[i] = 0) => backoff = Step(CooldownLadder, Len(reopened))
    /\ backoff <= MaxCooldownSec
    /\ openSeconds(TRUE, backoff, 0) >= MinOf(2 * CooldownSec, MaxCooldownSec)
    /\ openSeconds(TRUE, backoff, 0) >= backoff
=============================================================================
