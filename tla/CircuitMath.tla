----------------------------- MODULE CircuitMath -----------------------------
(***************************************************************************)
(* The arithmetic of a routing circuit: the rolling windows of attempt and *)
(* failure timestamps, the traffic-scaled threshold, the sustained-failure *)
(* rule and the two backoff ladders (business cooldown and synthetic       *)
(* check).  These are pure functions of routinghealth/store.go and         *)
(* routinghealth/recovery.go; RoutingCircuit applies them to live gates    *)
(* and CircuitMathCheck compares them with reference definitions.          *)
(*                                                                         *)
(* Settings are those SchedulerSettings.Normalize lets through.  The rate  *)
(* factor, a float in the code, is the fraction RateNum / RateDen.         *)
(***************************************************************************)
EXTENDS Integers, Sequences, FiniteSets

CONSTANTS
  WindowSec,        \* CircuitWindowSec
  BaseThreshold,    \* CircuitFailureThreshold
  RateNum, RateDen, \* CircuitRateFactor = RateNum / RateDen
  FTTWeight,        \* FTTFailureWeight
  CooldownSec,      \* CircuitCooldownSec
  MaxCooldownSec,   \* CircuitMaxCooldownSec
  MaxAttempts,      \* maxTrackedAttempts
  MaxFailures,      \* maxTrackedFailures
  MaxThreshold,     \* circuitMaxFailureThreshold
  SustainedMin,     \* sustainedMinAttempts
  CheckBase,        \* checkBackoffBaseSec
  CheckMax,         \* checkBackoffMaxSec
  NeutralDelay      \* the one-minute delay after a neutral check

ASSUME SettingsAssumption ==
  /\ {WindowSec, BaseThreshold, FTTWeight, CooldownSec} \subseteq Nat \ {0}
  /\ MaxCooldownSec \in Nat /\ MaxCooldownSec >= CooldownSec
  /\ RateNum \in Nat /\ RateDen \in Nat \ {0}
  /\ {MaxAttempts, MaxFailures, MaxThreshold, SustainedMin} \subseteq Nat \ {0}
  /\ CheckBase \in Nat \ {0} /\ CheckMax \in Nat /\ CheckMax >= CheckBase
  /\ NeutralDelay \in Nat \ {0}

MinOf(a, b) == IF a <= b THEN a ELSE b
MaxOf(a, b) == IF a >= b THEN a ELSE b

\* Mutant: an entry exactly at the cut is kept.
Aged_Exclusive(times, cut) == Cardinality({i \in DOMAIN times : times[i] < cut})

(* Timestamps are appended in clock order, so the entries at or before the *)
(* cut are a prefix of the window.                                         *)
Aged(times, cut) == Cardinality({i \in DOMAIN times : times[i] <= cut})

Capped(times, cap) ==
  IF Len(times) > cap THEN SubSeq(times, Len(times) - cap + 1, Len(times))
                      ELSE times

Recent(times, cut) == SubSeq(times, Aged(times, cut) + 1, Len(times))

(* at = 0 stands for "append nothing", as in the code.                     *)
trackTimestamp(times, at, cut, cap) ==
  LET kept == Recent(times, cut)
  IN  Capped(IF at = 0 THEN kept ELSE Append(kept, at), cap)

(* The threshold scales with the attempts of the window; the ceiling       *)
(* MaxThreshold is applied after the base, as the code does.               *)
circuitThreshold(attempts) ==
  LET scaled == (attempts * RateNum + RateDen - 1) \div RateDen
  IN  IF RateNum > 0 /\ attempts > 0
      THEN MinOf(MaxOf(scaled, BaseThreshold), MaxThreshold)
      ELSE BaseThreshold

(* Failures >= attempts * (1 - 0.6).                                       *)
sustainedFailure(attempts, failures) ==
  attempts >= SustainedMin /\ 5 * failures >= 2 * attempts

(* The failure window after a failure of the given weight at time t.       *)
WithFailure(times, weight, t, cut) ==
  LET added == [i \in 1..weight |-> t]
  IN  trackTimestamp(Recent(times, cut) \o added, 0, cut, MaxFailures)

openSeconds_NoJump(wasOpen, backoff, retry) ==
  IF retry > 0 THEN retry
  ELSE IF wasOpen /\ backoff > 0 THEN MinOf(MaxOf(backoff, CooldownSec) * 2, MaxCooldownSec)
  ELSE CooldownSec

(* Seconds an opening (or reopening) gate stays shut; retry = 0 when the   *)
(* upstream named no Retry-After.                                          *)
openSeconds(wasOpen, backoff, retry) ==
  LET doubled == MinOf(MaxOf(backoff, CooldownSec) * 2, MaxCooldownSec)
      ladder  == IF doubled > MaxCooldownSec \div 2 THEN MaxCooldownSec
                                                    ELSE doubled
  IN  IF retry > 0 THEN retry
      ELSE IF wasOpen /\ backoff > 0 THEN ladder
      ELSE CooldownSec

(* Backoff of the synthetic check after another failed check.              *)
nextCheckBackoff(b) ==
  IF b = 0 THEN 1
  ELSE IF b < CheckBase THEN CheckBase
  ELSE MinOf(b * 2, CheckMax)
=============================================================================
