----------------------------- MODULE RoutingPick ----------------------------
(***************************************************************************)
(* The picker's reading of the routing circuits (picker/routing_health.go, *)
(* applyRoutingHealth).  It looks at the rows without a lock, names one of *)
(* a candidate's gates as the reason to skip it, and offers at most one    *)
(* skipped candidate for validation.  Admission decides again, with other  *)
(* code, in its own transaction: where the two differ the gateway would    *)
(* pick a key that is refused, again and again, or wait for nothing.       *)
(*                                                                         *)
(* A pick reads what any sequence of admissions, settlements and checks    *)
(* left, so the behaviours are those of RoutingCircuit.                    *)
(***************************************************************************)
EXTENDS RoutingCircuit

CONSTANTS
  HasPath,     \* gates whose row names the path of its dimension
  WorkerOwned  \* of those, gates the worker checks: known path, probes allowed

ASSUME PickAssumption == WorkerOwned \subseteq HasPath /\ HasPath \subseteq Scopes

recoveryGatePriority(s) ==
  CASE LeaseLive(s) -> 5
    [] ~LeaseLive(s) /\ CheckLive(s) -> 4
    [] ~Busy(s) /\ (Cooling(s) \/ Backing(s)) -> 3
    [] ~Busy(s) /\ ~Cooling(s) /\ ~Backing(s) /\ ~gate[s].checkOK /\ s \in HasPath -> 2
    [] OTHER -> 1

\* Snapshot: the open gates of a dimension.
OpenGates(d) == {s \in Scope(d) : gate[s].open}

\* Mutant: only the gates of the dimension itself are looked at.
BusyByKey_None(d) == {}

\* Rows of the key that hold a claim, read when its own gate is open.
BusyByKey(d) ==
  IF gate[KeyOf[d]].open THEN {s \in ScopesOfKey(KeyOf[d]) : Busy(s)} ELSE {}

(* The gate of a dimension: of its open ones the one of the highest        *)
(* priority, then of the later deadline, then the dimension's own.         *)
OwnGate(d, s) ==
  /\ s \in OpenGates(d)
  /\ \A t \in OpenGates(d) :
       \/ recoveryGatePriority(t) < recoveryGatePriority(s)
       \/ /\ recoveryGatePriority(t) = recoveryGatePriority(s)
          /\ \/ gate[t].until < gate[s].until
             \/ gate[t].until = gate[s].until /\ (t = d => s = d)

(* A busy row of the key takes its place when it outranks it.              *)
IsGate(d, s) ==
  LET outranks(t) == \A g \in OpenGates(d) : recoveryGatePriority(g) < recoveryGatePriority(t)
  IN  \/ OwnGate(d, s) /\ ~\E t \in BusyByKey(d) : outranks(t)
      \/ /\ s \in BusyByKey(d) /\ outranks(s)
         /\ \A t \in BusyByKey(d) : recoveryGatePriority(t) <= recoveryGatePriority(s)

(* Why a candidate is skipped.  The code's conditions overwrite each other *)
(* from the bottom of this list to its top.                                *)
SkipReason(s) ==
  CASE LeaseLive(s) -> "recovery_inflight"
    [] ~LeaseLive(s) /\ Backing(s) -> "recovery_check_backoff"
    [] ~LeaseLive(s) /\ ~Backing(s) /\ CheckLive(s) -> "recovery_check_inflight"
    [] ~Busy(s) /\ ~Backing(s) /\ Cooling(s) -> "business_cooldown"
    [] OTHER -> "recovery_pending"

Recoverable(reason) == reason \in {"recovery_pending", "recovery_check_backoff"}

\* recoveryWaitScopes: the reasons the gateway waits for.
WaitsFor(reason) == reason \in {"recovery_inflight", "recovery_check_inflight"}

\* RecoveryStatus waiting_request: only a request can validate the gate.
WaitingRequest(s) == SkipReason(s) = "recovery_pending" /\ s \notin WorkerOwned

Normal(C) == {d \in C : OpenGates(d) = {}}
Validatable(C) == {d \in C : \E s \in Scopes : IsGate(d, s) /\ Recoverable(SkipReason(s))}
RequestOwned(C) == {d \in C : \E s \in Scopes : IsGate(d, s) /\ WaitingRequest(s)}

(* Whom a pick over the candidates C may offer for validation: anyone that *)
(* can be validated when nobody is normal, otherwise those only a request  *)
(* can validate, within the budget and without a bound session.  Which of  *)
(* them (recoveryBefore) is left open.                                     *)
Offered(C, slot, bound) ==
  IF Normal(C) = {} THEN Validatable(C)
  ELSE IF slot /\ ~bound THEN RequestOwned(C) ELSE {}
-----------------------------------------------------------------------------
VerdictsAgree ==
  \A d \in Dims :
    /\ OpenGates(d) = {} => Admits(d, FALSE)
    /\ \A s \in Scopes : IsGate(d, s) =>
         (Recoverable(SkipReason(s)) <=> Admits(d, TRUE))

(* The gateway waits for a candidate exactly when somebody holds a claim   *)
(* that its admission would collide with, so it neither gives up while a   *)
(* validation is under way nor waits when none is (recoveryWaitScopes).    *)
WaitsForClaims ==
  \A d \in Dims, s \in Scopes : IsGate(d, s) =>
    (WaitsFor(SkipReason(s)) <=>
       \E t \in OpenGates(d) \cup BusyByKey(d) : Busy(t))

(* The picker and the admission agree on every dimension: a candidate      *)
(* without a gate is admitted, one skipped for a reason that may be        *)
(* validated is admitted as a validation, and any other is refused         *)
(* (applyRoutingHealth's comment: "Otherwise repeated selection would keep *)
(* choosing a blocked key"); and of those the gateway waits for exactly    *)
(* the ones that somebody's claim keeps out.                               *)
PickAgreesWithAdmit == VerdictsAgree /\ WaitsForClaims

(* A pick that offers nothing leaves nobody out that admission would take: *)
(* without a normal candidate every candidate is refused.                  *)
NothingWithheld ==
  \A C \in SUBSET Dims :
    Normal(C) = {} /\ Offered(C, FALSE, TRUE) = {} => \A d \in C : ~Admits(d, TRUE)

(* A candidate with an open gate is skipped for some gate's reason, so it  *)
(* is never counted as normal: the choice among gates of equal rank does   *)
(* not come out empty (applyRoutingHealth's comparisons).                  *)
SomeGate == \A d \in Dims : OpenGates(d) # {} => \E s \in Scopes : IsGate(d, s)
=============================================================================
