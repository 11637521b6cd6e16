--------------------------- MODULE RoutingCircuit ---------------------------
(***************************************************************************)
(* The routing circuits of internal/routinghealth: one row per gate, a     *)
(* key-wide gate for every upstream key and a gate for every business      *)
(* dimension (key, protocol, model, path, stream).  Business attempts are  *)
(* admitted through both gates of their dimension and settle both; a       *)
(* synthetic recovery check claims and settles a single gate; a confirmed  *)
(* balance releases the quota gates of a provider.                         *)
(*                                                                         *)
(* Every operation of the store is one SQL transaction that locks the      *)
(* key's row before the dimension's (recovery.go:101, store.go:71), so an  *)
(* operation is one action.  What happens between two operations of the    *)
(* same attempt or check is where the interleavings are.                   *)
(*                                                                         *)
(* Times are ticks of one clock.  0 stands for the zero time and for nil:  *)
(* the clock starts at 1, and the code only ever asks whether such a field *)
(* lies after now.                                                         *)
(***************************************************************************)
EXTENDS CircuitMath

CONSTANTS
  Keys, Dims,     \* gates: one per key, one per business dimension
  KeyOf,          \* the key of each dimension
  Upstreams,      \* providers; their balance is shared by their keys
  UpstreamOf,     \* the provider of each key
  Attempts,       \* admissions; an admission's token is the attempt itself
  RequestOf,      \* the business request each attempt belongs to
  Checks,         \* synthetic checks; a claim's token is the check itself
  NoToken,        \* the empty lease
  RetryAfters,    \* Retry-After values upstreams send, in ticks (0: none)
  LeaseTTL,       \* 330 s: life of a validation lease
  CheckTTL,       \* CheckLeaseDuration, 45 s
  CheckLimit,     \* checkLimit(): live checks allowed across instances
  MaxFlight,      \* longest time from an admission to its settlement
  CheckTimeout,   \* RecoveryCheckTimeoutSec: longest synthetic check
  MaxTime         \* bound on the clock

Scopes == Keys \cup Dims
Tokens == Attempts \cup Checks

ASSUME ScopeAssumption ==
  /\ Keys \cap Dims = {}
  /\ KeyOf \in [Dims -> Keys] /\ UpstreamOf \in [Keys -> Upstreams]
  /\ IsFiniteSet(Keys) /\ IsFiniteSet(Dims)
  /\ NoToken \notin Tokens /\ Attempts \cap Checks = {}

ASSUME TimeAssumption ==
  /\ {LeaseTTL, CheckTTL, CheckLimit, MaxFlight, CheckTimeout} \subseteq Nat \ {0}
  /\ RetryAfters \subseteq Nat /\ MaxTime \in Nat

VARIABLES
  now,    \* the clock
  gate,   \* gate[s]: the RoutingCircuit row of scope s
  att,    \* att[a]: a business attempt and the admission it carries
  chk,    \* chk[c]: a synthetic check of the recovery worker
  bal,    \* bal[u]: start of the balance fetch in flight for u, or 0
  seen    \* RoutingObservation: (dimension, business request) already applied

vars == <<now, gate, att, chk, bal, seen>>

Scope(d) == {KeyOf[d], d}
KeyScope(s) == IF s \in Keys THEN s ELSE KeyOf[s]
ScopesOfKey(k) == {k} \cup {d \in Dims : KeyOf[d] = k}

Cooling(s)   == gate[s].until > now
LeaseLive(s) == gate[s].leaseUntil > now
CheckLive(s) == gate[s].checkUntil > now
Backing(s)   == ~gate[s].checkOK /\ gate[s].nextCheck > now
Busy(s)      == LeaseLive(s) \/ CheckLive(s)

Reasons == {"", "failure", "quota"}

Row == [gen : Nat, open : BOOLEAN, fails : Seq(Nat), tries : Seq(Nat),
        openedAt : Nat, until : Nat, backoff : Nat, reason : Reasons,
        lease : Attempts \cup {NoToken}, leaseUntil : Nat,
        checkLease : Checks \cup {NoToken}, checkUntil : Nat,
        checkOK : BOOLEAN, nextCheck : Nat, checkBackoff : Nat]

NewRow == [gen |-> 0, open |-> FALSE, fails |-> <<>>, tries |-> <<>>,
           openedAt |-> 0, until |-> 0, backoff |-> 0, reason |-> "",
           lease |-> NoToken, leaseUntil |-> 0,
           checkLease |-> NoToken, checkUntil |-> 0,
           checkOK |-> FALSE, nextCheck |-> 0, checkBackoff |-> 0]

(* What a finished attempt reports (gateway.go:405).  auth is a key-scoped *)
(* failure, limited a 429, immediate a missing capability, slow a first-   *)
(* token timeout.                                                          *)
Outcomes == [kind : {"success", "neutral", "slow"}, retry : {0}]
              \cup [kind : {"plain", "limited", "immediate", "auth", "quota"},
                    retry : RetryAfters]

KeyScoped(o) == o.kind \in {"auth", "quota"}
ReasonOf(o)  == IF o.kind = "quota" THEN "quota" ELSE "failure"
Weight(o)    == IF o.kind = "slow" THEN FTTWeight ELSE 1
-----------------------------------------------------------------------------
closeCircuit(r) ==
  [gen |-> r.gen + 1, open |-> FALSE, fails |-> <<>>, tries |-> <<>>,
   openedAt |-> now, until |-> 0, backoff |-> 0, reason |-> "",
   lease |-> NoToken, leaseUntil |-> 0, checkLease |-> NoToken, checkUntil |-> 0,
   checkOK |-> r.checkOK, nextCheck |-> 0, checkBackoff |-> 0]

openCircuit(r, o) ==
  LET seconds == openSeconds(r.open, r.backoff, o.retry)
  IN  [gen |-> r.gen + 1, open |-> TRUE, fails |-> r.fails, tries |-> r.tries,
       openedAt |-> now, until |-> now + seconds,
       backoff |-> MinOf(seconds, MaxCooldownSec), reason |-> ReasonOf(o),
       lease |-> NoToken, leaseUntil |-> 0, checkLease |-> NoToken, checkUntil |-> 0,
       checkOK |-> FALSE, nextCheck |-> 0, checkBackoff |-> 0]

\* Mutant: an expired lease still owns its gate.
Owned_Expired(r, a) == r.lease = a

Owned(r, a) == r.lease = a /\ r.leaseUntil > now

(* A result is dropped when the gate has moved on since the admission, or  *)
(* the gate is open and the attempt no longer holds its lease.             *)
Stale(r, a, gen) == gen # r.gen \/ (r.open /\ ~Owned(r, a))

\* Mutant: a neutral outcome is thrown away whole.
NeutralRow_Ignored(r, a) == r

NeutralRow(r, a) ==
  IF Owned(r, a) THEN [r EXCEPT !.lease = NoToken, !.leaseUntil = 0,
                                !.checkLease = NoToken, !.checkUntil = 0]
                 ELSE r

SuccessRow(r) ==
  IF r.open THEN closeCircuit(r)
  ELSE [r EXCEPT !.fails = <<>>, !.backoff = 0, !.reason = "",
                 !.lease = NoToken, !.leaseUntil = 0,
                 !.checkLease = NoToken, !.checkUntil = 0]

Tried(r) == [r EXCEPT !.tries = trackTimestamp(@, now, now - WindowSec, MaxAttempts)]

(* The key's row: only authentication and quota failures, or the failure   *)
(* of its own validation, shut it.                                         *)
ObservedKey(r, a, gen, o) ==
  IF Stale(r, a, gen) THEN r
  ELSE CASE o.kind = "neutral" -> NeutralRow(r, a)
         [] o.kind = "success" -> SuccessRow(r)
         [] OTHER -> IF KeyScoped(o) \/ Owned(r, a) THEN openCircuit(r, o) ELSE r

Failed(r, o) ==
  [Tried(r) EXCEPT !.fails = WithFailure(@, Weight(o), now, now - WindowSec)]

Tripped(r) ==
  \/ Len(r.fails) >= circuitThreshold(Len(r.tries))
  \/ sustainedFailure(Len(r.tries), Len(r.fails))

ObservedDim(r, a, gen, o) ==
  IF Stale(r, a, gen) THEN r
  ELSE CASE o.kind = "neutral" -> NeutralRow(r, a)
         [] o.kind = "success" -> SuccessRow(Tried(r))
         [] OTHER ->
              IF KeyScoped(o) /\ ~Owned(r, a) THEN r
              ELSE IF \/ Owned(r, a) \/ o.kind \in {"limited", "immediate"}
                      \/ Tripped(Failed(r, o))
                   THEN openCircuit(Failed(r, o), o)
                   ELSE Failed(r, o)
-----------------------------------------------------------------------------
Idle == [ph |-> "idle"]
Done == [ph |-> "done"]
Lost == [ph |-> "lost"]

Flying(a) == att[a].ph = "flying"

Init ==
  /\ now = 1
  /\ gate = [s \in Scopes |-> NewRow]
  /\ att = [a \in Attempts |-> Idle]
  /\ chk = [c \in Checks |-> Idle]
  /\ bal = [u \in Upstreams |-> 0]
  /\ seen = {}

(* An open gate admits only a recovery validation, after its cooldown and  *)
(* while nobody else validates it; a key-wide validation also waits for    *)
(* every other gate of the key.                                            *)
Admits(d, recovery) ==
  /\ \A s \in Scope(d) :
       gate[s].open => recovery /\ ~Cooling(s) /\ ~Busy(s)
  /\ gate[KeyOf[d]].open =>
       \A s \in ScopesOfKey(KeyOf[d]) \ {KeyOf[d]} : ~Busy(s)

LeaseEnd == now + LeaseTTL

(* A request sends its attempts one after the other.                       *)
AdmitRequest(a, d, recovery) ==
  /\ att[a] = Idle
  /\ \A b \in Attempts : RequestOf[b] = RequestOf[a] => ~Flying(b)
  /\ Admits(d, recovery)
  /\ gate' = [s \in Scopes |->
                IF s \in Scope(d) /\ gate[s].open
                THEN [gate[s] EXCEPT !.lease = a, !.leaseUntil = LeaseEnd]
                ELSE gate[s]]
  /\ att' = [att EXCEPT ![a] =
               [ph |-> "flying", dim |-> d, rec |-> recovery, out |-> FALSE,
                start |-> now, gens |-> [s \in Scope(d) |-> gate[s].gen]]]
  /\ UNCHANGED <<now, chk, bal, seen>>

(* First validated output of a validating stream closes the gates still    *)
(* owned; the admission follows the new generations.  A failed write only  *)
(* burns the one chance to do so.                                          *)
Releasable(a) ==
  {s \in Scope(att[a].dim) :
     /\ gate[s].gen = att[a].gens[s] /\ gate[s].open /\ Owned(gate[s], a)}

ReleaseOnOutput(a, stored) ==
  /\ Flying(a) /\ att[a].rec /\ ~att[a].out
  /\ LET released == IF stored THEN Releasable(a) ELSE {}
     IN  /\ gate' = [s \in Scopes |-> IF s \in released THEN closeCircuit(gate[s])
                                                       ELSE gate[s]]
         /\ att' = [att EXCEPT
              ![a].out = TRUE,
              ![a].gens = [s \in DOMAIN @ |-> IF s \in released THEN @[s] + 1 ELSE @[s]]]
  /\ UNCHANGED <<now, chk, bal, seen>>

(* Final settlement, once per attempt.  A (dimension, request) pair that   *)
(* was observed before is ignored whole.                                   *)
Observe(a, o) ==
  /\ Flying(a)
  /\ LET d == att[a].dim
         k == KeyOf[d]
         pair == <<d, RequestOf[a]>>
     IN  /\ gate' = IF pair \in seen THEN gate
                    ELSE [gate EXCEPT
                            ![k] = ObservedKey(@, a, att[a].gens[k], o),
                            ![d] = ObservedDim(@, a, att[a].gens[d], o)]
         /\ seen' = seen \cup {pair}
  /\ att' = [att EXCEPT ![a] = Done]
  /\ UNCHANGED <<now, chk, bal>>

(* The process dies, or the database refuses the final write: the attempt  *)
(* never settles and its leases are left to expire.                        *)
AttemptLost(a) ==
  /\ Flying(a)
  /\ att' = [att EXCEPT ![a] = Lost]
  /\ UNCHANGED <<now, gate, chk, bal, seen>>
-----------------------------------------------------------------------------
(* pendingRecoveries reads a due gate without reserving anything.          *)
Scan(c, s) ==
  /\ chk[c].ph = "idle"
  /\ gate[s].open /\ ~Cooling(s) /\ ~Busy(s) /\ ~Backing(s)
  /\ chk' = [chk EXCEPT ![c] = [ph |-> "queued", scope |-> s, gen |-> gate[s].gen]]
  /\ UNCHANGED <<now, gate, att, bal, seen>>

ActiveChecks == {s \in Scopes : CheckLive(s)}

CapacityLeft == Cardinality(ActiveChecks) < CheckLimit

\* Mutant: a check ignores the leases of business validations.
Claimable_IgnoresLease(s, gen) ==
  LET k == KeyScope(s)
  IN  /\ s # k => ~(gate[k].open /\ (Cooling(k) \/ Backing(k)))
      /\ \A q \in (IF s = k THEN ScopesOfKey(k) ELSE {s, k}) : ~CheckLive(q)
      /\ gate[s].gen = gen /\ gate[s].open /\ ~Cooling(s) /\ ~Backing(s)

Claimable(s, gen) ==
  LET k == KeyScope(s)
  IN  /\ s # k => ~(gate[k].open /\ (Cooling(k) \/ Backing(k)))
      /\ \A q \in (IF s = k THEN ScopesOfKey(k) ELSE {s, k}) : ~Busy(q)
      /\ gate[s].gen = gen /\ gate[s].open /\ ~Cooling(s) /\ ~Backing(s)

ClaimCheck(c) ==
  /\ chk[c].ph = "queued"
  /\ CapacityLeft
  /\ LET s == chk[c].scope
     IN  IF Claimable(s, chk[c].gen)
         THEN /\ gate' = [gate EXCEPT ![s].checkLease = c,
                                      ![s].checkUntil = now + CheckTTL,
                                      ![s].checkOK = FALSE]
              /\ chk' = [chk EXCEPT ![c] = [ph |-> "running", scope |-> s,
                                            gen |-> gate[s].gen, start |-> now]]
         ELSE /\ chk' = [chk EXCEPT ![c] = Idle]
              /\ UNCHANGED gate
  /\ UNCHANGED <<now, att, bal, seen>>

CheckedRow(r, result, retry) ==
  LET b == IF result = "failure" THEN nextCheckBackoff(r.checkBackoff)
                                 ELSE r.checkBackoff
      delay == IF result = "failure" THEN b ELSE NeutralDelay
      rested == [r EXCEPT !.checkLease = NoToken, !.checkUntil = 0,
                          !.checkOK = (result = "success")]
  IN  IF result = "success" THEN closeCircuit(rested)
      ELSE [rested EXCEPT !.checkBackoff = b, !.nextCheck = now + MaxOf(delay, retry)]

(* Only the current unexpired claim settles the gate.                      *)
FinishCheck(c, result, retry) ==
  /\ chk[c].ph = "running"
  /\ LET s == chk[c].scope
         r == gate[s]
     IN  gate' = IF r.open /\ r.checkLease = c /\ r.checkUntil > now
                 THEN [gate EXCEPT ![s] = CheckedRow(@, result, retry)]
                 ELSE gate
  /\ chk' = [chk EXCEPT ![c] = Done]
  /\ UNCHANGED <<now, att, bal, seen>>

CheckLost(c) ==
  /\ chk[c].ph = "running"
  /\ chk' = [chk EXCEPT ![c] = Lost]
  /\ UNCHANGED <<now, gate, att, bal, seen>>
-----------------------------------------------------------------------------
(* RefreshUpstreamBalance notes the time, fetches, and only then touches   *)
(* the gates.                                                              *)
StartBalance(u) ==
  /\ bal[u] = 0
  /\ bal' = [bal EXCEPT ![u] = now]
  /\ UNCHANGED <<now, gate, att, chk, seen>>

QuotaGates(u) ==
  {s \in Scopes : /\ UpstreamOf[KeyScope(s)] = u /\ gate[s].open
                  /\ gate[s].reason = "quota" /\ gate[s].openedAt <= bal[u]}

ReleasedRow(r) == [closeCircuit(r) EXCEPT !.tries = r.tries, !.checkOK = FALSE]

FinishBalance(u, positive) ==
  /\ bal[u] # 0
  /\ gate' = [s \in Scopes |-> IF positive /\ s \in QuotaGates(u)
                               THEN ReleasedRow(gate[s]) ELSE gate[s]]
  /\ bal' = [bal EXCEPT ![u] = 0]
  /\ UNCHANGED <<now, att, chk, seen>>

(* Time does not pass an attempt's or a check's own deadline.              *)
Tick ==
  /\ now < MaxTime
  /\ \A a \in Attempts : Flying(a) => now < att[a].start + MaxFlight
  /\ \A c \in Checks : chk[c].ph = "running" => now < chk[c].start + CheckTimeout
  /\ now' = now + 1
  /\ UNCHANGED <<gate, att, chk, bal, seen>>

Next ==
  \/ \E a \in Attempts, d \in Dims, recovery \in BOOLEAN : AdmitRequest(a, d, recovery)
  \/ \E a \in Attempts, stored \in BOOLEAN : ReleaseOnOutput(a, stored)
  \/ \E a \in Attempts, o \in Outcomes : Observe(a, o)
  \/ \E a \in Attempts : AttemptLost(a)
  \/ \E c \in Checks, s \in Scopes : Scan(c, s)
  \/ \E c \in Checks : ClaimCheck(c)
  \/ \E c \in Checks, result \in {"success", "failure", "neutral"}, retry \in RetryAfters :
       FinishCheck(c, result, retry)
  \/ \E c \in Checks : CheckLost(c)
  \/ \E u \in Upstreams : StartBalance(u)
  \/ \E u \in Upstreams, positive \in BOOLEAN : FinishBalance(u, positive)
  \/ Tick

Spec == Init /\ [][Next]_vars
-----------------------------------------------------------------------------
AttemptTypeOK(a) ==
  \/ att[a] \in {Idle, Done, Lost}
  \/ att[a] \in [ph : {"flying"}, dim : Dims, rec : BOOLEAN, out : BOOLEAN,
                 start : Nat, gens : [Scope(att[a].dim) -> Nat]]

CheckTypeOK(c) ==
  chk[c] \in {Idle, Done, Lost} \cup [ph : {"queued"}, scope : Scopes, gen : Nat]
            \cup [ph : {"running"}, scope : Scopes, gen : Nat, start : Nat]

(* Every row, attempt, check and balance fetch has its shape, and no       *)
(* timestamp window outgrows the bound that keeps its JSON column small    *)
(* (store.go:87).                                                          *)
TypeOK ==
  /\ now \in Nat
  /\ gate \in [Scopes -> Row]
  /\ \A s \in Scopes : Len(gate[s].fails) <= MaxFailures /\ Len(gate[s].tries) <= MaxAttempts
  /\ DOMAIN att = Attempts /\ \A a \in Attempts : AttemptTypeOK(a)
  /\ DOMAIN chk = Checks /\ \A c \in Checks : CheckTypeOK(c)
  /\ bal \in [Upstreams -> Nat]

(* A live lease or check claim sits only on a gate that is open and past   *)
(* its cooldown: whatever shuts or closes a gate (open, closeCircuit, a    *)
(* balance release) takes the claims with it, so recovery never bypasses a *)
(* retry deadline.                                                         *)
ClaimsOnlyOnDueGates ==
  \A s \in Scopes : Busy(s) => gate[s].open /\ ~Cooling(s)

ExclusiveOnGate == \A s \in Scopes : ~(LeaseLive(s) /\ CheckLive(s))

ExclusiveOnKey ==
  \A d \in Dims :
    LET k == KeyOf[d]
    IN  /\ CheckLive(k) => ~Busy(d)
        /\ LeaseLive(k) => ~CheckLive(d) /\ (LeaseLive(d) => gate[d].lease = gate[k].lease)

(* Live check claims never exceed the limit that ClaimCheck serialises on  *)
(* the shared budget row, however many workers race for it.                *)
ChecksWithinLimit == Cardinality(ActiveChecks) <= CheckLimit

(* Business validation and synthetic checks exclude each other, on a gate  *)
(* and across a key: while the key-wide gate is being validated, no other  *)
(* gate of the key is validated by anyone else, and while it is being      *)
(* checked none is at all; and the checks exclude each other beyond the    *)
(* limit, although an expired claim makes room (AdmitRequest, ClaimCheck). *)
ClaimsExclude == ExclusiveOnGate /\ ExclusiveOnKey /\ ChecksWithinLimit

(* A live lease belongs to an attempt that can still settle it, or that    *)
(* died with it: its holder was admitted under the gate's current          *)
(* generation and has not settled.  A settlement that leaves its lease     *)
(* behind would shut the gate for the rest of the 330 seconds.             *)
LiveLeaseHasHolder ==
  \A s \in Scopes : LeaseLive(s) =>
    LET a == gate[s].lease
    IN  \/ att[a] = Lost
        \/ Flying(a) /\ s \in Scope(att[a].dim) /\ att[a].gens[s] = gate[s].gen

(* Evidence on an open gate: the validation or check that holds the live   *)
(* claim and began after the gate was last shut, or a balance fetch that   *)
(* began after the quota failure.                                          *)
ValidatedBy(s) ==
  LET a == gate[s].lease
  IN  /\ LeaseLive(s) /\ Flying(a) /\ att[a].start >= gate[s].openedAt
      /\ att'[a] # att[a]

CheckedBy(s) ==
  LET c == gate[s].checkLease
  IN  /\ CheckLive(s) /\ chk[c].ph = "running" /\ chk[c].start >= gate[s].openedAt
      /\ chk'[c] # chk[c]

FundedBy(s) ==
  LET u == UpstreamOf[KeyScope(s)]
  IN  /\ gate[s].reason = "quota" /\ bal[u] >= gate[s].openedAt
      /\ bal'[u] = 0

(* An open gate closes, or shuts again, only on fresh evidence from the    *)
(* holder of its live claim: late results, expired leases and claims,      *)
(* admissions of an earlier generation and balances fetched before the     *)
(* failure leave it as it is (Observe, ReleaseOnOutput, FinishCheck,       *)
(* releaseBalanceCooldowns).                                               *)
OpenGateMovedByFreshEvidence ==
  [][\A s \in Scopes :
       gate[s].open /\ gate'[s].gen # gate[s].gen =>
         \/ ValidatedBy(s) \/ CheckedBy(s)
         \/ FundedBy(s) /\ ~gate'[s].open]_vars

(* Generations never go back, and count exactly the openings and closings  *)
(* (open, closeCircuit, releaseBalanceCooldowns): while a gate's           *)
(* generation stands, so do its state, its opening time and its deadline,  *)
(* and every admission that carries the generation stays valid.            *)
GenerationCountsMoves ==
  [][\A s \in Scopes :
       /\ gate'[s].gen \in {gate[s].gen, gate[s].gen + 1}
       /\ gate'[s].gen = gate[s].gen =>
            /\ gate'[s].open = gate[s].open /\ gate'[s].openedAt = gate[s].openedAt
            /\ gate'[s].until = gate[s].until]_vars
=============================================================================
