------------------------------- MODULE Capacity -----------------------------
(***************************************************************************)
(* What bounds the requests of one instance: the rate and concurrency of   *)
(* keys and providers that attempts reserve (picker/band.go) and the rate  *)
(* of a consumer (handler/gateway.go rpmLimiter).  An action is what runs  *)
(* under the limiter's mutex at a time.                                    *)
(*                                                                         *)
(* Reservations are numbered in the order of their times; those up to cut  *)
(* are more than a minute old.  A window is the slice of times the code    *)
(* keeps: pruning compacts it in place.                                    *)
(***************************************************************************)
EXTENDS Naturals, Sequences, FiniteSets, Collections

CONSTANTS
  Keys, Providers, Consumers,
  ProviderOf,      \* Keys -> Providers
  RPMLimit,        \* Keys -> Nat, 0 for no limit
  MaxConcurrency,  \* Keys -> Nat, 0 for no limit
  Concurrency,     \* Providers -> Nat, 0 for no limit
  ConsumerRPM,     \* a consumer's requests in a minute, 0 for no limit
  MaxTimes         \* bound: reservations and consumer requests made

ASSUME CapacityAssumption ==
  /\ ProviderOf \in [Keys -> Providers]
  /\ RPMLimit \in [Keys -> Nat] /\ MaxConcurrency \in [Keys -> Nat]
  /\ Concurrency \in [Providers -> Nat] /\ ConsumerRPM \in Nat /\ MaxTimes \in Nat

VARIABLES
  next,              \* number of the next reservation
  cut,               \* the last one older than a minute
  rpm,               \* runtimeState.rpm: a window for each key
  keyInflight, providerInflight,
  hits,              \* rpmLimiter.windows
  at                 \* reservations made: key and what became of them

capacityVars == <<next, cut, rpm, keyInflight, providerInflight, hits, at>>

CapacityInit ==
  /\ next = 1 /\ cut = 0 /\ at = <<>>
  /\ rpm = [k \in Keys |-> <<>>] /\ hits = [c \in Consumers |-> <<>>]
  /\ keyInflight = [k \in Keys |-> 0] /\ providerInflight = [p \in Providers |-> 0]
-----------------------------------------------------------------------------
After(i) == i > cut

\* The loop that prunes: entries of the last minute, in their order.
Alive(window) == Kept(window, {i \in Nat : After(i)})

(* The loop writes the living entries to the front of the same array; a    *)
(* caller that keeps the longer slice sees them again behind.              *)
Compacted(window) ==
  LET keep == Alive(window)
  IN  keep \o SubSeq(window, Len(keep) + 1, Len(window))

Limited(n, limit) == limit > 0 /\ n >= limit

\* resourceSnapshot of a pick stores the pruned window.
resourceSnapshot(k) ==
  /\ rpm' = [rpm EXCEPT ![k] = Alive(@)]
  /\ UNCHANGED <<next, cut, keyInflight, providerInflight, hits, at>>

\* Why tryAcquire refuses, the first reason that applies.
Refusal(k) ==
  IF Limited(Len(Alive(rpm[k])), RPMLimit[k]) THEN "rpm"
  ELSE IF Limited(keyInflight[k], MaxConcurrency[k]) THEN "key"
  ELSE IF Limited(providerInflight[ProviderOf[k]], Concurrency[ProviderOf[k]]) THEN "provider"
  ELSE ""

\* tryAcquire refused: only the refusal for the rate stores the pruned window.
refuse(k) ==
  /\ Refusal(k) # ""
  /\ rpm' = [rpm EXCEPT ![k] = IF Refusal(k) = "rpm" THEN Alive(@) ELSE Compacted(@)]
  /\ UNCHANGED <<next, cut, keyInflight, providerInflight, hits, at>>

Reserve(windows, k) == [windows EXCEPT ![k] = Append(Alive(@), next)]

tryAcquire(k) ==
  /\ Refusal(k) = "" /\ next <= MaxTimes
  /\ rpm' = Reserve(rpm, k)
  /\ keyInflight' = [keyInflight EXCEPT ![k] = @ + 1]
  /\ providerInflight' = [providerInflight EXCEPT ![ProviderOf[k]] = @ + 1]
  /\ at' = Append(at, [key |-> k, st |-> "held"])
  /\ next' = next + 1
  /\ UNCHANGED <<cut, hits>>

\* The first entry of that time leaves the window.
Without(window, i) ==
  LET found == {n \in DOMAIN window : window[n] = i}
      first == CHOOSE n \in found : \A m \in found : n <= m
  IN  IF found = {} THEN window
      ELSE SubSeq(window, 1, first - 1) \o SubSeq(window, first + 1, Len(window))

\* Mutant: the newest reservation is refunded, whoever made it.
Refund_Last(window, i) == IF window = <<>> THEN window ELSE SubSeq(window, 1, Len(window) - 1)

Refund(window, i) == Without(window, i)

\* Counters at one or below are deleted from the map.
Dec(n) == IF n > 1 THEN n - 1 ELSE 0

(* The function TryAcquireAttempt returned, called by forwardOnce's defer. *)
(* Of an attempt that was not sent the window's part goes first, under a   *)
(* lock of its own.  Later calls do nothing.                               *)
refund(i) ==
  /\ at[i].st = "held"
  /\ rpm' = [rpm EXCEPT ![at[i].key] = Refund(@, i)]
  /\ at' = [at EXCEPT ![i].st = "refunded"]
  /\ UNCHANGED <<next, cut, keyInflight, providerInflight, hits>>

Release(i) ==
  /\ at[i].st \in {"held", "refunded"}
  /\ LET k == at[i].key
     IN  /\ keyInflight' = [keyInflight EXCEPT ![k] = Dec(@)]
         /\ providerInflight' = [providerInflight EXCEPT ![ProviderOf[k]] = Dec(@)]
  /\ at' = [at EXCEPT ![i].st = IF @ = "held" THEN "sent" ELSE "skipped"]
  /\ UNCHANGED <<next, cut, rpm, hits>>

Allowed(c) == ~Limited(Len(Alive(hits[c])), ConsumerRPM)

\* rpmLimiter.Allow; without a limit it keeps no window.
Allow(c) ==
  /\ ConsumerRPM > 0
  /\ IF Allowed(c)
     THEN /\ next <= MaxTimes
          /\ hits' = [hits EXCEPT ![c] = Append(Alive(@), next)]
          /\ at' = Append(at, [key |-> c, st |-> "request"])
          /\ next' = next + 1
     ELSE /\ hits' = [hits EXCEPT ![c] = Alive(@)]
          /\ UNCHANGED <<at, next>>
  /\ UNCHANGED <<cut, rpm, keyInflight, providerInflight>>

\* A minute has passed since the oldest reservation that still counts.
Expire ==
  /\ cut + 1 < next
  /\ cut' = cut + 1
  /\ UNCHANGED <<next, rpm, keyInflight, providerInflight, hits, at>>

CapacityNext ==
  \/ \E k \in Keys : resourceSnapshot(k) \/ refuse(k) \/ tryAcquire(k)
  \/ \E i \in DOMAIN at : refund(i) \/ Release(i)
  \/ \E c \in Consumers : Allow(c)
  \/ Expire

CapacitySpec == CapacityInit /\ [][CapacityNext]_capacityVars
-----------------------------------------------------------------------------
Counted == {"held", "refunded"}
Made(k, states) == {i \in DOMAIN at : at[i].key = k /\ at[i].st \in states}

(* Windows hold times of reservations of their own key.                    *)
CapacityTypeOK ==
  /\ next \in 1..(MaxTimes + 1) /\ cut \in 0..MaxTimes /\ Len(at) = next - 1
  /\ \A k \in Keys : \A n \in DOMAIN rpm[k] : rpm[k][n] \in Made(k, {"held", "sent", "refunded", "skipped"})
  /\ \A c \in Consumers : \A n \in DOMAIN hits[c] : hits[c][n] \in Made(c, {"request"})

Within(entries, limit) == limit > 0 => Cardinality({i \in entries : After(i)}) <= limit

(* The counters are the attempts under way, nothing released twice or      *)
(* forgotten whatever order attempts end in (TryAcquireAttempt's Once,     *)
(* Release's deletes).  So no key and no provider serves more at once than *)
(* its limit, and in any minute no key is sent, and no consumer let in,    *)
(* more often than its rate: a limit is checked where it is counted,       *)
(* refunds give back only what is not sent, and pruning loses nothing that *)
(* still counts (tryAcquire, rpmLimiter.Allow).                            *)
LimitsHeld ==
  /\ CapacityTypeOK
  /\ \A k \in Keys : keyInflight[k] = Cardinality(Made(k, Counted))
  /\ \A p \in Providers :
       providerInflight[p] =
         Cardinality(UNION {Made(k, Counted) : k \in {x \in Keys : ProviderOf[x] = p}})
  /\ \A k \in Keys : /\ MaxConcurrency[k] > 0 => keyInflight[k] <= MaxConcurrency[k]
                     /\ Within(Made(k, {"held", "sent"}), RPMLimit[k])
  /\ \A p \in Providers : Concurrency[p] > 0 => providerInflight[p] <= Concurrency[p]
  /\ \A c \in Consumers : Within(Made(c, {"request"}), ConsumerRPM)

(* "Local skips refund only their own RPM slot" (AttemptRuntimeController),*)
(* "a local skip must not spend the one available business RPM slot"       *)
(* (external_probe_test.go): once an unsent attempt is over, its           *)
(* reservation counts no more.                                             *)
SkipRefunded ==
  \A k \in Keys : \A n \in DOMAIN rpm[k] : at[rpm[k][n]].st \notin {"refunded", "skipped"}
=============================================================================
