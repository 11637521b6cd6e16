--------------------------- MODULE CandidateOrder ---------------------------
(***************************************************************************)
(* How the band picker ranks keys by what they did lately (picker/band.go, *)
(* picker/score.go, metrics/window.go).  Every scored attempt leaves a     *)
(* sample in the window of its key and model and in the key's window over  *)
(* all models; a key with too few samples of a model is judged by the      *)
(* wider window, and one with too few there by a prior.  Keys whose        *)
(* quality is close to the best form the band and are ordered by the       *)
(* ranking mode; the others get traffic only when a request without a      *)
(* session holds an exploration slot.                                      *)
(*                                                                         *)
(* The windows live in Redis (kept across a restart) or in memory (lost,   *)
(* and read back from the request logs once per key and model).  Which     *)
(* keys the gates of inspect reject is an input of a pick, the slot too    *)
(* (RoutingBudget), and a key under recovery (RoutingPick) never gets      *)
(* here.  A window is the sequence of its live samples, newest first.      *)
(***************************************************************************)
EXTENDS Integers, Sequences, FiniteSets

CONSTANTS
  Ranked,          \* the platform keys, as their ids
  Served,          \* the models asked for
  AllModels,       \* names a key's window over all its models
  Flights,         \* attempts that may be under way
  ProviderOf, RateOf,   \* upstream_id and rate_multiplier of a key
  Slowness,        \* its time to first token, out of TTFTCap
  Cached,          \* its cache rate, in tenths
  AffinityOf,      \* affinityScore of the one session, per key
  TTFTCap,
  MinSamples, MaxSamples, Horizon,  \* min_samples, window_max_samples, window_minutes
  Prior, Epsilon,                   \* prior_success and epsilon, in tenths
  WeightSuccess, WeightCache, WeightTTFT,
  Proven,          \* keys that start with a good record
  Offers,          \* sets of keys the gates may leave
  MaxPicks         \* bound

ASSUME OrderAssumption ==
  /\ Ranked \subseteq Nat \ {0} /\ IsFiniteSet(Ranked) /\ AllModels \notin Served
  /\ MinSamples \in Nat \ {0} /\ MaxSamples \in Nat /\ MinSamples <= MaxSamples
  /\ Horizon \in Nat \ {0} /\ MaxPicks \in Nat

VARIABLES
  kept,      \* the windows are in Redis
  win,       \* per key and window: its samples
  logs,      \* per key: request_logs rows that a backfill reads
  filled,    \* key and model pairs read back since the start
  flight,    \* attempts under way
  picked,    \* picks made
  waited     \* history: per key and model, slots given to others while unmeasured

orderVars == <<kept, win, logs, filled, flight, picked, waited>>

Landed == [key |-> 0, model |-> AllModels, explores |-> FALSE]
NobodyWaits == [k \in Ranked |-> [m \in Served |-> 0]]
NoSamples == [b \in Served \cup {AllModels} |-> <<>>]

Latest(s) == SubSeq(s, 1, IF Len(s) > MaxSamples THEN MaxSamples ELSE Len(s))
Alive(s) == SelectSeq(s, LAMBDA x : x.age < Horizon)
Older(s) == Alive([i \in DOMAIN s |-> [s[i] EXCEPT !.age = @ + 1]])
Good(s) == Len(SelectSeq(s, LAMBDA x : x.ok))

-----------------------------------------------------------------------------
(* The evidence on a key *)

\* The window a key is judged by: the model's own, or the wider one while
\* the own one is thin and the wider one has more.
Window(of, m) ==
  IF Len(of[m]) < MinSamples /\ Len(of[AllModels]) > Len(of[m]) THEN of[AllModels] ELSE of[m]

\* A backfill reads the newest rows of the model, or of the key if the model
\* has none, and observes them again.
Rows(k, m) ==
  LET own == SelectSeq(logs[k], LAMBDA x : x.model = m) IN
  Latest(IF own = <<>> THEN logs[k] ELSE own)

backfillOnce(k, m) ==
  IF Window(win[k], m) # <<>> \/ <<k, m>> \in filled THEN win[k]
  ELSE [b \in Served \cup {AllModels} |->
          IF b = AllModels THEN Rows(k, m) ELSE SelectSeq(Rows(k, m), LAMBDA x : x.model = b)]

Observe(of, x) ==
  [b \in Served \cup {AllModels} |-> IF b \in {x.model, AllModels} THEN Latest(<<x>> \o of[b]) ELSE of[b]]

\* Quality as a fraction <<num, den>>: the weighted mean of the terms that
\* were observed.  A failed attempt has no first token and no usage.
Quality(k, w) ==
  LET n == Len(w)  ok == Good(w)
      success == IF n < MinSamples THEN <<Prior, 10>> ELSE <<ok, n>>
      seen == ok > 0
      latency == <<TTFTCap - Slowness[k], TTFTCap>>
      wt == IF seen THEN WeightTTFT ELSE 0
      wc == IF seen THEN WeightCache ELSE 0
  IN <<WeightSuccess * success[1] * latency[2] * 10 + wt * latency[1] * success[2] * 10
         + wc * Cached[k] * success[2] * latency[2],
       (WeightSuccess + wt + wc) * success[2] * latency[2] * 10>>

\* Twenty times the effective cost.
EffectiveCost(k, w) == RateOf[k] * (20 - (IF Good(w) > 0 THEN Cached[k] ELSE 0))

KnownBad(w) == Len(w) >= 3 /\ 10 * Good(w) < 8 * Len(w)

-----------------------------------------------------------------------------
(* The choice *)

effectiveRankingMode(configured, session) ==
  CASE configured # "adaptive" -> configured
    [] session -> "cache_affinity"
    [] OTHER -> "load_balance"

\* w: the judged window of each eligible key.
Band(w) ==
  {k \in DOMAIN w : \A j \in DOMAIN w :
     LET a == Quality(k, w[k])  b == Quality(j, w[j]) IN
     a[1] * b[2] * 10 >= b[1] * a[2] * (10 - Epsilon)}

KeyInflight(k) == Cardinality({f \in Flights : flight[f].key = k})
ProviderInflight(k) == Cardinality({f \in Flights : flight[f].key # 0 /\ ProviderOf[flight[f].key] = ProviderOf[k]})

\* The order of each mode, as a tuple compared from the left.
Precedence(k, w, by) ==
  CASE by = "fixed_order" -> <<0, 0, 0, k>>
    [] by = "cache_affinity" -> <<0, -AffinityOf[k], EffectiveCost(k, w), k>>
    [] by = "load_balance" -> <<KeyInflight(k), ProviderInflight(k), EffectiveCost(k, w), k>>

Before(a, b) == \E i \in 1..4 : a[i] < b[i] /\ \A h \in 1..(i - 1) : a[h] = b[h]

candidateLess(a, b, w, by) == Before(Precedence(a, w[a], by), Precedence(b, w[b], by))

First(band, w, by) == CHOOSE k \in band : \A j \in band \ {k} : candidateLess(k, j, w, by)

\* Eligible keys outside the band that exploration may feed, the coldest of
\* them, and the ones it has yet to measure.
Explorable(w) == {k \in DOMAIN w \ Band(w) : ~KnownBad(w[k])}
\* Mutant: the lowest id instead of the coldest.
Colder_ById(a, b, w) == a < b

Colder(a, b, w) == Len(w[a]) < Len(w[b]) \/ (Len(w[a]) = Len(w[b]) /\ a < b)
coldestOutBand(out, w) == CHOOSE k \in out : \A j \in out \ {k} : Colder(k, j, w)
Unmeasured(out, w) == {k \in out : Len(w[k]) < MinSamples}

\* r: the ranking mode, whether the request has a session, the key the
\* session is bound to, and whether it holds an exploration slot.
Explores(out, r) == r.slot /\ ~r.session /\ out # {}

evaluate(w, r) ==
  LET by == effectiveRankingMode(r.mode, r.session)
      out == Explorable(w)
      band == Band(w)
  IN CASE Explores(out, r) -> coldestOutBand(out, w)
       [] ~Explores(out, r) /\ by = "cache_affinity" /\ r.bound \in band -> r.bound
       [] OTHER -> First(band, w, by)

-----------------------------------------------------------------------------
(* The steps *)

\* An earlier process has served the keys of Proven well.
OrderInit ==
  /\ kept \in BOOLEAN
  /\ \E m \in Served :
       LET good == [i \in 1..MinSamples |-> [model |-> m, ok |-> TRUE, age |-> 0]] IN
       /\ logs = [k \in Ranked |-> IF k \in Proven THEN good ELSE <<>>]
       /\ win = [k \in Ranked |-> IF kept /\ k \in Proven THEN [NoSamples EXCEPT ![m] = good, ![AllModels] = good]
                                  ELSE NoSamples]
  /\ filled = {} /\ flight = [f \in Flights |-> Landed] /\ picked = 0 /\ waited = NobodyWaits

\* PickDecision: judge the eligible keys, reading the ones without samples
\* back from the logs, and choose.
PickKey(f, m, eligible, r) ==
  /\ flight[f].key = 0 /\ picked < MaxPicks
  /\ LET known == [k \in eligible |-> backfillOnce(k, m)]
         w == [k \in eligible |-> Window(known[k], m)]
         out == Explorable(w)
         explores == Explores(out, r)
         chosen == evaluate(w, r)
     IN /\ win' = [k \in Ranked |-> IF k \in eligible THEN known[k] ELSE win[k]]
        /\ filled' = filled \cup {<<k, m>> : k \in {j \in eligible : Window(win[j], m) = <<>>}}
        /\ flight' = [flight EXCEPT ![f] = [key |-> chosen, model |-> m, explores |-> explores]]
        /\ waited' = [k \in Ranked |-> [waited[k] EXCEPT ![m] =
             CASE k \notin eligible -> @
               [] k \in eligible \ Unmeasured(out, w) -> 0
               [] OTHER -> IF explores /\ k # chosen THEN @ + 1 ELSE @]]
  /\ picked' = picked + 1
  /\ UNCHANGED <<kept, logs>>

\* completeAttempt: a success, and a failure that says something of the key,
\* leave a sample and a row; the others (a refusal, a cancelled client,
\* arrears) leave neither.
FinishAttempt(f, result) ==
  /\ flight[f].key # 0
  /\ LET a == flight[f]
         x == [model |-> a.model, ok |-> result = "success", age |-> 0]
     IN IF result = "unscored"
        THEN /\ waited' = IF a.explores THEN NobodyWaits ELSE waited
             /\ UNCHANGED <<win, logs>>
        ELSE /\ win' = [win EXCEPT ![a.key] = Observe(@, x)]
             /\ logs' = [logs EXCEPT ![a.key] = <<x>> \o @]
             /\ UNCHANGED waited
  /\ flight' = [flight EXCEPT ![f] = Landed]
  /\ UNCHANGED <<kept, filled, picked>>

\* Time passes and samples leave their windows.
WindowAges ==
  /\ \E k \in Ranked : logs[k] # <<>>
  /\ win' = [k \in Ranked |-> [b \in DOMAIN win[k] |-> Older(win[k][b])]]
  /\ logs' = [k \in Ranked |-> Older(logs[k])]
  /\ waited' = NobodyWaits
  /\ UNCHANGED <<kept, filled, flight, picked>>

\* A new process: windows in memory are gone.
RestartPicker ==
  /\ filled # {} /\ \A f \in Flights : flight[f].key = 0
  /\ filled' = {}
  /\ win' = IF kept THEN win ELSE [k \in Ranked |-> NoSamples]
  /\ UNCHANGED <<kept, logs, flight, picked, waited>>

Asked ==
  [mode: {"adaptive", "fixed_order"}, session: {FALSE}, bound: {0}, slot: BOOLEAN]
    \cup [mode: {"adaptive"}, session: {TRUE}, bound: Ranked \cup {0}, slot: {FALSE}]

OrderNext ==
  \/ \E f \in Flights, m \in Served, eligible \in Offers, r \in Asked : PickKey(f, m, eligible, r)
  \/ \E f \in Flights, result \in {"success", "failure", "unscored"} : FinishAttempt(f, result)
  \/ WindowAges
  \/ RestartPicker

OrderSpec == OrderInit /\ [][OrderNext]_orderVars

-----------------------------------------------------------------------------
\* Exploration starves nobody (band.go:223-227: "band ranking otherwise
\* starves out-of-band keys"; band.go:242-245).  While no sample expires and
\* every slot measures the key it went to, an eligible key outside the band
\* whose record is not known to be bad sees at most as many slots go to
\* others as it takes to measure each of the other keys outside the band;
\* then it is measured itself.  Keys that stay outside the band for being
\* slow, keys that fail, a record judged by the wider window, a restart and
\* a backfill do not change that.
MeasuredInTime ==
  \A k \in Ranked, m \in Served :
     waited[k][m] <= (Cardinality(Ranked) - 2) * (MinSamples + Cardinality(Flights) - 1)
=============================================================================
