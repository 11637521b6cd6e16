---------------------------- MODULE ProviderSync ----------------------------
(***************************************************************************)
(* What is stored of one provider and its keys (ops/ops.go,                *)
(* ops/model_sync.go, handler/admin.go): the provider's balance, each      *)
(* key's rate, display name, model list and health column, which the       *)
(* picker and the console read.  Tickers copy them from the provider;      *)
(* operators edit them; a served request marks its key healthy.  Nothing   *)
(* locks: everyone reads rows, talks to the provider, and writes columns   *)
(* computed from what was read.  UpdateUpstream writes the whole row.      *)
(*                                                                         *)
(* The provider has a billing interface (sub2api, new_api).  A balance is  *)
(* enough or not; a rate, a name and a model list are members of small     *)
(* sets; of the healths that requests leave behind, "down" stands for      *)
(* "degraded" too.  Health writes are prepared from one reading of the     *)
(* rows and written one at a time.  BootstrapKey's three fetches run one   *)
(* after the other.                                                        *)
(***************************************************************************)
EXTENDS Naturals, FiniteSets, Functions

CONSTANTS
  Accounts,
  Desks,                 \* threads of operators and of served requests
  Rates, Names, Lists,   \* rates, provider names, model lists
  MaxEvents              \* bound: edits, requests, provider changes, failures

ASSUME SyncAssumption == Accounts # {} /\ MaxEvents \in Nat

VARIABLES
  up,        \* the provider's row
  key,       \* the keys' rows
  real,      \* what the provider would say
  busy,      \* what each thread is doing, and the fetches it owes a key
  events

syncVars == <<up, key, real, busy, events>>

Tickers == {"balance", "billing", "models"}
Threads == Tickers \cup Desks
Rest == [do |-> "rest"]
Task(t) == busy[t].task
Doing(t, what) == Task(t).do = what

Composed(name, rate) == <<name, rate>>

NewRow(on, rate, provider) ==
  [exists |-> TRUE, enabled |-> on, health |-> "healthy", rate |-> rate, name |-> Composed(provider, rate),
   models |-> "unknown", backoff |-> FALSE]

SyncInit ==
  /\ LET n == CHOOSE n \in Names : TRUE
         r == CHOOSE r \in Rates : TRUE
         l == CHOOSE l \in Lists : TRUE
     IN  /\ up = [enabled |-> TRUE, enough |-> TRUE, name |-> n]
         /\ \E K \in SUBSET Accounts :
              key = [k \in Accounts |-> [NewRow(k \in K, r, n) EXCEPT !.exists = k \in K, !.models = l]]
         /\ real = [enough |-> TRUE, rate |-> r, models |-> l]
  /\ busy = [t \in Threads |-> [task |-> Rest, owed |-> {}]] /\ events = 0

Event == events < MaxEvents /\ events' = events + 1
AtRest(t) == Task(t) = Rest /\ busy[t].owed = {}
Becomes(t, task) == busy' = [busy EXCEPT ![t].task = task]
Rows == {k \in Accounts : key[k].exists}
EnabledKeys == {k \in Rows : key[k].enabled}
-----------------------------------------------------------------------------
(* RecomputeHealth after RefreshKeyHealth's reset: a switch or an empty     *)
(* balance shows before what requests have left.                           *)
RecomputeHealth(k, u) ==
  IF ~k.enabled \/ ~u.enabled THEN "disabled"
  ELSE IF ~u.enough THEN "low_balance"
  ELSE IF k.health = "down" THEN "down" ELSE "healthy"

(* RefreshKeyHealth of the keys K one after the other, each read and then  *)
(* written; RefreshAllHealth reads all of them first.                      *)
Refreshing(K) == [do |-> "refresh", left |-> K, seen |-> << >>]

ReadHealth(t) ==
  /\ Doing(t, "refresh") /\ Task(t).seen = << >>
  /\ IF Task(t).left = {} THEN Becomes(t, Rest)
     ELSE \E k \in Task(t).left :
            Becomes(t, [do |-> "refresh", left |-> Task(t).left \ {k},
                        seen |-> [x \in {k} |-> RecomputeHealth(key[x], up)]])
  /\ UNCHANGED <<up, key, real, events>>

ReadAllHealth(t) ==
  /\ Doing(t, "refreshAll")
  /\ Becomes(t, [do |-> "refresh", left |-> {}, seen |-> [k \in Rows |-> RecomputeHealth(key[k], up)]])
  /\ UNCHANGED <<up, key, real, events>>

WriteHealth(t) ==
  /\ Doing(t, "refresh") /\ Task(t).seen # << >>
  /\ \E k \in DOMAIN Task(t).seen :
       /\ key' = [key EXCEPT ![k].health = Task(t).seen[k]]
       /\ LET rest == DOMAIN Task(t).seen \ {k}
          IN  Becomes(t, [Task(t) EXCEPT !.seen = IF rest = {} THEN << >> ELSE Restrict(@, rest)])
  /\ UNCHANGED <<up, real, events>>
-----------------------------------------------------------------------------
(* RefreshUpstreamBalance: the enabled keys are tried in turn; the first   *)
(* answer is stored, and every key's health is refreshed, also when none   *)
(* answered.                                                               *)
Balance == [do |-> "balance", left |-> EnabledKeys]
StartBalance(t) ==
  /\ AtRest(t) /\ EnabledKeys # {}
  /\ Becomes(t, Balance)
  /\ UNCHANGED <<up, key, real>>

fetchKeyBalance(t) ==
  /\ Doing(t, "balance") /\ UNCHANGED <<up, key, real>>
  /\ \/ Becomes(t, [do |-> "apply", enough |-> {real.enough}]) /\ UNCHANGED events
     \/ Becomes(t, [do |-> "apply", enough |-> {}]) /\ Event    \* an answer without an amount
     \/ \E k \in Task(t).left :
          /\ Event
          /\ IF Task(t).left = {k} THEN Becomes(t, Refreshing(Rows))
             ELSE Becomes(t, [Task(t) EXCEPT !.left = @ \ {k}])

applyUpstreamBalance(t) ==
  /\ Doing(t, "apply")
  /\ up' = [up EXCEPT !.enough = IF Task(t).enough = {} THEN @ ELSE TRUE \in Task(t).enough]
  /\ Becomes(t, Refreshing(Rows))
  /\ UNCHANGED <<key, real, events>>

(* RefreshBilling: the rate, and the display name made of the provider's   *)
(* name as it was when the row was read.  An unsupported endpoint is left  *)
(* alone for a day.                                                        *)
Billing(k) == [do |-> "billing", key |-> k, provider |-> up.name]
StartBilling(t, k) ==
  /\ AtRest(t) /\ ~key[k].backoff /\ k \in Rows
  /\ Becomes(t, Billing(k))
  /\ UNCHANGED <<up, key, real>>

FetchBilling(t) ==
  /\ Doing(t, "billing") /\ UNCHANGED <<up, real>>
  /\ \/ /\ Becomes(t, [do |-> "rate", key |-> Task(t).key, provider |-> Task(t).provider, rate |-> real.rate])
        /\ UNCHANGED <<key, events>>
     \/ /\ Event /\ Becomes(t, Rest)
        /\ \/ key' = [key EXCEPT ![Task(t).key].backoff = TRUE]
           \/ UNCHANGED key

\* Mutant: the columns are left alone when the rate is the stored one.
applyBillingRate_Unchanged(t) ==
  /\ Doing(t, "rate")
  /\ LET j == Task(t)
     IN  /\ key' = IF key[j.key].rate = j.rate THEN [key EXCEPT ![j.key].backoff = FALSE]
                   ELSE [key EXCEPT ![j.key].rate = j.rate, ![j.key].name = Composed(j.provider, j.rate),
                                    ![j.key].backoff = FALSE]
         /\ Becomes(t, Refreshing({j.key}))
  /\ UNCHANGED <<up, real, events>>

applyBillingRate(t) ==
  /\ Doing(t, "rate")
  /\ LET j == Task(t)
     IN  /\ key' = [key EXCEPT ![j.key].rate = j.rate, ![j.key].name = Composed(j.provider, j.rate),
                               ![j.key].backoff = FALSE]
         /\ Becomes(t, Refreshing({j.key}))
  /\ UNCHANGED <<up, real, events>>

BackoffOver(k) ==
  /\ key[k].backoff /\ key' = [key EXCEPT ![k].backoff = FALSE]
  /\ UNCHANGED <<up, real, busy, events>>

\* FetchModels, of SyncAllModels and of operators: the list that was answered is stored.
Models(k) == [do |-> "models", key |-> k, models |-> real.models]
FetchModels(t, k) ==
  /\ AtRest(t) /\ k \in Rows
  /\ Becomes(t, Models(k))
  /\ UNCHANGED <<up, key, real>>

storeModels(t) ==
  /\ Doing(t, "models")
  /\ key' = [key EXCEPT ![Task(t).key].models = Task(t).models]
  /\ Becomes(t, Rest) /\ UNCHANGED <<up, real, events>>
-----------------------------------------------------------------------------
(* BootstrapKey: the rate, the balance and the models of a key that is new *)
(* or has a new secret.  A fetch may be refused or fail at once.           *)
Owing(t, k, task) == busy' = [busy EXCEPT ![t] = [task |-> task, owed |-> {"billing", "balance", "models"} \X {k}]]
Unfetchable(f) == (f[1] = "billing" /\ key[f[2]].backoff) \/ (f[1] = "balance" /\ EnabledKeys = {})
OwedFirst(t) == CHOOSE f \in busy[t].owed : TRUE

BootstrapKey(t) ==
  /\ Task(t) = Rest /\ busy[t].owed # {}
  /\ LET f == OwedFirst(t)
         turn(task) == busy' = [busy EXCEPT ![t] = [task |-> task, owed |-> @.owed \ {f}]]
     IN  \/ turn(Rest) /\ (IF Unfetchable(f) THEN UNCHANGED events ELSE Event)
         \/ ~Unfetchable(f) /\ UNCHANGED events
            /\ turn(CASE f[1] = "models" -> Models(f[2]) [] f[1] = "balance" -> Balance [] OTHER -> Billing(f[2]))
  /\ UNCHANGED <<up, key, real>>

(* UpdateKey: a switch, or none, a rate and perhaps a new secret; the name *)
(* is made of the rows read at the beginning, and the rate is written if   *)
(* it differs from the one read.                                           *)
EditKey(t, k, switch, rate, secret) ==
  /\ AtRest(t) /\ k \in Rows /\ Event
  /\ Becomes(t, [do |-> "edit", key |-> k, switch |-> switch, rate |-> rate, edited |-> rate # key[k].rate,
                 secret |-> secret, provider |-> up.name])
  /\ UNCHANGED <<up, key, real>>

UpdateKey(t) ==
  /\ Doing(t, "edit")
  /\ LET j == Task(t)
     IN  /\ key' = [key EXCEPT ![j.key].enabled = IF j.switch = "keep" THEN @ ELSE j.switch = "on",
                               ![j.key].rate = IF j.edited THEN j.rate ELSE @,
                               ![j.key].name = Composed(j.provider, j.rate)]
         /\ IF j.secret THEN Owing(t, j.key, Refreshing({j.key})) ELSE Becomes(t, Refreshing({j.key}))
  /\ UNCHANGED <<up, real, events>>

\* CreateUpstreamKey: the provider is read, then the row inserted and its health refreshed.
NewKey(t, k, on, rate) ==
  /\ AtRest(t) /\ k \notin Rows /\ Event
  /\ Becomes(t, [do |-> "insert", key |-> k, row |-> NewRow(on, rate, up.name)])
  /\ UNCHANGED <<up, key, real>>

CreateUpstreamKey(t) ==
  /\ Doing(t, "insert")
  /\ key' = [key EXCEPT ![Task(t).key] = Task(t).row]
  /\ Owing(t, Task(t).key, Refreshing({Task(t).key}))
  /\ UNCHANGED <<up, real, events>>

BatchKeyStatus(t, on) ==
  /\ AtRest(t) /\ Event
  /\ key' = [k \in Accounts |-> IF k \in Rows THEN [key[k] EXCEPT !.enabled = on] ELSE key[k]]
  /\ Becomes(t, Refreshing(Rows)) /\ UNCHANGED <<up, real>>

(* UpdateUpstream: the row read at the beginning is written back whole,    *)
(* with its balance; the names are made anew and all healths refreshed.    *)
EditUpstream(t, on, name) ==
  /\ AtRest(t) /\ Event
  /\ Becomes(t, [do |-> "save", row |-> [up EXCEPT !.enabled = on, !.name = name], renamed |-> name # up.name])
  /\ UNCHANGED <<up, key, real>>

UpdateUpstream(t) ==
  /\ Doing(t, "save") /\ up' = Task(t).row
  /\ Becomes(t, IF Task(t).renamed THEN [do |-> "names", provider |-> Task(t).row.name] ELSE [do |-> "refreshAll"])
  /\ UNCHANGED <<key, real, events>>

\* recomposeKeyNames: the keys are read, then written one by one.
ReadNames(t) ==
  /\ Doing(t, "names")
  /\ Becomes(t, [do |-> "rename", name |-> [k \in Rows |-> Composed(Task(t).provider, key[k].rate)]])
  /\ UNCHANGED <<up, key, real, events>>

recomposeKeyNames(t) ==
  /\ Doing(t, "rename") /\ UNCHANGED <<up, real, events>>
  /\ \/ DOMAIN Task(t).name = {} /\ Becomes(t, [do |-> "refreshAll"]) /\ UNCHANGED key
     \/ \E k \in DOMAIN Task(t).name :
          /\ key' = [key EXCEPT ![k].name = Task(t).name[k]]
          /\ Becomes(t, [Task(t) EXCEPT !.name = Restrict(@, DOMAIN @ \ {k})])

\* ObserveRequest: a request that the key has served, perhaps before it was disabled.
ObserveRequest(t, k, health) ==
  /\ AtRest(t) /\ k \in Rows /\ Event
  /\ key' = [key EXCEPT ![k].health = health]
  /\ Becomes(t, Refreshing({k})) /\ UNCHANGED <<up, real>>

\* One thing at a time changes at the provider.
ProviderChanges ==
  /\ Event
  /\ \/ real' = [real EXCEPT !.enough = ~@]
     \/ \E r \in Rates \ {real.rate} : real' = [real EXCEPT !.rate = r]
     \/ \E l \in Lists \ {real.models} : real' = [real EXCEPT !.models = l]
  /\ UNCHANGED <<up, key, busy>>

SyncStep(t) ==
  \/ ReadHealth(t) \/ ReadAllHealth(t) \/ WriteHealth(t)
  \/ fetchKeyBalance(t) \/ applyUpstreamBalance(t)
  \/ FetchBilling(t) \/ applyBillingRate(t) \/ storeModels(t)
  \/ BootstrapKey(t) \/ UpdateKey(t) \/ CreateUpstreamKey(t) \/ UpdateUpstream(t) \/ ReadNames(t) \/ recomposeKeyNames(t)

TickBalance == StartBalance("balance") /\ UNCHANGED events
TickBilling(k) == k \in EnabledKeys /\ StartBilling("billing", k) /\ UNCHANGED events
TickModels(k) == k \in EnabledKeys /\ FetchModels("models", k) /\ UNCHANGED events

\* What the console's buttons and requests do besides the tickers.
Desk(t) ==
  \/ StartBalance(t) /\ Event
  \/ \E k \in Accounts : StartBilling(t, k) /\ Event
  \/ \E k \in Accounts : FetchModels(t, k) /\ Event
  \/ \E k \in Accounts, s \in {"on", "off", "keep"}, r \in Rates : EditKey(t, k, s, r, s = "keep")
  \/ \E k \in Accounts, on \in BOOLEAN, r \in Rates : NewKey(t, k, on, r)
  \/ \E on \in BOOLEAN : BatchKeyStatus(t, on)
  \/ \E on \in BOOLEAN, n \in Names : EditUpstream(t, on, n)
  \/ \E k \in Accounts, h \in {"healthy", "down"} : ObserveRequest(t, k, h)

SyncNext ==
  \/ \E t \in Threads : SyncStep(t)
  \/ TickBalance
  \/ \E k \in Accounts : TickBilling(k) \/ TickModels(k) \/ BackoffOver(k)
  \/ \E t \in Desks : Desk(t)
  \/ ProviderChanges

(* Tickers tick, calls return, a day passes.                               *)
SyncFairness ==
  /\ \A t \in Threads : WF_syncVars(SyncStep(t))
  /\ WF_syncVars(TickBalance)
  /\ \A k \in Accounts : /\ WF_syncVars(TickBilling(k)) /\ WF_syncVars(TickModels(k))
                         /\ WF_syncVars(BackoffOver(k))
-----------------------------------------------------------------------------
(* Once nobody edits and the provider stays as it is, the columns of a     *)
(* provider with an enabled key become what the provider says and stay so, *)
(* whatever was overwritten with an old reading on the way: no enabled key *)
(* of an enabled provider with a balance stays rejected, no disabled one   *)
(* looks healthy, and the display name has the provider's name and rate    *)
(* (RefreshUpstreamBalance and billingSyncedUpdates write them again on    *)
(* every tick).                                                            *)
ColumnsCatchUp ==
  <>[](EnabledKeys # {} =>
         /\ up.enough = real.enough
         /\ \A k \in Rows : key[k].health = RecomputeHealth(key[k], up)
         /\ \A k \in EnabledKeys :
              /\ key[k].rate = real.rate /\ key[k].name = Composed(up.name, real.rate)
              /\ key[k].models = real.models)
=============================================================================
