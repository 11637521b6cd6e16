--------------------------- MODULE BalanceAlerts ----------------------------
(***************************************************************************)
(* The low-balance alerts (dashboard/alert.go, handler/alert.go): the job  *)
(* of every instance reads the one row of settings, pushes one message     *)
(* about the providers that run low and writes the row back with the times *)
(* of the alerts in it; an administrator's save reads and writes the same  *)
(* row.                                                                    *)
(*                                                                         *)
(* Each read, push and write of the row is a step of its own; urgent's     *)
(* reading of the balances, which nothing here writes, goes with the read. *)
(* Times are hours.  Of a provider's account a book says whether it counts *)
(* (enabled, limited, its balance known), whether the balance has a date,  *)
(* whether there was consumption or only attempts in the last day, and the *)
(* hours the balance lasts at that rate.  A send key is there or not.  The *)
(* test push changes nothing.  told, missed, extra, wish and mishaps are   *)
(* history variables: the last push about a provider, the providers passed *)
(* over that should have been told of, the pushes about a provider that    *)
(* came too early, what the administrator last saved, and how often        *)
(* something went wrong: a crash, a failed write, a pass or save that      *)
(* overlapped another.                                                     *)
(***************************************************************************)
EXTENDS Integers, FiniteSets

CONSTANTS Accounts, Workers,      \* the instances' jobs
          Never,                  \* no time, no hours
          Books,                  \* what each account may look like
          Edits,                  \* what an administrator sends; Keep leaves a field alone
          Keep,
          DefaultThreshold, ThresholdCap, DefaultSilence, MaxSilence,
          SilenceStateTTL, RenewalHorizon,
          MaxHours, MaxMishaps    \* bounds

ASSUME AlertAssumption ==
  /\ IsFiniteSet(Workers) /\ Never \notin Int
  /\ {DefaultThreshold, ThresholdCap, MaxSilence, SilenceStateTTL} \subseteq Nat
  /\ DefaultSilence \in 1..MaxSilence /\ MaxSilence <= SilenceStateTTL
  /\ Edits \subseteq [enabled : {Keep} \cup BOOLEAN, key : {Keep} \cup BOOLEAN,
                      threshold : {Keep} \cup Int, silence : {Keep} \cup Int]

VARIABLES alert, hour, book, pass, desk, told, missed, extra, wish, mishaps

alertVars == <<alert, hour, book, pass, desk, told, missed, extra, wish, mishaps>>

(* Normalize, on every load and save.                                      *)
Normalize(s) ==
  [s EXCEPT !.threshold = IF @ <= 0 \/ @ > ThresholdCap THEN DefaultThreshold ELSE @,
            !.silence = IF @ <= 0 \/ @ > MaxSilence THEN DefaultSilence ELSE @]

DefaultAlertSettings ==
  [enabled |-> FALSE, key |-> FALSE, threshold |-> DefaultThreshold, silence |-> DefaultSilence,
   state |-> [p \in Accounts |-> Never]]

LoadAlertSettings == Normalize(alert)
SaveAlertSettings(s) == Normalize(s)

Resting == [at |-> "rest", due |-> {}, now |-> 0, cfg |-> DefaultAlertSettings]

Settings(s) == <<s.enabled, s.key, s.threshold, s.silence>>

AlertInit ==
  /\ alert = DefaultAlertSettings /\ hour = 0
  /\ book \in [Accounts -> UNION {Books[p] : p \in Accounts}] /\ \A p \in Accounts : book[p] \in Books[p]
  /\ pass = [w \in Workers |-> Resting] /\ desk = <<>> /\ wish = Settings(DefaultAlertSettings)
  /\ told = [p \in Accounts |-> Never] /\ missed = {} /\ extra = [p \in Accounts |-> 0] /\ mishaps = 0

Busy(w) == pass[w].at \in {"push", "save"}
Mishap(happens) == mishaps' = IF happens THEN mishaps + 1 ELSE mishaps
-----------------------------------------------------------------------------
(* A pass ends within its nine minutes, a save within the request.         *)
AlertHour ==
  /\ hour < MaxHours /\ hour' = hour + 1 /\ desk = <<>> /\ \A w \in Workers : ~Busy(w)
  /\ UNCHANGED <<alert, book, pass, desk, told, missed, extra, wish, mishaps>>

\* Consumption and recharges.
Account(p, b) ==
  /\ book[p] # b /\ book' = [book EXCEPT ![p] = b]
  /\ UNCHANGED <<alert, hour, pass, desk, told, missed, extra, wish, mishaps>>

(* The hours urgent projects: without consumption it lists an account only *)
(* when it is depleted and still tried.                                    *)
HoursLeft(b) ==
  IF ~b.counts \/ ~b.dated THEN Never
  ELSE IF b.burns THEN b.hours
  ELSE IF b.tried /\ b.hours = 0 THEN 0 ELSE Never

(* urgent drops what lies beyond the renewal horizon.                      *)
urgent == {p \in Accounts : HoursLeft(book[p]) # Never
                             /\ ~(HoursLeft(book[p]) > RenewalHorizon /\ HoursLeft(book[p]) > 0)}

filterAlertItems(items, threshold) == {p \in items : HoursLeft(book[p]) < threshold}

\* Mutant: a provider that has been told of once is silenced for good.
silenceDue_Sticky(cfg, targets) == {p \in targets : cfg.state[p] = Never}

silenceDue(cfg, targets) ==
  {p \in targets : cfg.state[p] = Never \/ hour - cfg.state[p] >= cfg.silence}

ToldWithin(p, now, silence) == told[p] # Never /\ now - told[p] < silence

(* CheckBalanceAlerts up to the push; a pass that finds nothing returns.   *)
CheckBalanceAlerts(w) ==
  LET cfg == LoadAlertSettings
      targets == filterAlertItems(urgent, cfg.threshold)
      due == silenceDue(cfg, targets)
  IN /\ pass[w].at = "rest" /\ cfg.enabled /\ cfg.key /\ targets # {}
     /\ pass' = [pass EXCEPT ![w] = IF due = {} THEN Resting
                                    ELSE [at |-> "push", due |-> due, now |-> hour, cfg |-> cfg]]
     /\ missed' = missed \cup {p \in targets \ due : ~ToldWithin(p, hour, cfg.silence)}
     /\ Mishap(due # {} /\ \E v \in Workers \ {w} : Busy(v)) /\ mishaps' <= MaxMishaps
     /\ UNCHANGED <<alert, hour, book, desk, told, extra, wish>>

(* SendServerChan: whether the push arrives makes no difference.           *)
SendServerChan(w) ==
  /\ pass[w].at = "push" /\ pass' = [pass EXCEPT ![w].at = "save"]
  /\ told' = [p \in Accounts |-> IF p \in pass[w].due THEN pass[w].now ELSE told[p]]
  /\ extra' = [p \in Accounts |->
       IF p \in pass[w].due /\ ToldWithin(p, pass[w].now, pass[w].cfg.silence)
       THEN extra[p] + 1 ELSE extra[p]]
  /\ UNCHANGED <<alert, hour, book, desk, missed, wish, mishaps>>

(* The state that the pass writes: its alerts, without those long past.    *)
Marked(w) ==
  LET state == [p \in Accounts |-> IF p \in pass[w].due THEN pass[w].now ELSE pass[w].cfg.state[p]]
  IN [p \in Accounts |-> IF state[p] # Never /\ pass[w].now - state[p] > SilenceStateTTL THEN Never
                          ELSE state[p]]

NextSettings(w) == [pass[w].cfg EXCEPT !.state = Marked(w)]

(* The pass writes every column of the row, or fails to; then it records   *)
(* its notice, which nothing here reads, and returns.                      *)
SaveSilence(w, ok) ==
  /\ pass[w].at = "save" /\ pass' = [pass EXCEPT ![w] = Resting]
  /\ alert' = IF ok THEN SaveAlertSettings(NextSettings(w)) ELSE alert
  /\ Mishap(~ok \/ alert # pass[w].cfg) /\ mishaps' <= MaxMishaps
  /\ UNCHANGED <<hour, book, desk, told, missed, extra, wish>>

(* The process is killed; the instance that replaces it checks at once.    *)
AlertCrash(w) ==
  /\ Busy(w) /\ Mishap(TRUE) /\ mishaps' <= MaxMishaps
  /\ pass' = [pass EXCEPT ![w] = Resting]
  /\ UNCHANGED <<alert, hour, book, desk, told, missed, extra, wish>>
-----------------------------------------------------------------------------
Edited(old, new) == IF new = Keep THEN old ELSE new

(* UpdateAlertSettings: an empty send key preserves the stored one.        *)
UpdateAlertSettings(e) ==
  /\ desk = <<>>
  /\ desk' = <<[LoadAlertSettings EXCEPT !.enabled = Edited(@, e.enabled),
                  !.threshold = Edited(@, e.threshold), !.silence = Edited(@, e.silence),
                  !.key = Edited(@, e.key)], LoadAlertSettings>>
  /\ UNCHANGED <<alert, hour, book, pass, told, missed, extra, wish, mishaps>>

SaveEdit(ok) ==
  /\ desk # <<>> /\ desk' = <<>>
  /\ alert' = IF ok THEN SaveAlertSettings(desk[1]) ELSE alert
  /\ wish' = IF ok THEN Settings(SaveAlertSettings(desk[1])) ELSE wish
  /\ Mishap(ok /\ alert # desk[2]) /\ mishaps' <= MaxMishaps
  /\ UNCHANGED <<hour, book, pass, told, missed, extra>>

AlertNext ==
  \/ AlertHour
  \/ \E p \in Accounts : \E b \in Books[p] : Account(p, b)
  \/ \E w \in Workers : CheckBalanceAlerts(w) \/ SendServerChan(w) \/ AlertCrash(w)
  \/ \E w \in Workers, ok \in BOOLEAN : SaveSilence(w, ok)
  \/ \E e \in Edits : UpdateAlertSettings(e)
  \/ \E ok \in BOOLEAN : SaveEdit(ok)

AlertSpec == AlertInit /\ [][AlertNext]_alertVars
-----------------------------------------------------------------------------
(* A pass passes over a provider that runs low only when a push has been   *)
(* about it within the silence, although old alerts are forgotten and      *)
(* writers lose each other's alerts; a second push within the silence, and *)
(* settings that are not what the administrator saved, take a crash, a     *)
(* failed write or an overlap each (CheckBalanceAlerts; the comment on     *)
(* domain.AlertSettings.SilenceHours).                                     *)
LowIsToldOnce ==
  /\ missed = {}
  /\ \A p \in Accounts : extra[p] <= mishaps
  /\ Settings(alert) # wish => mishaps > 0
=============================================================================
