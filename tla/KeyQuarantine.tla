---------------------------- MODULE KeyQuarantine ---------------------------
(***************************************************************************)
(* Route groups and the quarantine of their keys by an answer-quality plan *)
(* (ops/intel_runner.go, ops/intel_quarantine.go, handler/intel.go,        *)
(* handler/routegroup.go, store/intel_migration.go).  A plan asks every    *)
(* key of a group one question; a key that answers badly leaves the group  *)
(* and is asked again until it answers correctly twice in a row.  A run    *)
(* works for minutes on the plan it read when it began, while operators    *)
(* edit the plan, its group and its keys, and the process may stop.        *)
(*                                                                         *)
(* One plan, one process.  Backoff intervals are abstracted to whether the *)
(* next test is due; a result to whether it was correct and whether it was *)
(* made after the latest restoration.  The history variable taken is not   *)
(* in the code.                                                            *)
(***************************************************************************)
EXTENDS Naturals, Sequences, FiniteSets

CONSTANTS
  Keys, Groups, Consumers,
  NoGroup,      \* not a group
  MinSamples,   \* the plan's rule: effective results that decide
  Threshold,    \* accuracy, in percent, at or below which a key leaves
  Parallel,     \* workers of a run
  MaxEdits,     \* bound: operator edits
  MaxStops      \* bound: stops of the process

ASSUME QuarantineAssumption ==
  /\ Groups # {} /\ NoGroup \notin Groups
  /\ MinSamples \in 1..10 /\ Threshold \in 1..100 /\ Parallel \in 1..8
  /\ MaxEdits \in Nat /\ MaxStops \in Nat

RestoreAt == 2

VARIABLES
  plan,      \* the plan's row: life, enabled, quarantine on, group, due
  groupLife, \* route groups: "unborn", "live", "gone"
  members,   \* route_group_keys: pairs of a group and a key
  links,     \* consumers: the group one is bound to (consumer_route_groups), or "absent"
  keyLife,   \* "on" (enabled, also its provider), "off", "gone"
  qstate,    \* the plan's quarantine state of a key, or NoState
  results,   \* the newest effective results of a key, newest first
  job,       \* the run in progress: intelRunning, its goroutines, its row
  orphans,   \* ages of "running" rows whose process has stopped
  deleting,  \* progress of DeleteIntelPlan
  dropping,  \* the group DeleteRouteGroup is about to delete
  edits, stops,
  taken      \* history: the group the rule took a key from, until somebody acts

quarantineVars ==
  <<plan, groupLife, members, links, keyLife, qstate, results, job, orphans,
    deleting, dropping, edits, stops, taken>>

NoState == [status |-> "none", streak |-> 0, due |-> FALSE]
Held(streak, due) == [status |-> "quarantined", streak |-> streak, due |-> due]
Restored == [status |-> "restored", streak |-> 0, due |-> FALSE]

Verdicts == {"correct", "wrong", "error"}
Idle == [phase |-> "idle"]
Waiting == [at |-> "none"]

Live(g) == groupLife[g] = "live"
Quarantined(k) == qstate[k].status = "quarantined"
RunningRows == orphans # {} \/ (job.phase = "asking" /\ job.row \in {"young", "old"})

QuarantineInit ==
  /\ \E g \in {CHOOSE h \in Groups : TRUE}, life \in {"unborn", "live"} :
       /\ groupLife = [h \in Groups |-> IF h = g THEN "live" ELSE "unborn"]
       /\ plan = [life |-> life, enabled |-> TRUE, quarantine |-> TRUE, group |-> g, due |-> FALSE]
       /\ members = {g} \X Keys
  /\ links = [c \in Consumers |-> "absent"]
  /\ keyLife = [k \in Keys |-> "on"]
  /\ qstate = [k \in Keys |-> NoState] /\ results = [k \in Keys |-> <<>>]
  /\ job = Idle /\ orphans = {} /\ deleting = "no" /\ dropping = NoGroup
  /\ edits = 0 /\ stops = 0
  /\ taken = [k \in Keys |-> NoGroup]
-----------------------------------------------------------------------------
(* Starting a run.  What a run knows of its plan is what it read here.     *)
PlanRead == [enabled |-> plan.enabled, quarantine |-> plan.quarantine, group |-> plan.group]

\* finalizeStaleIntelRuns, on the rows and on the row of the run in progress.
FreshOrphans == orphans \ {"old"}
Finalized(j) == IF j.phase = "asking" /\ j.row = "old" THEN [j EXCEPT !.row = "closed"] ELSE j

(* RunIntelPlan up to the reading of the keys: refused without its group,  *)
(* beside another run of this process, and beside a row left running.      *)
CanRunPlan == plan.life = "live" /\ Live(plan.group) /\ job = Idle
Starting(scope) == [phase |-> "starting", scope |-> scope, plan |-> PlanRead]

RunIntelPlanNow ==
  /\ CanRunPlan
  /\ orphans' = FreshOrphans
  /\ job' = IF FreshOrphans = {} THEN Starting("full") ELSE Idle
  /\ UNCHANGED <<plan, groupLife, members, links, keyLife, qstate, results, deleting, dropping, edits, stops, taken>>

\* runIntelQuarantineDue
RetestDue ==
  /\ plan.life = "live" /\ plan.enabled /\ plan.quarantine /\ Live(plan.group)
  /\ \E k \in Keys : Quarantined(k) /\ qstate[k].due

(* RunDueIntelPlans, once a minute: stale rows are closed, a due plan is   *)
(* run, and otherwise its due quarantined keys are retested.  A retest is  *)
(* not refused beside a row left running.                                  *)
RunDueIntelPlans ==
  /\ orphans' = FreshOrphans
  /\ job' = IF CanRunPlan /\ plan.enabled /\ plan.due /\ FreshOrphans = {} THEN Starting("full")
            ELSE IF job = Idle /\ RetestDue THEN Starting("retest")
            ELSE Finalized(job)
  /\ UNCHANGED <<plan, groupLife, members, links, keyLife, qstate, results, deleting, dropping, edits, stops, taken>>

\* intelPlanKeys, intelQuarantineKeys
PlanKeys(g) == {k \in Keys : <<g, k>> \in members /\ keyLife[k] = "on"}

\* Mutant: like a plan's keys, only members are retested.
QuarantineKeys_Members(g, dueOnly) ==
  {k \in Keys : Quarantined(k) /\ (dueOnly => qstate[k].due) /\ k \in PlanKeys(g)}

QuarantineKeys(g, dueOnly) ==
  {k \in Keys : Quarantined(k) /\ (dueOnly => qstate[k].due) /\ keyLife[k] = "on" /\ Live(g)}
RunKeys(j) ==
  IF j.scope = "full" THEN PlanKeys(j.plan.group) \cup QuarantineKeys(j.plan.group, FALSE)
  ELSE QuarantineKeys(j.plan.group, TRUE)

(* The rest of RunIntelPlan and RunIntelQuarantine: the keys are read, the *)
(* row is made and the workers begin.  A retest without a key to ask puts  *)
(* the due keys off and makes no row.                                      *)
BeginSamples ==
  /\ job.phase = "starting"
  /\ IF job.scope = "retest" /\ RunKeys(job) = {}
     THEN /\ qstate' = [k \in Keys |-> IF Quarantined(k) THEN [qstate[k] EXCEPT !.due = FALSE]
                                       ELSE qstate[k]]
          /\ job' = Idle
     ELSE /\ job' = [phase |-> "asking", scope |-> job.scope, plan |-> job.plan, row |-> "young",
                     hand |-> [k \in Keys |-> IF k \in RunKeys(job) THEN [at |-> "queued"] ELSE Waiting]]
          /\ UNCHANGED qstate
  /\ UNCHANGED <<plan, groupLife, members, links, keyLife, results, orphans, deleting, dropping, edits, stops, taken>>
-----------------------------------------------------------------------------
(* One sample: the question is sent, the answer judged and stored, and the *)
(* state of the key loaded; then the outcome is applied to what was loaded *)
(* (runIntelSamples, intelSample, applyIntelOutcome).                      *)
Asked == {k \in Keys : job.hand[k].at \in {"asked", "judged"}}

Ask(k) ==
  /\ job.phase = "asking" /\ job.hand[k].at = "queued" /\ Cardinality(Asked) < Parallel
  /\ job' = [job EXCEPT !.hand[k] = [at |-> "asked"]]
  /\ UNCHANGED <<plan, groupLife, members, links, keyLife, qstate, results, orphans, deleting, dropping, edits, stops, taken>>

Newest(s) == SubSeq(s, 1, IF Len(s) < MinSamples THEN Len(s) ELSE MinSamples)

\* A plan without quarantine stores the answer and does no more.
Judge(k, verdict) ==
  /\ job.phase = "asking" /\ job.hand[k].at = "asked"
  /\ results' = IF verdict = "error" THEN results
                ELSE [results EXCEPT ![k] = Newest(<<[ok |-> verdict = "correct", fresh |-> TRUE]>> \o @)]
  /\ job' = [job EXCEPT !.hand[k] =
       IF job.plan.quarantine THEN [at |-> "judged", verdict |-> verdict, seen |-> qstate[k]] ELSE Waiting]
  /\ UNCHANGED <<plan, groupLife, members, links, keyLife, qstate, orphans, deleting, dropping, edits, stops, taken>>

\* evaluateIntelQuarantine: the results that count and what they say.
Evidence(k, seen) ==
  IF seen.status = "restored" THEN SelectSeq(results[k], LAMBDA r : r.fresh) ELSE results[k]
Correct(s) == Cardinality({i \in DOMAIN s : s[i].ok})
Failing(s) ==
  /\ Len(s) >= MinSamples
  /\ Correct(s) * 100 <= Threshold * Len(s) /\ Correct(s) < Len(s)

\* Save writes every column of what was loaded, and inserts a row that is gone.
Save(k, st) == qstate' = [qstate EXCEPT ![k] = st]

(* restoreIntelKey: the key rejoins the group the run knows; without that  *)
(* group its state is dropped.                                             *)
restoreIntelKey(k) ==
  IF Live(job.plan.group)
  THEN /\ members' = members \cup {<<job.plan.group, k>>}
       /\ qstate' = IF qstate[k] = NoState THEN qstate ELSE [qstate EXCEPT ![k] = Restored]
       /\ results' = [results EXCEPT ![k] = [i \in DOMAIN @ |-> [@[i] EXCEPT !.fresh = FALSE]]]
       /\ taken' = [taken EXCEPT ![k] = NoGroup]
  ELSE /\ Save(k, NoState)
       /\ taken' = [taken EXCEPT ![k] = NoGroup]
       /\ UNCHANGED <<members, results>>

\* Mutant: a transport error ends the quarantine's bookkeeping.
Outcome_ErrorDrops(k, verdict, seen) ==
  IF verdict = "correct" /\ seen.streak + 1 >= RestoreAt THEN restoreIntelKey(k)
  ELSE /\ Save(k, CASE verdict = "correct" -> Held(seen.streak + 1, FALSE)
                    [] verdict = "wrong" -> Held(0, FALSE)
                    [] OTHER -> NoState)
       /\ UNCHANGED <<members, results, taken>>

\* applyIntelOutcome for a key that was quarantined when its state was loaded.
Outcome(k, verdict, seen) ==
  IF verdict = "correct" /\ seen.streak + 1 >= RestoreAt THEN restoreIntelKey(k)
  ELSE /\ Save(k, Held(CASE verdict = "correct" -> seen.streak + 1
                         [] verdict = "wrong" -> 0
                         [] OTHER -> seen.streak, FALSE))
       /\ UNCHANGED <<members, results, taken>>

(* evaluateIntelQuarantine's end: one transaction takes the key out and    *)
(* records it.  A record made meanwhile would fail the insert.             *)
TakeOut(k, seen) ==
  /\ members' = members \ {<<job.plan.group, k>>}
  /\ Save(k, Held(0, FALSE))
  /\ taken' = [taken EXCEPT ![k] = job.plan.group]
  /\ UNCHANGED results

Apply(k) ==
  /\ job.phase = "asking" /\ job.hand[k].at = "judged"
  /\ LET verdict == job.hand[k].verdict
         seen == job.hand[k].seen
     IN  IF seen.status = "quarantined" THEN Outcome(k, verdict, seen)
         ELSE IF /\ verdict # "error" /\ Failing(Evidence(k, seen))
                 /\ <<job.plan.group, k>> \in members
                 /\ seen.status = "none" => qstate[k] = NoState
              THEN TakeOut(k, seen)
              ELSE UNCHANGED <<qstate, members, results, taken>>
  /\ job' = [job EXCEPT !.hand[k] = Waiting]
  /\ UNCHANGED <<plan, groupLife, links, keyLife, orphans, deleting, dropping, edits, stops>>

(* The end of a run: its row is closed, a full run sets the plan's next    *)
(* time from the plan it read (none: due at once), old results are pruned. *)
EndSamples(kept) ==
  /\ job.phase = "asking" /\ \A k \in Keys : job.hand[k] = Waiting
  /\ plan' = IF job.scope = "full" /\ plan.life = "live"
             THEN [plan EXCEPT !.due = ~job.plan.enabled] ELSE plan
  /\ results' = [k \in Keys |-> SubSeq(results[k], 1, IF Len(results[k]) < kept THEN Len(results[k]) ELSE kept)]
  /\ job' = Idle
  /\ UNCHANGED <<groupLife, members, links, keyLife, qstate, orphans, deleting, dropping, edits, stops, taken>>
-----------------------------------------------------------------------------
(* Time: a plan or a retest falls due, a running row passes 15 minutes.    *)
PlanDue ==
  /\ plan.life = "live" /\ ~plan.due
  /\ plan' = [plan EXCEPT !.due = TRUE]
  /\ UNCHANGED <<groupLife, members, links, keyLife, qstate, results, job, orphans, deleting, dropping, edits, stops, taken>>

TestDue(k) ==
  /\ Quarantined(k) /\ ~qstate[k].due
  /\ qstate' = [qstate EXCEPT ![k].due = TRUE]
  /\ UNCHANGED <<plan, groupLife, members, links, keyLife, results, job, orphans, deleting, dropping, edits, stops, taken>>

RowsAge ==
  /\ \/ "young" \in orphans
     \/ job.phase = "asking" /\ job.row = "young"
  /\ orphans' = IF "young" \in orphans THEN {"old"} ELSE orphans
  /\ job' = IF job.phase = "asking" /\ job.row = "young" THEN [job EXCEPT !.row = "old"] ELSE job
  /\ UNCHANGED <<plan, groupLife, members, links, keyLife, qstate, results, deleting, dropping, edits, stops, taken>>

(* The process stops and starts again: runs and handlers are lost, their   *)
(* rows are not.  The migration of every start (AutoMigrate,               *)
(* cleanupIntelStaleReferences) removes states without a plan or a group,  *)
(* disables plans without a group and drops members that point nowhere.    *)
Restart ==
  /\ stops < MaxStops /\ stops' = stops + 1
  /\ orphans' = IF job.phase = "asking" /\ job.row \in {"young", "old"} THEN orphans \cup {job.row} ELSE orphans
  /\ job' = Idle /\ deleting' = "no" /\ dropping' = NoGroup
  /\ qstate' = IF plan.life = "live" /\ Live(plan.group) THEN qstate ELSE [k \in Keys |-> NoState]
  /\ plan' = [plan EXCEPT !.enabled = @ /\ Live(plan.group)]
  /\ members' = {m \in members : Live(m[1]) /\ keyLife[m[2]] # "gone"}
  /\ UNCHANGED <<groupLife, links, keyLife, results, edits, taken>>
-----------------------------------------------------------------------------
(* Operators.  An edit of a membership, the deletion of the plan or its    *)
(* move to another group ends the history of the rule's own removal.       *)
Edit == edits < MaxEdits /\ edits' = edits + 1

\* clearIntelQuarantineForKeys for group g.
Cleared(g, K) == [k \in Keys |-> IF k \in K /\ plan.group = g /\ plan.life = "live" THEN NoState ELSE qstate[k]]
Touched(g, K) == [k \in Keys |-> IF k \in K /\ taken[k] = g THEN NoGroup ELSE taken[k]]
MembersOf(g) == {k \in Keys : <<g, k>> \in members}

Removed(g, K) == members \ ({g} \X K)

\* insertRouteGroupKeys: only keys that exist.
insertRouteGroupKeys(g, K) == {g} \X K
AllExist(K) == \A k \in K : keyLife[k] # "gone"

(* replaceRouteGroupKeys.  Only keys that are members lose their           *)
(* quarantine by being left out.                                           *)
replaceRouteGroupKeys(g, K) ==
  /\ AllExist(K)
  /\ qstate' = Cleared(g, MembersOf(g) \ K)
  /\ members' = Removed(g, Keys) \cup insertRouteGroupKeys(g, K)
  /\ taken' = Touched(g, Keys)

SetRouteGroupKeys(g, K) ==
  /\ Edit /\ Live(g) /\ replaceRouteGroupKeys(g, K)
  /\ UNCHANGED <<plan, groupLife, links, keyLife, results, job, orphans, deleting, dropping, stops>>

(* UpdateRouteGroup reads the group first and saves it in a transaction    *)
(* with the keys, if any are given.  Saving inserts a row that was deleted *)
(* in between.                                                             *)
UpdateRouteGroup(g, K) ==
  /\ Edit /\ groupLife[g] # "unborn"
  /\ groupLife' = [groupLife EXCEPT ![g] = "live"]
  /\ \/ replaceRouteGroupKeys(g, K)
     \/ UNCHANGED <<qstate, members, taken>>
  /\ UNCHANGED <<plan, links, keyLife, results, job, orphans, deleting, dropping, stops>>

BatchRouteGroupKeys(g, add, remove) ==
  /\ Edit /\ Live(g) /\ AllExist(add)
  /\ qstate' = Cleared(g, remove)
  /\ members' = Removed(g, remove) \cup insertRouteGroupKeys(g, add)
  /\ taken' = Touched(g, add \cup remove)
  /\ UNCHANGED <<plan, groupLife, links, keyLife, results, job, orphans, deleting, dropping, stops>>

SetKeyRouteGroups(k, G) ==
  /\ Edit /\ keyLife[k] # "gone" /\ \A g \in G : Live(g)
  /\ LET left == {g \in Groups : <<g, k>> \in members} \ G
     IN  qstate' = IF plan.group \in left THEN Cleared(plan.group, {k}) ELSE qstate
  /\ members' = (members \ (Groups \X {k})) \cup G \X {k}
  /\ taken' = [taken EXCEPT ![k] = NoGroup]
  /\ UNCHANGED <<plan, groupLife, links, keyLife, results, job, orphans, deleting, dropping, stops>>

CreateRouteGroup(g, K) ==
  /\ Edit /\ groupLife[g] = "unborn" /\ AllExist(K)
  /\ groupLife' = [groupLife EXCEPT ![g] = "live"]
  /\ members' = members \cup insertRouteGroupKeys(g, K)
  /\ UNCHANGED <<plan, links, keyLife, qstate, results, job, orphans, deleting, dropping, stops, taken>>

(* DeleteRouteGroup looks for bound consumers first and deletes in a       *)
(* transaction of its own.                                                 *)
FindUnbound(g) ==
  /\ Edit /\ dropping = NoGroup /\ \A c \in Consumers : links[c] # g
  /\ dropping' = g
  /\ UNCHANGED <<plan, groupLife, members, links, keyLife, qstate, results, job, orphans, deleting, stops, taken>>

DeleteRouteGroup ==
  /\ dropping # NoGroup /\ dropping' = NoGroup
  /\ groupLife' = [groupLife EXCEPT ![dropping] = IF @ = "live" THEN "gone" ELSE @]
  /\ qstate' = Cleared(dropping, Keys)
  /\ plan' = IF plan.group = dropping THEN [plan EXCEPT !.enabled = FALSE] ELSE plan
  /\ members' = Removed(dropping, Keys)
  /\ taken' = Touched(dropping, Keys)
  /\ UNCHANGED <<links, keyLife, results, job, orphans, deleting, edits, stops>>

(* setConsumerRouteGroups, of CreateConsumerKey and UpdateConsumerKey: one *)
(* group that exists, or none.  UpdateConsumerKey saves a row it has read  *)
(* before, and brings back one that was deleted in between.                *)
setConsumerRouteGroups(c, g) ==
  /\ Edit /\ g \in {NoGroup} \cup {h \in Groups : Live(h)}
  /\ links' = [links EXCEPT ![c] = g]
  /\ UNCHANGED <<plan, groupLife, members, keyLife, qstate, results, job, orphans, deleting, dropping, stops, taken>>

CreateConsumerKey(c, g) == links[c] = "absent" /\ setConsumerRouteGroups(c, g)

UpdateConsumerKey(c, g) == links[c] # "absent" /\ setConsumerRouteGroups(c, g)

DeleteConsumerKey(c) ==
  /\ Edit /\ links[c] # "absent"
  /\ links' = [links EXCEPT ![c] = "deleted"]
  /\ UNCHANGED <<plan, groupLife, members, keyLife, qstate, results, job, orphans, deleting, dropping, stops, taken>>

\* UpdateKey, BatchKeyStatus, UpdateUpstream: the status of a key or its provider.
SetKeyStatus(k, status) ==
  /\ Edit /\ keyLife[k] \notin {"gone", status}
  /\ keyLife' = [keyLife EXCEPT ![k] = status]
  /\ UNCHANGED <<plan, groupLife, members, links, qstate, results, job, orphans, deleting, dropping, stops, taken>>

\* Keys are deleted with their memberships; their quarantine states stay.
BatchKeyDelete(K) ==
  /\ Edit /\ \E k \in K : keyLife[k] # "gone"
  /\ keyLife' = [k \in Keys |-> IF k \in K THEN "gone" ELSE keyLife[k]]
  /\ members' = members \ (Groups \X K)
  /\ UNCHANGED <<plan, groupLife, links, qstate, results, job, orphans, deleting, dropping, stops, taken>>

DeleteKey(k) == BatchKeyDelete({k})

\* DeleteUpstream: the keys go with their provider, here the only one.
DeleteUpstream == BatchKeyDelete(Keys)

CreateIntelPlan(g, on, quarantine) ==
  /\ Edit /\ plan.life = "unborn" /\ Live(g)
  /\ plan' = [life |-> "live", enabled |-> on, quarantine |-> quarantine, group |-> g, due |-> ~on]
  /\ UNCHANGED <<groupLife, members, links, keyLife, qstate, results, job, orphans, deleting, dropping, stops, taken>>

UpdateIntelPlan(g, on, quarantine) ==
  /\ Edit /\ plan.life = "live" /\ Live(g)
  /\ plan' = [plan EXCEPT !.enabled = on, !.quarantine = quarantine, !.group = g, !.due = ~on]
  /\ taken' = IF g = plan.group THEN taken ELSE [k \in Keys |-> NoGroup]
  /\ UNCHANGED <<groupLife, members, links, keyLife, qstate, results, job, orphans, deleting, dropping, stops>>

(* DeleteIntelPlan: refused beside a running row; then, each on its own,   *)
(* the quarantined keys rejoin the group, the plan's data go, and its row. *)
DeletePlanChecked ==
  /\ Edit /\ plan.life = "live" /\ deleting = "no" /\ ~RunningRows
  /\ deleting' = "checked"
  /\ UNCHANGED <<plan, groupLife, members, links, keyLife, qstate, results, job, orphans, dropping, stops, taken>>

RestoreIntelPlanQuarantined ==
  /\ deleting = "checked" /\ deleting' = "restored"
  /\ LET back == {k \in Keys : Quarantined(k) /\ keyLife[k] # "gone"}
     IN  IF Live(plan.group)
         THEN members' = members \cup {plan.group} \X back ELSE UNCHANGED members
  /\ taken' = [k \in Keys |-> NoGroup]
  /\ UNCHANGED <<plan, groupLife, links, keyLife, qstate, results, job, orphans, dropping, edits, stops>>

DeleteIntelPlanData ==
  /\ deleting = "restored" /\ deleting' = "erased"
  /\ qstate' = [k \in Keys |-> NoState] /\ results' = [k \in Keys |-> <<>>]
  /\ orphans' = {}
  /\ job' = IF job.phase = "asking" THEN [job EXCEPT !.row = "closed"] ELSE job
  /\ taken' = [k \in Keys |-> NoGroup]
  /\ UNCHANGED <<plan, groupLife, members, links, keyLife, dropping, edits, stops>>

DeleteIntelPlan ==
  /\ deleting = "erased" /\ deleting' = "no"
  /\ plan' = [plan EXCEPT !.life = "gone"]
  /\ UNCHANGED <<groupLife, members, links, keyLife, qstate, results, job, orphans, dropping, edits, stops, taken>>
-----------------------------------------------------------------------------
Operate ==
  \/ \E g \in Groups, K \in SUBSET Keys : SetRouteGroupKeys(g, K) \/ UpdateRouteGroup(g, K) \/ CreateRouteGroup(g, K)
  \/ \E g \in Groups, a, r \in SUBSET Keys : BatchRouteGroupKeys(g, a, r)
  \/ \E k \in Keys, G \in SUBSET Groups : SetKeyRouteGroups(k, G)
  \/ \E g \in Groups : FindUnbound(g)
  \/ \E c \in Consumers, g \in Groups \cup {NoGroup} : CreateConsumerKey(c, g) \/ UpdateConsumerKey(c, g)
  \/ \E c \in Consumers : DeleteConsumerKey(c)
  \/ \E k \in Keys, s \in {"on", "off"} : SetKeyStatus(k, s)
  \/ \E k \in Keys : DeleteKey(k)
  \/ \E K \in SUBSET Keys : BatchKeyDelete(K)
  \/ DeleteUpstream
  \/ \E g \in Groups, on, q \in BOOLEAN : CreateIntelPlan(g, on, q) \/ UpdateIntelPlan(g, on, q)
  \/ DeletePlanChecked

Handlers == DeleteRouteGroup \/ RestoreIntelPlanQuarantined \/ DeleteIntelPlanData \/ DeleteIntelPlan

Sample(k) == Ask(k) \/ (\E v \in Verdicts : Judge(k, v)) \/ Apply(k)

Work ==
  \/ BeginSamples
  \/ \E k \in Keys : Sample(k)
  \/ \E kept \in 0..MinSamples : EndSamples(kept)

QuarantineNext ==
  \/ RunIntelPlanNow \/ RunDueIntelPlans \/ Work
  \/ PlanDue \/ (\E k \in Keys : TestDue(k)) \/ RowsAge
  \/ Restart \/ Operate \/ Handlers

(* Requests to upstreams time out, so a run goes on and ends; the ticker   *)
(* and the clock go on.                                                    *)
QuarantineFairness ==
  /\ WF_quarantineVars(Work)
  /\ WF_quarantineVars(RunDueIntelPlans)
  /\ WF_quarantineVars(RowsAge)
  /\ \A k \in Keys : WF_quarantineVars(TestDue(k))

QuarantineSpec == QuarantineInit /\ [][QuarantineNext]_quarantineVars
-----------------------------------------------------------------------------
(* A key the rule took out of the plan's group, and that no operator has   *)
(* touched since, is out and is on record as quarantined: neither a stop,  *)
(* the repair at the next start, a retest nor an edit elsewhere makes the  *)
(* two tables disagree (evaluateIntelQuarantine, cleanupIntelStaleReferences). *)
(* Moving the plan to another group counts as touching its keys: the       *)
(* records stay with the plan, and the keys rejoin the group it moved to.  *)
TakenOutIsOnRecord ==
  \A k \in Keys :
    taken[k] = plan.group /\ plan.life = "live" =>
      Quarantined(k) /\ <<plan.group, k>> \notin members

(* The plan's keys are all served: nothing is taken out for a plan that no *)
(* longer exists (DeleteIntelPlanData: "so deletion never strands keys     *)
(* outside their group").                                                  *)
NeverStranded == \A k \in Keys : taken[k] # NoGroup => plan.life = "live"

(* As long as its plan, group and provider stand, a key that answers       *)
(* correctly does not stay in quarantine, whatever runs, stops and edits   *)
(* happened before; and every run ends and its row is closed, also the row *)
(* of a process that stopped (RunDueIntelPlans, finalizeStaleIntelRuns).   *)
Serviceable(k) ==
  /\ plan.life = "live" /\ plan.enabled /\ plan.quarantine /\ Live(plan.group) /\ keyLife[k] = "on"
  /\ (job.phase = "asking" /\ job.hand[k].at = "judged" => job.hand[k].verdict = "correct")
QuarantineEnds ==
  /\ \A k \in Keys : <>[]Serviceable(k) => []<>(~Quarantined(k))
  /\ []<>(job = Idle) /\ []<>(orphans = {})
=============================================================================
