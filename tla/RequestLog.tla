----------------------------- MODULE RequestLog -----------------------------
(***************************************************************************)
(* The log row of one request (handler/gateway.go liveLog, ops/logs.go).   *)
(* The handler creates the row, patches it from goroutines whose writes    *)
(* may arrive in any order, and closes it with a last write it retries.    *)
(* Rows left open are closed by the stale-log job of any instance.  Every  *)
(* write can fail, or take effect and be reported as failed; the process   *)
(* can stop at any point.                                                  *)
(*                                                                         *)
(* The value of a column is the revision of the update that set it.        *)
(***************************************************************************)
EXTENDS Naturals

CONSTANTS
  Finalizers,  \* instances that run the stale-log job
  MaxUpdates,  \* bound: patches of one request
  SlowClient   \* a client may keep the handler writing past the stale age

ASSUME RequestLogAssumption == MaxUpdates \in Nat /\ SlowClient \in BOOLEAN

\* Columns the handler patches: attachRoute and traceEvent's, patchLog's.
Cols == {"route", "body"}

VARIABLES
  pc,       \* the handler
  lg,       \* liveLog: row known, revision, closed, the collected updates
  pend,     \* writes under way: one goroutine each, the last by the handler
  row,      \* the row in the database
  spare,    \* row that finishLog inserts when beginLog reported a failure
  attempt,  \* result of the latest stored attempt of this row
  outcome,  \* what finishLog was told
  aged,     \* the row is older than staleInFlightAge
  fin       \* the stale-log jobs

vars == <<pc, lg, pend, row, spare, attempt, outcome, aged, fin>>

Unset == [c \in Cols |-> 0]
NoRow == [exists |-> FALSE, inFlight |-> FALSE, rev |-> 0, cols |-> Unset,
          by |-> "", ok |-> FALSE]
NewRow == [exists |-> TRUE, inFlight |-> TRUE, rev |-> 0, cols |-> Unset,
           by |-> "", ok |-> FALSE]
Resting == [st |-> "idle", rev |-> 0, ok |-> FALSE]
MaxTries == 3

Init ==
  /\ pc = "new" /\ row = NoRow /\ spare = "none" /\ pend = {}
  /\ lg = [id |-> FALSE, rev |-> 0, closed |-> FALSE, updates |-> Unset]
  /\ attempt = "none" /\ outcome = "none" /\ aged = FALSE
  /\ fin = [f \in Finalizers |-> Resting]
-----------------------------------------------------------------------------
\* beginLog: the insert may take effect and still be reported as failed.
beginLog(stored, known) ==
  /\ pc = "new" /\ (known => stored)
  /\ pc' = "run"
  /\ row' = IF stored THEN NewRow ELSE NoRow
  /\ lg' = [lg EXCEPT !.id = known]
  /\ UNCHANGED <<pend, spare, attempt, outcome, aged, fin>>

\* Mutant: a write carries only its own columns.
Snapshot_Own(updates, rev) == [c \in Cols |-> IF updates[c] = rev THEN rev ELSE 0]

\* Each write carries all updates so far.
Snapshot(updates, rev) == updates

Write(updates, rev, final) ==
  [rev |-> rev, cols |-> Snapshot(updates, rev), final |-> final, tries |-> 0]

(* writeLog of a patch; traceEvent records its column even after the log   *)
(* is closed, when the write itself is dropped.                            *)
patch(c, trace) ==
  /\ pc \in {"run", "settle"} /\ lg.id
  /\ LET rev == lg.rev + 1
         ups == [lg.updates EXCEPT ![c] = rev]
     IN  IF lg.closed
         THEN /\ trace
              /\ lg' = [lg EXCEPT !.updates = ups]
              /\ UNCHANGED pend
         ELSE /\ lg.rev < MaxUpdates
              /\ lg' = [lg EXCEPT !.updates = ups, !.rev = rev]
              /\ pend' = pend \cup {Write(ups, rev, FALSE)}
  /\ UNCHANGED <<pc, row, spare, attempt, outcome, aged, fin>>

\* completeAttempt of an attempt the handler goes on after.
attemptFails(stored) ==
  /\ pc = "run"
  /\ attempt' = IF stored /\ lg.id THEN "failed" ELSE attempt
  /\ UNCHANGED <<pc, lg, pend, row, spare, outcome, aged, fin>>

(* finishLog: the last write goes through the handler itself.  Without a   *)
(* row of its own it inserts a finished one, once.                         *)
finishLog(ok, stored) ==
  /\ pc = "run"
  /\ outcome' = IF ok THEN "success" ELSE "failure"
  /\ IF lg.id
     THEN LET rev == lg.rev + 1
          IN  /\ lg' = [lg EXCEPT !.rev = rev, !.closed = TRUE]
              /\ pend' = pend \cup {Write(lg.updates, rev, TRUE)}
              /\ pc' = "persist" /\ UNCHANGED spare
     ELSE /\ spare' = IF stored THEN outcome' ELSE "none"
          /\ pc' = "settle" /\ UNCHANGED <<lg, pend>>
  /\ UNCHANGED <<row, attempt, aged, fin>>

\* WHERE in_flight AND log_revision < ?
Matches(p) == row.exists /\ row.inFlight /\ row.rev < p.rev

\* UPDATE sets the columns the write carries and leaves the others.
Updated(p) ==
  [exists   |-> TRUE,
   inFlight |-> ~p.final,
   rev      |-> p.rev,
   cols     |-> [c \in Cols |-> IF p.cols[c] = 0 THEN row.cols[c] ELSE p.cols[c]],
   by       |-> IF p.final THEN "handler" ELSE "",
   ok       |-> p.final /\ outcome = "success"]

GivenUp(p) == p.tries + 1 = MaxTries

(* One try of persistLog.  The last write is done when it is reported as   *)
(* stored and the row is closed, and is given up after its third try.      *)
persistLog(p, applied, reported) ==
  /\ reported => applied
  /\ row' = IF applied /\ Matches(p) THEN Updated(p) ELSE row
  /\ LET over == ~p.final \/ (reported /\ ~row'.inFlight) \/ GivenUp(p)
     IN  /\ pend' = (pend \ {p}) \cup (IF over THEN {} ELSE {[p EXCEPT !.tries = p.tries + 1]})
         /\ pc' = IF p.final /\ over THEN "settle" ELSE pc
  /\ UNCHANGED <<lg, spare, attempt, outcome, aged, fin>>

(* The handler returns: after a response, the deferred completeAttempt     *)
(* stores the attempt whose result finishLog has already written.          *)
settle(stored) ==
  /\ pc = "settle"
  /\ pc' = "end"
  /\ attempt' = IF stored /\ lg.id
                THEN IF outcome = "success" THEN "success" ELSE "failed"
                ELSE attempt
  /\ UNCHANGED <<lg, pend, row, spare, outcome, aged, fin>>

\* The process stops, and with it the writes under way.
crash ==
  /\ pc # "dead"
  /\ pc' = "dead" /\ pend' = {}
  /\ UNCHANGED <<lg, row, spare, attempt, outcome, aged, fin>>
-----------------------------------------------------------------------------
(* staleInFlightAge passes.  It exceeds the 300 s of the upstream side and *)
(* the bounded writes after it; writes to the client have no deadline.     *)
age ==
  /\ ~aged /\ row.exists /\ (SlowClient \/ pc \in {"end", "dead"})
  /\ aged' = TRUE
  /\ UNCHANGED <<pc, lg, pend, row, spare, attempt, outcome, fin>>

\* Mutant: rows that were never patched are passed over.
Stale_Patched == row.exists /\ row.inFlight /\ aged /\ row.rev > 0

Stale == row.exists /\ row.inFlight /\ aged

\* FinalizeStaleInFlightLogs reads the row ...
selectStale(f) ==
  /\ fin[f].st = "idle" /\ Stale
  /\ fin' = [fin EXCEPT ![f] = [st |-> "selected", rev |-> row.rev, ok |-> FALSE]]
  /\ UNCHANGED <<pc, lg, pend, row, spare, attempt, outcome, aged>>

\* Mutant: the attempts are not consulted.
Verdict_None == FALSE

Verdict == attempt = "success"

\* ... then its latest attempt ...
readAttempt(f) ==
  /\ fin[f].st = "selected"
  /\ fin' = [fin EXCEPT ![f] = [st |-> "judged", rev |-> fin[f].rev, ok |-> Verdict]]
  /\ UNCHANGED <<pc, lg, pend, row, spare, attempt, outcome, aged>>

\* ... and closes the row if nothing was written to it in between.
closeStale(f) ==
  /\ fin[f].st = "judged"
  /\ row' = IF row.inFlight /\ row.rev = fin[f].rev
            THEN [row EXCEPT !.inFlight = FALSE, !.by = "stale", !.ok = fin[f].ok]
            ELSE row
  /\ fin' = [fin EXCEPT ![f] = Resting]
  /\ UNCHANGED <<pc, lg, pend, spare, attempt, outcome, aged>>

\* A statement of the job fails, or its instance stops.
jobFails(f) ==
  /\ fin[f].st # "idle"
  /\ fin' = [fin EXCEPT ![f] = Resting]
  /\ UNCHANGED <<pc, lg, pend, row, spare, attempt, outcome, aged>>
-----------------------------------------------------------------------------
Handler ==
  \/ \E stored, known \in BOOLEAN : beginLog(stored, known)
  \/ \E ok, stored \in BOOLEAN : finishLog(ok, stored)
  \/ \E p \in pend, applied, reported \in BOOLEAN : persistLog(p, applied, reported)
  \/ \E stored \in BOOLEAN : settle(stored)

Next ==
  \/ Handler
  \/ \E c \in Cols, trace \in BOOLEAN : patch(c, trace)
  \/ \E stored \in BOOLEAN : attemptFails(stored)
  \/ crash
  \/ age
  \/ \E f \in Finalizers : selectStale(f) \/ readAttempt(f) \/ closeStale(f) \/ jobFails(f)

Spec == Init /\ [][Next]_vars

(* Every request and write ends within its deadline, time passes, and in   *)
(* one instance the job is run every 20 s and its statements do not fail   *)
(* for ever.                                                               *)
Diligent == CHOOSE f \in Finalizers : TRUE
LogFairness ==
  /\ WF_vars(Handler) /\ WF_vars(age)
  /\ WF_vars(selectStale(Diligent)) /\ SF_vars(readAttempt(Diligent)) /\ SF_vars(closeStale(Diligent))
-----------------------------------------------------------------------------
Revs == 0..(MaxUpdates + 2)
Rows == [exists : BOOLEAN, inFlight : BOOLEAN, rev : Revs, cols : [Cols -> Revs],
         by : {"", "handler", "stale"}, ok : BOOLEAN]
Writes == [rev : Revs, cols : [Cols -> Revs], final : BOOLEAN, tries : 0..(MaxTries - 1)]

(* Revisions stay within the patches made, the last write is tried three   *)
(* times at most.                                                          *)
TypeOK ==
  /\ pc \in {"new", "run", "persist", "settle", "end", "dead"}
  /\ lg \in [id : BOOLEAN, rev : Revs, closed : BOOLEAN, updates : [Cols -> Revs]]
  /\ \A p \in pend : p \in Writes
  /\ row \in Rows
  /\ spare \in {"none", "success", "failure"}
  /\ attempt \in {"none", "failed", "success"}
  /\ outcome \in {"none", "success", "failure"}
  /\ aged \in BOOLEAN
  /\ fin \in [Finalizers -> [st : {"idle", "selected", "judged"}, rev : Revs, ok : BOOLEAN]]

(* A closed row stays as it was closed: no late patch, retry or second job *)
(* writes to it (the in_flight condition of persistLog and of the job).    *)
ClosedRowStands == [][row.exists /\ ~row.inFlight => row' = row]_vars

(* No column goes back to an earlier update, in whatever order the         *)
(* goroutines of writeLog reach the database.                              *)
ColumnsAdvance == [][\A c \in Cols : row'.cols[c] >= row.cols[c]]_vars

(* "Each version includes earlier route/body updates, even if writes       *)
(* arrive out of order" (writeLog): a row the handler closed has every     *)
(* update made before, also those whose own write failed or came too late. *)
ClosedRowComplete ==
  row.by = "handler" =>
    \A c \in Cols : lg.updates[c] <= lg.rev => row.cols[c] = lg.updates[c]

(* No row says success unless finishLog was told so, whoever closed it.    *)
NoFalseSuccess == row.ok => outcome = "success"

(* The stale-log job closes a row as its latest stored attempt ended, so a *)
(* success whose last write was lost is not turned into a failure.         *)
StaleTellsAttempt == row.by = "stale" => (row.ok <=> attempt = "success")

(* "so the UI does not tick forever after a crash or killed stream": no    *)
(* row stays in flight, whatever writes are lost.                          *)
RowCloses == row.exists ~> ~row.inFlight
=============================================================================
