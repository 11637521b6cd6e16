---------------------------- MODULE LiveMetrics -----------------------------
(***************************************************************************)
(* The live counters of the dashboard (dashboard/metrics.go), the          *)
(* goroutine that flushes them to the open dashboards, and the handler     *)
(* that streams them (handler/dashboard.go).                               *)
(*                                                                         *)
(* A call is a request of a client, of the family "request", or a call of  *)
(* an upstream, of the family "attempt".  Times are ticks; a minute, which *)
(* is also the window of the rates, is Minute ticks.  A section under the  *)
(* mutex is one step; the sends of flush come after it, one viewer at a    *)
(* time.  A viewer connects once; its channel holds at most one snapshot,  *)
(* whose number and time are left out.  A heartbeat to a viewer carries no *)
(* counter: one that cannot be written ends the handler like a client that *)
(* leaves.  samples keeps what TakeSamples has taken; area and top are     *)
(* history variables: the ticks that calls really were in flight and the   *)
(* most of them in each minute.                                            *)
(***************************************************************************)
EXTENDS Integers, Sequences, FiniteSets, Collections

CONSTANTS MaxCalls,      \* bound: calls of both families, in the order in which they begin
          Viewers,       \* the dashboards that may be opened
          Minute,        \* ticks of a minute
          MaxClock,      \* bound: the last tick
          MaxMarks       \* bound: HTTP exchanges in the window

Families == {"request", "attempt"}
Calls == 1..MaxCalls

ASSUME MetricsAssumption ==
  Minute \in Nat \ {0} /\ MaxCalls \in Nat /\ MaxClock \in Nat /\ MaxMarks \in Nat

VARIABLES clock, call, meter, samples, dirty, subs, closed, loop, chan, viewer, area, top

metricsVars == <<clock, call, meter, samples, dirty, subs, closed, loop, chan, viewer, area, top>>
streams == <<subs, closed, loop, chan, viewer>>
counters == <<clock, call, meter, samples, dirty, area, top>>

Bucket(t) == t \div Minute
Open(f) == Cardinality({c \in Calls : call[c] = [family |-> f, at |-> "open"]})
Larger(a, b) == IF a > b THEN a ELSE b

(* What Metrics holds of one family.                                       *)
FreshMeter == [n |-> 0, peak |-> 0, last |-> clock, integral |-> 0, minute |-> Bucket(clock), rpm |-> <<>>]

(* pruneTimes.                                                             *)
Pruned(times) == SelectSeq(times, LAMBDA t : t > clock - Minute)

\* Mutant: the minute that ends takes its peak into the next one.
NextPeak_Carried(m) == m.peak

NextPeak(m) == m.n

(* rollBizLocked, rollUpLocked.                                            *)
Rolled(m) ==
  LET spent == m.integral + m.n * (clock - m.last)
  IN IF Bucket(clock) = m.minute THEN [m EXCEPT !.integral = spent, !.last = clock]
     ELSE [m EXCEPT !.integral = 0, !.peak = NextPeak(m), !.minute = Bucket(clock), !.last = clock]

(* The sample that the roll of family f leaves when its minute is over.    *)
Sampled(f) ==
  LET m == meter[f]
  IN IF Bucket(clock) = m.minute THEN <<>>
     ELSE <<[family |-> f, minute |-> m.minute, peak |-> m.peak,
             integral |-> m.integral + m.n * (clock - m.last)]>>

(* snapshotLocked reads the meters after pruneRPMLocked.                   *)
SnapshotOf(m) ==
  [inflight |-> [f \in Families |-> m[f].n], rpm |-> [f \in Families |-> Len(m[f].rpm)]]

PrunedMeters(m) == [f \in Families |-> [m[f] EXCEPT !.rpm = Pruned(@)]]

Waiting == [pc |-> "wait", todo |-> {}, snap |-> <<>>]

MetricsInit ==
  /\ clock = Minute - 1 /\ call \in [Calls -> [family: {"request"}, at: {"none", "ended"}]]
  /\ meter = [f \in Families |-> FreshMeter] /\ samples = <<>> /\ dirty = FALSE
  /\ subs = {} /\ closed = FALSE /\ loop = Waiting
  /\ chan = [v \in Viewers |-> <<>>] /\ viewer \in [Viewers -> [at: {"away", "gone"}, shown: {<<>>}]]
  /\ area = [f \in Families |-> 0] /\ top = [f \in Families |-> [b \in 0..Bucket(MaxClock) |-> 0]]
-----------------------------------------------------------------------------
MetricsTick ==
  /\ clock < MaxClock /\ clock' = clock + 1
  /\ area' = [f \in Families |-> area[f] + Open(f)]
  /\ top' = [f \in Families |-> [top[f] EXCEPT ![Bucket(clock + 1)] = Larger(@, Open(f))]]
  /\ UNCHANGED <<call, meter, samples, dirty>> /\ UNCHANGED streams

(* BeginBusiness, BeginUpstream: a request counts for the rate at once.    *)
BeginCall(c, f) ==
  LET m == Rolled(meter[f])
  IN /\ call[c].at = "none" /\ (\A d \in 1..(c - 1) : call[d].at # "none")
     /\ call' = [call EXCEPT ![c] = [family |-> f, at |-> "open"]]
     /\ meter' = [meter EXCEPT ![f] =
          [m EXCEPT !.n = @ + 1, !.peak = Larger(@, m.n + 1),
                    !.rpm = IF f = "request" THEN Append(@, clock) ELSE @]]
     /\ samples' = samples \o Sampled(f) /\ dirty' = TRUE
     /\ top' = [top EXCEPT ![f][Bucket(clock)] = Larger(@, Open(f) + 1)]
     /\ UNCHANGED <<clock, area>> /\ UNCHANGED streams

(* The first End of a call's token; the later ones do nothing.             *)
EndCall(c) ==
  LET f == call[c].family
      m == Rolled(meter[f])
  IN /\ call[c].at = "open" /\ call' = [call EXCEPT ![c].at = "ended"]
     /\ meter' = [meter EXCEPT ![f] = [m EXCEPT !.n = IF @ > 0 THEN @ - 1 ELSE @]]
     /\ samples' = samples \o Sampled(f) /\ dirty' = TRUE
     /\ UNCHANGED <<clock, area, top>> /\ UNCHANGED streams

(* One HTTP exchange of an open upstream call begins.                      *)
MarkUpstreamHTTP(c) ==
  /\ call[c] = [family |-> "attempt", at |-> "open"] /\ Len(meter["attempt"].rpm) < MaxMarks
  /\ meter' = [meter EXCEPT !["attempt"].rpm = Append(@, clock)] /\ dirty' = TRUE
  /\ UNCHANGED <<clock, call, samples, area, top>> /\ UNCHANGED streams

(* snapshotLocked prunes the rates and so may owe the viewers a flush.     *)
Prunes == dirty' = (dirty \/ PrunedMeters(meter) # meter) /\ meter' = PrunedMeters(meter)
-----------------------------------------------------------------------------
Due(rolled) == dirty \/ PrunedMeters(rolled) # rolled

(* flush up to its unlock: every 250 ms, and by force every 15 s.          *)
Flush(force) ==
  LET rolled == [f \in Families |-> Rolled(meter[f])]
      pruned == PrunedMeters(rolled)
  IN /\ loop.pc = "wait"
     /\ meter' = pruned /\ samples' = samples \o Sampled("request") \o Sampled("attempt")
     /\ IF Due(rolled) \/ force
        THEN /\ dirty' = FALSE
             /\ loop' = IF subs = {} THEN Waiting
                        ELSE [pc |-> "send", todo |-> subs, snap |-> <<SnapshotOf(pruned)>>]
        ELSE UNCHANGED <<dirty, loop>>
     /\ UNCHANGED <<clock, call, area, top, subs, closed, chan, viewer>>

Sent(v) == IF loop.todo = {v} THEN Waiting ELSE [loop EXCEPT !.todo = @ \ {v}, !.pc = "send"]

\* Mutant: what is in a full channel stays there, the new snapshot is dropped.
Offer_Drop(v) ==
  /\ loop.pc = "send" /\ v \in loop.todo /\ loop' = Sent(v)
  /\ chan' = [chan EXCEPT ![v] = IF @ = <<>> THEN loop.snap ELSE @]
  /\ UNCHANGED counters /\ UNCHANGED <<subs, closed, viewer>>

(* The first send of flush goes into an empty channel or not at all.       *)
Offer(v) ==
  /\ loop.pc = "send" /\ v \in loop.todo
  /\ \/ chan[v] = <<>> /\ chan' = [chan EXCEPT ![v] = loop.snap] /\ loop' = Sent(v)
     \/ chan[v] # <<>> /\ loop' = [loop EXCEPT !.pc = "replace"] /\ UNCHANGED chan
  /\ UNCHANGED counters /\ UNCHANGED <<subs, closed, viewer>>

(* The viewer that was offered in vain: its channel is emptied, unless it  *)
(* was faster, and filled.                                                 *)
Replace(v) ==
  /\ loop.pc = "replace" /\ v \in loop.todo /\ chan' = [chan EXCEPT ![v] = loop.snap]
  /\ loop' = Sent(v)
  /\ UNCHANGED counters /\ UNCHANGED <<subs, closed, viewer>>
-----------------------------------------------------------------------------
(* Subscribe, for DashboardLive.                                           *)
Subscribe(v) ==
  /\ viewer[v].at = "away" /\ viewer' = [viewer EXCEPT ![v].at = "streams"]
  /\ IF closed THEN UNCHANGED <<subs, chan, meter, dirty>>
     ELSE /\ Prunes /\ subs' = subs \cup {v}
          /\ chan' = [chan EXCEPT ![v] = <<SnapshotOf(PrunedMeters(meter))>>]
  /\ UNCHANGED <<clock, call, samples, closed, loop, area, top>>

(* The handler writes what its channel holds.                              *)
Show(v) ==
  /\ viewer[v].at = "streams" /\ chan[v] # <<>> /\ chan' = [chan EXCEPT ![v] = <<>>]
  /\ viewer' = [viewer EXCEPT ![v].shown = chan[v]]
  /\ UNCHANGED counters /\ UNCHANGED <<subs, closed, loop>>

(* The handler returns; Unsubscribe.                                       *)
Returns(v) ==
  /\ viewer' = [viewer EXCEPT ![v] = [at |-> "gone", shown |-> <<>>]] /\ subs' = subs \ {v}
  /\ UNCHANGED counters /\ UNCHANGED <<closed, loop, chan>>

\* The client leaves or cannot be written to.
Leave(v) == viewer[v].at = "streams" /\ Returns(v)

\* Done was closed.
Dismissed(v) == viewer[v].at = "streams" /\ v \notin subs /\ Returns(v)

(* At shutdown, before the server drains its requests, and again by Stop.  *)
CloseSubscriptions ==
  /\ ~closed /\ closed' = TRUE /\ subs' = {}
  /\ UNCHANGED counters /\ UNCHANGED <<loop, chan, viewer>>

(* Stop, when the server has drained: the loop ends at its select.         *)
StopMetrics ==
  /\ closed /\ loop.pc = "wait" /\ loop' = [loop EXCEPT !.pc = "over"]
  /\ UNCHANGED counters /\ UNCHANGED <<subs, closed, chan, viewer>>

Sends == \E v \in Viewers : Offer(v) \/ Replace(v)

MetricsNext ==
  \/ MetricsTick \/ Flush(FALSE) \/ Flush(TRUE) \/ CloseSubscriptions \/ StopMetrics
  \/ \E c \in Calls : (\E f \in Families : BeginCall(c, f)) \/ EndCall(c) \/ MarkUpstreamHTTP(c)
  \/ \E v \in Viewers : Offer(v) \/ Replace(v) \/ Subscribe(v) \/ Show(v) \/ Leave(v) \/ Dismissed(v)

(* The ticker of the loop, its sends that do not block, and each handler's *)
(* select: a viewer whose channels stay ready is served.                   *)
MetricsFairness ==
  /\ WF_metricsVars(Flush(FALSE)) /\ WF_metricsVars(Sends)
  /\ \A v \in Viewers : WF_metricsVars(Show(v)) /\ WF_metricsVars(Dismissed(v))

MetricsSpec == MetricsInit /\ [][MetricsNext]_metricsVars /\ MetricsFairness
-----------------------------------------------------------------------------
(* The ticks of family f in the samples s.                                 *)
Total(f, s) == SumOver([i \in DOMAIN s |-> IF s[i].family = f THEN s[i].integral ELSE 0], DOMAIN s)

(* However begins, ends, flushes and the ends of minutes interleave, the   *)
(* live number is that of the calls in flight; the samples of the minutes  *)
(* that ended and the running minute add up to the time that calls were in *)
(* flight; a family leaves one sample of a minute, with the most calls     *)
(* that were in flight in it (rollBizLocked, rollUpLocked, TakeSamples).   *)
InflightAccounted ==
  /\ \A f \in Families :
       /\ meter[f].n = Open(f)
       /\ Total(f, samples) + meter[f].integral + meter[f].n * (clock - meter[f].last) = area[f]
  /\ \A i \in DOMAIN samples :
       /\ samples[i].peak = top[samples[i].family][samples[i].minute]
       /\ \A j \in 1..(i - 1) : <<samples[j].family, samples[j].minute>> # <<samples[i].family, samples[i].minute>>

(* What a viewer that stays is shown catches up with the counters and the  *)
(* rates, although it may be slow and the loop replaces what it has not    *)
(* read, and a rate sinks with time alone (flush, pruneRPMLocked); after   *)
(* CloseSubscriptions no stream stays open, one that arrives late          *)
(* included, so that the drain need not wait for it (main).                *)
ViewersCatchUp ==
  \A v \in Viewers :
    /\ <>[](viewer[v].at = "streams" /\ ~closed =>
            /\ viewer[v].shown # <<>>
            /\ viewer[v].shown[1].inflight = [f \in Families |-> Open(f)]
            /\ viewer[v].shown[1].rpm = [f \in Families |-> Len(Pruned(meter[f].rpm))])
    /\ closed /\ viewer[v].at = "streams" ~> viewer[v].at = "gone"
=============================================================================
