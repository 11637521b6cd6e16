--------------------------- MODULE MC_Operations ----------------------------
(***************************************************************************)
(* What runs beside the requests: the live dashboard (LiveMetrics), the    *)
(* archive of bodies that two instances share during an update             *)
(* (LogArchive) and the edits of route groups (RouteGroups), each on its   *)
(* own: what a behaviour is about is chosen at its start, the other parts  *)
(* rest in a state where nothing is due.                                   *)
(***************************************************************************)
EXTENDS LiveMetrics, LogArchive, RouteGroups

VARIABLE about

(* A dashboard watches one call, or nobody watches several.                *)
Watched == (\A v \in Viewers : viewer[v].at = "away")
           /\ (\A c \in Calls : call[c].at = "none" <=> c = MaxCalls)
Unwatched == (\A v \in Viewers : viewer[v].at = "gone") /\ (\A c \in Calls : call[c].at = "none")

\* Creations and edits: a model, a glob, a protocol and status, bounds, no bounds, no keys.
CONSTANTS l1, n1, n2, star, unset, rp
MCCovers == [p \in {star} |-> {n1}]
MCFetched == {{n1}, {n1, n2}}
NoFields == [on |-> unset, protocol |-> unset, models |-> unset, lo |-> unset, hi |-> unset,
             clear |-> FALSE, keys |-> unset]
MCBodies ==
  {[NoFields EXCEPT !.models = {n2}, !.keys = Pool], [NoFields EXCEPT !.models = {star, n2}, !.hi = 2],
   [NoFields EXCEPT !.protocol = rp, !.on = FALSE], [NoFields EXCEPT !.on = TRUE, !.lo = 2],
   [NoFields EXCEPT !.clear = TRUE, !.models = {}], [NoFields EXCEPT !.keys = {}, !.hi = 1]}
GroupsRest ==
  /\ lane[l1] = Blank /\ \A c \in Clients : binding[c] = NoLane
  /\ \A k \in Pool : keyRow[k].rate = 1 /\ keyRow[k].models = {n1}

MCInit ==
  /\ MetricsInit /\ Init /\ LanesInit
  /\ about \in {"archive", "metrics", "groups"}
  /\ GroupsRest \/ about = "groups"
  /\ \A i \in Instances : inst[i].up # (about = "archive")
  /\ Unwatched \/ (about = "metrics" /\ Watched)

MCNext ==
  \/ about = "archive" /\ Next /\ UNCHANGED <<metricsVars, laneVars, about>>
  \/ about = "metrics" /\ MetricsNext /\ UNCHANGED <<vars, laneVars, about>>
  \/ about = "groups" /\ LanesNext /\ UNCHANGED <<vars, metricsVars, about>>

MCSpec ==
  /\ MCInit /\ [][MCNext]_<<vars, metricsVars, laneVars, about>>
  /\ ArchiveFairness /\ MetricsFairness
=============================================================================
