----------------------------- MODULE RouteGroups ----------------------------
(***************************************************************************)
(* Which keys and which models a consumer's route group gives it           *)
(* (ops/routegroup.go, ops/model_sync.go, handler/routegroup.go, the       *)
(* beginning of Gateway.proxy and Gateway.Models).  A request reads the    *)
(* group it will be billed to before its body and resolves the keys it may *)
(* use after it, while operators edit groups and bindings and jobs change  *)
(* rates and fetched models.  The same rows answer GET /v1/models and the  *)
(* notices on changed models, each by code of its own.                     *)
(*                                                                         *)
(* Model names are model values: case and surrounding blanks, which every  *)
(* comparison ignores, are left out.  A glob stands for the names it       *)
(* matches.  The history field link of a request is not in the code.       *)
(***************************************************************************)
EXTENDS Naturals

CONSTANTS
  Lanes,        \* route groups
  NoLane,       \* not a route group
  Clients,      \* consumer keys
  Pool,         \* platform keys
  Protocols,
  AnyProtocol,  \* the empty protocol of a group
  ModelNames,
  Covers,       \* the names each glob matches
  Unset,        \* a bound that is not set, a field a request leaves out
  Bodies,       \* bodies of requests that create or edit a group
  Fetched,      \* lists of models that keys may have
  KeyRates,
  MaxChanges    \* bound: edits, fetches and syncs

Globs == DOMAIN Covers

ASSUME RouteGroupsAssumption ==
  /\ NoLane \notin Lanes /\ AnyProtocol \notin Protocols
  /\ ModelNames \cap Globs = {} /\ \A p \in Globs : Covers[p] \subseteq ModelNames
  /\ Unset \notin Nat /\ KeyRates \subseteq Nat /\ Fetched \subseteq SUBSET ModelNames
  /\ Protocols # {}
  /\ Bodies \subseteq [on : {Unset} \cup BOOLEAN, protocol : {Unset, AnyProtocol} \cup Protocols,
                      models : {Unset} \cup SUBSET (ModelNames \cup Globs),
                      lo : {Unset} \cup Nat, hi : {Unset} \cup Nat, clear : BOOLEAN,
                      keys : {Unset} \cup SUBSET Pool]
  /\ MaxChanges \in Nat

VARIABLES
  lane,      \* route_groups: a row and its life
  enrolled,  \* route_group_keys: pairs of a group and a key
  binding,   \* consumer_route_groups: the group of a consumer, or NoLane
  keyRow,    \* platform_keys: life, enabled (also its provider), rate, last models
  draft,     \* UpdateRouteGroup in progress: the row it has read
  doomed,    \* DeleteRouteGroup in progress: the group it found unbound
  ask,       \* each consumer's request
  changes

laneVars == <<lane, enrolled, binding, keyRow, draft, doomed, ask, changes>>

Blank == [life |-> "live", on |-> TRUE, protocol |-> AnyProtocol, models |-> {}, lo |-> Unset, hi |-> Unset]
Unborn == [Blank EXCEPT !.life = "unborn"]
NoDraft == [id |-> NoLane, row |-> Unborn]
Silent == [at |-> "idle", link |-> NoLane, billed |-> NoLane, allow |-> {}]

Exists(g) == g \in Lanes /\ lane[g].life = "live"
LiveKeys == {k \in Pool : keyRow[k].life = "live"}
Enabled == {k \in LiveKeys : keyRow[k].on}

LanesInit ==
  /\ \E g \in Lanes :
       /\ lane = [h \in Lanes |-> IF h = g THEN Blank ELSE Unborn]
       /\ enrolled = {g} \X Pool
       /\ binding \in [Clients -> {g, NoLane}]
  /\ \E r \in KeyRates, f \in Fetched : keyRow = [k \in Pool |-> [life |-> "live", on |-> TRUE, rate |-> r, models |-> f]]
  /\ draft = NoDraft /\ doomed = NoLane /\ changes = 0
  /\ ask = [c \in Clients |-> Silent]
-----------------------------------------------------------------------------
(* What a group lets through.                                              *)
MatchModel(pattern, m) == pattern = m \/ (pattern \in Globs /\ m \in Covers[pattern])
MatchesProtocol(row, p) == row.protocol \in {AnyProtocol, p}

RouteGroupMatches(row, p, m) ==
  /\ row.on /\ MatchesProtocol(row, p)
  /\ row.models = {} \/ \E pattern \in row.models : MatchModel(pattern, m)

RateInRange(row, rate) ==
  /\ row.lo # Unset => rate >= row.lo
  /\ row.hi # Unset => rate < row.hi

Members(g) == {k \in LiveKeys : <<g, k>> \in enrolled}

(* The keys of the groups G that a request may use, and the ones left out  *)
(* by their rate alone.                                                    *)
resolveGroupAllowKeys(G, p, m) ==
  LET matched == {g \in G : Exists(g) /\ RouteGroupMatches(lane[g], p, m)}
      allow == {k \in Pool : \E g \in matched : k \in Members(g) /\ RateInRange(lane[g], keyRow[k].rate)}
  IN  [bound |-> TRUE, allow |-> allow, drift |-> (UNION {Members(g) : g \in matched}) \ allow]

Unbound == [bound |-> FALSE, allow |-> LiveKeys, drift |-> {}]

\* For the preview of a route: the consumer's binding as it is now.
ResolveAllowKeys(c, p, m) ==
  IF binding[c] = NoLane THEN Unbound ELSE resolveGroupAllowKeys({binding[c]}, p, m)

\* Mutant: a request looks its binding up again after its body.
ResolveSnapshotAllowKeys_Now(c, p, m) == ResolveAllowKeys(c, p, m)

\* For a request: the group it read before its body.
ResolveSnapshotAllowKeys(c, p, m) ==
  IF ask[c].billed = NoLane THEN Unbound ELSE resolveGroupAllowKeys({ask[c].billed}, p, m)
-----------------------------------------------------------------------------
(* The models shown to a consumer, and the models a group is said to serve *)
(* by the notices of a synchronisation.                                    *)
addFromGroup(row, k) ==
  IF row.models = {} THEN keyRow[k].models
  ELSE {m \in keyRow[k].models : \E pattern \in row.models \cap Globs : MatchModel(pattern, m)}
       \cup (row.models \ Globs)

\* Mutant: the groups of a consumer are read whatever their status.
VisibleGroups_Any(c) == {g \in {binding[c]} : Exists(g)}

VisibleGroups(c) == {g \in {binding[c]} : Exists(g) /\ lane[g].on}

ShownKeys(g) == {k \in Enabled : <<g, k>> \in enrolled /\ RateInRange(lane[g], keyRow[k].rate)}

ListVisibleModels(c) ==
  IF binding[c] = NoLane THEN UNION {keyRow[k].models : k \in Enabled}
  ELSE UNION {UNION {addFromGroup(lane[g], k) : k \in ShownKeys(g)} : g \in VisibleGroups(c)}

groupModelSet(g) ==
  LET kept == {k \in Members(g) \cap Enabled : RateInRange(lane[g], keyRow[k].rate)}
      fetched == UNION {keyRow[k].models : k \in kept}
  IN  IF lane[g].models = {} THEN fetched
      ELSE UNION {IF pattern \in Globs THEN {m \in fetched : MatchModel(pattern, m)}
                  ELSE {x \in {pattern} : kept # {}} : pattern \in lane[g].models}
-----------------------------------------------------------------------------
(* Operators and jobs.                                                     *)
Change == changes < MaxChanges /\ changes' = changes + 1
Given(field, old) == IF field = Unset THEN old ELSE field

applyRouteGroupBody(row, body) ==
  [life |-> "live", on |-> Given(body.on, row.on), protocol |-> Given(body.protocol, row.protocol),
   models |-> Given(body.models, row.models),
   lo |-> IF body.clear THEN Unset ELSE Given(body.lo, row.lo),
   hi |-> IF body.clear THEN Unset ELSE Given(body.hi, row.hi)]

Valid(row) == row.lo # Unset /\ row.hi # Unset => row.lo <= row.hi

\* replaceRouteGroupKeys, where the body lists keys; an unknown one fails the transaction.
KeysExist(body) == body.keys # Unset => body.keys \subseteq LiveKeys
Enrol(g, body) ==
  IF body.keys = Unset THEN enrolled ELSE {e \in enrolled : e[1] # g} \cup ({g} \X body.keys)

CreateRouteGroup(g, body) ==
  /\ Change /\ lane[g] = Unborn
  /\ Valid(applyRouteGroupBody(Blank, body)) /\ KeysExist(body)
  /\ lane' = [lane EXCEPT ![g] = applyRouteGroupBody(Blank, body)]
  /\ enrolled' = Enrol(g, body)
  /\ UNCHANGED <<binding, keyRow, draft, doomed, ask>>

LoadRouteGroup(g) ==
  /\ Change /\ draft = NoDraft /\ Exists(g)
  /\ draft' = [id |-> g, row |-> lane[g]]
  /\ UNCHANGED <<lane, enrolled, binding, keyRow, doomed, ask>>

(* The row is saved whole, over what others saved since it was read;       *)
(* saving inserts a row deleted in between.                                *)
UpdateRouteGroup(body) ==
  LET row == applyRouteGroupBody(draft.row, body)
  IN  /\ draft # NoDraft /\ draft' = NoDraft
      /\ IF Valid(row) /\ KeysExist(body)
         THEN lane' = [lane EXCEPT ![draft.id] = row] /\ enrolled' = Enrol(draft.id, body)
         ELSE UNCHANGED <<lane, enrolled>>
      /\ UNCHANGED <<binding, keyRow, doomed, ask, changes>>

FindUnboundGroup(g) ==
  /\ Change /\ doomed = NoLane /\ Exists(g) /\ \A c \in Clients : binding[c] # g
  /\ doomed' = g
  /\ UNCHANGED <<lane, enrolled, binding, keyRow, draft, ask>>

DeleteRouteGroup ==
  /\ doomed # NoLane /\ doomed' = NoLane
  /\ lane' = [lane EXCEPT ![doomed].life = "gone"]
  /\ enrolled' = {e \in enrolled : e[1] # doomed}
  /\ UNCHANGED <<binding, keyRow, draft, ask, changes>>

\* UpdateConsumerKey with a group, or with none.
setConsumerRouteGroups(c, g) ==
  /\ Change /\ g # binding[c] /\ (g = NoLane \/ Exists(g))
  /\ binding' = [binding EXCEPT ![c] = g]
  /\ UNCHANGED <<lane, enrolled, keyRow, draft, doomed, ask>>

\* A rate or a status is edited or synchronised, models are fetched.
KeyChanges(k) ==
  /\ Change /\ k \in LiveKeys
  /\ \/ \E r \in KeyRates \ {keyRow[k].rate} : keyRow' = [keyRow EXCEPT ![k].rate = r]
     \/ \E f \in Fetched \ {keyRow[k].models} : keyRow' = [keyRow EXCEPT ![k].models = f]
     \/ keyRow' = [keyRow EXCEPT ![k].on = ~@]
  /\ UNCHANGED <<lane, enrolled, binding, draft, doomed, ask>>

DeleteKey(k) ==
  /\ Change /\ k \in LiveKeys
  /\ keyRow' = [keyRow EXCEPT ![k].life = "gone"]
  /\ enrolled' = {e \in enrolled : e[2] # k}
  /\ UNCHANGED <<lane, binding, draft, doomed, ask>>
-----------------------------------------------------------------------------
(* A request: the link is read, then the group, then the body, and then    *)
(* the keys are resolved.                                                  *)
ReadLink(c) ==
  /\ ask[c] = Silent
  /\ ask' = [ask EXCEPT ![c].at = IF binding[c] = NoLane THEN "body" ELSE "linked",
                        ![c].link = binding[c]]
  /\ UNCHANGED <<lane, enrolled, binding, keyRow, draft, doomed, changes>>

\* snapshotConsumerBinding: a link to a group that is gone fails the request.
ReadGroup(c) ==
  /\ ask[c].at = "linked"
  /\ ask' = [ask EXCEPT ![c] = IF Exists(ask[c].link) THEN [@ EXCEPT !.at = "body", !.billed = ask[c].link]
                               ELSE Silent]
  /\ UNCHANGED <<lane, enrolled, binding, keyRow, draft, doomed, changes>>

\* A body that cannot be read, and a bound request without a key, are refused.
ResolveRoute(c) ==
  /\ ask[c].at = "body"
  /\ \/ \E p \in Protocols, m \in ModelNames :
          LET found == ResolveSnapshotAllowKeys(c, p, m)
          IN  ask' = [ask EXCEPT ![c] = IF found.bound /\ found.allow = {} THEN Silent
                                        ELSE [@ EXCEPT !.at = "routed", !.allow = found.allow]]
     \/ ask' = [ask EXCEPT ![c] = Silent]
  /\ UNCHANGED <<lane, enrolled, binding, keyRow, draft, doomed, changes>>

EndRequest(c) ==
  /\ ask[c].at = "routed"
  /\ ask' = [ask EXCEPT ![c] = Silent]
  /\ UNCHANGED <<lane, enrolled, binding, keyRow, draft, doomed, changes>>

LanesNext ==
  \/ \E g \in Lanes, body \in Bodies : CreateRouteGroup(g, body)
  \/ \E g \in Lanes : LoadRouteGroup(g) \/ FindUnboundGroup(g)
  \/ \E body \in Bodies : UpdateRouteGroup(body)
  \/ DeleteRouteGroup
  \/ \E c \in Clients, g \in Lanes \cup {NoLane} : setConsumerRouteGroups(c, g)
  \/ \E k \in Pool : KeyChanges(k) \/ DeleteKey(k)
  \/ \E c \in Clients : ReadLink(c) \/ ReadGroup(c) \/ ResolveRoute(c) \/ EndRequest(c)

LanesSpec == LanesInit /\ [][LanesNext]_laneVars

GroupRows ==
  [life : {"unborn", "live", "gone"}, on : BOOLEAN, protocol : {AnyProtocol} \cup Protocols,
   models : SUBSET (ModelNames \cup Globs), lo : {Unset} \cup Nat, hi : {Unset} \cup Nat]
KeyRows == [life : {"live", "gone"}, on : BOOLEAN, rate : Nat, models : SUBSET ModelNames]
AskRows == [at : {"idle", "linked", "body", "routed"}, link : Lanes \cup {NoLane},
            billed : Lanes \cup {NoLane}, allow : SUBSET Pool]

LanesTypeOK ==
  /\ lane \in [Lanes -> GroupRows] /\ enrolled \subseteq Lanes \X Pool
  /\ binding \in [Clients -> Lanes \cup {NoLane}] /\ keyRow \in [Pool -> KeyRows]
  /\ draft \in {NoDraft} \cup [id : Lanes, row : GroupRows] /\ doomed \in Lanes \cup {NoLane}
  /\ ask \in [Clients -> AskRows]
-----------------------------------------------------------------------------
(* A request whose consumer was bound when it came uses keys of that       *)
(* group, the one on its bill, and of no other: the group may meanwhile be *)
(* edited, deleted or saved again and the consumer bound elsewhere or      *)
(* unbound.  "A missing/deleted bound group yields an empty allowed set,   *)
(* never global routing" (ResolveSnapshotAllowKeys).                       *)
RoutedByItsGroup ==
  [][\A c \in Clients :
       ask'[c].at = "routed" /\ ask[c].at # "routed" /\ ask[c].link # NoLane =>
         LET g == ask[c].link
         IN  /\ ask'[c].billed = g /\ Exists(g) /\ lane[g].on
             /\ ask'[c].allow # {}
             /\ \A k \in ask'[c].allow : k \in Members(g) /\ RateInRange(lane[g], keyRow[k].rate)]_laneVars

(* GET /v1/models and the router, which decide by code of their own, agree *)
(* in every state of the rows: a listed model would be let through to an   *)
(* enabled key, a fetched model that would reach such a key is listed, and *)
(* the notices count for a group what its consumers are shown ("the same   *)
(* expansion ListVisibleModels performs", groupModelSet).                  *)
ListAgreesWithRoutes ==
  \A c \in Clients :
    /\ \A m \in ListVisibleModels(c) : \E p \in Protocols : ResolveAllowKeys(c, p, m).allow \cap Enabled # {}
    /\ \A p \in Protocols, m \in ModelNames :
         \A k \in ResolveAllowKeys(c, p, m).allow \cap Enabled :
           m \in keyRow[k].models => m \in ListVisibleModels(c)
    /\ VisibleGroups(c) # {} => ListVisibleModels(c) = groupModelSet(binding[c])
=============================================================================
