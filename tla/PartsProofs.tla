---------------------------- MODULE PartsProofs -----------------------------
(***************************************************************************)
(* Proofs about parts that meet the others only through the rows they      *)
(* share: the lanes of consumers, the stream that is held back and the     *)
(* low-balance alerts.                                                     *)
(***************************************************************************)
EXTENDS RouteGroups, StreamHold, BalanceAlerts, FiniteSetTheorems, TLAPS

(* Proofs about RouteGroups for any groups, consumers, keys, names and     *)
(* globs, and any number of changes.                                       *)

(* The inductive invariant: the rows have their types, and a request that  *)
(* waits for its body is billed to the group of the link it read.          *)
BilledAsLinked == \A c \in Clients : ask[c].at = "body" => ask[c].billed = ask[c].link
LanesInv == LanesTypeOK /\ BilledAsLinked

(* Every row a create or an update saves is a group's row, whatever fields *)
(* the body leaves out (applyRouteGroupBody).                              *)
LEMMA BodyGivesRow ==
  ASSUME NEW row \in GroupRows, NEW form \in Bodies
  PROVE  applyRouteGroupBody(row, form) \in GroupRows
<1>1. form \in [on : {Unset} \cup BOOLEAN, protocol : {Unset, AnyProtocol} \cup Protocols,
                models : {Unset} \cup SUBSET (ModelNames \cup Globs),
                lo : {Unset} \cup Nat, hi : {Unset} \cup Nat, clear : BOOLEAN,
                keys : {Unset} \cup SUBSET Pool]
  BY RouteGroupsAssumption, Zenon DEF RouteGroupsAssumption
<1>2. Given(form.on, row.on) \in BOOLEAN
  BY <1>1, Zenon DEF Given, GroupRows
<1>3. Given(form.protocol, row.protocol) \in {AnyProtocol} \cup Protocols
  BY <1>1, Zenon DEF Given, GroupRows
<1>4. Given(form.models, row.models) \in SUBSET (ModelNames \cup Globs)
  BY <1>1, Zenon DEF Given, GroupRows
<1>5. /\ (IF form.clear THEN Unset ELSE Given(form.lo, row.lo)) \in {Unset} \cup Nat
      /\ (IF form.clear THEN Unset ELSE Given(form.hi, row.hi)) \in {Unset} \cup Nat
  BY <1>1, Zenon DEF Given, GroupRows
<1> QED
  BY <1>2, <1>3, <1>4, <1>5, Zenon DEF applyRouteGroupBody, GroupRows

(* The keys a body lists replace the members of one group                  *)
(* (replaceRouteGroupKeys).                                                *)
LEMMA EnrolTyped ==
  ASSUME LanesTypeOK, NEW g \in Lanes, NEW form \in Bodies
  PROVE  Enrol(g, form) \subseteq Lanes \X Pool
<1>1. form.keys \in {Unset} \cup SUBSET Pool
  BY RouteGroupsAssumption, Zenon DEF RouteGroupsAssumption
<1> QED
  BY <1>1, Zenon DEF Enrol, LanesTypeOK

LEMMA LanesInitInv == LanesInit => LanesInv
<1> SUFFICES ASSUME LanesInit PROVE LanesInv
  BY Zenon
<1> USE RouteGroupsAssumption DEF RouteGroupsAssumption
<1>1. Blank \in GroupRows /\ Unborn \in GroupRows
  BY Zenon DEF Blank, Unborn, GroupRows
<1>2. PICK g \in Lanes : /\ lane = [h \in Lanes |-> IF h = g THEN Blank ELSE Unborn]
                         /\ enrolled = {g} \X Pool
                         /\ binding \in [Clients -> {g, NoLane}]
  BY Zenon DEF LanesInit
<1>3. lane \in [Lanes -> GroupRows] /\ enrolled \subseteq Lanes \X Pool
  BY <1>1, <1>2, Zenon
<1>4. binding \in [Clients -> Lanes \cup {NoLane}]
  BY <1>2, Zenon
<1>5. keyRow \in [Pool -> KeyRows]
  <2>1. PICK r \in KeyRates, f \in Fetched :
          keyRow = [k \in Pool |-> [life |-> "live", on |-> TRUE, rate |-> r, models |-> f]]
    BY Zenon DEF LanesInit
  <2> QED
    BY <2>1, Zenon DEF KeyRows
<1>6. ask \in [Clients -> AskRows] /\ BilledAsLinked
  BY Zenon DEF LanesInit, Silent, AskRows, BilledAsLinked
<1> QED
  BY <1>3, <1>4, <1>5, <1>6, Zenon DEF LanesInv, LanesTypeOK, LanesInit

(* A step of an operator or of a job leaves every request as it is; a step *)
(* of a request leaves the rows.                                           *)
LEMMA LanesStepInv == LanesInv /\ [LanesNext]_laneVars => LanesInv'
<1> SUFFICES ASSUME LanesInv, [LanesNext]_laneVars PROVE LanesInv'
  BY Zenon
<1> USE RouteGroupsAssumption DEF RouteGroupsAssumption
<1>0. LanesTypeOK /\ BilledAsLinked
  BY Zenon DEF LanesInv
<1>1. ASSUME NEW g \in Lanes, NEW form \in Bodies, CreateRouteGroup(g, form)
      PROVE  LanesInv'
  <2>1. Blank \in GroupRows
    BY Zenon DEF Blank, GroupRows
  <2>2. lane' \in [Lanes -> GroupRows]
    BY <1>0, <1>1, <2>1, BodyGivesRow, Zenon DEF CreateRouteGroup, LanesTypeOK
  <2>3. enrolled' \subseteq Lanes \X Pool
    BY <1>0, <1>1, EnrolTyped, Zenon DEF CreateRouteGroup
  <2> QED
    BY <1>0, <1>1, <2>2, <2>3, Zenon DEF CreateRouteGroup, LanesInv, LanesTypeOK, BilledAsLinked
<1>2. ASSUME NEW g \in Lanes, LoadRouteGroup(g)
      PROVE  LanesInv'
  <2>1. lane[g] \in GroupRows
    BY <1>0, Zenon DEF LanesTypeOK
  <2>2. draft' \in [id : Lanes, row : GroupRows]
    BY <1>2, <2>1, Zenon DEF LoadRouteGroup
  <2> QED
    BY <1>0, <1>2, <2>2, Zenon DEF LoadRouteGroup, LanesInv, LanesTypeOK, BilledAsLinked
<1>3. ASSUME NEW g \in Lanes, FindUnboundGroup(g)
      PROVE  LanesInv'
  BY <1>0, <1>3, Zenon DEF FindUnboundGroup, LanesInv, LanesTypeOK, BilledAsLinked
<1>4. ASSUME NEW form \in Bodies, UpdateRouteGroup(form)
      PROVE  LanesInv'
  <2>1. draft.id \in Lanes /\ draft.row \in GroupRows
    BY <1>0, <1>4, Zenon DEF UpdateRouteGroup, LanesTypeOK
  <2>2. lane' \in [Lanes -> GroupRows]
    BY <1>0, <1>4, <2>1, BodyGivesRow DEF UpdateRouteGroup, LanesTypeOK
  <2>3. enrolled' \subseteq Lanes \X Pool
    BY <1>0, <1>4, <2>1, EnrolTyped DEF UpdateRouteGroup, LanesTypeOK
  <2> QED
    BY <1>0, <1>4, <2>2, <2>3, Zenon DEF UpdateRouteGroup, LanesInv, LanesTypeOK, BilledAsLinked
<1>5. ASSUME DeleteRouteGroup
      PROVE  LanesInv'
  <2>1. lane' \in [Lanes -> GroupRows]
    BY <1>0, <1>5 DEF DeleteRouteGroup, LanesTypeOK, GroupRows
  <2> QED
    BY <1>0, <1>5, <2>1, Zenon DEF DeleteRouteGroup, LanesInv, LanesTypeOK, BilledAsLinked
<1>6. ASSUME NEW c \in Clients, NEW g \in Lanes \cup {NoLane}, setConsumerRouteGroups(c, g)
      PROVE  LanesInv'
  BY <1>0, <1>6, Zenon DEF setConsumerRouteGroups, LanesInv, LanesTypeOK, BilledAsLinked
<1>7. ASSUME NEW k \in Pool, KeyChanges(k)
      PROVE  LanesInv'
  <2>1. keyRow' \in [Pool -> KeyRows]
    <3>1. keyRow \in [Pool -> KeyRows] /\ keyRow[k] \in KeyRows
      BY <1>0, Zenon DEF LanesTypeOK
    <3>2. ASSUME NEW r \in KeyRates PROVE [keyRow EXCEPT ![k].rate = r] \in [Pool -> KeyRows]
      BY <3>1, Zenon DEF KeyRows
    <3>3. ASSUME NEW f \in Fetched PROVE [keyRow EXCEPT ![k].models = f] \in [Pool -> KeyRows]
      BY <3>1, Zenon DEF KeyRows
    <3>4. [keyRow EXCEPT ![k].on = ~@] \in [Pool -> KeyRows]
      <4> DEFINE flipped == ~keyRow[k].on
      <4>2. flipped \in BOOLEAN
        BY Zenon
      <4> HIDE DEF flipped
      <4>3. [keyRow EXCEPT ![k].on = flipped] \in [Pool -> KeyRows]
        BY <3>1, <4>2, Zenon DEF KeyRows
      <4> QED
        BY <4>3, Zenon DEF flipped
    <3> QED
      BY <1>7, <3>2, <3>3, <3>4, Zenon DEF KeyChanges
  <2> QED
    BY <1>0, <1>7, <2>1, Zenon DEF KeyChanges, LanesInv, LanesTypeOK, BilledAsLinked
<1>8. ASSUME NEW k \in Pool, DeleteKey(k)
      PROVE  LanesInv'
  <2>1. keyRow' \in [Pool -> KeyRows]
    BY <1>0, <1>8 DEF DeleteKey, LanesTypeOK, KeyRows
  <2> QED
    BY <1>0, <1>8, <2>1, Zenon DEF DeleteKey, LanesInv, LanesTypeOK, BilledAsLinked
<1>9. ASSUME NEW c \in Clients, ReadLink(c) \/ ReadGroup(c) \/ ResolveRoute(c) \/ EndRequest(c)
      PROVE  LanesInv'
  <2>1. Silent \in AskRows /\ ask[c] \in AskRows /\ binding[c] \in Lanes \cup {NoLane}
    BY <1>0, Zenon DEF Silent, AskRows, LanesTypeOK
  <2>2. CASE ReadLink(c)
    <3>1. ask' \in [Clients -> AskRows]
      BY <1>0, <2>1, <2>2, Zenon DEF ReadLink, LanesTypeOK, AskRows
    <3>2. BilledAsLinked'
      BY <1>0, <2>1, <2>2 DEF ReadLink, LanesTypeOK, BilledAsLinked, Silent
    <3> QED
      BY <1>0, <2>2, <3>1, <3>2, Zenon DEF ReadLink, LanesInv, LanesTypeOK
  <2>3. CASE ReadGroup(c)
    <3>1. ask' \in [Clients -> AskRows]
      BY <1>0, <2>1, <2>3, Zenon DEF ReadGroup, LanesTypeOK, AskRows
    <3>2. BilledAsLinked'
      BY <1>0, <2>1, <2>3, Zenon DEF ReadGroup, LanesTypeOK, BilledAsLinked, Silent, AskRows
    <3> QED
      BY <1>0, <2>3, <3>1, <3>2, Zenon DEF ReadGroup, LanesInv, LanesTypeOK
  <2>4. CASE ResolveRoute(c)
    <3>1. ASSUME NEW p \in Protocols, NEW m \in ModelNames
          PROVE  ResolveSnapshotAllowKeys(c, p, m).allow \in SUBSET Pool
      BY Zenon DEF ResolveSnapshotAllowKeys, resolveGroupAllowKeys, Unbound, LiveKeys
    <3>0. Silent.at # "body"
      BY Zenon DEF Silent
    <3>2. PICK left : ask' = [ask EXCEPT ![c] = left] /\ left \in AskRows /\ left.at # "body"
      <4>1. CASE ask' = [ask EXCEPT ![c] = Silent]
        BY <2>1, <3>0, <4>1, Zenon
      <4>2. ASSUME NEW p \in Protocols, NEW m \in ModelNames,
                   ask' = [ask EXCEPT ![c] =
                             IF /\ ResolveSnapshotAllowKeys(c, p, m).bound
                                /\ ResolveSnapshotAllowKeys(c, p, m).allow = {}
                             THEN Silent
                             ELSE [ask[c] EXCEPT !.at = "routed",
                                                 !.allow = ResolveSnapshotAllowKeys(c, p, m).allow]]
            PROVE  \E left : ask' = [ask EXCEPT ![c] = left] /\ left \in AskRows /\ left.at # "body"
        <5> DEFINE to == [ask[c] EXCEPT !.at = "routed",
                                        !.allow = ResolveSnapshotAllowKeys(c, p, m).allow]
        <5>1. to \in AskRows /\ to.at # "body"
          BY <2>1, <3>1, Zenon DEF AskRows
        <5> QED
          BY <2>1, <3>0, <4>2, <5>1, Zenon
      <4> QED
        BY <1>0, <2>4, <4>1, <4>2, Zenon DEF ResolveRoute, LanesTypeOK
    <3>3. ask' \in [Clients -> AskRows] /\ BilledAsLinked'
      BY <1>0, <3>2, Zenon DEF LanesTypeOK, BilledAsLinked
    <3> QED
      BY <1>0, <2>4, <3>3, Zenon DEF ResolveRoute, LanesInv, LanesTypeOK
  <2>5. CASE EndRequest(c)
    <3>1. ask' \in [Clients -> AskRows] /\ BilledAsLinked'
      BY <1>0, <2>1, <2>5, Zenon DEF EndRequest, LanesTypeOK, BilledAsLinked, Silent
    <3> QED
      BY <1>0, <2>5, <3>1, Zenon DEF EndRequest, LanesInv, LanesTypeOK
  <2> QED
    BY <1>9, <2>2, <2>3, <2>4, <2>5, Zenon
<1>10. CASE UNCHANGED laneVars
  BY <1>0, <1>10, Zenon DEF laneVars, LanesInv, LanesTypeOK, BilledAsLinked
<1> QED
  BY <1>1, <1>2, <1>3, <1>4, <1>5, <1>6, <1>7, <1>8, <1>9, <1>10, Zenon DEF LanesNext

(* Type correctness, and that a request waiting for its body is billed to  *)
(* the group it was linked to (snapshotConsumerBinding).                   *)
THEOREM LanesInvariant == LanesSpec => []LanesInv
<1> QED
  BY LanesInitInv, LanesStepInv, PTL DEF LanesSpec

(* A request is routed within the group its consumer was bound to when it  *)
(* came, whatever is edited, deleted, saved again or bound elsewhere while *)
(* its body is read (Gateway.proxy, ResolveSnapshotAllowKeys).             *)
THEOREM RequestsStayInTheirGroup == LanesSpec => RoutedByItsGroup
<1> DEFINE StaysInside ==
      \A c \in Clients :
        ask'[c].at = "routed" /\ ask[c].at # "routed" /\ ask[c].link # NoLane =>
          LET g == ask[c].link
          IN  /\ ask'[c].billed = g /\ Exists(g) /\ lane[g].on
              /\ ask'[c].allow # {}
              /\ \A k \in ask'[c].allow : k \in Members(g) /\ RateInRange(lane[g], keyRow[k].rate)
<1>1. LanesInv /\ [LanesNext]_laneVars => [StaysInside]_laneVars
  <2> SUFFICES ASSUME LanesInv, LanesNext, NEW c \in Clients,
                      ask'[c].at = "routed", ask[c].at # "routed", ask[c].link # NoLane
               PROVE  LET g == ask[c].link
                      IN  /\ ask'[c].billed = g /\ Exists(g) /\ lane[g].on
                          /\ ask'[c].allow # {}
                          /\ \A k \in ask'[c].allow :
                               k \in Members(g) /\ RateInRange(lane[g], keyRow[k].rate)
    BY Zenon
  <2>1. ask \in [Clients -> AskRows] /\ ask[c] \in AskRows
    BY Zenon DEF LanesInv, LanesTypeOK
  <2>2. ask' # ask
    BY Zenon
  <2>3. PICK d \in Clients : ReadLink(d) \/ ReadGroup(d) \/ ResolveRoute(d) \/ EndRequest(d)
    BY <2>2, Zenon DEF LanesNext, CreateRouteGroup, LoadRouteGroup, FindUnboundGroup, UpdateRouteGroup,
                DeleteRouteGroup, setConsumerRouteGroups, KeyChanges, DeleteKey
  <2>4. d = c
    BY <2>1, <2>3, Zenon DEF ReadLink, ReadGroup, ResolveRoute, EndRequest
  <2>5. ~ReadLink(c) /\ ~ReadGroup(c) /\ ~EndRequest(c)
    <3>1. Silent.link = NoLane /\ Silent.at # "routed"
      BY Zenon DEF Silent
    <3>2. ~ReadLink(c) /\ ~EndRequest(c)
      BY <3>1, Zenon DEF ReadLink, EndRequest
    <3>3. [ask[c] EXCEPT !.at = "body", !.billed = ask[c].link].at # "routed"
      BY <2>1, Zenon DEF AskRows
    <3>4. ~ReadGroup(c)
      BY <2>1, <3>1, <3>3, Zenon DEF ReadGroup
    <3> QED
      BY <3>2, <3>4, Zenon
  <2>6. ResolveRoute(c)
    BY <2>3, <2>4, <2>5, Zenon
  <2>7. ask[c].billed = ask[c].link
    BY <2>6, Zenon DEF ResolveRoute, LanesInv, BilledAsLinked
  <2>8. PICK p \in Protocols, m \in ModelNames :
          ask' = [ask EXCEPT ![c] =
                    IF /\ ResolveSnapshotAllowKeys(c, p, m).bound
                       /\ ResolveSnapshotAllowKeys(c, p, m).allow = {}
                    THEN Silent
                    ELSE [ask[c] EXCEPT !.at = "routed",
                                        !.allow = ResolveSnapshotAllowKeys(c, p, m).allow]]
    <3>1. [ask EXCEPT ![c] = Silent][c].at # "routed"
      BY <2>1, Zenon DEF Silent
    <3> QED
      BY <2>6, <3>1, Zenon DEF ResolveRoute
  <2> DEFINE found == resolveGroupAllowKeys({ask[c].link}, p, m)
  <2>9. ResolveSnapshotAllowKeys(c, p, m) = found /\ found.bound
    BY <2>7, Zenon DEF ResolveSnapshotAllowKeys, resolveGroupAllowKeys
  <2>10. ask'[c].allow = found.allow /\ found.allow # {} /\ ask'[c].billed = ask[c].billed
    <3>1. Silent.at # "routed"
      BY Zenon DEF Silent
    <3> HIDE DEF found
    <3>2. ask'[c] = IF found.bound /\ found.allow = {} THEN Silent
                    ELSE [ask[c] EXCEPT !.at = "routed", !.allow = found.allow]
      BY <2>1, <2>8, <2>9, Zenon
    <3>3. ask'[c] = [ask[c] EXCEPT !.at = "routed", !.allow = found.allow] /\ found.allow # {}
      BY <2>9, <3>1, <3>2, Zenon
    <3> QED
      BY <2>1, <3>3, Zenon DEF AskRows
  <2>11. \A k \in found.allow :
           /\ Exists(ask[c].link) /\ lane[ask[c].link].on
           /\ k \in Members(ask[c].link) /\ RateInRange(lane[ask[c].link], keyRow[k].rate)
    BY Zenon DEF resolveGroupAllowKeys, RouteGroupMatches
  <2> QED
    BY <2>7, <2>10, <2>11, Zenon
<1> QED
  BY <1>1, LanesInvariant, PTL DEF LanesSpec, RoutedByItsGroup

(* What GET /v1/models takes from a group's keys one by one is what the    *)
(* notices compute pattern by pattern (addFromGroup, groupModelSet).       *)
LEMMA ExpansionsAgree ==
  ASSUME NEW g
  PROVE  UNION {addFromGroup(lane[g], k) : k \in ShownKeys(g)} = groupModelSet(g)
<1> DEFINE kept == {k \in Members(g) \cap Enabled : RateInRange(lane[g], keyRow[k].rate)}
           fetched == UNION {keyRow[k].models : k \in kept}
<1>1. kept = ShownKeys(g)
  BY Zenon DEF ShownKeys, Members, Enabled
<1>2. CASE lane[g].models = {}
  BY <1>1, <1>2, Zenon DEF addFromGroup, groupModelSet
<1>3. CASE lane[g].models # {}
  <2> DEFINE listed == UNION {addFromGroup(lane[g], k) : k \in ShownKeys(g)}
             part(x) == IF x \in Globs THEN {m \in fetched : MatchModel(x, m)}
                        ELSE {y \in {x} : kept # {}}
  <2>0. groupModelSet(g) = UNION {part(x) : x \in lane[g].models}
    BY <1>3, Zenon DEF groupModelSet
  <2>1. ASSUME NEW m
        PROVE  m \in listed <=> \E k \in kept :
                 \/ m \in keyRow[k].models /\ \E x \in lane[g].models \cap Globs : MatchModel(x, m)
                 \/ m \in lane[g].models \ Globs
    BY <1>1, <1>3 DEF addFromGroup
  <2>2. ASSUME NEW m
        PROVE  m \in groupModelSet(g) <=>
                 \/ \E x \in lane[g].models \cap Globs : m \in fetched /\ MatchModel(x, m)
                 \/ m \in lane[g].models \ Globs /\ kept # {}
    BY <2>0
  <2>3. ASSUME NEW m PROVE m \in fetched <=> \E k \in kept : m \in keyRow[k].models
    BY Zenon
  <2> HIDE DEF kept, fetched, listed
  <2>4. ASSUME NEW m PROVE m \in listed <=> m \in groupModelSet(g)
    BY <2>1, <2>2, <2>3
  <2> QED
    BY <2>4, Zenon DEF listed
<1> QED
  BY <1>2, <1>3, Zenon

(* What the router allows a bound consumer, key by key                     *)
(* (resolveGroupAllowKeys).                                                *)
LEMMA AllowedKeys ==
  ASSUME NEW c \in Clients, NEW p, NEW m, NEW k, binding[c] # NoLane
  PROVE  k \in ResolveAllowKeys(c, p, m).allow <=>
           /\ k \in Pool /\ Exists(binding[c]) /\ RouteGroupMatches(lane[binding[c]], p, m)
           /\ k \in Members(binding[c]) /\ RateInRange(lane[binding[c]], keyRow[k].rate)
BY Zenon DEF ResolveAllowKeys, resolveGroupAllowKeys

(* The list and the router agree on any well-formed rows.                  *)
LEMMA RowsAgree == LanesTypeOK => ListAgreesWithRoutes
<1> SUFFICES ASSUME LanesTypeOK, NEW c \in Clients
             PROVE  /\ \A m \in ListVisibleModels(c) :
                         \E p \in Protocols : ResolveAllowKeys(c, p, m).allow \cap Enabled # {}
                    /\ \A p \in Protocols, m \in ModelNames :
                         \A k \in ResolveAllowKeys(c, p, m).allow \cap Enabled :
                           m \in keyRow[k].models => m \in ListVisibleModels(c)
                    /\ VisibleGroups(c) # {} => ListVisibleModels(c) = groupModelSet(binding[c])
  BY Zenon DEF ListAgreesWithRoutes
<1>0. PICK some : some \in Protocols
  BY RouteGroupsAssumption, Zenon DEF RouteGroupsAssumption
<1>1. CASE binding[c] = NoLane
  <2>1. VisibleGroups(c) = {}
    BY <1>1, RouteGroupsAssumption, Zenon DEF VisibleGroups, Exists, RouteGroupsAssumption
  <2>2. ListVisibleModels(c) = UNION {keyRow[k].models : k \in Enabled}
    BY <1>1, Zenon DEF ListVisibleModels
  <2>3. ASSUME NEW p, NEW m PROVE ResolveAllowKeys(c, p, m).allow = LiveKeys
    BY <1>1, Zenon DEF ResolveAllowKeys, Unbound
  <2>4. Enabled \subseteq LiveKeys
    BY Zenon DEF Enabled
  <2> QED
    BY <1>0, <2>1, <2>2, <2>3, <2>4, Zenon
<1>2. CASE binding[c] # NoLane
  <2> DEFINE g == binding[c]
             open == Exists(g) /\ lane[g].on
  <2>1. g \in Lanes /\ lane[g] \in GroupRows
    BY <1>2, Zenon DEF LanesTypeOK
  <2>2. ListVisibleModels(c) = UNION {UNION {addFromGroup(lane[h], k) : k \in ShownKeys(h)} :
                                        h \in VisibleGroups(c)}
    BY <1>2, Zenon DEF ListVisibleModels
  <2>3. CASE ~open
    <3>1. VisibleGroups(c) = {} /\ ListVisibleModels(c) = {}
      BY <2>2, <2>3 DEF VisibleGroups
    <3>2. ASSUME NEW p, NEW m PROVE ResolveAllowKeys(c, p, m).allow = {}
      BY <1>2, <2>3, AllowedKeys, Zenon DEF RouteGroupMatches
    <3> QED
      BY <3>1, <3>2, Zenon
  <2>4. CASE open
    <3>1. VisibleGroups(c) = {g}
      BY <2>4, Zenon DEF VisibleGroups
    <3>2. ListVisibleModels(c) = UNION {addFromGroup(lane[g], k) : k \in ShownKeys(g)}
      BY <2>2, <3>1
    <3>3. ListVisibleModels(c) = groupModelSet(g)
      BY <3>2, ExpansionsAgree, Zenon
    <3>4. ASSUME NEW m, NEW k \in ShownKeys(g), m \in addFromGroup(lane[g], k)
          PROVE  \E p \in Protocols : ResolveAllowKeys(c, p, m).allow \cap Enabled # {}
      <4>1. PICK p \in Protocols : MatchesProtocol(lane[g], p)
        BY <1>0, <2>1, Zenon DEF MatchesProtocol, GroupRows
      <4>2. lane[g].models = {} \/ \E x \in lane[g].models : MatchModel(x, m)
        BY <3>4, Zenon DEF addFromGroup, MatchModel
      <4>3. RouteGroupMatches(lane[g], p, m)
        BY <2>4, <4>1, <4>2, Zenon DEF RouteGroupMatches
      <4>4. k \in ResolveAllowKeys(c, p, m).allow /\ k \in Enabled
        BY <1>2, <2>4, <4>3, AllowedKeys, Zenon DEF ShownKeys, Members, Enabled, LiveKeys
      <4> QED
        BY <4>4, Zenon
    <3>5. ASSUME NEW p \in Protocols, NEW m \in ModelNames,
                 NEW k \in ResolveAllowKeys(c, p, m).allow \cap Enabled, m \in keyRow[k].models
          PROVE  m \in ListVisibleModels(c)
      <4>1. RouteGroupMatches(lane[g], p, m) /\ k \in ShownKeys(g)
        BY <1>2, AllowedKeys, Zenon DEF ShownKeys, Members
      <4>2. m \in addFromGroup(lane[g], k)
        BY <3>5, <4>1, Zenon DEF RouteGroupMatches, MatchModel, addFromGroup
      <4> QED
        BY <3>2, <4>1, <4>2, Zenon
    <3> QED
      BY <3>2, <3>3, <3>4, <3>5, Zenon
  <2> QED
    BY <2>3, <2>4, Zenon
<1> QED
  BY <1>1, <1>2, Zenon

(* In every state of the rows, GET /v1/models lists what the router would  *)
(* let the consumer use, and the notices count the same (ListVisibleModels,*)
(* ResolveAllowKeys, groupModelSet).                                       *)
THEOREM ListAndRouterAgree == LanesSpec => []ListAgreesWithRoutes
<1> QED
  BY LanesInvariant, RowsAgree, PTL DEF LanesInv
-----------------------------------------------------------------------------
(* StreamHold implements StreamPromise, for a stream and a held prefix of  *)
(* any length.  The lines the client got, the held prefix, the unwritten   *)
(* tail and the last chunk are consecutive runs of the upstream's lines;   *)
(* the invariant says which of them there are at each place of the two     *)
(* goroutines.                                                             *)

(* The lines after a up to b, each once and in order.                      *)
Run(s, a, b) == s \in Seq(Nat) /\ Len(s) = b - a /\ \A i \in 1..Len(s) : s[i] = a + i

(* The lines of the last chunk are still in the copier's hands.            *)
InHand == copier \in {"stop", "check", "buffer", "tail"}
Placed == IF InHand THEN read - Len(chunk) ELSE read

ProofTypeOK ==
  /\ read \in Nat /\ written \in BOOLEAN
  /\ client \in Seq(Nat) /\ tail \in Seq(Nat) /\ chunk \in Seq(Nat)
  /\ hold \in [mu : {"free", "reader", "timer"}, pending : Seq(Nat), released : BOOLEAN, dead : BOOLEAN]
  /\ watch \in [mu : {"free", "timer"}, stopped : BOOLEAN, fired : BOOLEAN, onFire : BOOLEAN]

(* Who has which mutex, and where a goroutine may be that has it.          *)
LocksHeld ==
  /\ watch.mu = "timer" <=> timer \in {"salvage", "commit"}
  /\ hold.mu = "timer" <=> timer = "commit"
  /\ hold.mu = "reader" <=> copier = "commit"
  /\ hold.mu # "free" => hold.released
  /\ timer \in {"salvage", "commit"} => read > 0
  /\ copier = "send" => read = 0 /\ ~hold.released
  /\ copier = "done" => watch.stopped /\ timer \notin {"salvage", "commit"}
  /\ copier = "tail" => hold.released /\ hold.mu = "free"

Begun == hold.released /\ hold.mu = "free"

(* Where the lines are.                                                    *)
LinesPlaced ==
  /\ InHand => Run(chunk, Placed, read)
  /\ copier \notin {"settle", "done"} =>
       /\ ~Begun => client = <<>> /\ ~written /\ tail = <<>> /\ Run(hold.pending, 0, Placed)
       /\ Begun => written /\ Run(client, 0, Len(client)) /\ Run(tail, Len(client), Placed)
  /\ copier \in {"buffer", "release", "commit"} \/ (copier = "term" /\ col.terminal) => tail = <<>>
  /\ copier = "settle" /\ ret = "none" => written /\ Len(client) = read

StreamInv == ProofTypeOK /\ LocksHeld /\ LinesPlaced

(* Where the second of two sequences stands in their concatenation.        *)
LEMMA SecondPart ==
  ASSUME NEW s \in Seq(Nat), NEW t \in Seq(Nat), NEW i \in (Len(s) + 1)..(Len(s) + Len(t))
  PROVE  (s \o t)[i] = t[i - Len(s)]
OBVIOUS

(* Consecutive runs concatenate (append in holdBuffer and copySSE).        *)
LEMMA RunConcat ==
  ASSUME NEW a \in Int, NEW b \in Int, NEW c \in Int, NEW s, NEW t, Run(s, a, b), Run(t, b, c)
  PROVE  Run(s \o t, a, c)
<1>1. s \in Seq(Nat) /\ t \in Seq(Nat) /\ Len(s) = b - a /\ Len(t) = c - b
  BY Zenon DEF Run
<1>2. s \o t \in Seq(Nat) /\ Len(s \o t) = Len(s) + Len(t)
  BY <1>1
<1>3. ASSUME NEW i \in 1..Len(s \o t) PROVE (s \o t)[i] = a + i
  <2>1. CASE i <= Len(s)
    BY <1>1, <1>2, <2>1 DEF Run
  <2>2. CASE i > Len(s)
    <3>1. i - Len(s) \in 1..Len(t)
      BY <1>1, <1>2, <2>2
    <3>2. (s \o t)[i] = t[i - Len(s)]
      <4>1. i \in (Len(s) + 1)..(Len(s) + Len(t))
        BY <1>1, <1>2, <2>2
      <4> QED BY <1>1, <4>1, SecondPart, Zenon
    <3>3. t[i - Len(s)] = b + (i - Len(s))
      BY <3>1, Zenon DEF Run
    <3> QED
      BY <1>1, <3>2, <3>3
  <2> QED
    BY <1>1, <2>1, <2>2
<1> QED
  BY <1>1, <1>2, <1>3 DEF Run

LEMMA RunIsPrefix ==
  ASSUME NEW s, Run(s, 0, Len(s)) PROVE Promise!Prefix(s)
BY DEF Run, Promise!Prefix

LEMMA StreamInitInv == StreamInit => StreamInv
<1> SUFFICES ASSUME StreamInit PROVE StreamInv
  BY Zenon
<1>1. ProofTypeOK
  <2>1. <<>> \in Seq(Nat)
    OBVIOUS
  <2> QED
    BY <2>1, Zenon DEF StreamInit, ProofTypeOK
<1>2. LocksHeld
  <2>1. /\ watch.mu = "free" /\ hold.mu = "free" /\ ~hold.released /\ read = 0
        /\ copier = "send" /\ timer \in {"armed", "off"}
    BY Zenon DEF StreamInit
  <2> QED
    BY <2>1, Zenon DEF LocksHeld
<1>3. Run(hold.pending, 0, 0)
  BY DEF StreamInit, Run
<1>4. LinesPlaced
  BY <1>3, Zenon DEF StreamInit, LinesPlaced, InHand, Placed, Begun
<1> QED
  BY <1>1, <1>2, <1>4, Zenon DEF StreamInv

LEMMA StreamStepInv == StreamInv /\ [StreamNext]_streamVars => StreamInv'
<1> SUFFICES ASSUME StreamInv, [StreamNext]_streamVars PROVE StreamInv'
  BY Zenon
<1>0. ProofTypeOK /\ LocksHeld /\ LinesPlaced
  BY Zenon DEF StreamInv
<1>1. ASSUME Headers PROVE StreamInv'
  <2>1. ProofTypeOK'
    BY <1>0, <1>1, Zenon DEF ProofTypeOK, Headers, shared, body, sent, result
  <2>2. LocksHeld'
    <3>1. timer \notin {"salvage", "commit"} /\ watch.mu # "timer" /\ hold.mu = "free"
      BY <1>0, <1>1 DEF ProofTypeOK, LocksHeld, Headers
    <3>2. timer' \notin {"salvage", "commit"} /\ watch'.mu = watch.mu /\ hold' = hold
      BY <1>0, <1>1, <3>1, Zenon DEF ProofTypeOK, Headers
    <3> QED
      BY <1>0, <1>1, <3>1, <3>2, Zenon DEF LocksHeld, Headers, body
  <2>3. LinesPlaced'
    BY <1>0, <1>1, Zenon DEF ProofTypeOK, LocksHeld, LinesPlaced, InHand, Placed, Begun, Headers, shared,
           body, sent, result
  <2> QED
    BY <2>1, <2>2, <2>3, Zenon DEF StreamInv
<1>2. ASSUME Line PROVE StreamInv'
  <2>1. ProofTypeOK'
    BY <1>0, <1>2 DEF ProofTypeOK, Line, shared, body, sent, result
  <2>2. LocksHeld'
    BY <1>0, <1>2 DEF ProofTypeOK, LocksHeld, Line, shared, body, sent, result
  <2>3. LinesPlaced'
    <3>1. Placed = read /\ Placed' = read /\ Begun' = Begun
      BY <1>0, <1>2 DEF ProofTypeOK, Placed, InHand, Begun, Line, shared
    <3>2. Run(chunk', read, read')
      BY <1>0, <1>2 DEF ProofTypeOK, Run, Line
    <3> QED
      BY <1>0, <1>2, <3>1, <3>2, Zenon DEF LinesPlaced, Line, shared, sent
  <2> QED
    BY <2>1, <2>2, <2>3, Zenon DEF StreamInv
<1>3. ASSUME NEW e \in Events, NEW r \in BOOLEAN, Event(e, r) PROVE StreamInv'
  <2>1. ProofTypeOK'
    BY <1>0, <1>3 DEF ProofTypeOK, Event, shared, body, sent, result
  <2>2. LocksHeld'
    BY <1>0, <1>3 DEF ProofTypeOK, LocksHeld, Event, shared, body, sent, result
  <2>3. LinesPlaced'
    <3>1. PICK keeps \in {1, 2} : /\ read' = read + keeps /\ chunk' = [i \in 1..keeps |-> read + i]
                                  /\ copier = "read" /\ copier' \in {"stop", "check"}
                                  /\ hold' = hold
      BY <1>3, Zenon DEF Event, shared
    <3>2. chunk' \in Seq(Nat) /\ Len(chunk') = keeps
      BY <1>0, <3>1 DEF ProofTypeOK
    <3>3. Placed = read /\ Placed' = read /\ Begun' = Begun
      BY <1>0, <3>1, <3>2 DEF ProofTypeOK, Placed, InHand, Begun
    <3>4. Run(chunk', read, read')
      BY <1>0, <3>1, <3>2 DEF ProofTypeOK, Run
    <3> QED
      BY <1>0, <1>3, <3>1, <3>3, <3>4, Zenon DEF LinesPlaced, Event, shared, sent
  <2> QED
    BY <2>1, <2>2, <2>3, Zenon DEF StreamInv
<1>4. ASSUME StopWatch PROVE StreamInv'
  <2>1. ProofTypeOK'
    BY <1>0, <1>4, Zenon DEF ProofTypeOK, StopWatch, Stopped, Disarmed, shared, body, sent, result
  <2>2. LocksHeld'
    BY <1>0, <1>4, Zenon DEF ProofTypeOK, LocksHeld, StopWatch, Stopped, Disarmed, shared, body, sent, result
  <2>3. LinesPlaced'
    BY <1>0, <1>4, Zenon DEF ProofTypeOK, LocksHeld, LinesPlaced, InHand, Placed, Begun, StopWatch,
           Stopped, Disarmed, shared, body, sent, result
  <2> QED
    BY <2>1, <2>2, <2>3, Zenon DEF StreamInv
<1>5. ASSUME Check PROVE StreamInv'
  <2>1. ProofTypeOK'
    BY <1>0, <1>5, Zenon DEF ProofTypeOK, Check, shared, body, sent, result
  <2>2. LocksHeld'
    BY <1>0, <1>5, Zenon DEF ProofTypeOK, LocksHeld, Check, shared, body, sent, result
  <2>3. LinesPlaced'
    BY <1>0, <1>5, Zenon DEF ProofTypeOK, LocksHeld, LinesPlaced, InHand, Placed, Begun, Check, shared,
           body, sent, result
  <2> QED
    BY <2>1, <2>2, <2>3, Zenon DEF StreamInv
<1>6. ASSUME Buffer PROVE StreamInv'
  <2>1. ProofTypeOK'
    <3>1. hold.pending \o chunk \in Seq(Nat)
      BY <1>0 DEF ProofTypeOK
    <3> QED
      BY <1>0, <1>6, <3>1, Zenon DEF ProofTypeOK, Buffer, Return, shared, body, sent, result
  <2>2. LocksHeld'
    BY <1>0, <1>6, Zenon DEF ProofTypeOK, LocksHeld, Buffer, Return, Overflows, shared, body, sent, result
  <2>3. LinesPlaced'
    <3>1. CASE Overflows
      BY <1>6, <3>1, Zenon DEF LinesPlaced, InHand, Buffer, Return
    <3>2. CASE ~Overflows
      <4>1. ~Begun /\ ~Begun' /\ hold'.pending = hold.pending \o chunk
        BY <1>0, <1>6, <3>2, Zenon DEF ProofTypeOK, Begun, Overflows, Buffer
      <4>2. InHand /\ Placed \in Int /\ copier \notin {"settle", "done"}
        BY <1>0, <1>6 DEF ProofTypeOK, InHand, Placed, Buffer
      <4>3. Run(hold'.pending, 0, read)
        <5>1. Run(hold.pending, 0, Placed) /\ Run(chunk, Placed, read)
          BY <1>0, <4>1, <4>2, Zenon DEF LinesPlaced
        <5>2. read \in Int
          BY <1>0 DEF ProofTypeOK
        <5>3. Run(hold.pending \o chunk, 0, read)
          BY <4>2, <5>1, <5>2, RunConcat
        <5> QED
          BY <4>1, <5>3, Zenon
      <4>4. copier' \in {"release", "term"} /\ ~InHand' /\ Placed' = read
        BY <1>6, <3>2, Zenon DEF Buffer, InHand, Placed, body
      <4> QED
        BY <1>0, <1>6, <3>2, <4>1, <4>2, <4>3, <4>4, Zenon DEF LinesPlaced, Buffer, sent
    <3> QED
      BY <3>1, <3>2, Zenon
  <2> QED
    BY <2>1, <2>2, <2>3, Zenon DEF StreamInv
<1>7. ASSUME Forward PROVE StreamInv'
  <2>1. ProofTypeOK'
    <3>1. Unwritten \in Seq(Nat) /\ client \o Unwritten \in Seq(Nat) /\ <<>> \in Seq(Nat)
      BY <1>0 DEF ProofTypeOK, Unwritten
    <3> QED
      BY <1>0, <1>7, <3>1, Zenon DEF ProofTypeOK, Forward, Return, shared, body, sent, result
  <2>2. LocksHeld'
    BY <1>0, <1>7, Zenon DEF ProofTypeOK, LocksHeld, Forward, Unwritten, Return, shared, body, sent, result
  <2>3. LinesPlaced'
    <3>1. Begun /\ InHand /\ Placed \in Int /\ Len(client) \in Int /\ read \in Int
      BY <1>0, <1>7 DEF ProofTypeOK, LocksHeld, Begun, InHand, Placed, Forward
    <3>2. Run(client, 0, Len(client)) /\ Run(tail, Len(client), Placed) /\ Run(chunk, Placed, read)
      BY <1>0, <1>7, <3>1, Zenon DEF LinesPlaced, Forward
    <3>3. Run(Unwritten, Len(client), read)
      BY <3>1, <3>2, RunConcat, Zenon DEF Unwritten
    <3>4. Run(client \o Unwritten, 0, read)
      BY <3>1, <3>2, <3>3, RunConcat
    <3>5. CASE copier' = "settle"
      <4>1. ret' # "none"
        BY <1>7, <3>5, Zenon DEF Forward, Return
      <4> QED
        BY <3>5, <4>1, Zenon DEF LinesPlaced, InHand
    <3>6. CASE copier' # "settle"
      <4>1. copier' = "term" /\ UNCHANGED <<shared, body, written>>
        BY <1>7, <3>6, Zenon DEF Forward, Return
      <4>2. Begun' /\ ~InHand' /\ Placed' = read
        BY <3>1, <4>1, Zenon DEF Begun, InHand, Placed, shared, body
      <4>3. written'
        BY <1>0, <1>7, <3>1, <4>1, Zenon DEF LinesPlaced, Forward
      <4>4. CASE client' = client \o Unwritten /\ tail' = <<>>
        <5>1. Len(client') = read
          BY <3>1, <3>4, <4>4 DEF Run
        <5>2. Run(client', 0, Len(client')) /\ Run(tail', Len(client'), read)
          BY <3>1, <3>4, <4>4, <5>1 DEF Run
        <5> QED
          BY <4>1, <4>2, <4>3, <4>4, <5>2, Zenon DEF LinesPlaced, body
      <4>5. CASE client' = client /\ tail' = Unwritten /\ ~col.terminal
        BY <3>2, <3>3, <4>1, <4>2, <4>3, <4>5, Zenon DEF LinesPlaced, body
      <4> QED
        BY <1>7, <3>6, <4>4, <4>5, Zenon DEF Forward, Return
    <3> QED
      BY <3>5, <3>6, Zenon
  <2> QED
    BY <2>1, <2>2, <2>3, Zenon DEF StreamInv
<1>8. ASSUME Term PROVE StreamInv'
  <2>1. ProofTypeOK'
    BY <1>0, <1>8, Zenon DEF ProofTypeOK, Term, Return, shared, body, sent, result
  <2>2. LocksHeld'
    BY <1>0, <1>8, Zenon DEF ProofTypeOK, LocksHeld, Term, Return, shared, body, sent, result
  <2>3. LinesPlaced'
    <3>1. copier = "term" /\ ~InHand /\ ~InHand' /\ Placed = read /\ Placed' = read /\ Begun' = Begun
      BY <1>0, <1>8, Zenon DEF ProofTypeOK, InHand, Placed, Begun, Term, Return, shared, body
    <3>2. CASE copier' = "settle"
      <4>1. CASE ret' = "none"
        <5>1. Begun /\ col.terminal
          BY <1>0, <1>8, <3>2, <4>1, Zenon DEF Begun, Term, Return
        <5>2. tail = <<>> /\ written /\ Run(tail, Len(client), read)
          BY <1>0, <3>1, <5>1, Zenon DEF LinesPlaced
        <5>3. Len(client) = read
          BY <1>0, <5>2 DEF ProofTypeOK, Run
        <5> QED
          BY <1>8, <3>1, <3>2, <5>2, <5>3, Zenon DEF LinesPlaced, Term, Return, body, sent
      <4>2. CASE ret' # "none"
        BY <3>1, <3>2, <4>2, Zenon DEF LinesPlaced
      <4> QED
        BY <4>1, <4>2, Zenon
    <3>3. CASE copier' # "settle"
      <4>1. UNCHANGED <<shared, body, tail, sent>> /\ copier' \in {"read", "release"}
        BY <1>8, <3>3, Zenon DEF Term, Return
      <4>2. copier' = "release" => tail = <<>>
        BY <1>0, <1>8, <3>1, <3>3, Zenon DEF LinesPlaced, Term, Return
      <4> QED
        BY <1>0, <3>1, <4>1, <4>2, Zenon DEF LinesPlaced, shared, sent
    <3> QED
      BY <3>2, <3>3, Zenon
  <2> QED
    BY <2>1, <2>2, <2>3, Zenon DEF StreamInv
<1>9. ASSUME SettleUnwritten PROVE StreamInv'
  <2>1. ProofTypeOK'
    BY <1>0, <1>9, Zenon DEF ProofTypeOK, SettleUnwritten, LeaveAttempt, Stopped, Disarmed, shared,
           body, sent, result
  <2>2. LocksHeld'
    BY <1>0, <1>9, Zenon DEF ProofTypeOK, LocksHeld, SettleUnwritten, LeaveAttempt, Stopped, Disarmed,
           shared, body, sent, result
  <2>3. LinesPlaced'
    BY <1>0, <1>9, Zenon DEF ProofTypeOK, LocksHeld, LinesPlaced, InHand, Placed, Begun, SettleUnwritten,
           LeaveAttempt, Stopped, Disarmed, shared, body, sent, result
  <2> QED
    BY <2>1, <2>2, <2>3, Zenon DEF StreamInv
<1>10. ASSUME SettleWritten PROVE StreamInv'
  <2>1. ProofTypeOK'
    <3>1. Append(client, 0) \in Seq(Nat)
      BY <1>0 DEF ProofTypeOK
    <3>2. client' \in Seq(Nat)
      BY <1>0, <1>10, <3>1, Zenon DEF ProofTypeOK, SettleWritten
    <3> QED
      BY <1>0, <1>10, <3>2, Zenon DEF ProofTypeOK, SettleWritten, LeaveAttempt, Stopped, body
  <2>2. LocksHeld'
    BY <1>0, <1>10, Zenon DEF ProofTypeOK, LocksHeld, SettleWritten, LeaveAttempt, Stopped, Disarmed,
           shared, body, sent, result
  <2>3. LinesPlaced'
    BY <1>0, <1>10, Zenon DEF ProofTypeOK, LocksHeld, LinesPlaced, InHand, Placed, Begun, SettleWritten,
           LeaveAttempt, Stopped, Disarmed, shared, body, sent, result
  <2> QED
    BY <2>1, <2>2, <2>3, Zenon DEF StreamInv
<1>11. ASSUME NEW err, SendFails(err) PROVE StreamInv'
  <2>1. ProofTypeOK'
    BY <1>0, <1>11, Zenon DEF ProofTypeOK, SendFails, LeaveAttempt, Stopped, Disarmed, shared,
           body, sent, result
  <2>2. LocksHeld'
    BY <1>0, <1>11, Zenon DEF ProofTypeOK, LocksHeld, SendFails, LeaveAttempt, Stopped, Disarmed, shared,
           body, sent, result
  <2>3. LinesPlaced'
    BY <1>0, <1>11, Zenon DEF ProofTypeOK, LocksHeld, LinesPlaced, InHand, Placed, Begun, SendFails,
           LeaveAttempt, Stopped, Disarmed, shared, body, sent, result
  <2> QED
    BY <2>1, <2>2, <2>3, Zenon DEF StreamInv
<1>12. ASSUME NEW err, ReadFails(err) PROVE StreamInv'
  <2>1. ProofTypeOK'
    BY <1>0, <1>12, Zenon DEF ProofTypeOK, ReadFails, Return, shared, body, sent, result
  <2>2. LocksHeld'
    BY <1>0, <1>12, Zenon DEF ProofTypeOK, LocksHeld, ReadFails, Return, shared, body, sent, result
  <2>3. LinesPlaced'
    BY <1>0, <1>12, Zenon DEF ProofTypeOK, LocksHeld, LinesPlaced, InHand, Placed, Begun, ReadFails,
           Return, shared, body, sent, result
  <2> QED
    BY <2>1, <2>2, <2>3, Zenon DEF StreamInv
<1>13. ASSUME NEW self \in {"reader", "timer"}, LockHold(self) PROVE StreamInv'
  <2>1. ProofTypeOK'
    BY <1>0, <1>13, Zenon DEF ProofTypeOK, LockHold, shared, body, sent, result
  <2>2. LocksHeld'
    <3>1. CASE self = "reader"
      BY <1>0, <1>13, <3>1, Zenon DEF ProofTypeOK, LocksHeld, LockHold, body
    <3>2. CASE self = "timer"
      <4>1. timer = "salvage" /\ read > 0 /\ copier \notin {"send", "done", "commit"}
        BY <1>0, <1>13, <3>2 DEF ProofTypeOK, LocksHeld, LockHold
      <4> QED
        BY <1>0, <1>13, <3>2, <4>1, Zenon DEF ProofTypeOK, LocksHeld, LockHold, body
    <3> QED
      BY <3>1, <3>2, Zenon
  <2>3. LinesPlaced'
    BY <1>0, <1>13, Zenon DEF ProofTypeOK, LocksHeld, LinesPlaced, InHand, Placed, Begun, LockHold,
           shared, body, sent, result
  <2> QED
    BY <2>1, <2>2, <2>3, Zenon DEF StreamInv
<1>14. ASSUME NEW self \in {"reader", "timer"}, Commit(self) PROVE StreamInv'
  <2>1. ProofTypeOK'
    <3>1. client \o hold.pending \in Seq(Nat) /\ <<>> \in Seq(Nat)
      BY <1>0 DEF ProofTypeOK
    <3> QED
      BY <1>0, <1>14, <3>1, Zenon DEF ProofTypeOK, Commit, Stopped, body
  <2>2. LocksHeld'
    BY <1>0, <1>14, Zenon DEF ProofTypeOK, LocksHeld, Commit, Stopped, Disarmed, shared, body, sent, result
  <2>3. LinesPlaced'
    <3>1. self = "reader" /\ copier = "commit" /\ copier' = "term"
      BY <1>0, <1>14, Zenon DEF ProofTypeOK, LocksHeld, Commit
    <3>2. ~Begun /\ Begun' /\ ~InHand /\ ~InHand' /\ Placed = read /\ Placed' = read
      BY <1>0, <1>14, <3>1, Zenon DEF ProofTypeOK, LocksHeld, Begun, InHand, Placed, Commit, body
    <3>3. client = <<>> /\ tail = <<>> /\ Run(hold.pending, 0, read)
      BY <1>0, <3>1, <3>2, Zenon DEF LinesPlaced
    <3>4. client' = hold.pending
      BY <1>0, <1>14, <3>3 DEF ProofTypeOK, Commit
    <3>5. Len(client') = read /\ Run(client', 0, read)
      BY <1>0, <3>3, <3>4 DEF ProofTypeOK, Run
    <3>6. Run(<<>>, read, read)
      BY <1>0 DEF ProofTypeOK, Run
    <3> QED
      BY <1>14, <3>1, <3>2, <3>3, <3>5, <3>6, Zenon DEF LinesPlaced, Commit
  <2> QED
    BY <2>1, <2>2, <2>3, Zenon DEF StreamInv
<1>15. ASSUME TimerFires PROVE StreamInv'
  <2>1. ProofTypeOK'
    BY <1>0, <1>15, Zenon DEF ProofTypeOK, TimerFires, shared, body, sent, result
  <2>2. LocksHeld'
    BY <1>0, <1>15, Zenon DEF ProofTypeOK, LocksHeld, TimerFires, shared, body, sent, result
  <2>3. LinesPlaced'
    BY <1>0, <1>15, Zenon DEF ProofTypeOK, LocksHeld, LinesPlaced, InHand, Placed, Begun, TimerFires,
           shared, body, sent, result
  <2> QED
    BY <2>1, <2>2, <2>3, Zenon DEF StreamInv
<1>16. ASSUME Expire PROVE StreamInv'
  <2>1. ProofTypeOK'
    BY <1>0, <1>16, Zenon DEF ProofTypeOK, Expire, Expired, shared, body, sent, result
  <2>2. LocksHeld'
    BY <1>0, <1>16, Zenon DEF ProofTypeOK, LocksHeld, Expire, Expired, shared, body, sent, result
  <2>3. LinesPlaced'
    BY <1>0, <1>16, Zenon DEF ProofTypeOK, LocksHeld, LinesPlaced, InHand, Placed, Begun, Expire, Expired,
           shared, body, sent, result
  <2> QED
    BY <2>1, <2>2, <2>3, Zenon DEF StreamInv
<1>17. ASSUME Cancel PROVE StreamInv'
  <2>1. ProofTypeOK'
    BY <1>0, <1>17, Zenon DEF ProofTypeOK, Cancel, shared, body, sent, result
  <2>2. LocksHeld'
    BY <1>0, <1>17, Zenon DEF ProofTypeOK, LocksHeld, Cancel, shared, body, sent, result
  <2>3. LinesPlaced'
    BY <1>0, <1>17, Zenon DEF ProofTypeOK, LocksHeld, LinesPlaced, InHand, Placed, Begun, Cancel, shared,
           body, sent, result
  <2> QED
    BY <2>1, <2>2, <2>3, Zenon DEF StreamInv
<1>18. ASSUME Deadline PROVE StreamInv'
  <2>1. ProofTypeOK'
    BY <1>0, <1>18, Zenon DEF ProofTypeOK, Deadline, shared, body, sent, result
  <2>2. LocksHeld'
    BY <1>0, <1>18, Zenon DEF ProofTypeOK, LocksHeld, Deadline, shared, body, sent, result
  <2>3. LinesPlaced'
    BY <1>0, <1>18, Zenon DEF ProofTypeOK, LocksHeld, LinesPlaced, InHand, Placed, Begun, Deadline,
           shared, body, sent, result
  <2> QED
    BY <2>1, <2>2, <2>3, Zenon DEF StreamInv
<1>19. ASSUME ClientHangsUp PROVE StreamInv'
  <2>1. ProofTypeOK'
    BY <1>0, <1>19, Zenon DEF ProofTypeOK, ClientHangsUp, shared, body, sent, result
  <2>2. LocksHeld'
    BY <1>0, <1>19, Zenon DEF ProofTypeOK, LocksHeld, ClientHangsUp, shared, body, sent, result
  <2>3. LinesPlaced'
    BY <1>0, <1>19, Zenon DEF ProofTypeOK, LocksHeld, LinesPlaced, InHand, Placed, Begun, ClientHangsUp,
           shared, body, sent, result
  <2> QED
    BY <2>1, <2>2, <2>3, Zenon DEF StreamInv
<1>20. ASSUME UNCHANGED streamVars PROVE StreamInv'
  <2>1. ProofTypeOK'
    BY <1>0, <1>20, Zenon DEF ProofTypeOK, streamVars, shared, body, sent, result
  <2>2. LocksHeld'
    BY <1>0, <1>20, Zenon DEF ProofTypeOK, LocksHeld, streamVars, shared, body, sent, result
  <2>3. LinesPlaced'
    BY <1>0, <1>20, Zenon DEF ProofTypeOK, LocksHeld, LinesPlaced, InHand, Placed, Begun, streamVars,
           shared, body, sent, result
  <2> QED
    BY <2>1, <2>2, <2>3, Zenon DEF StreamInv
<1> QED
  BY <1>1, <1>2, <1>3, <1>4, <1>5, <1>6, <1>7, <1>8, <1>9, <1>10, <1>11, <1>12, <1>13, <1>14, <1>15, <1>16,
     <1>17, <1>18, <1>19, <1>20, Zenon
     DEF StreamNext, Upstream, Copies, Broken, Releases

(* The attempt's state as its promise sees it.                             *)
Verdict ==
  IF copier # "done" THEN "open" ELSE IF out.success THEN "served"
  ELSE IF out.failOver THEN "moved" ELSE "failed"
ClientSees == <<read, client, written, Verdict>>

(* Every step of the two goroutines is a step of the promise or leaves     *)
(* what the promise sees.                                                  *)
LEMMA StepKeepsPromise ==
  StreamInv /\ [StreamNext]_streamVars => [Promise!PromiseNext]_(Promise!promiseVars)
<1> SUFFICES ASSUME StreamInv, [StreamNext]_streamVars
             PROVE  Promise!PromiseNext \/ UNCHANGED ClientSees
  BY Zenon DEF ClientSees, Verdict, Promise!promiseVars
<1>0. ProofTypeOK /\ LocksHeld /\ LinesPlaced
  BY Zenon DEF StreamInv
<1>1. ASSUME Headers PROVE UNCHANGED ClientSees
  BY <1>1, Zenon DEF Headers, ClientSees, Verdict, body, sent, result
<1>2. ASSUME StopWatch PROVE UNCHANGED ClientSees
  BY <1>2, Zenon DEF StopWatch, ClientSees, Verdict, body, sent, result
<1>3. ASSUME Check PROVE UNCHANGED ClientSees
  BY <1>3, Zenon DEF Check, ClientSees, Verdict, body, sent, result
<1>4. ASSUME Buffer PROVE UNCHANGED ClientSees
  BY <1>4, Zenon DEF Buffer, Return, ClientSees, Verdict, body, sent, result
<1>5. ASSUME Term PROVE UNCHANGED ClientSees
  BY <1>5, Zenon DEF Term, Return, ClientSees, Verdict, body, sent, result
<1>6. ASSUME NEW err, ReadFails(err) PROVE UNCHANGED ClientSees
  BY <1>6, Zenon DEF ReadFails, Return, ClientSees, Verdict, body, sent, result
<1>7. ASSUME NEW self \in {"reader", "timer"}, LockHold(self) PROVE UNCHANGED ClientSees
  BY <1>0, <1>7, Zenon DEF ProofTypeOK, LocksHeld, LockHold, ClientSees, Verdict, body, sent, result
<1>8. ASSUME TimerFires PROVE UNCHANGED ClientSees
  BY <1>8, Zenon DEF TimerFires, ClientSees, Verdict, body, sent, result
<1>9. ASSUME Expire PROVE UNCHANGED ClientSees
  BY <1>9, Zenon DEF Expire, ClientSees, Verdict, body, sent, result
<1>10. ASSUME Cancel PROVE UNCHANGED ClientSees
  BY <1>10, Zenon DEF Cancel, ClientSees, Verdict, body, sent, result
<1>11. ASSUME Deadline PROVE UNCHANGED ClientSees
  BY <1>11, Zenon DEF Deadline, ClientSees, Verdict, body, sent, result
<1>12. ASSUME ClientHangsUp PROVE UNCHANGED ClientSees
  BY <1>12, Zenon DEF ClientHangsUp, ClientSees, Verdict, body, sent, result
<1>13. ASSUME UNCHANGED streamVars PROVE UNCHANGED ClientSees
  BY <1>13, Zenon DEF streamVars, ClientSees, Verdict, body, sent, result
<1>14. ASSUME Line PROVE Promise!Send
  BY <1>0, <1>14 DEF ProofTypeOK, Line, Promise!Send, sent, result
<1>15. ASSUME NEW e \in Events, NEW r \in BOOLEAN, Event(e, r) PROVE Promise!Send
  <2>1. PICK keeps \in {1, 2} : read' = read + keeps
    BY <1>15, Zenon DEF Event
  <2>2. copier = "read" /\ copier' \in {"stop", "check"} /\ UNCHANGED <<sent, result>>
    BY <1>15, Zenon DEF Event
  <2> QED
    BY <1>0, <2>1, <2>2 DEF ProofTypeOK, Promise!Send, sent, result
<1>16. ASSUME Forward PROVE Promise!Deliver \/ UNCHANGED ClientSees
  <2>1. CASE client' = client
    BY <1>16, <2>1, Zenon DEF Forward, Return, ClientSees, Verdict, body, sent, result
  <2>2. CASE client' # client
    <3>1. copier = "tail" /\ copier' = "term" /\ client' = client \o Unwritten
          /\ UNCHANGED <<read, written, out>>
      BY <1>16, <2>2, Zenon DEF Forward, Return, sent, body, result
    <3>2. Begun /\ InHand /\ Placed \in Int /\ Len(client) \in Nat /\ read \in Nat
      BY <1>0, <3>1 DEF ProofTypeOK, LocksHeld, Begun, InHand, Placed
    <3>3. Run(client, 0, Len(client)) /\ Run(tail, Len(client), Placed) /\ Run(chunk, Placed, read)
          /\ written
      BY <1>0, <3>1, <3>2, Zenon DEF LinesPlaced
    <3>4. Run(Unwritten, Len(client), read)
      BY <3>2, <3>3, RunConcat DEF Unwritten
    <3>5. Run(client', 0, read)
      BY <3>1, <3>2, <3>3, <3>4, RunConcat
    <3>6. Len(client') = read /\ Len(client) <= read
      BY <3>2, <3>4, <3>5 DEF Run
    <3>7. Promise!Prefix(client')
      BY <3>5, <3>6, RunIsPrefix, Zenon
    <3> QED
      BY <3>1, <3>2, <3>3, <3>6, <3>7 DEF Promise!Deliver
  <2> QED
    BY <2>1, <2>2, Zenon
<1>17. ASSUME NEW self \in {"reader", "timer"}, Commit(self) PROVE Promise!Deliver
  <2>1. self = "reader" /\ copier = "commit" /\ copier' = "term" /\ ~Begun /\ Placed = read
    BY <1>0, <1>17, Zenon DEF ProofTypeOK, LocksHeld, Commit, Begun, Placed, InHand
  <2>2. client = <<>> /\ Run(hold.pending, 0, read)
    BY <1>0, <2>1, Zenon DEF LinesPlaced
  <2>3. client' = hold.pending /\ written' /\ UNCHANGED <<read, out>>
    BY <1>0, <1>17, <2>2 DEF ProofTypeOK, Commit, body, result
  <2>4. Len(client') = read /\ Run(client', 0, Len(client'))
    BY <1>0, <2>2, <2>3 DEF ProofTypeOK, Run
  <2>5. Promise!Prefix(client')
    BY <2>4, RunIsPrefix, Zenon
  <2>6. Len(client) = 0
    BY <2>2, Zenon
  <2> QED
    BY <1>0, <2>1, <2>3, <2>4, <2>5, <2>6 DEF ProofTypeOK, Promise!Deliver
<1>18. ASSUME NEW err, SendFails(err) PROVE Promise!Move \/ Promise!Abandon
  <2>1. copier = "send" /\ copier' = "done" /\ UNCHANGED <<read, client, written>> /\ ~out'.success
    BY <1>18, Zenon DEF SendFails, LeaveAttempt, Outcome, sent, body
  <2>2. ~written
    BY <1>0, <2>1, Zenon DEF LinesPlaced, LocksHeld, Begun
  <2> QED
    BY <2>1, <2>2, Zenon DEF Promise!Move, Promise!Abandon
<1>19. ASSUME SettleUnwritten PROVE Promise!Move \/ Promise!Abandon
  <2>1. copier = "settle" /\ copier' = "done" /\ UNCHANGED <<read, client, written>> /\ ~out'.success
    BY <1>19, Zenon DEF SettleUnwritten, LeaveAttempt, Outcome, sent, body
  <2>2. ~written
    BY <1>19, Zenon DEF SettleUnwritten, MayMove
  <2> QED
    BY <2>1, <2>2, Zenon DEF Promise!Move, Promise!Abandon
<1>20. ASSUME SettleWritten PROVE Promise!Serve \/ Promise!Abandon
  <2>1. copier = "settle" /\ copier' = "done" /\ UNCHANGED <<read, written>>
    BY <1>20, Zenon DEF SettleWritten, LeaveAttempt, body
  <2>2. CASE ret = "none"
    <3>1. client' = client /\ out'.success
      BY <1>20, <2>2, Zenon DEF SettleWritten, LeaveAttempt, Outcome
    <3>2. written /\ Len(client) = read
      BY <1>0, <2>1, <2>2, Zenon DEF LinesPlaced
    <3> QED
      BY <2>1, <3>1, <3>2, Zenon DEF Promise!Serve
  <2>3. CASE ret # "none"
    <3>1. written
      BY <1>0, <1>20, <2>3, Zenon DEF ProofTypeOK, SettleWritten, MayMove
    <3>2. client' \in {client, Append(client, 0)}
      BY <1>20, Zenon DEF SettleWritten
    <3>3. ~out'.success /\ ~out'.failOver
      BY <1>20, <2>3, Zenon DEF SettleWritten, LeaveAttempt, Outcome
    <3> QED
      BY <2>1, <3>1, <3>2, <3>3, Zenon DEF Promise!Abandon
  <2> QED
    BY <2>2, <2>3, Zenon
<1> QED
  BY <1>1, <1>2, <1>3, <1>4, <1>5, <1>6, <1>7, <1>8, <1>9, <1>10, <1>11, <1>12, <1>13, <1>14, <1>15, <1>16,
     <1>17, <1>18, <1>19, <1>20, Zenon
     DEF StreamNext, Upstream, Copies, Broken, Releases, Promise!PromiseNext

(* What the invariant says of every state an attempt reaches: who holds    *)
(* which mutex, and that no line is lost, repeated or out of order between *)
(* the hold, the tail and the client (copySSE, releaseHeld).               *)
THEOREM StreamInvariant == StreamInit /\ [][StreamNext]_streamVars => []StreamInv
<1> QED
  BY StreamInitInv, StreamStepInv, PTL

(* An attempt keeps the promise to its client and its caller, whatever the *)
(* length of the stream and of the hold and whichever goroutine releases   *)
(* it (forwardOnce, copySSE).                                              *)
THEOREM AttemptKeepsPromise == StreamSpec => KeepsPromise
<1>1. StreamInit => Promise!PromiseInit
  BY Zenon DEF StreamInit, Promise!PromiseInit
<1> QED
  BY <1>1, StreamInvariant, StepKeepsPromise, PTL DEF StreamSpec, KeepsPromise, Promise!PromiseSpec
-----------------------------------------------------------------------------
(* The variables the lines do not need, and the last chunk.                *)
TokenTypeOK ==
  /\ req \in Requests /\ ret \in Errors
  /\ col \in [open : BOOLEAN, token : BOOLEAN, compaction : BOOLEAN, committable : BOOLEAN,
              terminal : BOOLEAN, err : Errors]

(* A token is in the collector before the copier acts on it: the callback  *)
(* runs at once, and before the next read the token's line is on its way   *)
(* to the client, unless the hold was full.                                *)
TokenSeen ==
  /\ outputs = (IF col.token /\ copier # "stop" THEN 1 ELSE 0)
  /\ copier = "send" => ~col.token
  /\ copier \in {"send", "read"} => ~col.terminal
  /\ hold.dead => copier \in {"settle", "done"}
  /\ col.token /\ copier \in {"read", "tail", "term"} => written
  /\ col.token /\ copier \in {"settle", "done"} => written \/ ret = "prefix"

(* With the setting, a release has a reason.                               *)
ReleaseEarned ==
  req.holdUntilToken /\ (written \/ copier \in {"release", "commit"}) =>
    col.token \/ (col.terminal /\ col.err = "none")

(* What forwardOnce has returned.                                          *)
OutcomeTrue ==
  /\ copier # "done" => out = NoOutcome
  /\ out.action = "first_token_timeout" => watch.fired /\ ret = "timeout" /\ ~col.token
  /\ outputs > 0 => ~out.failOver \/ ret = "prefix"

TokenInv == TokenTypeOK /\ TokenSeen /\ ReleaseEarned /\ OutcomeTrue

(* Where the goroutines are, and how far the upstream is.                  *)
StreamPlaces ==
  /\ copier \in {"send", "read", "stop", "check", "buffer", "release", "commit", "tail", "term",
                "settle", "done"}
  /\ timer \in {"off", "armed", "fired", "salvage", "commit", "cancel"}
  /\ ctx \in {"live", "cancelled", "expired"}
  /\ read \in 0..MaxLines /\ ends \subseteq 1..read

(* Every line on its way is one the upstream sent, and the hold stays      *)
(* within its cap.                                                         *)
Buffers ==
  /\ hold.pending \in Seq(1..MaxLines) /\ Len(hold.pending) <= HoldCap
  /\ chunk \in Seq(1..MaxLines) /\ tail \in Seq(1..MaxLines) /\ client \in Seq(0..MaxLines)

(* An attempt that has not returned reports nothing.                       *)
LEMMA StillOpen ==
  ASSUME OutcomeTrue, copier # "done", out' = out PROVE OutcomeTrue'
BY DEF OutcomeTrue, NoOutcome

(* What an event leaves in the collector (finishEvent).                    *)
LEMMA ParsedType ==
  ASSUME TokenTypeOK, NEW e \in Events
  PROVE  Parsed(e) \in [open : BOOLEAN, token : BOOLEAN, compaction : BOOLEAN, committable : BOOLEAN,
                        terminal : BOOLEAN, err : Errors]
<1> DEFINE new == e = "compacting" /\ req.responses /\ ~col.token
           err == CASE e = "bad" -> "invalid" [] e = "failed" -> "upstream" [] OTHER -> "none"
           tok == col.token \/ e = "text"
           comp == col.compaction \/ new
           comm == col.committable \/ (req.responses /\ e \notin {"ping", "bad", "failed"})
           term == e \in {"done", "failed", "bad"}
<1>1. err \in Errors
  BY Zenon DEF Errors
<1>2. tok \in BOOLEAN /\ comp \in BOOLEAN /\ comm \in BOOLEAN /\ term \in BOOLEAN
  OBVIOUS
<1>3. Parsed(e) = [open |-> FALSE, token |-> tok, compaction |-> comp, committable |-> comm,
                   terminal |-> term, err |-> err]
  BY Zenon DEF Parsed
<1> HIDE DEF new, err, tok, comp, comm, term
<1> QED
  BY <1>1, <1>2, <1>3

LEMMA TokenStepInv == StreamInv /\ TokenInv /\ [StreamNext]_streamVars => TokenInv'
<1> SUFFICES ASSUME StreamInv, TokenInv, [StreamNext]_streamVars PROVE TokenInv'
  BY Zenon
<1>0. /\ ProofTypeOK /\ LocksHeld /\ LinesPlaced
      /\ TokenTypeOK /\ TokenSeen /\ ReleaseEarned /\ OutcomeTrue
  BY Zenon DEF StreamInv, TokenInv
<1>1. ASSUME Headers PROVE TokenInv'
  <2>1. TokenTypeOK'
    BY <1>0, <1>1, Zenon DEF TokenTypeOK, Headers, shared, body, sent, result, Errors
  <2>2. TokenSeen'
    BY <1>0, <1>1, Zenon DEF ProofTypeOK, LocksHeld, LinesPlaced, Begun, TokenTypeOK, TokenSeen, Headers,
           shared, body, sent, result
  <2>3. ReleaseEarned'
    BY <1>0, <1>1, Zenon DEF ProofTypeOK, LocksHeld, TokenTypeOK, TokenSeen, ReleaseEarned, Headers,
           shared, body, sent, result
  <2>4. OutcomeTrue'
    BY <1>0, <1>1, Zenon DEF ProofTypeOK, LocksHeld, TokenTypeOK, TokenSeen, OutcomeTrue, Headers,
           shared, body, sent, result
  <2> QED
    BY <2>1, <2>2, <2>3, <2>4, Zenon DEF TokenInv
<1>2. ASSUME Line PROVE TokenInv'
  <2>1. TokenTypeOK'
    BY <1>0, <1>2, Zenon DEF TokenTypeOK, Line, shared, body, sent, result, Errors
  <2>2. TokenSeen'
    BY <1>0, <1>2, Zenon DEF ProofTypeOK, LocksHeld, LinesPlaced, Begun, TokenTypeOK, TokenSeen, Line,
           shared, body, sent, result
  <2>3. ReleaseEarned'
    BY <1>0, <1>2, Zenon DEF ProofTypeOK, LocksHeld, TokenTypeOK, TokenSeen, ReleaseEarned, Line, shared,
           body, sent, result
  <2>4. OutcomeTrue'
    BY <1>0, <1>2, Zenon DEF ProofTypeOK, LocksHeld, TokenTypeOK, TokenSeen, OutcomeTrue, Line, shared,
           body, sent, result
  <2> QED
    BY <2>1, <2>2, <2>3, <2>4, Zenon DEF TokenInv
<1>3. ASSUME NEW e \in Events, NEW r \in BOOLEAN, Event(e, r) PROVE TokenInv'
  <2>1. TokenTypeOK'
    BY <1>0, <1>3, ParsedType, Zenon DEF TokenTypeOK, Event, result
  <2>2. TokenSeen'
    BY <1>0, <1>3, Zenon DEF ProofTypeOK, LocksHeld, LinesPlaced, Begun, TokenTypeOK, TokenSeen, Event,
           Parsed, Events, shared, body, sent, result
  <2>3. ReleaseEarned'
    BY <1>0, <1>3, Zenon DEF ProofTypeOK, LocksHeld, TokenTypeOK, TokenSeen, ReleaseEarned, Event, Parsed,
           Events, shared, body, sent, result
  <2>4. OutcomeTrue'
    BY <1>0, <1>3, StillOpen, Zenon DEF Event, result
  <2> QED
    BY <2>1, <2>2, <2>3, <2>4, Zenon DEF TokenInv
<1>4. ASSUME StopWatch PROVE TokenInv'
  <2>1. TokenTypeOK'
    BY <1>0, <1>4, Zenon DEF TokenTypeOK, StopWatch, shared, body, sent, result, Errors
  <2>2. TokenSeen'
    BY <1>0, <1>4 DEF ProofTypeOK, LocksHeld, LinesPlaced, Begun, TokenTypeOK, TokenSeen,
           StopWatch, Stopped, shared, body, sent, result
  <2>3. ReleaseEarned'
    BY <1>0, <1>4, Zenon DEF ProofTypeOK, LocksHeld, TokenTypeOK, TokenSeen, ReleaseEarned, StopWatch,
           Stopped, shared, body, sent, result
  <2>4. OutcomeTrue'
    BY <1>0, <1>4, StillOpen, Zenon DEF StopWatch, result
  <2> QED
    BY <2>1, <2>2, <2>3, <2>4, Zenon DEF TokenInv
<1>5. ASSUME Check PROVE TokenInv'
  <2>1. TokenTypeOK'
    BY <1>0, <1>5, Zenon DEF TokenTypeOK, Check, shared, body, sent, result, Errors
  <2>2. TokenSeen'
    BY <1>0, <1>5, Zenon DEF ProofTypeOK, LocksHeld, LinesPlaced, Begun, TokenTypeOK, TokenSeen, Check,
           shared, body, sent, result
  <2>3. ReleaseEarned'
    BY <1>0, <1>5, Zenon DEF ProofTypeOK, LocksHeld, TokenTypeOK, TokenSeen, ReleaseEarned, Check, shared,
           body, sent, result
  <2>4. OutcomeTrue'
    BY <1>0, <1>5, Zenon DEF ProofTypeOK, LocksHeld, TokenTypeOK, TokenSeen, OutcomeTrue, Check, shared,
           body, sent, result
  <2> QED
    BY <2>1, <2>2, <2>3, <2>4, Zenon DEF TokenInv
<1>6. ASSUME Buffer PROVE TokenInv'
  <2>1. TokenTypeOK'
    BY <1>0, <1>6, Zenon DEF TokenTypeOK, Buffer, Return, Overflows, MayCommit, shared, body, sent,
           result, Errors
  <2>2. TokenSeen'
    BY <1>0, <1>6, Zenon DEF ProofTypeOK, LocksHeld, LinesPlaced, Begun, TokenTypeOK, TokenSeen,
           Buffer, Return, Overflows, MayCommit, shared, body, sent, result
  <2>3. ReleaseEarned'
    BY <1>0, <1>6, Zenon DEF ProofTypeOK, LocksHeld, TokenTypeOK, TokenSeen, ReleaseEarned, Buffer,
           Return, Overflows, MayCommit, shared, body, sent, result
  <2>4. OutcomeTrue'
    BY <1>0, <1>6, StillOpen, Zenon DEF Buffer, Return, result
  <2> QED
    BY <2>1, <2>2, <2>3, <2>4, Zenon DEF TokenInv
<1>7. ASSUME Forward PROVE TokenInv'
  <2>1. TokenTypeOK'
    BY <1>0, <1>7, Zenon DEF TokenTypeOK, Forward, Return, shared, body, sent, result, Errors
  <2>2. TokenSeen'
    BY <1>0, <1>7, Zenon DEF ProofTypeOK, LocksHeld, LinesPlaced, Begun, TokenTypeOK, TokenSeen,
           Forward, Return, shared, body, sent, result
  <2>3. ReleaseEarned'
    BY <1>0, <1>7, Zenon DEF ProofTypeOK, LocksHeld, TokenTypeOK, TokenSeen, ReleaseEarned, Forward,
           Return, shared, body, sent, result
  <2>4. OutcomeTrue'
    BY <1>0, <1>7, StillOpen, Zenon DEF Forward, Return, result
  <2> QED
    BY <2>1, <2>2, <2>3, <2>4, Zenon DEF TokenInv
<1>8. ASSUME Term PROVE TokenInv'
  <2>1. TokenTypeOK'
    BY <1>0, <1>8, Zenon DEF TokenTypeOK, Term, Return, shared, body, sent, result, Errors
  <2>2. TokenSeen'
    BY <1>0, <1>8, Zenon DEF ProofTypeOK, LocksHeld, LinesPlaced, Begun, TokenTypeOK, TokenSeen, Term,
           Return, shared, body, sent, result
  <2>3. ReleaseEarned'
    BY <1>0, <1>8, Zenon DEF ProofTypeOK, LocksHeld, TokenTypeOK, TokenSeen, ReleaseEarned, Term, Return,
           shared, body, sent, result
  <2>4. OutcomeTrue'
    BY <1>0, <1>8, StillOpen, Zenon DEF Term, Return, result
  <2> QED
    BY <2>1, <2>2, <2>3, <2>4, Zenon DEF TokenInv
<1>9. ASSUME SettleUnwritten PROVE TokenInv'
  <2>1. TokenTypeOK'
    BY <1>0, <1>9, Zenon DEF TokenTypeOK, SettleUnwritten, LeaveAttempt, Outcome, FailAction, MayMove,
           shared, body, sent, result, Errors
  <2>2. TokenSeen'
    BY <1>0, <1>9, Zenon DEF ProofTypeOK, LocksHeld, LinesPlaced, Begun, TokenTypeOK, TokenSeen,
           SettleUnwritten, LeaveAttempt, Outcome, FailAction, MayMove, Stopped, shared, body,
           sent, result
  <2>3. ReleaseEarned'
    BY <1>0, <1>9, Zenon DEF ProofTypeOK, LocksHeld, TokenTypeOK, TokenSeen, ReleaseEarned,
           SettleUnwritten, LeaveAttempt, Outcome, FailAction, MayMove, Stopped, shared, body,
           sent, result
  <2>4. OutcomeTrue'
    BY <1>0, <1>9 DEF ProofTypeOK, LocksHeld, TokenTypeOK, TokenSeen, OutcomeTrue, SettleUnwritten,
           LeaveAttempt, Outcome, FailAction, MayMove, Stopped, shared, body, sent, result
  <2> QED
    BY <2>1, <2>2, <2>3, <2>4, Zenon DEF TokenInv
<1>10. ASSUME SettleWritten PROVE TokenInv'
  <2>1. TokenTypeOK'
    BY <1>0, <1>10, Zenon DEF TokenTypeOK, SettleWritten, LeaveAttempt, Outcome, MayMove, shared, body,
           sent, result, Errors
  <2>2. TokenSeen'
    BY <1>0, <1>10, Zenon DEF ProofTypeOK, LocksHeld, LinesPlaced, Begun, TokenTypeOK, TokenSeen,
           SettleWritten, LeaveAttempt, Outcome, MayMove, Stopped, shared, body, sent, result
  <2>3. ReleaseEarned'
    BY <1>0, <1>10, Zenon DEF ProofTypeOK, LocksHeld, TokenTypeOK, TokenSeen, ReleaseEarned,
           SettleWritten, LeaveAttempt, Outcome, MayMove, Stopped, shared, body, sent, result
  <2>4. OutcomeTrue'
    BY <1>0, <1>10, Zenon DEF ProofTypeOK, LocksHeld, TokenTypeOK, TokenSeen, OutcomeTrue, SettleWritten,
           LeaveAttempt, Outcome, MayMove, Stopped, shared, body, sent, result
  <2> QED
    BY <2>1, <2>2, <2>3, <2>4, Zenon DEF TokenInv
<1>11. ASSUME NEW err, SendFails(err) PROVE TokenInv'
  <2>1. TokenTypeOK'
    BY <1>0, <1>11, Zenon DEF TokenTypeOK, SendFails, LeaveAttempt, Outcome, shared, body, sent, result, Errors
  <2>2. TokenSeen'
    BY <1>0, <1>11, Zenon DEF ProofTypeOK, LocksHeld, LinesPlaced, Begun, TokenTypeOK, TokenSeen,
           SendFails, LeaveAttempt, Outcome, Stopped, shared, body, sent, result
  <2>3. ReleaseEarned'
    BY <1>0, <1>11, Zenon DEF ProofTypeOK, LocksHeld, TokenTypeOK, TokenSeen, ReleaseEarned, SendFails,
           LeaveAttempt, Outcome, Stopped, shared, body, sent, result
  <2>4. OutcomeTrue'
    BY <1>0, <1>11 DEF ProofTypeOK, LocksHeld, TokenTypeOK, TokenSeen, OutcomeTrue, SendFails,
           LeaveAttempt, Outcome, Stopped, shared, body, sent, result
  <2> QED
    BY <2>1, <2>2, <2>3, <2>4, Zenon DEF TokenInv
<1>12. ASSUME NEW err, ReadFails(err) PROVE TokenInv'
  <2>1. TokenTypeOK'
    BY <1>0, <1>12, Zenon DEF TokenTypeOK, ReadFails, Return, shared, body, sent, result, Errors
  <2>2. TokenSeen'
    BY <1>0, <1>12, Zenon DEF ProofTypeOK, LocksHeld, LinesPlaced, Begun, TokenTypeOK, TokenSeen,
           ReadFails, Return, shared, body, sent, result
  <2>3. ReleaseEarned'
    BY <1>0, <1>12, Zenon DEF ProofTypeOK, LocksHeld, TokenTypeOK, TokenSeen, ReleaseEarned, ReadFails,
           Return, shared, body, sent, result
  <2>4. OutcomeTrue'
    BY <1>0, <1>12, StillOpen, Zenon DEF ReadFails, Return, result
  <2> QED
    BY <2>1, <2>2, <2>3, <2>4, Zenon DEF TokenInv
<1>13. ASSUME NEW self \in {"reader", "timer"}, LockHold(self) PROVE TokenInv'
  <2>1. TokenTypeOK'
    BY <1>0, <1>13, Zenon DEF TokenTypeOK, LockHold, shared, body, sent, result, Errors
  <2>2. TokenSeen'
    BY <1>0, <1>13, Zenon DEF ProofTypeOK, LocksHeld, LinesPlaced, Begun, TokenTypeOK, TokenSeen,
           LockHold, shared, body, sent, result
  <2>3. ReleaseEarned'
    BY <1>0, <1>13, Zenon DEF ProofTypeOK, LocksHeld, TokenTypeOK, TokenSeen, ReleaseEarned, LockHold,
           shared, body, sent, result
  <2>4. OutcomeTrue'
    BY <1>0, <1>13, Zenon DEF ProofTypeOK, LocksHeld, TokenTypeOK, TokenSeen, OutcomeTrue,
           LockHold, shared, body, sent, result
  <2> QED
    BY <2>1, <2>2, <2>3, <2>4, Zenon DEF TokenInv
<1>14. ASSUME NEW self \in {"reader", "timer"}, Commit(self) PROVE TokenInv'
  <2>1. TokenTypeOK'
    BY <1>0, <1>14, Zenon DEF TokenTypeOK, Commit, shared, body, sent, result, Errors
  <2>2. TokenSeen'
    BY <1>0, <1>14, Zenon DEF ProofTypeOK, LocksHeld, LinesPlaced, Begun, TokenTypeOK, TokenSeen, Commit,
           Stopped, shared, body, sent, result
  <2>3. ReleaseEarned'
    BY <1>0, <1>14, Zenon DEF ProofTypeOK, LocksHeld, TokenTypeOK, TokenSeen, ReleaseEarned, Commit,
           Stopped, shared, body, sent, result
  <2>4. OutcomeTrue'
    BY <1>0, <1>14, Zenon DEF ProofTypeOK, LocksHeld, TokenTypeOK, TokenSeen, OutcomeTrue, Commit,
           Stopped, shared, body, sent, result
  <2> QED
    BY <2>1, <2>2, <2>3, <2>4, Zenon DEF TokenInv
<1>15. ASSUME TimerFires PROVE TokenInv'
  <2>1. TokenTypeOK'
    BY <1>0, <1>15, Zenon DEF TokenTypeOK, TimerFires, shared, body, sent, result, Errors
  <2>2. TokenSeen'
    BY <1>0, <1>15, Zenon DEF ProofTypeOK, LocksHeld, LinesPlaced, Begun, TokenTypeOK, TokenSeen,
           TimerFires, shared, body, sent, result
  <2>3. ReleaseEarned'
    BY <1>0, <1>15, Zenon DEF ProofTypeOK, LocksHeld, TokenTypeOK, TokenSeen, ReleaseEarned, TimerFires,
           shared, body, sent, result
  <2>4. OutcomeTrue'
    BY <1>0, <1>15, Zenon DEF ProofTypeOK, LocksHeld, TokenTypeOK, TokenSeen, OutcomeTrue, TimerFires,
           shared, body, sent, result
  <2> QED
    BY <2>1, <2>2, <2>3, <2>4, Zenon DEF TokenInv
<1>16. ASSUME Expire PROVE TokenInv'
  <2>1. TokenTypeOK'
    BY <1>0, <1>16, Zenon DEF TokenTypeOK, Expire, shared, body, sent, result, Errors
  <2>2. TokenSeen'
    BY <1>0, <1>16, Zenon DEF ProofTypeOK, LocksHeld, LinesPlaced, Begun, TokenTypeOK, TokenSeen, Expire,
           shared, body, sent, result
  <2>3. ReleaseEarned'
    BY <1>0, <1>16, Zenon DEF ProofTypeOK, LocksHeld, TokenTypeOK, TokenSeen, ReleaseEarned, Expire,
           shared, body, sent, result
  <2>4. OutcomeTrue'
    BY <1>0, <1>16, Zenon DEF ProofTypeOK, LocksHeld, TokenTypeOK, TokenSeen, OutcomeTrue, Expire, shared,
           body, sent, result
  <2> QED
    BY <2>1, <2>2, <2>3, <2>4, Zenon DEF TokenInv
<1>17. ASSUME Cancel PROVE TokenInv'
  <2>1. TokenTypeOK'
    BY <1>0, <1>17, Zenon DEF TokenTypeOK, Cancel, shared, body, sent, result, Errors
  <2>2. TokenSeen'
    BY <1>0, <1>17, Zenon DEF ProofTypeOK, LocksHeld, LinesPlaced, Begun, TokenTypeOK, TokenSeen, Cancel,
           shared, body, sent, result
  <2>3. ReleaseEarned'
    BY <1>0, <1>17, Zenon DEF ProofTypeOK, LocksHeld, TokenTypeOK, TokenSeen, ReleaseEarned, Cancel,
           shared, body, sent, result
  <2>4. OutcomeTrue'
    BY <1>0, <1>17, Zenon DEF ProofTypeOK, LocksHeld, TokenTypeOK, TokenSeen, OutcomeTrue, Cancel, shared,
           body, sent, result
  <2> QED
    BY <2>1, <2>2, <2>3, <2>4, Zenon DEF TokenInv
<1>18. ASSUME Deadline PROVE TokenInv'
  <2>1. TokenTypeOK'
    BY <1>0, <1>18, Zenon DEF TokenTypeOK, Deadline, shared, body, sent, result, Errors
  <2>2. TokenSeen'
    BY <1>0, <1>18, Zenon DEF ProofTypeOK, LocksHeld, LinesPlaced, Begun, TokenTypeOK, TokenSeen,
           Deadline, shared, body, sent, result
  <2>3. ReleaseEarned'
    BY <1>0, <1>18, Zenon DEF ProofTypeOK, LocksHeld, TokenTypeOK, TokenSeen, ReleaseEarned, Deadline,
           shared, body, sent, result
  <2>4. OutcomeTrue'
    BY <1>0, <1>18, Zenon DEF ProofTypeOK, LocksHeld, TokenTypeOK, TokenSeen, OutcomeTrue, Deadline,
           shared, body, sent, result
  <2> QED
    BY <2>1, <2>2, <2>3, <2>4, Zenon DEF TokenInv
<1>19. ASSUME ClientHangsUp PROVE TokenInv'
  <2>1. TokenTypeOK'
    BY <1>0, <1>19, Zenon DEF TokenTypeOK, ClientHangsUp, shared, body, sent, result, Errors
  <2>2. TokenSeen'
    BY <1>0, <1>19, Zenon DEF ProofTypeOK, LocksHeld, LinesPlaced, Begun, TokenTypeOK, TokenSeen,
           ClientHangsUp, shared, body, sent, result
  <2>3. ReleaseEarned'
    BY <1>0, <1>19, Zenon DEF ProofTypeOK, LocksHeld, TokenTypeOK, TokenSeen, ReleaseEarned,
           ClientHangsUp, shared, body, sent, result
  <2>4. OutcomeTrue'
    BY <1>0, <1>19, Zenon DEF ProofTypeOK, LocksHeld, TokenTypeOK, TokenSeen, OutcomeTrue, ClientHangsUp,
           shared, body, sent, result
  <2> QED
    BY <2>1, <2>2, <2>3, <2>4, Zenon DEF TokenInv
<1>20. ASSUME UNCHANGED streamVars PROVE TokenInv'
  <2>1. TokenTypeOK'
    BY <1>0, <1>20, Zenon DEF TokenTypeOK, streamVars, shared, body, sent, result, Errors
  <2>2. TokenSeen'
    BY <1>0, <1>20, Zenon DEF ProofTypeOK, LocksHeld, LinesPlaced, Begun, TokenTypeOK, TokenSeen,
           streamVars, shared, body, sent, result
  <2>3. ReleaseEarned'
    BY <1>0, <1>20, Zenon DEF ProofTypeOK, LocksHeld, TokenTypeOK, TokenSeen, ReleaseEarned, streamVars,
           shared, body, sent, result
  <2>4. OutcomeTrue'
    BY <1>0, <1>20, Zenon DEF ProofTypeOK, LocksHeld, TokenTypeOK, TokenSeen, OutcomeTrue, streamVars,
           shared, body, sent, result
  <2> QED
    BY <2>1, <2>2, <2>3, <2>4, Zenon DEF TokenInv
<1> QED
  BY <1>1, <1>2, <1>3, <1>4, <1>5, <1>6, <1>7, <1>8, <1>9, <1>10, <1>11, <1>12, <1>13, <1>14, <1>15, <1>16,
     <1>17, <1>18, <1>19, <1>20, Zenon
     DEF StreamNext, Upstream, Copies, Broken, Releases

LEMMA TokenInitInv == StreamInit => TokenInv /\ StreamPlaces /\ Buffers
<1> SUFFICES ASSUME StreamInit PROVE TokenInv /\ StreamPlaces /\ Buffers
  BY Zenon
<1>1. TokenTypeOK
  BY Zenon DEF StreamInit, TokenTypeOK, Errors
<1>2. TokenSeen /\ ReleaseEarned /\ OutcomeTrue
  BY Zenon DEF StreamInit, TokenSeen, ReleaseEarned, OutcomeTrue, NoOutcome
<1>3. StreamPlaces /\ Buffers
  BY StreamAssumption DEF StreamInit, StreamPlaces, Buffers
<1> QED
  BY <1>1, <1>2, <1>3, Zenon DEF TokenInv

LEMMA BoundsStepInv ==
  StreamInv /\ StreamPlaces /\ Buffers /\ [StreamNext]_streamVars => (StreamPlaces /\ Buffers)'
<1> SUFFICES ASSUME StreamInv, StreamPlaces, Buffers, [StreamNext]_streamVars PROVE StreamPlaces' /\ Buffers'
  BY Zenon
<1>0. ProofTypeOK /\ LocksHeld
  BY Zenon DEF StreamInv
<1>1. ASSUME Headers PROVE StreamPlaces' /\ Buffers'
  <2>1. StreamPlaces'
    BY <1>1, StreamAssumption, Zenon DEF StreamPlaces, Headers, shared, body, sent, result
  <2>2. Buffers'
    BY <1>0, <1>1, StreamAssumption, Zenon DEF ProofTypeOK, StreamPlaces, Buffers, Headers, shared, body, sent,
           result
  <2> QED
    BY <2>1, <2>2, Zenon
<1>2. ASSUME Line PROVE StreamPlaces' /\ Buffers'
  <2>1. StreamPlaces'
    BY <1>2, StreamAssumption DEF StreamPlaces, Line, shared, body, sent, result
  <2>2. Buffers'
    BY <1>0, <1>2, StreamAssumption DEF ProofTypeOK, StreamPlaces, Buffers, Line, shared, body, sent, result
  <2> QED
    BY <2>1, <2>2, Zenon
<1>3. ASSUME NEW e \in Events, NEW r \in BOOLEAN, Event(e, r) PROVE StreamPlaces' /\ Buffers'
  <2>1. StreamPlaces'
    BY <1>3, StreamAssumption DEF StreamPlaces, Event, shared, body, sent, result
  <2>2. Buffers'
    BY <1>0, <1>3, StreamAssumption DEF ProofTypeOK, StreamPlaces, Buffers, Event, shared, body, sent, result
  <2> QED
    BY <2>1, <2>2, Zenon
<1>4. ASSUME StopWatch PROVE StreamPlaces' /\ Buffers'
  <2>1. StreamPlaces'
    BY <1>4, StreamAssumption, Zenon DEF StreamPlaces, StopWatch, Disarmed, shared, body, sent, result
  <2>2. Buffers'
    BY <1>0, <1>4, StreamAssumption, Zenon DEF ProofTypeOK, StreamPlaces, Buffers, StopWatch, shared, body,
           sent, result
  <2> QED
    BY <2>1, <2>2, Zenon
<1>5. ASSUME Check PROVE StreamPlaces' /\ Buffers'
  <2>1. StreamPlaces'
    BY <1>5, StreamAssumption, Zenon DEF StreamPlaces, Check, shared, body, sent, result
  <2>2. Buffers'
    BY <1>0, <1>5, StreamAssumption, Zenon DEF ProofTypeOK, StreamPlaces, Buffers, Check, shared, body, sent, result
  <2> QED
    BY <2>1, <2>2, Zenon
<1>6. ASSUME Buffer PROVE StreamPlaces' /\ Buffers'
  <2>1. StreamPlaces'
    BY <1>6, StreamAssumption, Zenon DEF StreamPlaces, Buffer, Return, Overflows, shared, body, sent, result
  <2>2. Buffers'
    <3>1. CASE Overflows
      BY <1>0, <1>6, <3>1, Zenon DEF ProofTypeOK, Buffers, Buffer, Return, body, sent
    <3>2. CASE ~Overflows
      <4>1. hold.pending \o chunk \in Seq(1..MaxLines) /\ Len(hold.pending \o chunk) <= HoldCap
        BY <3>2, StreamAssumption DEF Buffers, Overflows
      <4>2. hold'.pending = hold.pending \o chunk /\ UNCHANGED <<chunk, tail, client>>
        BY <1>0, <1>6, <3>2, Zenon DEF ProofTypeOK, Buffer, body, sent
      <4> QED
        BY <4>1, <4>2, Zenon DEF Buffers
    <3> QED
      BY <3>1, <3>2, Zenon
  <2> QED
    BY <2>1, <2>2, Zenon
<1>7. ASSUME Forward PROVE StreamPlaces' /\ Buffers'
  <2>1. StreamPlaces'
    BY <1>7, StreamAssumption, Zenon DEF StreamPlaces, Forward, Return, shared, body, sent, result
  <2>2. Buffers'
    <3>1. Unwritten \in Seq(1..MaxLines) /\ <<>> \in Seq(1..MaxLines)
      BY DEF Buffers, Unwritten
    <3>2. client \o Unwritten \in Seq(0..MaxLines)
      <4>1. Unwritten \in Seq(0..MaxLines)
        BY <3>1, StreamAssumption
      <4> QED
        BY <4>1 DEF Buffers
    <3>3. hold'.pending = hold.pending /\ chunk' = chunk
      BY <1>0, <1>7, Zenon DEF ProofTypeOK, Forward, Return, shared, body
    <3>4. client' \in {client, client \o Unwritten} /\ tail' \in {<<>>, Unwritten}
      BY <1>7, Zenon DEF Forward, Return, sent
    <3> QED
      BY <3>1, <3>2, <3>3, <3>4, Zenon DEF Buffers
  <2> QED
    BY <2>1, <2>2, Zenon
<1>8. ASSUME Term PROVE StreamPlaces' /\ Buffers'
  <2>1. StreamPlaces'
    BY <1>8, StreamAssumption, Zenon DEF StreamPlaces, Term, Return, shared, body, sent, result
  <2>2. Buffers'
    BY <1>0, <1>8, StreamAssumption, Zenon DEF ProofTypeOK, StreamPlaces, Buffers, Term, Return, shared,
           body, sent, result
  <2> QED
    BY <2>1, <2>2, Zenon
<1>9. ASSUME SettleUnwritten PROVE StreamPlaces' /\ Buffers'
  <2>1. StreamPlaces'
    BY <1>9, StreamAssumption, Zenon DEF StreamPlaces, SettleUnwritten, LeaveAttempt, Disarmed, shared, body,
           sent, result
  <2>2. Buffers'
    BY <1>0, <1>9, StreamAssumption, Zenon DEF ProofTypeOK, StreamPlaces, Buffers, SettleUnwritten,
           LeaveAttempt, shared, body, sent, result
  <2> QED
    BY <2>1, <2>2, Zenon
<1>10. ASSUME SettleWritten PROVE StreamPlaces' /\ Buffers'
  <2>1. StreamPlaces'
    BY <1>10, StreamAssumption, Zenon DEF StreamPlaces, SettleWritten, LeaveAttempt, Disarmed, shared, body,
           sent, result
  <2>2. Buffers'
    <3>1. Append(client, 0) \in Seq(0..MaxLines)
      BY StreamAssumption DEF Buffers
    <3>2. client' \in {client, Append(client, 0)} /\ UNCHANGED <<hold, chunk, tail>>
      BY <1>10, Zenon DEF SettleWritten, LeaveAttempt, body
    <3> QED
      BY <3>1, <3>2, Zenon DEF Buffers
  <2> QED
    BY <2>1, <2>2, Zenon
<1>11. ASSUME NEW err, SendFails(err) PROVE StreamPlaces' /\ Buffers'
  <2>1. StreamPlaces'
    BY <1>11, StreamAssumption, Zenon DEF StreamPlaces, SendFails, LeaveAttempt, Disarmed, shared, body, sent, result
  <2>2. Buffers'
    BY <1>0, <1>11, StreamAssumption, Zenon DEF ProofTypeOK, StreamPlaces, Buffers, SendFails, LeaveAttempt,
           shared, body, sent, result
  <2> QED
    BY <2>1, <2>2, Zenon
<1>12. ASSUME NEW err, ReadFails(err) PROVE StreamPlaces' /\ Buffers'
  <2>1. StreamPlaces'
    BY <1>12, StreamAssumption, Zenon DEF StreamPlaces, ReadFails, Return, shared, body, sent, result
  <2>2. Buffers'
    BY <1>0, <1>12, StreamAssumption, Zenon DEF ProofTypeOK, StreamPlaces, Buffers, ReadFails, Return, shared,
           body, sent, result
  <2> QED
    BY <2>1, <2>2, Zenon
<1>13. ASSUME NEW self \in {"reader", "timer"}, LockHold(self) PROVE StreamPlaces' /\ Buffers'
  <2>1. StreamPlaces'
    BY <1>13, StreamAssumption, Zenon DEF StreamPlaces, LockHold, shared, body, sent, result
  <2>2. Buffers'
    BY <1>0, <1>13, StreamAssumption, Zenon DEF ProofTypeOK, StreamPlaces, Buffers, LockHold, shared,
           body, sent, result
  <2> QED
    BY <2>1, <2>2, Zenon
<1>14. ASSUME NEW self \in {"reader", "timer"}, Commit(self) PROVE StreamPlaces' /\ Buffers'
  <2>1. StreamPlaces'
    BY <1>14, StreamAssumption, Zenon DEF StreamPlaces, Commit, Disarmed, shared, body, sent, result
  <2>2. Buffers'
    BY <1>0, <1>14, StreamAssumption DEF ProofTypeOK, StreamPlaces, Buffers, Commit, shared, body, sent,
           result
  <2> QED
    BY <2>1, <2>2, Zenon
<1>15. ASSUME TimerFires PROVE StreamPlaces' /\ Buffers'
  <2>1. StreamPlaces'
    BY <1>15, StreamAssumption, Zenon DEF StreamPlaces, TimerFires, shared, body, sent, result
  <2>2. Buffers'
    BY <1>0, <1>15, StreamAssumption, Zenon DEF ProofTypeOK, StreamPlaces, Buffers, TimerFires, shared, body,
           sent, result
  <2> QED
    BY <2>1, <2>2, Zenon
<1>16. ASSUME Expire PROVE StreamPlaces' /\ Buffers'
  <2>1. StreamPlaces'
    BY <1>16, StreamAssumption, Zenon DEF StreamPlaces, Expire, Expired, shared, body, sent, result
  <2>2. Buffers'
    BY <1>0, <1>16, StreamAssumption, Zenon DEF ProofTypeOK, StreamPlaces, Buffers, Expire, shared, body, sent,
           result
  <2> QED
    BY <2>1, <2>2, Zenon
<1>17. ASSUME Cancel PROVE StreamPlaces' /\ Buffers'
  <2>1. StreamPlaces'
    BY <1>17, StreamAssumption, Zenon DEF StreamPlaces, Cancel, shared, body, sent, result
  <2>2. Buffers'
    BY <1>0, <1>17, StreamAssumption, Zenon DEF ProofTypeOK, StreamPlaces, Buffers, Cancel, shared, body, sent,
           result
  <2> QED
    BY <2>1, <2>2, Zenon
<1>18. ASSUME Deadline PROVE StreamPlaces' /\ Buffers'
  <2>1. StreamPlaces'
    BY <1>18, StreamAssumption, Zenon DEF StreamPlaces, Deadline, shared, body, sent, result
  <2>2. Buffers'
    BY <1>0, <1>18, StreamAssumption, Zenon DEF ProofTypeOK, StreamPlaces, Buffers, Deadline, shared, body,
           sent, result
  <2> QED
    BY <2>1, <2>2, Zenon
<1>19. ASSUME ClientHangsUp PROVE StreamPlaces' /\ Buffers'
  <2>1. StreamPlaces'
    BY <1>19, StreamAssumption, Zenon DEF StreamPlaces, ClientHangsUp, shared, body, sent, result
  <2>2. Buffers'
    BY <1>0, <1>19, StreamAssumption, Zenon DEF ProofTypeOK, StreamPlaces, Buffers, ClientHangsUp, shared, body,
           sent, result
  <2> QED
    BY <2>1, <2>2, Zenon
<1>20. ASSUME UNCHANGED streamVars PROVE StreamPlaces' /\ Buffers'
  <2>1. StreamPlaces'
    BY <1>20, StreamAssumption, Zenon DEF StreamPlaces, streamVars, shared, body, sent, result
  <2>2. Buffers'
    BY <1>0, <1>20, StreamAssumption, Zenon DEF ProofTypeOK, StreamPlaces, Buffers, streamVars, shared, body,
           sent, result
  <2> QED
    BY <2>1, <2>2, Zenon
<1> QED
  BY <1>1, <1>2, <1>3, <1>4, <1>5, <1>6, <1>7, <1>8, <1>9, <1>10, <1>11, <1>12, <1>13, <1>14, <1>15, <1>16,
     <1>17, <1>18, <1>19, <1>20, Zenon
     DEF StreamNext, Upstream, Copies, Broken, Releases

(* The race between the first token and the watch, for every length of the *)
(* stream and of the hold: with the setting nothing is written before a    *)
(* token or a good end, a timeout is blamed on an upstream only if no      *)
(* token had come, and an attempt that reported output does not fail over  *)
(* unless its hold was full (copySSE, forwardOnce).                        *)
THEOREM FirstTokenRace == StreamSpec => []FirstTokenDecides
<1>1. StreamInv /\ TokenInv /\ StreamPlaces /\ Buffers => FirstTokenDecides
  <2> SUFFICES ASSUME StreamInv, TokenInv, StreamPlaces, Buffers PROVE FirstTokenDecides
    BY Zenon
  <2>1. StreamTypeOK
    BY DEF StreamInv, ProofTypeOK, TokenInv, TokenTypeOK, TokenSeen, StreamPlaces, Buffers, StreamTypeOK
  <2> QED
    BY <2>1, Zenon DEF TokenInv, ReleaseEarned, OutcomeTrue, FirstTokenDecides
<1> QED
  BY <1>1, StreamInvariant, TokenInitInv, TokenStepInv, BoundsStepInv, PTL DEF StreamSpec
-----------------------------------------------------------------------------
(* Proofs about BalanceAlerts for any accounts, instances, hours and       *)
(* mishaps.                                                                *)

AlertRows == [enabled : BOOLEAN, key : BOOLEAN, threshold : Int, silence : Int,
              state : [Accounts -> {Never} \cup Nat]]

PassRows == [at : {"rest", "push", "save"}, due : SUBSET Accounts, now : Nat, cfg : AlertRows]

AlertTypeOK ==
  /\ alert \in AlertRows /\ hour \in Nat /\ mishaps \in Nat
  /\ pass \in [Workers -> PassRows]
  /\ desk = <<>> \/ desk \in AlertRows \X AlertRows
  /\ told \in [Accounts -> {Never} \cup Nat] /\ extra \in [Accounts -> Nat]

(* A copy of the row that a load or a save has normalised.                 *)
Normal(s) == Normalize(s) = s

(* Every time of an alert in a copy of the row is that of a push.          *)
Backed(s) == \A p \in Accounts : s.state[p] # Never => told[p] # Never /\ s.state[p] <= told[p]

CopiesBacked ==
  /\ Backed(alert) /\ \A w \in Workers : Backed(pass[w].cfg)
  /\ desk # <<>> => Backed(desk[1]) /\ desk[1].state = desk[2].state

(* A pass does not outlast its hour, and what it has pushed was told then. *)
PassInHour ==
  /\ \A p \in Accounts : told[p] # Never => told[p] <= hour
  /\ \A w \in Workers : /\ Normal(pass[w].cfg)
                        /\ Busy(w) => pass[w].now = hour
                        /\ pass[w].at = "save" => \A p \in pass[w].due : told[p] = hour

(* The passes about to push about p; whether one of them, as things stand, *)
(* comes too early; whether the row has lost the last push about p and no  *)
(* pass is about to write it.                                              *)
Pushing(p) == {w \in Workers : pass[w].at = "push" /\ p \in pass[w].due}
Hasty(p) == \E w \in Pushing(p) : ToldWithin(p, pass[w].now, pass[w].cfg.silence)
Stale(p) == told[p] # Never /\ hour - told[p] <= SilenceStateTTL /\ alert.state[p] # told[p]
Covered(p) == \E w \in Workers : pass[w].at = "save" /\ p \in pass[w].due
Loose(p) == Hasty(p) \/ (Stale(p) /\ ~Covered(p))

One(b) == IF b THEN 1 ELSE 0

(* What a set of passes about to push owes: all but the first come too     *)
(* early, and the first as well if the row has lost the push before it.    *)
Owed(pushers, loose) == Cardinality(pushers) + loose - (IF pushers = {} THEN 0 ELSE 1)

Looseness(p) == IF Loose(p) THEN 1 ELSE 0
Debt(p) == Owed(Pushing(p), Looseness(p))

PushesPaid == \A p \in Accounts : extra[p] + Debt(p) <= mishaps

AlertInv ==
  /\ AlertTypeOK /\ CopiesBacked /\ PassInHour /\ PushesPaid /\ Normal(alert)
  /\ missed = {} /\ (mishaps = 0 => Settings(alert) = wish)

LEMMA NormalizeFacts ==
  ASSUME NEW s \in AlertRows
  PROVE  /\ Normalize(s) \in AlertRows /\ Normal(Normalize(s))
         /\ Normalize(s).state = s.state /\ Normalize(s).silence \in 1..MaxSilence
<1>1. PICK t \in Int, h \in 1..MaxSilence :
        /\ Normalize(s) = [s EXCEPT !.threshold = t, !.silence = h]
        /\ t = IF t <= 0 \/ t > ThresholdCap THEN DefaultThreshold ELSE t
        /\ h = IF h <= 0 \/ h > MaxSilence THEN DefaultSilence ELSE h
  <2>1. /\ s.threshold \in Int /\ s.silence \in Int
    BY Zenon DEF AlertRows
  <2>2. (IF s.threshold <= 0 \/ s.threshold > ThresholdCap THEN DefaultThreshold ELSE s.threshold) \in Int
    BY <2>1, AlertAssumption
  <2>3. (IF s.silence <= 0 \/ s.silence > MaxSilence THEN DefaultSilence ELSE s.silence) \in 1..MaxSilence
    BY <2>1, AlertAssumption
  <2> QED
    BY <2>1, <2>2, <2>3, AlertAssumption, Zenon DEF Normalize, AlertRows
<1>2. Normalize(s) \in AlertRows /\ Normalize(s).state = s.state
  <2> DEFINE u == [s EXCEPT !.threshold = t]
  <2>1. u \in AlertRows /\ u.state = s.state
    BY <1>1, Zenon DEF AlertRows
  <2>2. [u EXCEPT !.silence = h] \in AlertRows /\ [u EXCEPT !.silence = h].state = u.state
    <3> HIDE DEF u
    <3> QED
      BY <2>1 DEF AlertRows
  <2> QED
    BY <1>1, <2>1, <2>2, Zenon
<1>3. Normalize(s).silence = h /\ Normalize(s).threshold = t
  BY <1>1, Zenon DEF AlertRows
<1>4. Normal(Normalize(s))
  <2> DEFINE n == Normalize(s)
  <2>1. [n EXCEPT !.threshold = t, !.silence = h] = n
    BY <1>2, <1>3, Zenon DEF AlertRows
  <2> QED
    BY <1>1, <1>3, <2>1, Zenon DEF Normal, Normalize
<1> QED
  BY <1>2, <1>3, <1>4, Zenon

LEMMA NormalSilence ==
  ASSUME NEW s \in AlertRows, Normal(s)
  PROVE  s.silence \in 1..MaxSilence
  BY NormalizeFacts, Zenon DEF Normal

LEMMA DefaultsNormal ==
  /\ DefaultAlertSettings \in AlertRows /\ Normal(DefaultAlertSettings)
  /\ \A p \in Accounts : DefaultAlertSettings.state[p] = Never
  /\ Resting \in PassRows
<1>1. DefaultAlertSettings \in AlertRows
  BY AlertAssumption DEF DefaultAlertSettings, AlertRows
<1>2. Normal(DefaultAlertSettings)
  <2> DEFINE d == DefaultAlertSettings
  <2>1. d.threshold = DefaultThreshold /\ d.silence = DefaultSilence
    BY Zenon DEF DefaultAlertSettings
  <2>2. [d EXCEPT !.threshold = DefaultThreshold, !.silence = DefaultSilence] = d
    BY <1>1, <2>1, Zenon DEF AlertRows
  <2>3. ~(DefaultSilence <= 0 \/ DefaultSilence > MaxSilence)
    BY AlertAssumption
  <2> HIDE DEF d
  <2> QED
    BY <2>1, <2>2, <2>3, Zenon DEF Normal, Normalize, d
<1> QED
  BY <1>1, <1>2, Zenon DEF Resting, PassRows, DefaultAlertSettings

-----------------------------------------------------------------------------
LEMMA OwedFacts ==
  ASSUME NEW A, IsFiniteSet(A), NEW k \in 0..1, NEW j \in 0..1
  PROVE  /\ Owed(A, k) \in Nat
         /\ Owed(A, k) <= Owed(A, j) + 1
         /\ k <= j => Owed(A, k) <= Owed(A, j)
<1>1. Cardinality(A) \in Nat /\ (A # {} => Cardinality(A) # 0)
  BY FS_CardinalityType, FS_EmptySet, Zenon
<1> QED
  BY <1>1 DEF Owed

LEMMA OwedOfNone == \A k \in 0..1 : Owed({}, k) = k
  BY FS_EmptySet DEF Owed

LEMMA OwedJoin ==
  ASSUME NEW A, IsFiniteSet(A), NEW w, w \notin A, NEW k \in 0..1, NEW j \in 0..1
  PROVE  /\ A # {} /\ k <= j => Owed(A \cup {w}, k) <= Owed(A, j) + 1
         /\ A = {} => Owed(A \cup {w}, k) = k
<1>1. Cardinality(A \cup {w}) = Cardinality(A) + 1 /\ Cardinality(A) \in Nat
  BY FS_CardinalityType, FS_AddElement, Zenon
<1>2. A = {} => Cardinality(A) = 0
  BY FS_EmptySet, Zenon
<1>3. A \cup {w} # {}
  BY Zenon
<1> QED
  BY <1>1, <1>2, <1>3 DEF Owed

LEMMA OwedLeave ==
  ASSUME NEW A, IsFiniteSet(A), NEW w \in A, NEW k \in 0..1, NEW j \in 0..1
  PROVE  /\ (k = 1 => A \ {w} # {}) => Owed(A \ {w}, k) + j <= Owed(A, j)
         /\ k <= j => Owed(A \ {w}, k) <= Owed(A, j)
<1>1. Cardinality(A \ {w}) = Cardinality(A) - 1 /\ Cardinality(A) \in Nat
  BY FS_CardinalityType, FS_RemoveElement, Zenon
<1>2. A # {}
  BY Zenon
<1> QED
  BY <1>1, <1>2 DEF Owed

LEMMA LooseType == \A p : Looseness(p) \in 0..1 /\ Looseness(p)' \in 0..1
  BY DEF Looseness

LEMMA PushingFinite == \A p : IsFiniteSet(Pushing(p)) /\ IsFiniteSet(Pushing(p)')
<1>1. \A p : Pushing(p) \subseteq Workers /\ Pushing(p)' \subseteq Workers
  BY Zenon DEF Pushing
<1> QED
  BY <1>1, AlertAssumption, FS_Subset, Zenon

(* A step that pushes nothing about p keeps the books if it frees no push  *)
(* of p, or pays.                                                          *)
LEMMA PaidSame ==
  ASSUME AlertTypeOK, AlertTypeOK', NEW p \in Accounts, extra[p] + Debt(p) <= mishaps,
         Pushing(p)' = Pushing(p), extra'[p] = extra[p],
         \/ mishaps' >= mishaps /\ (Loose(p)' => Loose(p))
         \/ mishaps' >= mishaps + 1
  PROVE  (extra[p] + Debt(p) <= mishaps)'
<1> DEFINE A == Pushing(p)  k == Looseness(p)'  j == Looseness(p)
<1>1. IsFiniteSet(A) /\ k \in 0..1 /\ j \in 0..1
  BY PushingFinite, LooseType, Zenon
<1>2. Debt(p) = Owed(A, j) /\ Debt(p)' = Owed(A, k)
  BY Zenon DEF Debt
<1>3. (Loose(p)' => Loose(p)) => k <= j
  BY DEF Looseness
<1>4. extra[p] \in Nat /\ mishaps \in Nat /\ mishaps' \in Nat
  BY Zenon DEF AlertTypeOK
<1> HIDE DEF A, k, j
<1>5. /\ Owed(A, k) \in Nat /\ Owed(A, j) \in Nat /\ Owed(A, k) <= Owed(A, j) + 1
      /\ k <= j => Owed(A, k) <= Owed(A, j)
  BY <1>1, OwedFacts, Zenon
<1>6. CASE mishaps' >= mishaps + 1
  BY <1>2, <1>4, <1>5, <1>6
<1>7. CASE mishaps' >= mishaps /\ (Loose(p)' => Loose(p))
  <2>1. Owed(A, k) <= Owed(A, j)
    BY <1>3, <1>5, <1>7, Zenon
  <2> QED
    BY <1>2, <1>4, <1>5, <1>7, <2>1
<1> QED
  BY <1>6, <1>7, Zenon

(* What the change of one pass does to the pushes that are ahead.          *)
LEMMA PassChange ==
  ASSUME AlertTypeOK, NEW w \in Workers, NEW r, pass' = [pass EXCEPT ![w] = r], NEW p \in Accounts
  PROVE  /\ pass'[w] = r /\ \A v \in Workers \ {w} : pass'[v] = pass[v]
         /\ r.at = "push" /\ p \in r.due => Pushing(p)' = Pushing(p) \cup {w}
         /\ ~(r.at = "push" /\ p \in r.due) => Pushing(p)' = Pushing(p) \ {w}
<1>1. pass'[w] = r /\ \A v \in Workers \ {w} : pass'[v] = pass[v]
  BY Zenon DEF AlertTypeOK
<1> QED
  BY <1>1, Zenon DEF Pushing

-----------------------------------------------------------------------------
LEMMA AlertInitInv == AlertInit => AlertInv
<1> SUFFICES ASSUME AlertInit PROVE AlertInv
  BY Zenon
<1>1. AlertTypeOK
  BY DefaultsNormal, Zenon DEF AlertInit, AlertTypeOK
<1>2. CopiesBacked
  <2>1. \A w \in Workers : pass[w].cfg = DefaultAlertSettings
    BY Zenon DEF AlertInit, Resting
  <2> QED
    BY <2>1, DefaultsNormal, Zenon DEF AlertInit, CopiesBacked, Backed
<1>3. PassInHour
  BY DefaultsNormal, Zenon DEF AlertInit, PassInHour, Resting, Busy
<1>4. PushesPaid
  <2> SUFFICES ASSUME NEW p \in Accounts PROVE extra[p] + Debt(p) <= mishaps
    BY Zenon DEF PushesPaid
  <2>1. Pushing(p) = {}
    BY Zenon DEF AlertInit, Pushing, Resting
  <2>2. ~Loose(p)
    BY <2>1, Zenon DEF AlertInit, Loose, Hasty, Stale
  <2>3. Debt(p) = 0
    BY <2>1, <2>2, OwedOfNone DEF Debt, Looseness
  <2> QED
    BY <2>3 DEF AlertInit
<1> QED
  BY <1>1, <1>2, <1>3, <1>4, DefaultsNormal, Zenon DEF AlertInit, AlertInv

(* Steps that leave the alerts alone.                                      *)
LEMMA BooksInv ==
  ASSUME AlertInv, UNCHANGED <<alert, hour, pass, desk, told, missed, extra, wish, mishaps>>
  PROVE  AlertInv'
<1>1. AlertTypeOK' /\ CopiesBacked' /\ PassInHour' /\ Normal(alert)' /\ missed' = {}
  BY Zenon DEF AlertInv, AlertTypeOK, CopiesBacked, Backed, PassInHour, Normal, Busy
<1>2. ASSUME NEW p \in Accounts PROVE Debt(p)' = Debt(p)
  BY Zenon DEF Debt, Pushing, Looseness, Loose, Hasty, Stale, Covered, ToldWithin
<1>3. PushesPaid'
  BY <1>2, Zenon DEF AlertInv, PushesPaid
<1> QED
  BY <1>1, <1>3, Zenon DEF AlertInv

LEMMA HourInv ==
  ASSUME AlertInv, AlertHour
  PROVE  AlertInv'
<1>1. AlertTypeOK /\ hour' = hour + 1 /\ desk = <<>> /\ (\A w \in Workers : pass[w].at \notin {"push", "save"})
      /\ UNCHANGED <<alert, pass, desk, told, missed, extra, wish, mishaps>>
  BY Zenon DEF AlertInv, AlertHour, Busy
<1>2. AlertTypeOK'
  BY <1>1 DEF AlertTypeOK
<1>3. CopiesBacked' /\ Normal(alert)'
  BY <1>1, Zenon DEF AlertInv, CopiesBacked, Backed, Normal
<1>4. PassInHour'
  <2>1. \A p \in Accounts : told'[p] # Never => told'[p] <= hour'
    BY <1>1 DEF AlertInv, PassInHour, AlertTypeOK
  <2> QED
    BY <1>1, <2>1, Zenon DEF AlertInv, PassInHour, Busy, Normal
<1>5. PushesPaid'
  <2> SUFFICES ASSUME NEW p \in Accounts PROVE (extra[p] + Debt(p) <= mishaps)'
    BY Zenon DEF PushesPaid
  <2>1. Pushing(p) = {} /\ Pushing(p)' = {}
    BY <1>1, Zenon DEF Pushing
  <2>2. Loose(p)' => Stale(p)'
    BY <2>1, Zenon DEF Loose, Hasty
  <2>3. Stale(p)' => Stale(p)
    BY <1>1, AlertAssumption DEF Stale, AlertTypeOK
  <2>4. ~Covered(p)
    BY <1>1, Zenon DEF Covered
  <2>5. Loose(p)' => Loose(p)
    BY <2>2, <2>3, <2>4, Zenon DEF Loose
  <2>6. mishaps' >= mishaps /\ extra'[p] = extra[p] /\ extra[p] + Debt(p) <= mishaps
    BY <1>1 DEF AlertInv, AlertTypeOK, PushesPaid
  <2> QED
    BY <1>1, <1>2, <2>1, <2>5, <2>6, PaidSame, Zenon
<1> QED
  BY <1>1, <1>2, <1>3, <1>4, <1>5, Zenon DEF AlertInv

(* A pass reads the row and the balances: what it passes over was told of, *)
(* and what it takes on is covered by the row or paid for as an overlap.   *)
LEMMA CheckInv ==
  ASSUME AlertInv, NEW w \in Workers, CheckBalanceAlerts(w)
  PROVE  AlertInv'
<1> DEFINE targets == filterAlertItems(urgent, alert.threshold)
           due == silenceDue(alert, targets)
           r == IF due = {} THEN Resting ELSE [at |-> "push", due |-> due, now |-> hour, cfg |-> alert]
           overlap == due # {} /\ \E v \in Workers \ {w} : Busy(v)
<1>0. AlertTypeOK /\ Normal(alert) /\ CopiesBacked /\ PassInHour /\ PushesPaid
  BY Zenon DEF AlertInv
<1>1. /\ pass[w].at = "rest" /\ pass' = [pass EXCEPT ![w] = r]
      /\ missed' = missed \cup {p \in targets \ due : ~ToldWithin(p, hour, alert.silence)}
      /\ mishaps' = IF overlap THEN mishaps + 1 ELSE mishaps
      /\ UNCHANGED <<alert, hour, book, desk, told, extra, wish>>
  <2>1. LoadAlertSettings = alert
    BY <1>0, Zenon DEF LoadAlertSettings, Normal
  <2> QED
    BY <2>1, Zenon DEF CheckBalanceAlerts, Mishap
<1>2. targets \subseteq Accounts /\ due \subseteq targets
  BY Zenon DEF filterAlertItems, urgent, silenceDue
<1>3. alert \in AlertRows /\ alert.silence \in 1..MaxSilence /\ hour \in Nat /\ mishaps \in Nat
  BY <1>0, NormalSilence, Zenon DEF AlertTypeOK
<1>4. \A p \in Accounts : alert.state[p] \in {Never} \cup Nat /\ told[p] \in {Never} \cup Nat
  BY <1>0, Zenon DEF AlertTypeOK, AlertRows
<1>5. \A p \in due : p \in Accounts /\ (alert.state[p] = Never \/ hour - alert.state[p] >= alert.silence)
  BY <1>2, Zenon DEF silenceDue
<1>6. \A p \in targets \ due : alert.state[p] # Never /\ ~(hour - alert.state[p] >= alert.silence)
  BY Zenon DEF silenceDue
<1> HIDE DEF targets, due
<1>7. r \in PassRows /\ r.cfg \in {alert, DefaultAlertSettings} /\ r.at \in {"rest", "push"}
      /\ (r.at = "push" => due # {} /\ r = [at |-> "push", due |-> due, now |-> hour, cfg |-> alert])
      /\ (due # {} => r.at = "push") /\ r.at # "save"
  <2>1. CASE due = {}
    BY <2>1, DefaultsNormal, Zenon DEF Resting
  <2>2. CASE due # {}
    BY <1>2, <1>3, <2>2, Zenon DEF PassRows
  <2> QED
    BY <2>1, <2>2, Zenon
<1> HIDE DEF r
<1>8. pass'[w] = r /\ \A v \in Workers \ {w} : pass'[v] = pass[v]
  BY <1>0, <1>1, Zenon DEF AlertTypeOK
<1>9. mishaps' \in Nat /\ mishaps' >= mishaps /\ (overlap => mishaps' = mishaps + 1)
  BY <1>1, <1>3
<1> HIDE DEF overlap
<1>10. AlertTypeOK'
  BY <1>0, <1>1, <1>7, <1>9, Zenon DEF AlertTypeOK
<1>11. CopiesBacked'
  <2>1. Backed(r.cfg)
    BY <1>0, <1>7, DefaultsNormal, Zenon DEF CopiesBacked, Backed
  <2>2. \A v \in Workers : Backed(pass'[v].cfg)
    BY <1>0, <1>8, <2>1, Zenon DEF CopiesBacked
  <2> QED
    BY <1>0, <1>1, <2>2, Zenon DEF CopiesBacked, Backed
<1>12. PassInHour'
  <2>1. Normal(r.cfg) /\ r.at # "save" /\ (r.at \in {"push", "save"} => r.now = hour)
    BY <1>0, <1>7, DefaultsNormal
  <2>2. ASSUME NEW v \in Workers
        PROVE  /\ Normal(pass'[v].cfg) /\ (pass'[v].at \in {"push", "save"} => pass'[v].now = hour)
               /\ (pass'[v].at = "save" => \A p \in pass'[v].due : told[p] = hour)
    BY <1>0, <1>8, <2>1, <2>2, Zenon DEF PassInHour, Busy
  <2> QED
    BY <1>0, <1>1, <2>2, Zenon DEF PassInHour, Busy, Normal
<1>13. missed' = {}
  <2>1. ASSUME NEW p \in targets \ due PROVE ToldWithin(p, hour, alert.silence)
    <3>1. p \in Accounts /\ alert.state[p] # Never /\ ~(hour - alert.state[p] >= alert.silence)
      BY <1>2, <1>6, <2>1, Zenon
    <3>2. told[p] # Never /\ alert.state[p] <= told[p]
      BY <1>0, <3>1, Zenon DEF CopiesBacked, Backed
    <3>3. hour - told[p] < alert.silence
      BY <1>3, <1>4, <3>1, <3>2
    <3> QED
      BY <3>2, <3>3, Zenon DEF ToldWithin
  <2> QED
    BY <1>1, <2>1, Zenon DEF AlertInv
<1>14. PushesPaid'
  <2> SUFFICES ASSUME NEW p \in Accounts PROVE (extra[p] + Debt(p) <= mishaps)'
    BY Zenon DEF PushesPaid
  <2>1. extra'[p] = extra[p] /\ extra[p] + Debt(p) <= mishaps /\ extra[p] \in Nat
    BY <1>0, <1>1, Zenon DEF PushesPaid, AlertTypeOK
  <2>2. w \notin Pushing(p)
    BY <1>1, Zenon DEF Pushing
  <2>3. Stale(p)' <=> Stale(p)
    BY <1>1, Zenon DEF Stale
  <2>4. Covered(p)' <=> Covered(p)
    BY <1>1, <1>7, <1>8, Zenon DEF Covered
  <2>5. CASE ~(r.at = "push" /\ p \in r.due)
    <3>0. Pushing(p)' = Pushing(p) \ {w}
      BY <1>0, <1>1, <2>5, PassChange, Zenon
    <3>1. Pushing(p)' = Pushing(p)
      BY <2>2, <3>0, Zenon
    <3>2. \A v \in Pushing(p) : pass'[v] = pass[v]
      BY <1>8, <2>2, Zenon DEF Pushing
    <3>3. Hasty(p)' <=> Hasty(p)
      BY <1>1, <3>1, <3>2, Zenon DEF Hasty, ToldWithin
    <3>4. Loose(p)' => Loose(p)
      BY <2>3, <2>4, <3>3, Zenon DEF Loose
    <3> QED
      BY <1>0, <1>9, <1>10, <2>1, <3>1, <3>4, PaidSame, Zenon
  <2>6. CASE r.at = "push" /\ p \in r.due
    <3>1. p \in due /\ due # {} /\ r.now = hour /\ r.cfg = alert
      BY <1>7, <2>6
    <3>2. Pushing(p)' = Pushing(p) \cup {w}
      BY <1>0, <1>1, <2>6, PassChange, Zenon
    <3>3. \A v \in Pushing(p) : pass'[v] = pass[v]
      BY <1>8, <2>2, Zenon DEF Pushing
    <3>4. ToldWithin(p, hour, alert.silence) => Stale(p)
      <4>1. ASSUME told[p] # Never, hour - told[p] < alert.silence
            PROVE  hour - told[p] <= SilenceStateTTL /\ alert.state[p] # told[p]
        BY <1>3, <1>4, <1>5, <3>1, <4>1, AlertAssumption
      <4> QED
        BY <4>1, Zenon DEF ToldWithin, Stale
    <3>5. Hasty(p)' => Hasty(p) \/ Stale(p)
      BY <1>1, <1>8, <3>1, <3>2, <3>3, <3>4, Zenon DEF Hasty, ToldWithin
    <3>6. Covered(p) /\ Pushing(p) # {} => Hasty(p)
      <4>1. ASSUME NEW u \in Workers, pass[u].at = "save", p \in pass[u].due, NEW v \in Pushing(p)
            PROVE  ToldWithin(p, pass[v].now, pass[v].cfg.silence)
        <5>1. told[p] = hour /\ pass[v].now = hour /\ pass[v].cfg.silence \in 1..MaxSilence
          BY <1>0, <4>1, NormalSilence, Zenon DEF PassInHour, Pushing, Busy, AlertTypeOK, PassRows
        <5>2. told[p] # Never
          BY <1>3, <5>1, AlertAssumption
        <5> QED
          BY <1>3, <5>1, <5>2, AlertAssumption DEF ToldWithin
      <4> QED
        BY <4>1, Zenon DEF Covered, Hasty
    <3>7. Pushing(p) # {} => (Loose(p)' => Loose(p))
      BY <2>3, <2>4, <3>5, <3>6, Zenon DEF Loose
    <3>8. ~overlap => Pushing(p) = {} /\ ~Covered(p)
      BY <1>1, <2>2, <3>1, Zenon DEF Pushing, Covered, Busy, overlap
    <3>9. Pushing(p) = {} /\ ~Covered(p) => (Loose(p)' => Loose(p))
      BY <2>3, <2>4, <3>5, Zenon DEF Loose, Hasty
    <3> DEFINE A == Pushing(p)  k == Looseness(p)'  j == Looseness(p)
    <3>10. IsFiniteSet(A) /\ k \in 0..1 /\ j \in 0..1
      BY PushingFinite, LooseType, Zenon
    <3>11. Debt(p) = Owed(A, j) /\ Debt(p)' = Owed(A \cup {w}, k)
      BY <3>2, Zenon DEF Debt
    <3>12. (Loose(p)' => Loose(p)) => k <= j
      BY DEF Looseness
    <3>13. A = {} => Owed(A, j) = j
      BY <3>10, OwedOfNone, Zenon
    <3> HIDE DEF A, k, j
    <3>14. /\ A # {} /\ k <= j => Owed(A \cup {w}, k) <= Owed(A, j) + 1
           /\ A = {} => Owed(A \cup {w}, k) = k
           /\ Owed(A, j) \in Nat
      BY <2>2, <3>10, OwedJoin, OwedFacts DEF A
    <3>15. Owed(A \cup {w}, k) \in Int
      BY <3>10, FS_AddElement, OwedFacts
    <3>16. CASE overlap
      <4>1. Owed(A \cup {w}, k) <= Owed(A, j) + 1
        <5>1. CASE A = {}
          BY <3>10, <3>13, <3>14, <5>1
        <5>2. CASE A # {}
          BY <3>7, <3>12, <3>14, <5>2, Zenon DEF A
        <5> QED
          BY <5>1, <5>2, Zenon
      <4> QED
        BY <1>3, <1>9, <2>1, <3>11, <3>14, <3>15, <3>16, <4>1
    <3>17. CASE ~overlap
      <4>1. A = {} /\ k <= j
        BY <3>8, <3>9, <3>12, <3>17, Zenon DEF A
      <4>2. Owed(A \cup {w}, k) <= Owed(A, j)
        BY <3>13, <3>14, <4>1, Zenon
      <4> QED
        BY <1>3, <1>9, <2>1, <3>11, <3>14, <3>15, <4>2
    <3> QED
      BY <3>16, <3>17, Zenon
  <2> QED
    BY <2>5, <2>6, Zenon
<1>15. mishaps' = 0 => Settings(alert') = wish'
  <2>1. mishaps' = 0 => mishaps = 0
    BY <1>3, <1>9
  <2> QED
    BY <1>1, <2>1, Zenon DEF AlertInv, Settings
<1> QED
  BY <1>0, <1>1, <1>10, <1>11, <1>12, <1>13, <1>14, <1>15, Zenon DEF AlertInv, Normal

(* The push: whoever still waits to push about the same provider comes too *)
(* early now, and the pass is about to write the alert into the row.       *)
LEMMA SendInv ==
  ASSUME AlertInv, NEW w \in Workers, SendServerChan(w)
  PROVE  AlertInv'
<1> DEFINE r == [pass[w] EXCEPT !.at = "save"]
<1>0. AlertTypeOK /\ Normal(alert) /\ CopiesBacked /\ PassInHour /\ PushesPaid
  BY Zenon DEF AlertInv
<1>1. pass[w].at = "push" /\ pass' = [pass EXCEPT ![w] = r]
      /\ UNCHANGED <<alert, hour, book, desk, missed, wish, mishaps>>
  BY Zenon DEF SendServerChan
<1>2. pass[w] \in PassRows /\ pass[w].now = hour /\ hour \in Nat /\ mishaps \in Nat
  BY <1>0, <1>1, Zenon DEF AlertTypeOK, PassInHour, Busy
<1>3. r \in PassRows /\ r.at = "save" /\ r.due = pass[w].due /\ r.now = pass[w].now /\ r.cfg = pass[w].cfg
  BY <1>2, Zenon DEF PassRows
<1> HIDE DEF r
<1>4. /\ told' = [p \in Accounts |-> IF p \in pass[w].due THEN hour ELSE told[p]]
      /\ extra' = [p \in Accounts |->
           IF p \in pass[w].due /\ ToldWithin(p, hour, pass[w].cfg.silence)
           THEN extra[p] + 1 ELSE extra[p]]
  BY <1>2, Zenon DEF SendServerChan
<1>5. pass'[w] = r /\ \A v \in Workers \ {w} : pass'[v] = pass[v]
  BY <1>0, <1>1, Zenon DEF AlertTypeOK
<1>6. \A p \in Accounts : /\ told'[p] = IF p \in pass[w].due THEN hour ELSE told[p]
                          /\ told[p] \in {Never} \cup Nat /\ told'[p] \in {Never} \cup Nat
                          /\ told[p] # Never => told[p] <= hour
  BY <1>0, <1>2, <1>4, Zenon DEF AlertTypeOK, PassInHour
<1>7. \A p \in Accounts : /\ told'[p] # Never => told'[p] <= hour
                          /\ told[p] # Never => told'[p] # Never /\ told[p] <= told'[p]
  BY <1>2, <1>6, AlertAssumption
<1>8. AlertTypeOK'
  <2>1. extra' \in [Accounts -> Nat] /\ told' \in [Accounts -> {Never} \cup Nat]
    BY <1>0, <1>2, <1>4 DEF AlertTypeOK
  <2>2. pass' \in [Workers -> PassRows]
    BY <1>0, <1>1, <1>3, Zenon DEF AlertTypeOK
  <2> QED
    BY <1>0, <1>1, <2>1, <2>2, Zenon DEF AlertTypeOK
<1>9. CopiesBacked'
  <2>1. ASSUME NEW s \in AlertRows, Backed(s) PROVE Backed(s)'
    <3> SUFFICES ASSUME NEW p \in Accounts, s.state[p] # Never
                 PROVE  told'[p] # Never /\ s.state[p] <= told'[p]
      BY Zenon DEF Backed
    <3>1. told[p] # Never /\ s.state[p] <= told[p] /\ s.state[p] \in Nat
      BY <2>1, Zenon DEF Backed, AlertRows
    <3> QED
      BY <1>6, <1>7, <3>1
  <2>2. alert \in AlertRows /\ (\A v \in Workers : pass[v].cfg \in AlertRows /\ pass'[v].cfg = pass[v].cfg)
        /\ (desk # <<>> => desk[1] \in AlertRows)
    BY <1>0, <1>3, <1>5, Zenon DEF AlertTypeOK, PassRows
  <2>3. \A s \in AlertRows : Backed(s) => Backed(s)'
    BY <2>1, Zenon
  <2>4. Backed(alert)' /\ \A v \in Workers : Backed(pass[v].cfg)'
    BY <1>0, <1>1, <1>5, <2>2, <2>3, Zenon DEF CopiesBacked, Backed
  <2> QED
    BY <1>0, <1>1, <2>2, <2>3, <2>4, Zenon DEF CopiesBacked, Backed
<1>10. PassInHour'
  <2>1. ASSUME NEW v \in Workers
        PROVE  /\ Normal(pass'[v].cfg) /\ (pass'[v].at \in {"push", "save"} => pass'[v].now = hour)
               /\ (pass'[v].at = "save" => \A p \in pass'[v].due : told'[p] = hour)
    <3>1. pass[v].due \subseteq Accounts
      BY <1>0, Zenon DEF AlertTypeOK, PassRows
    <3>2. CASE v = w
      BY <1>0, <1>2, <1>3, <1>5, <1>6, <3>1, <3>2, Zenon DEF PassInHour
    <3>3. CASE v # w
      BY <1>0, <1>5, <1>6, <3>1, <3>3, Zenon DEF PassInHour, Busy
    <3> QED
      BY <3>2, <3>3, Zenon
  <2> QED
    BY <1>1, <1>7, <2>1, Zenon DEF PassInHour, Busy, Normal
<1>11. PushesPaid'
  <2> SUFFICES ASSUME NEW p \in Accounts PROVE (extra[p] + Debt(p) <= mishaps)'
    BY Zenon DEF PushesPaid
  <2>1. extra[p] + Debt(p) <= mishaps /\ extra[p] \in Nat /\ extra'[p] \in Nat
    BY <1>0, <1>8, Zenon DEF PushesPaid, AlertTypeOK
  <2>2. Pushing(p)' = Pushing(p) \ {w}
    BY <1>0, <1>1, <1>3, PassChange, Zenon
  <2>3. CASE p \notin pass[w].due
    <3>1. extra'[p] = extra[p] /\ told'[p] = told[p]
      BY <1>4, <2>3, Zenon
    <3>2. Pushing(p)' = Pushing(p) /\ \A v \in Pushing(p) : pass'[v] = pass[v]
      BY <1>5, <2>2, <2>3, Zenon DEF Pushing
    <3>3. (Hasty(p)' <=> Hasty(p)) /\ (Stale(p)' <=> Stale(p))
      BY <1>1, <3>1, <3>2, Zenon DEF Hasty, Stale, ToldWithin
    <3>4. Covered(p)' <=> Covered(p)
      BY <1>1, <1>3, <1>5, <2>3, Zenon DEF Covered
    <3>5. (Loose(p)' => Loose(p)) /\ mishaps' >= mishaps
      BY <1>1, <1>2, <3>3, <3>4 DEF Loose
    <3> QED
      BY <1>0, <1>8, <2>1, <3>1, <3>2, <3>5, PaidSame, Zenon
  <2>4. CASE p \in pass[w].due
    <3> DEFINE A == Pushing(p)  k == Looseness(p)'  j == Looseness(p)
    <3>1. w \in A /\ Covered(p)'
      BY <1>1, <1>3, <1>5, <2>4, Zenon DEF Pushing, Covered
    <3>2. extra'[p] <= extra[p] + j
      <4>1. CASE ToldWithin(p, hour, pass[w].cfg.silence)
        <5>1. j = 1
          BY <1>2, <3>1, <4>1, Zenon DEF Looseness, Loose, Hasty
        <5> QED
          BY <1>4, <2>1, <2>4, <4>1, <5>1
      <4>2. CASE ~ToldWithin(p, hour, pass[w].cfg.silence)
        <5>1. j \in 0..1
          BY LooseType, Zenon
        <5> HIDE DEF j
        <5> QED
          BY <1>4, <2>1, <2>4, <4>2, <5>1
      <4> QED
        BY <4>1, <4>2, Zenon
    <3>3. k = 1 => A \ {w} # {}
      BY <2>2, <3>1 DEF Looseness, Loose, Hasty
    <3>4. IsFiniteSet(A) /\ k \in 0..1 /\ j \in 0..1
      BY PushingFinite, LooseType, Zenon
    <3>5. Debt(p) = Owed(A, j) /\ Debt(p)' = Owed(A \ {w}, k)
      BY <2>2, Zenon DEF Debt
    <3>6. IsFiniteSet(A \ {w})
      BY <3>4, FS_RemoveElement, Zenon
    <3> HIDE DEF A, k, j
    <3>7. Owed(A \ {w}, k) + j <= Owed(A, j)
      BY <3>1, <3>3, <3>4, OwedLeave, Zenon
    <3>8. Owed(A \ {w}, k) \in Nat /\ Owed(A, j) \in Nat
      BY <3>4, <3>6, OwedFacts, Zenon
    <3> QED
      BY <1>1, <1>2, <2>1, <3>2, <3>4, <3>5, <3>7, <3>8
  <2> QED
    BY <2>3, <2>4, Zenon
<1> QED
  BY <1>0, <1>1, <1>8, <1>9, <1>10, <1>11, Zenon DEF AlertInv, Normal, Settings

(* A pass that ends, well or not.                                          *)
LEMMA PassEnds ==
  ASSUME AlertInv, NEW w \in Workers, Busy(w), pass' = [pass EXCEPT ![w] = Resting],
         UNCHANGED <<hour, told>>
  PROVE  /\ pass' \in [Workers -> PassRows] /\ PassInHour'
         /\ \A v \in Workers : Backed(pass[v].cfg)'
         /\ \A p \in Accounts :
              /\ Pushing(p)' = Pushing(p) \ {w} /\ (Hasty(p)' => Hasty(p))
              /\ pass[w].at = "push" \/ p \notin pass[w].due => (Covered(p)' <=> Covered(p))
<1>0. AlertTypeOK /\ CopiesBacked /\ PassInHour
  BY Zenon DEF AlertInv
<1>1. Resting \in PassRows /\ Resting.at = "rest" /\ Resting.cfg = DefaultAlertSettings
  BY DefaultsNormal, Zenon DEF Resting
<1>2. pass'[w] = Resting /\ \A v \in Workers \ {w} : pass'[v] = pass[v]
  BY <1>0, Zenon DEF AlertTypeOK
<1>3. pass' \in [Workers -> PassRows]
  BY <1>0, <1>1, Zenon DEF AlertTypeOK
<1>4. PassInHour'
  <2>1. ASSUME NEW v \in Workers
        PROVE  /\ Normal(pass'[v].cfg) /\ (pass'[v].at \in {"push", "save"} => pass'[v].now = hour)
               /\ (pass'[v].at = "save" => \A p \in pass'[v].due : told[p] = hour)
    <3>1. CASE v = w
      BY <1>1, <1>2, <3>1, DefaultsNormal, Zenon
    <3>2. CASE v # w
      BY <1>0, <1>2, <3>2, Zenon DEF PassInHour, Busy
    <3> QED
      BY <3>1, <3>2, Zenon
  <2> QED
    BY <1>0, <2>1, Zenon DEF PassInHour, Busy, Normal
<1>5. \A v \in Workers : Backed(pass[v].cfg)'
  <2>1. Backed(DefaultAlertSettings)
    BY DefaultsNormal, Zenon DEF Backed
  <2>2. \A v \in Workers : Backed(pass'[v].cfg)
    BY <1>0, <1>1, <1>2, <2>1, Zenon DEF CopiesBacked
  <2> QED
    BY <2>2, Zenon DEF Backed
<1>6. ASSUME NEW p \in Accounts
      PROVE  /\ Pushing(p)' = Pushing(p) \ {w} /\ (Hasty(p)' => Hasty(p))
             /\ pass[w].at = "push" \/ p \notin pass[w].due => (Covered(p)' <=> Covered(p))
  <2>1. Pushing(p)' = Pushing(p) \ {w}
    BY <1>1, <1>2, Zenon DEF Pushing
  <2>2. Hasty(p)' => Hasty(p)
    BY <1>2, <2>1, Zenon DEF Hasty, ToldWithin, Pushing
  <2>3. pass[w].at = "push" \/ p \notin pass[w].due => (Covered(p)' <=> Covered(p))
    BY <1>1, <1>2, Zenon DEF Covered
  <2> QED
    BY <2>1, <2>2, <2>3, Zenon
<1> QED
  BY <1>3, <1>4, <1>5, <1>6, Zenon

(* A pass that dies pays for the alert it has not written.                 *)
LEMMA CrashInv ==
  ASSUME AlertInv, NEW w \in Workers, AlertCrash(w)
  PROVE  AlertInv'
<1>0. AlertTypeOK /\ Normal(alert) /\ CopiesBacked /\ PassInHour /\ PushesPaid
  BY Zenon DEF AlertInv
<1>1. Busy(w) /\ pass' = [pass EXCEPT ![w] = Resting] /\ mishaps' = mishaps + 1
      /\ UNCHANGED <<alert, hour, book, desk, told, missed, extra, wish>>
  BY Zenon DEF AlertCrash, Mishap
<1>2. /\ pass' \in [Workers -> PassRows] /\ PassInHour'
      /\ \A v \in Workers : Backed(pass[v].cfg)'
      /\ \A p \in Accounts :
           /\ Pushing(p)' = Pushing(p) \ {w} /\ (Hasty(p)' => Hasty(p))
           /\ pass[w].at = "push" \/ p \notin pass[w].due => (Covered(p)' <=> Covered(p))
  BY <1>1, PassEnds, Zenon
<1>3. mishaps \in Nat /\ mishaps' \in Nat /\ mishaps' # 0
  BY <1>0, <1>1 DEF AlertTypeOK
<1>4. AlertTypeOK'
  BY <1>0, <1>1, <1>2, <1>3, Zenon DEF AlertTypeOK
<1>5. CopiesBacked'
  BY <1>0, <1>1, <1>2, Zenon DEF CopiesBacked, Backed
<1>6. PushesPaid'
  <2> SUFFICES ASSUME NEW p \in Accounts PROVE (extra[p] + Debt(p) <= mishaps)'
    BY Zenon DEF PushesPaid
  <2>1. extra'[p] = extra[p] /\ extra[p] + Debt(p) <= mishaps /\ extra[p] \in Nat
    BY <1>0, <1>1, Zenon DEF PushesPaid, AlertTypeOK
  <2>2. CASE w \notin Pushing(p)
    <3>1. Pushing(p)' = Pushing(p)
      BY <1>2, <2>2, Zenon
    <3>2. mishaps' >= mishaps + 1
      BY <1>1, <1>3
    <3> QED
      BY <1>0, <1>4, <2>1, <3>1, <3>2, PaidSame, Zenon
  <2>3. CASE w \in Pushing(p)
    <3>1. Pushing(p)' = Pushing(p) \ {w} /\ (Hasty(p)' => Hasty(p)) /\ (Covered(p)' <=> Covered(p))
      BY <1>2, <2>3, Zenon DEF Pushing
    <3>2. Stale(p)' <=> Stale(p)
      BY <1>1, Zenon DEF Stale
    <3> DEFINE A == Pushing(p)  k == Looseness(p)'  j == Looseness(p)
    <3>3. k <= j
      BY <3>1, <3>2 DEF Looseness, Loose
    <3>4. IsFiniteSet(A) /\ k \in 0..1 /\ j \in 0..1
      BY PushingFinite, LooseType, Zenon
    <3>5. Debt(p) = Owed(A, j) /\ Debt(p)' = Owed(A \ {w}, k)
      BY <3>1, Zenon DEF Debt
    <3>6. IsFiniteSet(A \ {w}) /\ w \in A
      BY <2>3, <3>4, FS_RemoveElement, Zenon
    <3> HIDE DEF A, k, j
    <3>7. Owed(A \ {w}, k) <= Owed(A, j)
      BY <3>3, <3>4, <3>6, OwedLeave, Zenon
    <3>8. Owed(A \ {w}, k) \in Nat /\ Owed(A, j) \in Nat
      BY <3>4, <3>6, OwedFacts, Zenon
    <3> QED
      BY <1>1, <1>3, <2>1, <3>5, <3>7, <3>8
  <2> QED
    BY <2>2, <2>3, Zenon
<1> QED
  BY <1>0, <1>1, <1>2, <1>3, <1>4, <1>5, <1>6, Zenon DEF AlertInv, Normal

(* The state that a pass writes: the hour where it pushed, else what it    *)
(* read or, for an alert beyond its lifetime, nothing.                     *)
LEMMA MarkedFacts ==
  ASSUME AlertInv, NEW w \in Workers, Busy(w)
  PROVE  /\ NextSettings(w) \in AlertRows
         /\ Settings(NextSettings(w)) = Settings(pass[w].cfg)
         /\ NextSettings(w).silence = pass[w].cfg.silence /\ NextSettings(w).threshold = pass[w].cfg.threshold
         /\ \A p \in Accounts :
              LET old == pass[w].cfg.state[p]
                  new == NextSettings(w).state[p]
              IN /\ p \in pass[w].due => new = hour
                 /\ p \notin pass[w].due => new = old \/ (old \in Nat /\ hour - old > SilenceStateTTL /\ new = Never)
<1> DEFINE cfg == pass[w].cfg  m == Marked(w)
<1>1. pass[w] \in PassRows /\ cfg \in AlertRows /\ pass[w].now = hour /\ hour \in Nat
  BY Zenon DEF AlertInv, AlertTypeOK, PassInHour, PassRows
<1>2. \A p \in Accounts : cfg.state[p] \in {Never} \cup Nat
  BY <1>1, Zenon DEF AlertRows
<1>3. m = [p \in Accounts |->
             IF (IF p \in pass[w].due THEN hour ELSE cfg.state[p]) # Never
                  /\ hour - (IF p \in pass[w].due THEN hour ELSE cfg.state[p]) > SilenceStateTTL
             THEN Never ELSE IF p \in pass[w].due THEN hour ELSE cfg.state[p]]
  BY <1>1, Zenon DEF Marked
<1> HIDE DEF m
<1>4. ASSUME NEW p \in Accounts
      PROVE  /\ p \in pass[w].due => m[p] = hour
             /\ p \notin pass[w].due =>
                  m[p] = cfg.state[p] \/ (cfg.state[p] \in Nat /\ hour - cfg.state[p] > SilenceStateTTL /\ m[p] = Never)
             /\ m[p] \in {Never} \cup Nat
  <2>1. CASE p \in pass[w].due
    <3>1. ~(hour - hour > SilenceStateTTL)
      BY <1>1, AlertAssumption
    <3> QED
      BY <1>1, <1>3, <2>1, <3>1, Zenon
  <2>2. CASE p \notin pass[w].due
    <3>1. m[p] = IF cfg.state[p] # Never /\ hour - cfg.state[p] > SilenceStateTTL THEN Never ELSE cfg.state[p]
      BY <1>3, <2>2, Zenon
    <3> HIDE DEF cfg
    <3> QED
      BY <1>2, <2>2, <3>1, Zenon
  <2> QED
    BY <2>1, <2>2, Zenon
<1>5. m \in [Accounts -> {Never} \cup Nat]
  BY <1>3, <1>4, Zenon
<1>6. NextSettings(w) = [cfg EXCEPT !.state = m]
  BY Zenon DEF NextSettings, m
<1> HIDE DEF cfg
<1>7. /\ NextSettings(w) \in AlertRows /\ Settings(NextSettings(w)) = Settings(cfg)
      /\ NextSettings(w).state = m
      /\ NextSettings(w).silence = cfg.silence /\ NextSettings(w).threshold = cfg.threshold
  BY <1>1, <1>5, <1>6, Zenon DEF AlertRows, Settings
<1> QED
  BY <1>4, <1>7, Zenon DEF cfg

LEMMA NormalKept ==
  ASSUME NEW s \in AlertRows, NEW n \in AlertRows, Normal(n),
         s.threshold = n.threshold, s.silence = n.silence
  PROVE  Normalize(s) = s
<1> DEFINE t(x) == IF x <= 0 \/ x > ThresholdCap THEN DefaultThreshold ELSE x
           h(x) == IF x <= 0 \/ x > MaxSilence THEN DefaultSilence ELSE x
<1>1. \A r \in AlertRows : Normalize(r) = [r EXCEPT !.threshold = t(r.threshold), !.silence = h(r.silence)]
  BY Zenon DEF Normalize
<1> HIDE DEF t, h
<1>2. \A r \in AlertRows : Normalize(r).threshold = t(r.threshold) /\ Normalize(r).silence = h(r.silence)
  BY <1>1, Zenon DEF AlertRows
<1>3. t(s.threshold) = s.threshold /\ h(s.silence) = s.silence
  BY <1>2, Zenon DEF Normal
<1>4. [s EXCEPT !.threshold = s.threshold, !.silence = s.silence] = s
  BY Zenon DEF AlertRows
<1> QED
  BY <1>1, <1>3, <1>4, Zenon

(* The pass writes the row: its pushes are known again, and what another   *)
(* writer knew in the meantime is lost at the price of a mishap.           *)
LEMMA SaveInv ==
  ASSUME AlertInv, NEW w \in Workers, NEW ok \in BOOLEAN, SaveSilence(w, ok)
  PROVE  AlertInv'
<1> DEFINE cfg == pass[w].cfg  n == NextSettings(w)
<1>0. AlertTypeOK /\ Normal(alert) /\ CopiesBacked /\ PassInHour /\ PushesPaid
  BY Zenon DEF AlertInv
<1>1. /\ pass[w].at = "save" /\ Busy(w) /\ pass' = [pass EXCEPT ![w] = Resting]
      /\ alert' = IF ok THEN Normalize(n) ELSE alert
      /\ mishaps' = IF ~ok \/ alert # cfg THEN mishaps + 1 ELSE mishaps
      /\ UNCHANGED <<hour, book, desk, told, missed, extra, wish>>
  BY Zenon DEF SaveSilence, Mishap, SaveAlertSettings, Busy
<1>2. /\ pass' \in [Workers -> PassRows] /\ PassInHour'
      /\ \A v \in Workers : Backed(pass[v].cfg)'
      /\ \A p \in Accounts :
           /\ Pushing(p)' = Pushing(p) \ {w} /\ (Hasty(p)' => Hasty(p))
           /\ pass[w].at = "push" \/ p \notin pass[w].due => (Covered(p)' <=> Covered(p))
  BY <1>1, PassEnds, Zenon
<1>3. /\ n \in AlertRows /\ Settings(n) = Settings(cfg)
      /\ n.silence = cfg.silence /\ n.threshold = cfg.threshold
      /\ \A p \in Accounts :
           /\ p \in pass[w].due => n.state[p] = hour
           /\ p \notin pass[w].due =>
                \/ n.state[p] = cfg.state[p]
                \/ cfg.state[p] \in Nat /\ hour - cfg.state[p] > SilenceStateTTL /\ n.state[p] = Never
  BY <1>1, MarkedFacts, Zenon
<1>4. cfg \in AlertRows /\ Normal(cfg) /\ Backed(cfg) /\ (\A p \in pass[w].due : told[p] = hour)
      /\ pass[w].due \subseteq Accounts
  BY <1>0, <1>1, Zenon DEF AlertTypeOK, PassRows, PassInHour, CopiesBacked
<1> HIDE DEF n, cfg
<1>5. Normalize(n) = n
  BY <1>3, <1>4, NormalKept, Zenon
<1>6. hour \in Nat /\ mishaps \in Nat /\ mishaps' \in Nat /\ mishaps' >= mishaps
  BY <1>0, <1>1 DEF AlertTypeOK
<1>7. alert' \in AlertRows /\ Normal(alert)'
  BY <1>0, <1>1, <1>3, <1>5, Zenon DEF AlertTypeOK, Normal
<1>8. AlertTypeOK'
  BY <1>0, <1>1, <1>2, <1>6, <1>7, Zenon DEF AlertTypeOK
<1>9. CopiesBacked'
  <2>1. ASSUME NEW p \in Accounts, n.state[p] # Never PROVE told[p] # Never /\ n.state[p] <= told[p]
    <3>1. CASE p \in pass[w].due
      BY <1>3, <1>4, <1>6, <3>1, AlertAssumption
    <3>2. CASE p \notin pass[w].due
      BY <1>3, <1>4, <2>1, <3>2, Zenon DEF Backed
    <3> QED
      BY <3>1, <3>2, Zenon
  <2>2. Backed(n)
    BY <2>1, Zenon DEF Backed
  <2>3. Backed(alert')
    BY <1>0, <1>1, <1>5, <2>2, Zenon DEF CopiesBacked
  <2> QED
    BY <1>0, <1>1, <1>2, <2>3, Zenon DEF CopiesBacked, Backed
<1>10. PushesPaid'
  <2> SUFFICES ASSUME NEW p \in Accounts PROVE (extra[p] + Debt(p) <= mishaps)'
    BY Zenon DEF PushesPaid
  <2>1. extra'[p] = extra[p] /\ extra[p] + Debt(p) <= mishaps /\ Pushing(p)' = Pushing(p)
    BY <1>0, <1>1, <1>2, Zenon DEF PushesPaid, Pushing
  <2>2. ~ok \/ alert # cfg => mishaps' >= mishaps + 1
    BY <1>1, <1>6
  <2>3. ok /\ alert = cfg => (Loose(p)' => Loose(p))
    <3> SUFFICES ASSUME ok, alert = cfg PROVE Loose(p)' => Loose(p)
      BY Zenon
    <3>1. alert' = n
      BY <1>1, <1>5, Zenon
    <3>2. CASE p \in pass[w].due
      <4>1. ~Stale(p)'
        BY <1>1, <1>3, <1>4, <3>1, <3>2, Zenon DEF Stale
      <4> QED
        BY <1>2, <4>1, Zenon DEF Loose
    <3>3. CASE p \notin pass[w].due
      <4>1. Stale(p)' => Stale(p)
        <5>1. alert'.state[p] = alert.state[p] \/ (alert.state[p] \in Nat /\ hour - alert.state[p] > SilenceStateTTL)
          BY <1>3, <3>1, <3>3, Zenon
        <5>2. ASSUME NEW a \in Nat, NEW b \in Nat, NEW c \in Nat, a - b <= c
              PROVE  ~(a - b > c)
          BY <5>2
        <5>3. hour \in Nat /\ SilenceStateTTL \in Nat
          BY <1>6, AlertAssumption, Zenon DEF AlertAssumption
        <5>4. alert.state[p] = told[p] /\ hour - told[p] <= SilenceStateTTL
              => ~(hour - alert.state[p] > SilenceStateTTL) \/ alert.state[p] \notin Nat
          BY <5>2, <5>3, Zenon
        <5> QED
          BY <1>1, <5>1, <5>4, Zenon DEF Stale
      <4>2. Covered(p)' <=> Covered(p)
        BY <1>2, <3>3, Zenon
      <4> QED
        BY <1>2, <4>1, <4>2, Zenon DEF Loose
    <3> QED
      BY <3>2, <3>3, Zenon
  <2> QED
    BY <1>0, <1>6, <1>8, <2>1, <2>2, <2>3, PaidSame, Zenon
<1>11. mishaps' = 0 => Settings(alert') = wish'
  <2>1. mishaps' = 0 => ok /\ alert = cfg /\ mishaps = 0
    BY <1>1, <1>6
  <2> QED
    BY <1>1, <1>3, <1>5, <2>1, Zenon DEF AlertInv
<1> QED
  BY <1>1, <1>2, <1>7, <1>8, <1>9, <1>10, <1>11, Zenon DEF AlertInv, Settings

LEMMA UpdateInv ==
  ASSUME AlertInv, NEW e \in Edits, UpdateAlertSettings(e)
  PROVE  AlertInv'
<1> DEFINE on == Edited(alert.enabled, e.enabled)  t == Edited(alert.threshold, e.threshold)
           h == Edited(alert.silence, e.silence)   k == Edited(alert.key, e.key)
           r == [alert EXCEPT !.enabled = on, !.threshold = t, !.silence = h, !.key = k]
<1>0. AlertTypeOK /\ Normal(alert) /\ CopiesBacked /\ PassInHour /\ PushesPaid
  BY Zenon DEF AlertInv
<1>1. desk' = <<r, alert>> /\ UNCHANGED <<alert, hour, book, pass, told, missed, extra, wish, mishaps>>
  <2>1. LoadAlertSettings = alert
    BY <1>0, Zenon DEF LoadAlertSettings, Normal
  <2> QED
    BY <2>1, Zenon DEF UpdateAlertSettings
<1>2. alert \in AlertRows /\ on \in BOOLEAN /\ t \in Int /\ h \in Int /\ k \in BOOLEAN
  <2>1. /\ e.enabled \in {Keep} \cup BOOLEAN /\ e.key \in {Keep} \cup BOOLEAN
        /\ e.threshold \in {Keep} \cup Int /\ e.silence \in {Keep} \cup Int
    BY AlertAssumption, Zenon
  <2>2. alert \in AlertRows /\ alert.enabled \in BOOLEAN /\ alert.key \in BOOLEAN
        /\ alert.threshold \in Int /\ alert.silence \in Int
    BY <1>0, Zenon DEF AlertTypeOK, AlertRows
  <2> QED
    BY <2>1, <2>2, Zenon DEF Edited
<1>3. r \in AlertRows /\ r.state = alert.state
  <2> HIDE DEF on, t, h, k
  <2>1. [alert EXCEPT !.enabled = on] \in AlertRows /\ [alert EXCEPT !.enabled = on].state = alert.state
    BY <1>2, Zenon DEF AlertRows
  <2>2. \A s \in AlertRows : [s EXCEPT !.threshold = t] \in AlertRows /\ [s EXCEPT !.threshold = t].state = s.state
    BY <1>2, Zenon DEF AlertRows
  <2>3. \A s \in AlertRows : [s EXCEPT !.silence = h] \in AlertRows /\ [s EXCEPT !.silence = h].state = s.state
    BY <1>2, Zenon DEF AlertRows
  <2>4. \A s \in AlertRows : [s EXCEPT !.key = k] \in AlertRows /\ [s EXCEPT !.key = k].state = s.state
    BY <1>2, Zenon DEF AlertRows
  <2> QED
    BY <2>1, <2>2, <2>3, <2>4, Zenon
<1> HIDE DEF r
<1>4. AlertTypeOK'
  BY <1>0, <1>1, <1>2, <1>3, Zenon DEF AlertTypeOK
<1>5. CopiesBacked'
  <2>1. Backed(r)
    BY <1>0, <1>3, Zenon DEF CopiesBacked, Backed
  <2> QED
    BY <1>0, <1>1, <1>3, <2>1, Zenon DEF CopiesBacked, Backed
<1>6. PassInHour' /\ Normal(alert)' /\ missed' = {} /\ (mishaps' = 0 => Settings(alert') = wish')
  BY <1>0, <1>1, Zenon DEF AlertInv, PassInHour, Normal, Busy, Settings
<1>7. PushesPaid'
  <2>1. ASSUME NEW p \in Accounts PROVE Debt(p)' = Debt(p)
    BY <1>1, Zenon DEF Debt, Pushing, Looseness, Loose, Hasty, Stale, Covered, ToldWithin
  <2> QED
    BY <1>0, <1>1, <2>1, Zenon DEF PushesPaid
<1> QED
  BY <1>4, <1>5, <1>6, <1>7, Zenon DEF AlertInv

(* A save of the settings writes the alerts it read: it loses those of a   *)
(* pass in between, at the price of a mishap.                              *)
LEMMA EditInv ==
  ASSUME AlertInv, NEW ok \in BOOLEAN, SaveEdit(ok)
  PROVE  AlertInv'
<1> DEFINE d == desk[1]
<1>0. AlertTypeOK /\ Normal(alert) /\ CopiesBacked /\ PassInHour /\ PushesPaid
  BY Zenon DEF AlertInv
<1>1. /\ desk # <<>> /\ desk' = <<>> /\ alert' = IF ok THEN Normalize(d) ELSE alert
      /\ wish' = IF ok THEN Settings(Normalize(d)) ELSE wish
      /\ mishaps' = IF ok /\ alert # desk[2] THEN mishaps + 1 ELSE mishaps
      /\ UNCHANGED <<hour, book, pass, told, missed, extra>>
  BY Zenon DEF SaveEdit, Mishap, SaveAlertSettings
<1>2. d \in AlertRows /\ Backed(d) /\ d.state = desk[2].state
  BY <1>0, <1>1, Zenon DEF AlertTypeOK, CopiesBacked
<1> HIDE DEF d
<1>3. Normalize(d) \in AlertRows /\ Normal(Normalize(d)) /\ Normalize(d).state = d.state
  BY <1>2, NormalizeFacts, Zenon
<1>4. alert' \in AlertRows /\ Normal(alert)' /\ (alert'.state = alert.state \/ (ok /\ alert # desk[2]))
  BY <1>0, <1>1, <1>2, <1>3, Zenon DEF AlertTypeOK, Normal
<1>5. mishaps \in Nat /\ mishaps' \in Nat /\ mishaps' >= mishaps
      /\ (ok /\ alert # desk[2] => mishaps' >= mishaps + 1)
  BY <1>0, <1>1 DEF AlertTypeOK
<1>6. AlertTypeOK'
  BY <1>0, <1>1, <1>4, <1>5, Zenon DEF AlertTypeOK
<1>7. CopiesBacked'
  <2>1. Backed(alert')
    BY <1>0, <1>1, <1>2, <1>3, Zenon DEF CopiesBacked, Backed
  <2> QED
    BY <1>0, <1>1, <2>1, Zenon DEF CopiesBacked, Backed
<1>8. PassInHour' /\ missed' = {}
  BY <1>0, <1>1, Zenon DEF AlertInv, PassInHour, Normal, Busy
<1>9. mishaps' = 0 => Settings(alert') = wish'
  <2>1. mishaps' = 0 => mishaps = 0
    BY <1>5
  <2>2. CASE ok
    BY <1>1, <2>2, Zenon
  <2>3. CASE ~ok
    BY <1>1, <2>1, <2>3, Zenon DEF AlertInv, Settings
  <2> QED
    BY <2>2, <2>3, Zenon
<1>10. PushesPaid'
  <2> SUFFICES ASSUME NEW p \in Accounts PROVE (extra[p] + Debt(p) <= mishaps)'
    BY Zenon DEF PushesPaid
  <2>1. extra'[p] = extra[p] /\ extra[p] + Debt(p) <= mishaps /\ Pushing(p)' = Pushing(p)
        /\ (Hasty(p)' <=> Hasty(p)) /\ (Covered(p)' <=> Covered(p))
    BY <1>0, <1>1, Zenon DEF PushesPaid, Pushing, Hasty, Covered, ToldWithin
  <2>2. alert'.state = alert.state => (Loose(p)' => Loose(p))
    BY <1>1, <2>1, Zenon DEF Loose, Stale
  <2> QED
    BY <1>0, <1>4, <1>5, <1>6, <2>1, <2>2, PaidSame, Zenon
<1> QED
  BY <1>4, <1>6, <1>7, <1>8, <1>9, <1>10, Zenon DEF AlertInv

LEMMA AlertStepInv == AlertInv /\ [AlertNext]_alertVars => AlertInv'
<1> SUFFICES ASSUME AlertInv, [AlertNext]_alertVars PROVE AlertInv'
  BY Zenon
<1>1. CASE AlertHour
  BY <1>1, HourInv, Zenon
<1>2. ASSUME NEW p \in Accounts, NEW b \in Books[p], Account(p, b) PROVE AlertInv'
  BY <1>2, BooksInv, Zenon DEF Account
<1>3. ASSUME NEW w \in Workers, CheckBalanceAlerts(w) \/ SendServerChan(w) \/ AlertCrash(w) PROVE AlertInv'
  BY <1>3, CheckInv, SendInv, CrashInv, Zenon
<1>4. ASSUME NEW w \in Workers, NEW ok \in BOOLEAN, SaveSilence(w, ok) PROVE AlertInv'
  BY <1>4, SaveInv, Zenon
<1>5. ASSUME NEW e \in Edits, UpdateAlertSettings(e) PROVE AlertInv'
  BY <1>5, UpdateInv, Zenon
<1>6. ASSUME NEW ok \in BOOLEAN, SaveEdit(ok) PROVE AlertInv'
  BY <1>6, EditInv, Zenon
<1>7. CASE UNCHANGED alertVars
  BY <1>7, BooksInv, Zenon DEF alertVars
<1> QED
  BY <1>1, <1>2, <1>3, <1>4, <1>5, <1>6, <1>7, Zenon DEF AlertNext

(* A pass passes over a provider that runs low only when a push has been   *)
(* about it within the silence; every push that comes too early, and       *)
(* settings that are not what the administrator saved, are paid for by a   *)
(* crash, a failed write or an overlap (CheckBalanceAlerts).               *)
THEOREM EarlyPushesArePaidFor == AlertSpec => []LowIsToldOnce
<1>1. AlertInv => LowIsToldOnce
  <2> SUFFICES ASSUME AlertInv PROVE LowIsToldOnce
    BY Zenon
  <2>1. ASSUME NEW p \in Accounts PROVE extra[p] <= mishaps
    <3>1. Debt(p) \in Nat
      BY PushingFinite, LooseType, OwedFacts, Zenon DEF Debt
    <3> QED
      BY <3>1 DEF AlertInv, PushesPaid, AlertTypeOK
  <2>2. Settings(alert) # wish => mishaps > 0
    BY DEF AlertInv, AlertTypeOK
  <2> QED
    BY <2>1, <2>2, Zenon DEF LowIsToldOnce, AlertInv
<1> QED
  BY <1>1, AlertInitInv, AlertStepInv, PTL DEF AlertSpec
=============================================================================
