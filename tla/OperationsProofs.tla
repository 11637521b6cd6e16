-------------------------- MODULE OperationsProofs --------------------------
(***************************************************************************)
(* Proofs about what runs beside the requests: the self-update and the     *)
(* log archive.                                                            *)
(***************************************************************************)
EXTENDS SelfUpdate, LogArchive, InductionLemmas

(* Proof that the proxy points at a serving instance, for any number of    *)
(* versions, update requests, crashes and restarts.                        *)

UpdateTypeOK ==
  /\ proxy \in Colors /\ caddyfile \in Colors /\ strayed \in BOOLEAN
  /\ DOMAIN roll = Colors /\ \A c \in Colors : "at" \in DOMAIN roll[c]
  /\ DOMAIN stopper = Colors
  /\ DOMAIN box = Colors /\ \A c \in Colors : {"state", "id"} \subseteq DOMAIN box[c]

Serving(c) == box[c].state \in {"ready", "restarting"}

(* The inductive invariant.  Only the instance that has the traffic rolls  *)
(* out; the other one may still have to save its state and stop.  Once the *)
(* peer has been created anew nothing of its former life is left, once it  *)
(* has answered it serves, and the file names it before it is loaded.      *)
RolloutInOrder ==
  LET q == otherColor(proxy)
  IN  /\ Serving(proxy) /\ stopper[proxy] = 0 /\ roll[proxy].at # "save"
      /\ roll[q].at \in {"idle", "save"}
      /\ roll[proxy].at \in {"start", "wait", "rewrite", "reload"} =>
           roll[q].at = "idle" /\ stopper[q] = 0
      /\ roll[proxy].at \in {"rewrite", "reload"} => Serving(q)
      /\ roll[proxy].at = "reload" => caddyfile = q

\* A removed container takes its rollout and its stop with it.
GoneIsIdle == \A c \in Colors : box[c].state = "absent" => roll[c].at = "idle" /\ stopper[c] = 0

UpdateInv == UpdateTypeOK /\ GoneIsIdle /\ (~strayed => RolloutInOrder)

LEMMA TwoColors ==
  \A c \in Colors : /\ otherColor(c) \in Colors /\ otherColor(c) # c /\ otherColor(otherColor(c)) = c
                    /\ \A d \in Colors : d = c \/ d = otherColor(c)
BY Zenon DEF Colors, otherColor

LEMMA UpdateInitInv == UpdateInit => UpdateInv
<1> SUFFICES ASSUME UpdateInit PROVE UpdateInv
  BY Zenon
<1>1. UpdateTypeOK
  <2>1. PICK v \in Versions :
          box = [c \in Colors |->
                   IF c = "blue" THEN [state |-> "ready", version |-> v, id |-> 1] ELSE Absent]
    BY Zenon DEF UpdateInit
  <2>2. DOMAIN box = Colors /\ \A c \in Colors : {"state", "id"} \subseteq DOMAIN box[c]
    BY <2>1, Zenon DEF Absent
  <2> QED
    BY <2>2, Zenon DEF UpdateInit, UpdateTypeOK, Colors, Idle
<1>2. RolloutInOrder
  BY DEF UpdateInit, RolloutInOrder, Serving, otherColor, Colors, Idle
<1>3. GoneIsIdle
  BY Zenon DEF UpdateInit, GoneIsIdle, Idle
<1> QED
  BY <1>1, <1>2, <1>3, Zenon DEF UpdateInv

LEMMA UpdateStepInv == UpdateInv /\ [UpdateNext]_updateVars => UpdateInv'
<1> SUFFICES ASSUME UpdateInv, [UpdateNext]_updateVars PROVE UpdateInv'
  BY Zenon
<1>0. UpdateTypeOK /\ GoneIsIdle /\ (~strayed => RolloutInOrder)
  BY Zenon DEF UpdateInv
<1>1. ASSUME NEW t \in Targets, SystemUpdate(t) PROVE UpdateInv'
  <2>1. UpdateTypeOK'
    BY <1>0, <1>1, TwoColors, Zenon DEF UpdateTypeOK, SystemUpdate
  <2>2. ASSUME ~strayed' PROVE RolloutInOrder'
    BY <1>0, <1>1, <2>2, TwoColors, Zenon DEF UpdateTypeOK, RolloutInOrder, Serving, SystemUpdate
  <2>3. GoneIsIdle'
    BY <1>0, <1>1, TwoColors, Zenon DEF UpdateTypeOK, GoneIsIdle, SystemUpdate
  <2> QED
    BY <2>1, <2>2, <2>3, Zenon DEF UpdateInv
<1>2. ASSUME NEW m \in posted, StartUpdate(m) PROVE UpdateInv'
  <2>1. UpdateTypeOK'
    BY <1>0, <1>2, TwoColors, Zenon DEF UpdateTypeOK, StartUpdate, Outside
  <2>2. ASSUME ~strayed' PROVE RolloutInOrder'
    BY <1>0, <1>2, <2>2, TwoColors, Zenon DEF UpdateTypeOK, RolloutInOrder, Serving, StartUpdate,
           Outside
  <2>3. GoneIsIdle'
    BY <1>0, <1>2, TwoColors, Zenon DEF UpdateTypeOK, GoneIsIdle, StartUpdate, Outside
  <2> QED
    BY <2>1, <2>2, <2>3, Zenon DEF UpdateInv
<1>3. ASSUME NEW c \in Colors, AcquireLock(c) PROVE UpdateInv'
  <2>1. UpdateTypeOK'
    BY <1>0, <1>3, TwoColors DEF UpdateTypeOK, AcquireLock, Outside, fail, RolloutEnds, Idle
  <2>2. ASSUME ~strayed' PROVE RolloutInOrder'
    BY <1>0, <1>3, <2>2, TwoColors DEF UpdateTypeOK, RolloutInOrder, Serving, AcquireLock, Outside,
           fail, RolloutEnds, Idle
  <2>3. GoneIsIdle'
    BY <1>0, <1>3, TwoColors, Zenon DEF UpdateTypeOK, GoneIsIdle, AcquireLock, Outside, fail, RolloutEnds, Idle
  <2> QED
    BY <2>1, <2>2, <2>3, Zenon DEF UpdateInv
<1>4. ASSUME NEW c \in Colors, Resolve(c) PROVE UpdateInv'
  <2>1. UpdateTypeOK'
    BY <1>0, <1>4, TwoColors DEF UpdateTypeOK, Resolve, Outside, fail, RolloutEnds, Idle
  <2>2. ASSUME ~strayed' PROVE RolloutInOrder'
    BY <1>0, <1>4, <2>2, TwoColors DEF UpdateTypeOK, RolloutInOrder, Serving, Resolve, Outside,
           fail, RolloutEnds, Idle
  <2>3. GoneIsIdle'
    BY <1>0, <1>4, TwoColors, Zenon DEF UpdateTypeOK, GoneIsIdle, Resolve, Outside, fail, RolloutEnds, Idle
  <2> QED
    BY <2>1, <2>2, <2>3, Zenon DEF UpdateInv
<1>5. ASSUME NEW c \in Colors, Pull(c) PROVE UpdateInv'
  <2>1. UpdateTypeOK'
    BY <1>0, <1>5, TwoColors DEF UpdateTypeOK, Pull, Outside, fail, RolloutEnds, Idle
  <2>2. ASSUME ~strayed' PROVE RolloutInOrder'
    BY <1>0, <1>5, <2>2, TwoColors DEF UpdateTypeOK, RolloutInOrder, Serving, Pull, Outside, fail,
           RolloutEnds, Idle
  <2>3. GoneIsIdle'
    BY <1>0, <1>5, TwoColors, Zenon DEF UpdateTypeOK, GoneIsIdle, Pull, Outside, fail, RolloutEnds, Idle
  <2> QED
    BY <2>1, <2>2, <2>3, Zenon DEF UpdateInv
<1>6. ASSUME NEW c \in Colors, RemovePeer(c) PROVE UpdateInv'
  <2>1. UpdateTypeOK'
    BY <1>0, <1>6, TwoColors DEF UpdateTypeOK, RemovePeer, Gone, Absent, Idle
  <2>2. ASSUME ~strayed' PROVE RolloutInOrder'
    BY <1>0, <1>6, <2>2, TwoColors DEF UpdateTypeOK, RolloutInOrder, Serving, RemovePeer, Gone,
           Absent, Idle
  <2>3. GoneIsIdle'
    BY <1>0, <1>6, TwoColors DEF UpdateTypeOK, GoneIsIdle, RemovePeer, Gone, Absent, Idle
  <2> QED
    BY <2>1, <2>2, <2>3, Zenon DEF UpdateInv
<1>7. ASSUME NEW c \in Colors, CreatePeer(c) PROVE UpdateInv'
  <2>1. UpdateTypeOK'
    BY <1>0, <1>7, TwoColors DEF UpdateTypeOK, CreatePeer, Outside, fail, RolloutEnds, Idle
  <2>2. ASSUME ~strayed' PROVE RolloutInOrder'
    BY <1>0, <1>7, <2>2, TwoColors DEF UpdateTypeOK, GoneIsIdle, RolloutInOrder, Serving,
           CreatePeer, Outside, fail, RolloutEnds, Idle
  <2>3. GoneIsIdle'
    BY <1>0, <1>7, TwoColors, Zenon DEF UpdateTypeOK, GoneIsIdle, CreatePeer, Outside, fail, RolloutEnds, Idle
  <2> QED
    BY <2>1, <2>2, <2>3, Zenon DEF UpdateInv
<1>8. ASSUME NEW c \in Colors, StartPeer(c) PROVE UpdateInv'
  <2>1. UpdateTypeOK'
    BY <1>0, <1>8, TwoColors DEF UpdateTypeOK, StartPeer, Outside
  <2>2. ASSUME ~strayed' PROVE RolloutInOrder'
    BY <1>0, <1>8, <2>2, TwoColors DEF UpdateTypeOK, RolloutInOrder, Serving, StartPeer, Outside
  <2>3. GoneIsIdle'
    BY <1>0, <1>8, TwoColors DEF UpdateTypeOK, GoneIsIdle, StartPeer, Outside
  <2> QED
    BY <2>1, <2>2, <2>3, Zenon DEF UpdateInv
<1>9. ASSUME NEW c \in Colors, WaitPeer(c) PROVE UpdateInv'
  <2>1. UpdateTypeOK'
    BY <1>0, <1>9, TwoColors DEF UpdateTypeOK, WaitPeer, Outside, PeerReady
  <2>2. ASSUME ~strayed' PROVE RolloutInOrder'
    BY <1>0, <1>9, <2>2, TwoColors DEF UpdateTypeOK, RolloutInOrder, Serving, WaitPeer, Outside,
           PeerReady
  <2>3. GoneIsIdle'
    BY <1>0, <1>9, TwoColors, Zenon DEF UpdateTypeOK, GoneIsIdle, WaitPeer, Outside, PeerReady
  <2> QED
    BY <2>1, <2>2, <2>3, Zenon DEF UpdateInv
<1>10. ASSUME NEW c \in Colors, DiscardPeer(c) PROVE UpdateInv'
  <2>1. UpdateTypeOK'
    BY <1>0, <1>10, TwoColors DEF UpdateTypeOK, DiscardPeer, Gone, Absent, Idle
  <2>2. ASSUME ~strayed' PROVE RolloutInOrder'
    BY <1>0, <1>10, <2>2, TwoColors DEF UpdateTypeOK, RolloutInOrder, Serving, DiscardPeer, Gone,
           Absent, Idle
  <2>3. GoneIsIdle'
    BY <1>0, <1>10, TwoColors DEF UpdateTypeOK, GoneIsIdle, DiscardPeer, Gone, Absent, Idle
  <2> QED
    BY <2>1, <2>2, <2>3, Zenon DEF UpdateInv
<1>11. ASSUME NEW c \in Colors, RewriteCaddyfile(c) PROVE UpdateInv'
  <2>1. UpdateTypeOK'
    BY <1>0, <1>11, TwoColors DEF UpdateTypeOK, RewriteCaddyfile, fail, RolloutEnds, Idle
  <2>2. ASSUME ~strayed' PROVE RolloutInOrder'
    BY <1>0, <1>11, <2>2, TwoColors DEF UpdateTypeOK, RolloutInOrder, Serving, RewriteCaddyfile,
           fail, RolloutEnds, Idle
  <2>3. GoneIsIdle'
    BY <1>0, <1>11, TwoColors, Zenon DEF UpdateTypeOK, GoneIsIdle, RewriteCaddyfile, fail, RolloutEnds, Idle
  <2> QED
    BY <2>1, <2>2, <2>3, Zenon DEF UpdateInv
<1>12. ASSUME NEW c \in Colors, ReloadCaddy(c) PROVE UpdateInv'
  <2>1. UpdateTypeOK'
    BY <1>0, <1>12, TwoColors DEF UpdateTypeOK, ReloadCaddy, fail, RolloutEnds, Idle
  <2>2. ASSUME ~strayed' PROVE RolloutInOrder'
    BY <1>0, <1>12, <2>2, TwoColors DEF UpdateTypeOK, RolloutInOrder, Serving, ReloadCaddy, fail,
           RolloutEnds, Idle
  <2>3. GoneIsIdle'
    BY <1>0, <1>12, TwoColors, Zenon DEF UpdateTypeOK, GoneIsIdle, ReloadCaddy, fail, RolloutEnds, Idle
  <2> QED
    BY <2>1, <2>2, <2>3, Zenon DEF UpdateInv
<1>13. ASSUME NEW c \in Colors, SaveState(c) PROVE UpdateInv'
  <2>1. UpdateTypeOK'
    BY <1>0, <1>13, TwoColors, Zenon DEF UpdateTypeOK, SaveState, RolloutEnds, Idle
  <2>2. ASSUME ~strayed' PROVE RolloutInOrder'
    BY <1>0, <1>13, <2>2, TwoColors, Zenon DEF UpdateTypeOK, RolloutInOrder, Serving, SaveState,
           RolloutEnds, Idle
  <2>3. GoneIsIdle'
    BY <1>0, <1>13, TwoColors, Zenon DEF UpdateTypeOK, GoneIsIdle, SaveState, RolloutEnds, Idle
  <2> QED
    BY <2>1, <2>2, <2>3, Zenon DEF UpdateInv
<1>14. ASSUME NEW c \in Colors, StopSelf(c) PROVE UpdateInv'
  <2>1. UpdateTypeOK'
    BY <1>0, <1>14, TwoColors DEF UpdateTypeOK, StopSelf, Outside
  <2>2. ASSUME ~strayed' PROVE RolloutInOrder'
    BY <1>0, <1>14, <2>2, TwoColors, Zenon DEF UpdateTypeOK, RolloutInOrder, Serving, StopSelf, Outside
  <2>3. GoneIsIdle'
    BY <1>0, <1>14, TwoColors DEF UpdateTypeOK, GoneIsIdle, StopSelf, Outside
  <2> QED
    BY <2>1, <2>2, <2>3, Zenon DEF UpdateInv
<1>15. ASSUME NEW c \in Colors, Drained(c) PROVE UpdateInv'
  <2>1. UpdateTypeOK'
    BY <1>0, <1>15, TwoColors, Zenon DEF UpdateTypeOK, Drained, Dies, Idle
  <2>2. ASSUME ~strayed' PROVE RolloutInOrder'
    BY <1>0, <1>15, <2>2, TwoColors, Zenon DEF UpdateTypeOK, RolloutInOrder, Serving, Drained, Dies, Idle
  <2>3. GoneIsIdle'
    BY <1>0, <1>15, TwoColors, Zenon DEF UpdateTypeOK, GoneIsIdle, Drained, Dies, Idle
  <2> QED
    BY <2>1, <2>2, <2>3, Zenon DEF UpdateInv
<1>16. ASSUME NEW c \in Colors, Boot(c) PROVE UpdateInv'
  <2>1. UpdateTypeOK'
    BY <1>0, <1>16, TwoColors, Zenon DEF UpdateTypeOK, Boot
  <2>2. ASSUME ~strayed' PROVE RolloutInOrder'
    BY <1>0, <1>16, <2>2, TwoColors, Zenon DEF UpdateTypeOK, RolloutInOrder, Serving, Boot
  <2>3. GoneIsIdle'
    BY <1>0, <1>16, TwoColors, Zenon DEF UpdateTypeOK, GoneIsIdle, Boot
  <2> QED
    BY <2>1, <2>2, <2>3, Zenon DEF UpdateInv
<1>17. ASSUME NEW c \in Colors, InstanceCrash(c) PROVE UpdateInv'
  <2>1. UpdateTypeOK'
    BY <1>0, <1>17, TwoColors, Zenon DEF UpdateTypeOK, InstanceCrash, Dies, Idle
  <2>2. ASSUME ~strayed' PROVE RolloutInOrder'
    <3>1. roll'[c].at = "idle" /\ stopper'[c] = 0 /\ UNCHANGED <<proxy, caddyfile, strayed>>
      BY <1>0, <1>17, Zenon DEF UpdateTypeOK, InstanceCrash, Dies, Idle
    <3>2. \A d \in Colors \ {c} : UNCHANGED <<roll[d], stopper[d], box[d]>>
      BY <1>0, <1>17, Zenon DEF UpdateTypeOK, InstanceCrash, Dies
    <3>3. Serving(c) => Serving(c)'
      <4>1. Serving(c) => box[c].state = "ready"
        BY <1>17, Zenon DEF Serving, InstanceCrash, Alive
      <4>2. box[c].state = "ready" => box'[c].state = "restarting"
        BY <1>0, <1>17, Zenon DEF UpdateTypeOK, InstanceCrash, Dies
      <4> QED
        BY <4>1, <4>2, Zenon DEF Serving
    <3> QED
      BY <1>0, <2>2, <3>1, <3>2, <3>3, TwoColors, Zenon DEF UpdateTypeOK, RolloutInOrder, Serving
  <2>3. GoneIsIdle'
    BY <1>0, <1>17, TwoColors, Zenon DEF UpdateTypeOK, GoneIsIdle, InstanceCrash, Dies, Idle
  <2> QED
    BY <2>1, <2>2, <2>3, Zenon DEF UpdateInv
<1>18. ASSUME NEW c \in Colors, CheckNow(c) PROVE UpdateInv'
  <2>1. UpdateTypeOK'
    BY <1>0, <1>18, TwoColors, Zenon DEF UpdateTypeOK, CheckNow
  <2>2. ASSUME ~strayed' PROVE RolloutInOrder'
    BY <1>0, <1>18, <2>2, TwoColors, Zenon DEF UpdateTypeOK, RolloutInOrder, Serving, CheckNow
  <2>3. GoneIsIdle'
    BY <1>0, <1>18, TwoColors, Zenon DEF UpdateTypeOK, GoneIsIdle, CheckNow
  <2> QED
    BY <2>1, <2>2, <2>3, Zenon DEF UpdateInv
<1>19. ASSUME ProxyRestarts PROVE UpdateInv'
  <2>1. UpdateTypeOK'
    BY <1>0, <1>19, TwoColors, Zenon DEF UpdateTypeOK, ProxyRestarts
  <2>2. ASSUME ~strayed' PROVE RolloutInOrder'
    BY <1>0, <1>19, <2>2, TwoColors, Zenon DEF UpdateTypeOK, RolloutInOrder, Serving, ProxyRestarts
  <2>3. GoneIsIdle'
    BY <1>0, <1>19, TwoColors, Zenon DEF UpdateTypeOK, GoneIsIdle, ProxyRestarts
  <2> QED
    BY <2>1, <2>2, <2>3, Zenon DEF UpdateInv
<1>20. ASSUME LockExpires PROVE UpdateInv'
  <2>1. UpdateTypeOK'
    BY <1>0, <1>20, TwoColors, Zenon DEF UpdateTypeOK, LockExpires, Outside
  <2>2. ASSUME ~strayed' PROVE RolloutInOrder'
    BY <1>0, <1>20, <2>2, TwoColors, Zenon DEF UpdateTypeOK, RolloutInOrder, Serving, LockExpires, Outside
  <2>3. GoneIsIdle'
    BY <1>0, <1>20, TwoColors, Zenon DEF UpdateTypeOK, GoneIsIdle, LockExpires, Outside
  <2> QED
    BY <2>1, <2>2, <2>3, Zenon DEF UpdateInv
<1>21. ASSUME NEW v \in Versions, Publish(v) PROVE UpdateInv'
  <2>1. UpdateTypeOK'
    BY <1>0, <1>21, TwoColors, Zenon DEF UpdateTypeOK, Publish
  <2>2. ASSUME ~strayed' PROVE RolloutInOrder'
    BY <1>0, <1>21, <2>2, TwoColors, Zenon DEF UpdateTypeOK, RolloutInOrder, Serving, Publish
  <2>3. GoneIsIdle'
    BY <1>0, <1>21, TwoColors, Zenon DEF UpdateTypeOK, GoneIsIdle, Publish
  <2> QED
    BY <2>1, <2>2, <2>3, Zenon DEF UpdateInv
<1>22. ASSUME UNCHANGED updateVars PROVE UpdateInv'
  <2>1. UpdateTypeOK'
    BY <1>0, <1>22, TwoColors, Zenon DEF UpdateTypeOK, updateVars
  <2>2. ASSUME ~strayed' PROVE RolloutInOrder'
    BY <1>0, <1>22, <2>2, TwoColors, Zenon DEF UpdateTypeOK, RolloutInOrder, Serving, updateVars
  <2>3. GoneIsIdle'
    BY <1>0, <1>22, TwoColors, Zenon DEF UpdateTypeOK, GoneIsIdle, updateVars
  <2> QED
    BY <2>1, <2>2, <2>3, Zenon DEF UpdateInv
<1> QED
  BY <1>1, <1>2, <1>3, <1>4, <1>5, <1>6, <1>7, <1>8, <1>9, <1>10, <1>11, <1>12,
     <1>13, <1>14, <1>15, <1>16, <1>17, <1>18, <1>19, <1>20, <1>21, <1>22, Zenon
     DEF UpdateNext, UpdateStep

(* The proxy always points at an instance that answered /health and that   *)
(* no rollout has removed, stopped or told to drain, however many updates, *)
(* failed calls, crashes and restarts there are (Updater.run).             *)
THEOREM ProxyPointsAtServing == UpdateSpec => []ActiveServes
<1>1. UpdateInv => ActiveServes
  BY Zenon DEF UpdateInv, RolloutInOrder, Serving, ActiveServes
<1> QED
  BY <1>1, UpdateInitInv, UpdateStepInv, PTL DEF UpdateSpec
-----------------------------------------------------------------------------
(* Proofs about LogArchive for any captures and limits.                    *)

Under == {"new", "open", "drain", "settle"}
Over == {"none", "done", "lost"}
Reasons == {"none", "size_limit", "queue_full", "stream_interrupted", "binary_omitted",
            "metadata_write_failed", "storage_error", "storage_or_quota_error"}

CaptureRecords ==
  [st : Under \cup Over, owner : Instances \cup {"none"}, received : Nat, accepted : Nat, saved : Nat,
   reason : Reasons, complete : BOOLEAN, closed : BOOLEAN, todo : Nat, reserved : BOOLEAN,
   queued : Nat, err : BOOLEAN, qw : BOOLEAN, written : Nat]

(* A capture: what it has received it has accepted, still to queue or,     *)
(* with a reason, refused; what it has accepted is in the file or queued,  *)
(* unless it failed.                                                       *)
Balanced(k) ==
  /\ k.st \in Under => k.owner \in Instances
  /\ k.st \in Over => k.owner = "none" /\ k.queued = 0 /\ ~k.reserved /\ k.todo = 0
  /\ k.closed => k.todo = 0
  /\ k.reserved => k.todo > 0 /\ k.accepted < MaxBody
  /\ k.reason = "none" => k.received = k.accepted + k.todo
  /\ k.accepted + k.todo <= k.received /\ k.received <= MaxReceived
  /\ k.accepted <= MaxBody /\ k.queued <= ChanCap
  /\ k.saved + k.queued <= k.accepted
  /\ ~k.err => k.accepted = k.saved + k.queued
  /\ k.st = "settle" => k.closed /\ k.queued = 0

CaptureOK(k) == k \in CaptureRecords /\ Balanced(k)

Rows == [st : {"none", "saving", "complete", "partial", "omitted", "error"}, saved : Nat, received : Nat]
Files == [kind : {"none", "tmp", "gz"}, size : Nat]

Around ==
  /\ row \in [Captures -> Rows] /\ file \in [Captures -> Files] /\ aged \subseteq Captures
  /\ inst \in [Instances -> [up : BOOLEAN, buffered : Int, used : Int, crashes : Nat]]
  /\ purging \in [Instances -> Captures \cup {"idle"}]

CapturesOK == DOMAIN cap = Captures /\ \A c \in Captures : CaptureOK(cap[c])

(* What is renamed is whole, what is aged is over.                         *)
WholeOK(c) ==
  /\ cap[c].st = "settle" /\ ~cap[c].err => file[c].kind = "gz"
  /\ row[c].st = "complete" =>
       /\ row[c].saved = row[c].received /\ cap[c].st \in {"done", "lost"}
       /\ file[c].kind = "gz" \/ c \in aged
  /\ c \in aged => cap[c].st \in {"done", "lost"}

(* The inductive invariant of CompleteIsComplete, for any instances.       *)
ArchiveInv == Around /\ CapturesOK /\ \A c \in Captures : WholeOK(c)

(* What is stored and queued, for one instance: the file of a capture is   *)
(* there from open to the end and has the size its writer counted.         *)
FileOK(c) ==
  /\ cap[c].st \in {"none", "new", "open"} => file[c].kind = "none" /\ cap[c].written = 0 /\ ~cap[c].qw
  /\ cap[c].st = "drain" =>
       IF cap[c].qw THEN file[c].kind = "tmp" /\ file[c].size = cap[c].written
       ELSE file[c].kind = "none" /\ cap[c].err
  /\ cap[c].st \in {"settle", "done"} => file[c].kind # "tmp"
  /\ cap[c].st \in Under => inst[cap[c].owner].up
  /\ cap[c].st = "lost" /\ file[c].kind = "tmp" => \E i \in Instances : ~inst[i].up

QuotaInv ==
  /\ ArchiveInv /\ \A c \in Captures : FileOK(c)
  /\ Stored(file, {"tmp", "gz"}) <= MaxTotal
  /\ \A i \in Instances :
       /\ inst[i].buffered \in 0..BufferLimit /\ inst[i].used \in 0..MaxTotal
       /\ inst[i].up => inst[i].buffered = Queued(i) /\ inst[i].used = Stored(file, {"tmp", "gz"})
-----------------------------------------------------------------------------
(* What the steps of a capture make of its record.                         *)

LEMMA Limits == {MaxBody, MaxTotal, BufferLimit, ChanCap, MaxReceived} \subseteq Nat
BY ArchiveAssumption, Zenon

Counted(k) ==
  /\ k.received \in Nat /\ k.accepted \in Nat /\ k.saved \in Nat /\ k.todo \in Nat
  /\ k.queued \in Nat /\ k.written \in Nat

LEMMA Counts ==
  ASSUME NEW k, CaptureOK(k)
  PROVE  k \in CaptureRecords /\ Counted(k) /\ Balanced(k)
BY Zenon DEF CaptureOK, CaptureRecords, Counted

LEMMA FreshOK ==
  ASSUME NEW s \in Over
  PROVE  CaptureOK([Fresh EXCEPT !.st = s])
<1>1. [Fresh EXCEPT !.st = s] \in CaptureRecords
  BY Zenon DEF CaptureRecords, Fresh, Over, Under, Reasons
<1>2. Balanced([Fresh EXCEPT !.st = s])
  BY Limits DEF Balanced, Fresh, Over, Under
<1> QED BY <1>1, <1>2, Zenon DEF CaptureOK

LEMMA BeginOK ==
  ASSUME NEW k, CaptureOK(k), k.st = "none", NEW i \in Instances
  PROVE  CaptureOK([k EXCEPT !.st = "new", !.owner = i])
<1>1. k \in CaptureRecords /\ Counted(k) /\ Balanced(k)
  BY Counts, Zenon
<1>3. [k EXCEPT !.st = "new", !.owner = i] \in CaptureRecords
  BY <1>1, Zenon DEF CaptureRecords, Under, Over
<1>4. Balanced([k EXCEPT !.st = "new", !.owner = i])
  BY <1>1, Limits, Zenon DEF CaptureRecords, Counted, Balanced, Over, Under
<1> QED BY <1>3, <1>4, Zenon DEF CaptureOK

LEMMA WriteOK ==
  ASSUME NEW k, CaptureOK(k), k.st \in Under, ~k.closed, k.todo = 0, NEW n \in Nat \ {0},
         k.received + n <= MaxReceived
  PROVE  CaptureOK([k EXCEPT !.received = k.received + n, !.todo = n])
<1>1. k \in CaptureRecords /\ Counted(k) /\ Balanced(k)
  BY Counts, Zenon
<1>2. PICK m \in Nat : m = k.received + n
  BY <1>1 DEF Counted
<1>3. [k EXCEPT !.received = m, !.todo = n] \in CaptureRecords
  BY <1>1, Zenon DEF CaptureRecords, Under, Over
<1>4. Balanced([k EXCEPT !.received = m, !.todo = n])
  BY <1>1, <1>2, Limits DEF CaptureRecords, Counted, Balanced, Over, Under
<1> QED BY <1>2, <1>3, <1>4, Zenon DEF CaptureOK

LEMMA RefuseOK ==
  ASSUME NEW k, CaptureOK(k), k.st \in Under, NEW why \in Reasons \ {"none"}
  PROVE  CaptureOK([k EXCEPT !.todo = 0, !.reserved = FALSE, !.reason = why])
<1>1. k \in CaptureRecords /\ Counted(k) /\ Balanced(k)
  BY Counts, Zenon
<1>3. [k EXCEPT !.todo = 0, !.reserved = FALSE, !.reason = why] \in CaptureRecords
  BY <1>1, Zenon DEF CaptureRecords, Under, Over
<1>4. Balanced([k EXCEPT !.todo = 0, !.reserved = FALSE, !.reason = why])
  BY <1>1, Limits DEF CaptureRecords, Counted, Balanced, Over, Under
<1> QED BY <1>3, <1>4, Zenon DEF CaptureOK

LEMMA ReserveOK ==
  ASSUME NEW k, CaptureOK(k), k.st \in Under, k.todo > 0, k.accepted < MaxBody
  PROVE  CaptureOK([k EXCEPT !.reserved = TRUE])
<1>1. k \in CaptureRecords /\ Counted(k) /\ Balanced(k)
  BY Counts, Zenon
<1>3. [k EXCEPT !.reserved = TRUE] \in CaptureRecords
  BY <1>1, Zenon DEF CaptureRecords, Under, Over
<1>4. Balanced([k EXCEPT !.reserved = TRUE])
  BY <1>1, Limits, Zenon DEF CaptureRecords, Counted, Balanced, Over, Under
<1> QED BY <1>3, <1>4, Zenon DEF CaptureOK

LEMMA SendOK ==
  ASSUME NEW k, CaptureOK(k), k.st \in Under, k.reserved, k.queued < ChanCap
  PROVE  CaptureOK([k EXCEPT !.reserved = FALSE, !.queued = k.queued + 1, !.accepted = k.accepted + 1, !.todo = k.todo - 1])
<1>1. k \in CaptureRecords /\ Counted(k) /\ Balanced(k)
  BY Counts, Zenon
<1>2. PICK q, a, t \in Nat : q = k.queued + 1 /\ a = k.accepted + 1 /\ t = k.todo - 1
  BY <1>1 DEF Counted, Balanced
<1>3. [k EXCEPT !.reserved = FALSE, !.queued = q, !.accepted = a, !.todo = t] \in CaptureRecords
  BY <1>1, Zenon DEF CaptureRecords, Under, Over
<1>4. Balanced([k EXCEPT !.reserved = FALSE, !.queued = q, !.accepted = a, !.todo = t])
  BY <1>1, <1>2, Limits DEF CaptureRecords, Counted, Balanced, Over, Under
<1> QED BY <1>2, <1>3, <1>4, Zenon DEF CaptureOK

LEMMA FinishOK ==
  ASSUME NEW k, CaptureOK(k), k.st \in Under, ~k.closed, k.todo = 0, NEW f \in BOOLEAN, NEW why \in Reasons,
         k.reason # "none" => why # "none"
  PROVE  CaptureOK([k EXCEPT !.closed = TRUE, !.complete = f, !.reason = why])
<1>1. k \in CaptureRecords /\ Counted(k) /\ Balanced(k)
  BY Counts, Zenon
<1>3. [k EXCEPT !.closed = TRUE, !.complete = f, !.reason = why] \in CaptureRecords
  BY <1>1, Zenon DEF CaptureRecords, Under, Over
<1>4. Balanced([k EXCEPT !.closed = TRUE, !.complete = f, !.reason = why])
  BY <1>1, Limits, Zenon DEF CaptureRecords, Counted, Balanced, Over, Under
<1> QED BY <1>3, <1>4, Zenon DEF CaptureOK

LEMMA FailOK ==
  ASSUME NEW k, CaptureOK(k), NEW why \in Reasons \ {"none"}
  PROVE  CaptureOK([k EXCEPT !.err = TRUE, !.reason = why])
<1>1. k \in CaptureRecords /\ Counted(k) /\ Balanced(k)
  BY Counts, Zenon
<1>3. [k EXCEPT !.err = TRUE, !.reason = why] \in CaptureRecords
  BY <1>1, Zenon DEF CaptureRecords, Under, Over
<1>4. Balanced([k EXCEPT !.err = TRUE, !.reason = why])
  BY <1>1, Limits, Zenon DEF CaptureRecords, Counted, Balanced, Over, Under
<1> QED BY <1>3, <1>4, Zenon DEF CaptureOK

LEMMA StageOK ==
  ASSUME NEW k, CaptureOK(k), k.st \in Under, NEW s \in Under \ {"settle"}, NEW q \in BOOLEAN
  PROVE  CaptureOK([k EXCEPT !.st = s, !.qw = q])
<1>1. k \in CaptureRecords /\ Counted(k) /\ Balanced(k)
  BY Counts, Zenon
<1>3. [k EXCEPT !.st = s, !.qw = q] \in CaptureRecords
  BY <1>1, Zenon DEF CaptureRecords, Under, Over
<1>4. Balanced([k EXCEPT !.st = s, !.qw = q])
  BY <1>1, Limits, Zenon DEF CaptureRecords, Counted, Balanced, Over, Under
<1> QED BY <1>3, <1>4, Zenon DEF CaptureOK

LEMMA DrainOK ==
  ASSUME NEW k, CaptureOK(k), k.st = "drain", k.queued > 0, ~k.err, NEW n \in Nat
  PROVE  CaptureOK([k EXCEPT !.saved = k.saved + 1, !.written = k.written + n, !.queued = k.queued - 1])
<1>1. k \in CaptureRecords /\ Counted(k) /\ Balanced(k)
  BY Counts, Zenon
<1>2. PICK v, w, q \in Nat : v = k.saved + 1 /\ w = k.written + n /\ q = k.queued - 1
  BY <1>1 DEF Counted
<1>3. [k EXCEPT !.saved = v, !.written = w, !.queued = q] \in CaptureRecords
  BY <1>1, Zenon DEF CaptureRecords, Under, Over
<1>4. Balanced([k EXCEPT !.saved = v, !.written = w, !.queued = q])
  BY <1>1, <1>2, Limits DEF CaptureRecords, Counted, Balanced, Over, Under
<1> QED BY <1>2, <1>3, <1>4, Zenon DEF CaptureOK

LEMMA DropOK ==
  ASSUME NEW k, CaptureOK(k), k.st = "drain", k.queued > 0, k.err
  PROVE  CaptureOK([k EXCEPT !.queued = k.queued - 1])
<1>1. k \in CaptureRecords /\ Counted(k) /\ Balanced(k)
  BY Counts, Zenon
<1>2. PICK q \in Nat : q = k.queued - 1
  BY <1>1 DEF Counted
<1>3. [k EXCEPT !.queued = q] \in CaptureRecords
  BY <1>1, Zenon DEF CaptureRecords, Under, Over
<1>4. Balanced([k EXCEPT !.queued = q])
  BY <1>1, <1>2, Limits DEF CaptureRecords, Counted, Balanced, Over, Under
<1> QED BY <1>2, <1>3, <1>4, Zenon DEF CaptureOK

LEMMA CloseOK ==
  ASSUME NEW k, CaptureOK(k), k.st = "drain", k.closed, k.queued = 0
  PROVE  CaptureOK([k EXCEPT !.st = "settle", !.written = k.written + 1])
<1>1. k \in CaptureRecords /\ Counted(k) /\ Balanced(k)
  BY Counts, Zenon
<1>2. PICK w \in Nat : w = k.written + 1
  BY <1>1 DEF Counted
<1>3. [k EXCEPT !.st = "settle", !.written = w] \in CaptureRecords
  BY <1>1, Zenon DEF CaptureRecords, Under, Over
<1>4. Balanced([k EXCEPT !.st = "settle", !.written = w])
  BY <1>1, <1>2, Limits, Zenon DEF CaptureRecords, Counted, Balanced, Over, Under
<1> QED BY <1>2, <1>3, <1>4, Zenon DEF CaptureOK

LEMMA DiscardOK ==
  ASSUME NEW k, CaptureOK(k), k.st = "drain", k.closed, k.queued = 0, k.err
  PROVE  CaptureOK([k EXCEPT !.st = "settle", !.saved = 0])
<1>1. k \in CaptureRecords /\ Counted(k) /\ Balanced(k)
  BY Counts, Zenon
<1>3. [k EXCEPT !.st = "settle", !.saved = 0] \in CaptureRecords
  BY <1>1, Zenon DEF CaptureRecords, Under, Over
<1>4. Balanced([k EXCEPT !.st = "settle", !.saved = 0])
  BY <1>1, Limits DEF CaptureRecords, Counted, Balanced, Over, Under
<1> QED BY <1>3, <1>4, Zenon DEF CaptureOK

LEMMA OmitOK ==
  ASSUME NEW k, CaptureOK(k), k.st \in Under, ~k.closed, k.todo = 0, NEW why \in Reasons \ {"none"}
  PROVE  CaptureOK([k EXCEPT !.closed = TRUE, !.complete = FALSE, !.reason = why, !.received = MaxReceived])
<1>1. k \in CaptureRecords /\ Counted(k) /\ Balanced(k)
  BY Counts, Zenon
<1>3. [k EXCEPT !.closed = TRUE, !.complete = FALSE, !.reason = why, !.received = MaxReceived] \in CaptureRecords
  BY <1>1, Limits, Zenon DEF CaptureRecords, Under, Over
<1>4. Balanced([k EXCEPT !.closed = TRUE, !.complete = FALSE, !.reason = why, !.received = MaxReceived])
  BY <1>1, Limits DEF CaptureRecords, Counted, Balanced, Over, Under
<1> QED BY <1>3, <1>4, Zenon DEF CaptureOK
-----------------------------------------------------------------------------
(* A step of one capture.                                                  *)

Elsewhere(c) ==
  \A d \in Captures \ {c} : /\ cap'[d] = cap[d] /\ row'[d] = row[d] /\ file'[d] = file[d]
                            /\ d \in aged' <=> d \in aged

LEMMA OneCapture ==
  ASSUME ArchiveInv, Around', NEW c \in Captures, Elsewhere(c), DOMAIN cap' = Captures,
         CaptureOK(cap'[c]), WholeOK(c)'
  PROVE  ArchiveInv'
<1>1. CapturesOK'
  BY Zenon DEF ArchiveInv, CapturesOK, Elsewhere
<1>2. ASSUME NEW d \in Captures PROVE WholeOK(d)'
  <2>1. CASE d = c
    BY <2>1, Zenon
  <2>2. CASE d # c
    BY <2>2 DEF ArchiveInv, WholeOK, Elsewhere
  <2> QED BY <2>1, <2>2, Zenon
<1> QED BY <1>1, <1>2, Zenon DEF ArchiveInv

LEMMA Changed ==
  ASSUME CapturesOK, NEW c \in Captures, NEW k, cap' = [cap EXCEPT ![c] = k]
  PROVE  DOMAIN cap' = Captures /\ cap'[c] = k /\ \A d \in Captures \ {c} : cap'[d] = cap[d]
BY Zenon DEF CapturesOK

(* A step that leaves the rows, the files and what is aged alone.          *)
LEMMA Quiet ==
  ASSUME ArchiveInv, Around', UNCHANGED <<row, file, aged>>, NEW c \in Captures,
         NEW k, CaptureOK(k), cap' = [cap EXCEPT ![c] = k], cap[c].st \in Under \cup {"none"},
         k.st \in Under, k.st = "settle" /\ ~k.err => cap[c].st = "settle" /\ ~cap[c].err
  PROVE  ArchiveInv'
<1>1. DOMAIN cap' = Captures /\ cap'[c] = k /\ \A d \in Captures \ {c} : cap'[d] = cap[d]
  BY Changed, Zenon DEF ArchiveInv
<1>2. Elsewhere(c)
  BY <1>1, Zenon DEF Elsewhere
<1>3. WholeOK(c)'
  BY <1>1, Zenon DEF ArchiveInv, WholeOK, Under
<1> QED BY <1>1, <1>2, <1>3, OneCapture, Zenon

LEMMA WriteKeeps ==
  ASSUME ArchiveInv, NEW c \in Captures, NEW n \in 1..MaxReceived, Write(c, n)
  PROVE  ArchiveInv'
<1> DEFINE k == [cap[c] EXCEPT !.received = cap[c].received + n, !.todo = n]
<1>1. CaptureOK(cap[c]) /\ cap[c].st \in Under /\ n \in Nat \ {0}
  BY Limits DEF ArchiveInv, CapturesOK, Write, Running, Under
<1>2. CaptureOK(k)
  BY <1>1, WriteOK, Zenon DEF Write
<1>3. cap' = [cap EXCEPT ![c] = k] /\ Around'
  BY Zenon DEF Write, ArchiveInv, Around
<1>4. k.st = cap[c].st /\ k.err = cap[c].err
  BY <1>1, Zenon DEF CaptureOK, CaptureRecords
<1> HIDE DEF k
<1> QED BY <1>1, <1>2, <1>3, <1>4, Quiet, Zenon DEF Write

Processes == [up : BOOLEAN, buffered : Int, used : Int, crashes : Nat]

LEMMA Counters ==
  ASSUME Around, NEW i \in Instances
  PROVE  inst[i] \in Processes /\ inst[i].buffered \in Int /\ inst[i].used \in Int
<1>1. inst[i] \in Processes
  BY Zenon DEF Around, Processes
<1> QED BY <1>1, Zenon DEF Processes

LEMMA Buffered ==
  ASSUME Around, NEW i \in Instances, NEW b \in Int
  PROVE  /\ [inst EXCEPT ![i].buffered = b] \in [Instances -> Processes]
         /\ [inst EXCEPT ![i].used = b] \in [Instances -> Processes]
<1>1. inst \in [Instances -> Processes]
  BY Zenon DEF Around, Processes
<1>2. inst[i] \in Processes
  BY Counters, Zenon
<1>3. [inst[i] EXCEPT !.buffered = b] \in Processes /\ [inst[i] EXCEPT !.used = b] \in Processes
  BY <1>2, Zenon DEF Processes
<1> QED BY <1>1, <1>3, Zenon

LEMMA Owner ==
  ASSUME ArchiveInv, NEW c \in Captures
  PROVE  /\ CaptureOK(cap[c]) /\ (Running(c) <=> cap[c].st \in Under)
         /\ Running(c) => cap[c].owner \in Instances
BY Zenon DEF ArchiveInv, CapturesOK, CaptureOK, Balanced, Running, Under

LEMMA RefuseKeeps ==
  ASSUME ArchiveInv, Around', NEW c \in Captures, Running(c), NEW why \in Reasons \ {"none"},
         cap' = Refuse(c, why), UNCHANGED <<row, file, aged>>
  PROVE  ArchiveInv'
<1> DEFINE k == [cap[c] EXCEPT !.todo = 0, !.reserved = FALSE, !.reason = why]
<1>1. CaptureOK(cap[c]) /\ cap[c].st \in Under
  BY Owner, Zenon
<1>2. CaptureOK(k)
  BY <1>1, RefuseOK, Zenon
<1>3. cap' = [cap EXCEPT ![c] = k]
  BY Zenon DEF Refuse
<1>4. k.st = cap[c].st /\ k.err = cap[c].err
  BY <1>1, Zenon DEF CaptureOK, CaptureRecords
<1> HIDE DEF k
<1> QED BY <1>1, <1>2, <1>3, <1>4, Quiet, Zenon

LEMMA ReserveKeeps ==
  ASSUME ArchiveInv, NEW c \in Captures, reserve(c)
  PROVE  ArchiveInv'
<1> DEFINE i == cap[c].owner
<1>1. CaptureOK(cap[c]) /\ cap[c].st \in Under /\ i \in Instances /\ Running(c)
  BY Owner, Zenon DEF reserve
<1>2. UNCHANGED <<row, file, aged, purging>>
  BY Zenon DEF reserve
<1>3. CASE \E why \in Reasons \ {"none"} : cap' = Refuse(c, why) /\ UNCHANGED inst
  <2>1. Around'
    BY <1>2, <1>3, Zenon DEF ArchiveInv, Around
  <2> QED BY <1>1, <1>2, <1>3, <2>1, RefuseKeeps, Zenon
<1>4. CASE /\ cap' = [cap EXCEPT ![c].reserved = TRUE] /\ Room(c)
           /\ inst' = [inst EXCEPT ![i].buffered = @ + 1]
  <2> DEFINE k == [cap[c] EXCEPT !.reserved = TRUE]
  <2>1. Around'
    <3>1. inst[i].buffered \in Int
      BY <1>1, Counters, Zenon DEF ArchiveInv
    <3>2. inst[i].buffered + 1 \in Int
      BY <3>1
    <3> QED BY <1>1, <1>2, <1>4, <3>2, Buffered, Zenon DEF ArchiveInv, Around, Processes
  <2>2. CaptureOK(k)
    BY <1>1, <1>4, ReserveOK, Zenon DEF reserve, Room
  <2>3. cap' = [cap EXCEPT ![c] = k]
    BY <1>4, Zenon
  <2>4. k.st = cap[c].st /\ k.err = cap[c].err
    BY <1>1, Zenon DEF CaptureOK, CaptureRecords
  <2> HIDE DEF k
  <2> QED BY <1>1, <1>2, <2>1, <2>2, <2>3, <2>4, Quiet, Zenon
<1>5. cap[c].reason \in Reasons
  BY <1>1, Zenon DEF CaptureOK, CaptureRecords
<1>6. {"size_limit", "queue_full"} \subseteq Reasons \ {"none"}
  BY Zenon DEF Reasons
<1> QED BY <1>3, <1>4, <1>5, <1>6, Zenon DEF reserve

LEMMA SendKeeps ==
  ASSUME ArchiveInv, NEW c \in Captures, send(c)
  PROVE  ArchiveInv'
<1> DEFINE i == cap[c].owner
<1>1. CaptureOK(cap[c]) /\ cap[c].st \in Under /\ i \in Instances /\ Running(c)
  BY Owner, Zenon DEF send
<1>2. UNCHANGED <<row, file, aged, purging>>
  BY Zenon DEF send
<1>3. CASE cap[c].queued < ChanCap
  <2> DEFINE k == [cap[c] EXCEPT !.reserved = FALSE, !.queued = cap[c].queued + 1,
                                 !.accepted = cap[c].accepted + 1, !.todo = cap[c].todo - 1]
  <2>1. Around'
    BY <1>2, <1>3, Zenon DEF send, ArchiveInv, Around
  <2>2. CaptureOK(k)
    BY <1>1, <1>3, SendOK, Zenon DEF send
  <2>3. cap' = [cap EXCEPT ![c] = k]
    BY <1>3, Zenon DEF send
  <2>4. k.st = cap[c].st /\ k.err = cap[c].err
    BY <1>1, Zenon DEF CaptureOK, CaptureRecords
  <2> HIDE DEF k
  <2> QED BY <1>1, <1>2, <2>1, <2>2, <2>3, <2>4, Quiet, Zenon
<1>4. CASE ~(cap[c].queued < ChanCap)
  <2>1. inst[i].buffered - 1 \in Int
    <3>1. inst[i].buffered \in Int
      BY <1>1, Counters, Zenon DEF ArchiveInv
    <3> QED BY <3>1
  <2>2. cap' = Refuse(c, "queue_full") /\ inst' = [inst EXCEPT ![i].buffered = @ - 1]
    BY <1>4, Zenon DEF send, Returned
  <2>3. Around'
    BY <1>1, <1>2, <2>1, <2>2, Buffered, Zenon DEF ArchiveInv, Around, Processes
  <2>4. "queue_full" \in Reasons \ {"none"}
    BY Zenon DEF Reasons
  <2> QED BY <1>1, <1>2, <2>2, <2>3, <2>4, RefuseKeeps, Zenon
<1> QED BY <1>3, <1>4, Zenon

LEMMA FinishKeeps ==
  ASSUME ArchiveInv, NEW c \in Captures, NEW end \in Ends, Finish(c, end)
  PROVE  ArchiveInv'
<1> DEFINE why == Reason(cap[c].reason, end.reason)
           k == [cap[c] EXCEPT !.closed = TRUE, !.complete = end.complete, !.reason = why]
           o == [cap[c] EXCEPT !.closed = TRUE, !.complete = FALSE, !.reason = why,
                               !.received = MaxReceived]
<1>1. CaptureOK(cap[c]) /\ cap[c].st \in Under
  BY Owner, Zenon DEF Finish
<1>2. Around' /\ UNCHANGED <<row, file, aged>>
  BY Zenon DEF Finish, ArchiveInv, Around
<1>3. end.complete \in BOOLEAN /\ why \in Reasons /\ (cap[c].reason # "none" => why # "none")
  <2>1. end.complete \in BOOLEAN /\ end.reason \in {"none", "stream_interrupted", "binary_omitted"}
    <3>1. \/ end = [complete |-> TRUE, reason |-> "none"]
          \/ end = [complete |-> FALSE, reason |-> "stream_interrupted"]
          \/ end = [complete |-> FALSE, reason |-> "binary_omitted"]
      BY Zenon DEF Ends
    <3>2. CASE end = [complete |-> TRUE, reason |-> "none"]
      BY <3>2, Zenon
    <3>3. CASE end = [complete |-> FALSE, reason |-> "stream_interrupted"]
      BY <3>3, Zenon
    <3>4. CASE end = [complete |-> FALSE, reason |-> "binary_omitted"]
      BY <3>4, Zenon
    <3> QED BY <3>1, <3>2, <3>3, <3>4, Zenon
  <2>2. cap[c].reason \in Reasons
    BY <1>1, Zenon DEF CaptureOK, CaptureRecords
  <2> QED BY <2>1, <2>2, Zenon DEF Reason, Reasons
<1>4. CASE end.reason = "binary_omitted"
  <2>1. why \in Reasons \ {"none"} /\ end.complete = FALSE
    BY <1>3, <1>4 DEF Ends, Reason
  <2>2. CaptureOK(o)
    BY <1>1, <2>1, OmitOK, Zenon DEF Finish
  <2>3. cap' = [cap EXCEPT ![c] = o]
    BY <1>4, <2>1, Zenon DEF Finish
  <2>4. o.st = cap[c].st /\ o.err = cap[c].err
    BY <1>1, Zenon DEF CaptureOK, CaptureRecords
  <2> HIDE DEF o
  <2> QED BY <1>1, <1>2, <2>2, <2>3, <2>4, Quiet, Zenon
<1>5. CASE end.reason # "binary_omitted"
  <2>2. CaptureOK(k)
    BY <1>1, <1>3, FinishOK, Zenon DEF Finish
  <2>3. cap' = [cap EXCEPT ![c] = k]
    BY <1>5, Zenon DEF Finish
  <2>4. k.st = cap[c].st /\ k.err = cap[c].err
    BY <1>1, Zenon DEF CaptureOK, CaptureRecords
  <2> HIDE DEF k
  <2> QED BY <1>1, <1>2, <2>2, <2>3, <2>4, Quiet, Zenon
<1> QED BY <1>4, <1>5, Zenon

LEMMA BeginKeeps ==
  ASSUME ArchiveInv, NEW i \in Instances, NEW c \in Captures, Begin(i, c)
  PROVE  ArchiveInv'
<1> DEFINE k == [cap[c] EXCEPT !.st = "new", !.owner = i]
<1>1. CaptureOK(cap[c]) /\ cap[c].st = "none"
  BY Owner, Zenon DEF Begin
<1>2. Around' /\ UNCHANGED <<row, file, aged>>
  BY Zenon DEF Begin, ArchiveInv, Around
<1>3. CaptureOK(k) /\ cap' = [cap EXCEPT ![c] = k]
  BY <1>1, BeginOK, Zenon DEF Begin
<1>4. k.st = "new"
  BY <1>1, Zenon DEF CaptureOK, CaptureRecords
<1> HIDE DEF k
<1>5. k.st \in Under /\ k.st # "settle" /\ cap[c].st \in Under \cup {"none"}
  BY <1>1, <1>4, Zenon DEF Under
<1> QED BY <1>2, <1>3, <1>5, Quiet, Zenon

LEMMA FailedOK ==
  ASSUME ArchiveInv, NEW c \in Captures, NEW why \in Reasons \ {"none"}
  PROVE  /\ CaptureOK(Failed(c, why)) /\ Failed(c, why).err
         /\ Failed(c, why).st = cap[c].st /\ Failed(c, why).closed = cap[c].closed
         /\ Failed(c, why).queued = cap[c].queued /\ Failed(c, why).owner = cap[c].owner
         /\ Failed(c, why).qw = cap[c].qw
<1>1. CaptureOK(cap[c])
  BY Owner, Zenon
<1>2. cap[c].reason \in Reasons
  BY <1>1, Zenon DEF CaptureOK, CaptureRecords
<1>3. PICK r \in Reasons \ {"none"} : r = IF cap[c].reason = "none" THEN why ELSE cap[c].reason
  BY <1>2, Zenon
<1>4. Failed(c, why) = [cap[c] EXCEPT !.err = TRUE, !.reason = r]
  BY <1>3, Zenon DEF Failed
<1>5. CaptureOK([cap[c] EXCEPT !.err = TRUE, !.reason = r])
  BY <1>1, FailOK, Zenon
<1>6. cap[c] \in CaptureRecords
  BY <1>1, Zenon DEF CaptureOK
<1> QED BY <1>4, <1>5, <1>6, Zenon DEF CaptureRecords

LEMMA StageSame ==
  ASSUME NEW k, CaptureOK(k), NEW s \in Under
  PROVE  [k EXCEPT !.st = s] = [k EXCEPT !.st = s, !.qw = k.qw] /\ k.qw \in BOOLEAN
BY Zenon DEF CaptureOK, CaptureRecords

LEMMA CreateKeeps ==
  ASSUME ArchiveInv, NEW c \in Captures, NEW stored \in BOOLEAN, NEW known \in BOOLEAN,
         create(c, stored, known)
  PROVE  ArchiveInv'
<1> DEFINE h == IF known THEN cap[c] ELSE Failed(c, "metadata_write_failed")
           k == [h EXCEPT !.st = "open"]
<1>1. CaptureOK(cap[c]) /\ cap[c].st = "new"
  BY Owner, Zenon DEF create
<1>2. "metadata_write_failed" \in Reasons \ {"none"} /\ "open" \in Under \ {"settle"}
  BY Zenon DEF Reasons, Under
<1>3. CaptureOK(h) /\ h.st = "new"
  BY <1>1, <1>2, FailedOK, Zenon
<1>4. CaptureOK(k)
  <2> HIDE DEF h
  <2>1. h.st \in Under
    BY <1>3, Zenon DEF Under
  <2>2. h.qw \in BOOLEAN /\ k = [h EXCEPT !.st = "open", !.qw = h.qw]
    BY <1>2, <1>3, StageSame, Zenon
  <2>3. CaptureOK([h EXCEPT !.st = "open", !.qw = h.qw])
    BY <1>2, <1>3, <2>1, <2>2, StageOK, Zenon
  <2> QED BY <2>2, <2>3, Zenon
<1>5. k.st = "open"
  <2> HIDE DEF h
  <2> QED BY <1>3, Zenon DEF CaptureOK, CaptureRecords
<1>6. cap' = [cap EXCEPT ![c] = k]
  BY Zenon DEF create
<1> HIDE DEF k, h
<1>7. DOMAIN cap' = Captures /\ cap'[c] = k /\ \A d \in Captures \ {c} : cap'[d] = cap[d]
  BY <1>6, Changed, Zenon DEF ArchiveInv
<1>8. row' \in [Captures -> Rows] /\ \A d \in Captures \ {c} : row'[d] = row[d]
  <2>1. row \in [Captures -> Rows]
    BY Zenon DEF ArchiveInv, Around
  <2>2. [row[c] EXCEPT !.st = "saving"] \in Rows
    BY <2>1, Zenon DEF Rows
  <2> QED BY <2>1, <2>2, Zenon DEF create
<1>9. row'[c].st = "complete" => row[c].st = "complete"
  <2>1. row \in [Captures -> Rows]
    BY Zenon DEF ArchiveInv, Around
  <2> QED BY <2>1, Zenon DEF create, Rows
<1>10. Around' /\ Elsewhere(c)
  BY <1>7, <1>8, Zenon DEF create, ArchiveInv, Around, Elsewhere
<1>11. WholeOK(c)'
  BY <1>1, <1>5, <1>7, <1>9, Zenon DEF create, ArchiveInv, WholeOK
<1> QED BY <1>4, <1>7, <1>10, <1>11, OneCapture, Zenon

(* A step that leaves the rows alone and keeps whole files.                *)
LEMMA Filed ==
  ASSUME ArchiveInv, Around', UNCHANGED <<row, aged>>, NEW c \in Captures,
         NEW k, CaptureOK(k), cap' = [cap EXCEPT ![c] = k], cap[c].st \in Under,
         k.st \in Under, k.st = "settle" /\ ~k.err => file'[c].kind = "gz",
         \A d \in Captures \ {c} : file'[d] = file[d]
  PROVE  ArchiveInv'
<1>1. DOMAIN cap' = Captures /\ cap'[c] = k /\ \A d \in Captures \ {c} : cap'[d] = cap[d]
  BY Changed, Zenon DEF ArchiveInv
<1>2. Elsewhere(c)
  BY <1>1, Zenon DEF Elsewhere
<1>3. WholeOK(c)'
  BY <1>1, Zenon DEF ArchiveInv, WholeOK, Under
<1> QED BY <1>1, <1>2, <1>3, OneCapture, Zenon

LEMMA FileChange ==
  ASSUME Around, NEW c \in Captures, NEW f \in Files
  PROVE  /\ [file EXCEPT ![c] = f] \in [Captures -> Files] /\ [file EXCEPT ![c] = f][c] = f
         /\ \A d \in Captures \ {c} : [file EXCEPT ![c] = f][d] = file[d]
         /\ file[c] \in Files /\ file[c].size \in Nat /\ file[c].kind \in {"none", "tmp", "gz"}
<1>1. file \in [Captures -> Files] /\ file[c] \in Files
  BY Zenon DEF Around
<1>2. file[c].size \in Nat /\ file[c].kind \in {"none", "tmp", "gz"}
  BY <1>1, Zenon DEF Files
<1> QED BY <1>1, <1>2, Zenon

LEMMA OpenKeeps ==
  ASSUME ArchiveInv, NEW c \in Captures, NEW ok \in BOOLEAN, open(c, ok)
  PROVE  ArchiveInv'
<1> DEFINE f == Failed(c, "storage_error")
           d == [cap[c] EXCEPT !.st = "drain"]
           t == [cap[c] EXCEPT !.st = "drain", !.qw = TRUE]
           g == [f EXCEPT !.st = "drain"]
           new == [kind |-> "tmp", size |-> 0]
<1>1. CaptureOK(cap[c]) /\ cap[c].st = "open" /\ cap[c].st \in Under
  BY Owner, Zenon DEF open, Under
<1>2. "storage_error" \in Reasons \ {"none"} /\ "drain" \in Under \ {"settle"} /\ new \in Files
  BY Zenon DEF Reasons, Under, Files
<1>3. CaptureOK(f) /\ f.st \in Under
  BY <1>1, <1>2, FailedOK, Zenon
<1>4. CaptureOK(t)
  BY <1>1, <1>2, StageOK, Zenon
<1>5. CaptureOK(d)
  <2>1. cap[c].qw \in BOOLEAN /\ d = [cap[c] EXCEPT !.st = "drain", !.qw = cap[c].qw]
    BY <1>1, <1>2, StageSame, Zenon
  <2>2. CaptureOK([cap[c] EXCEPT !.st = "drain", !.qw = cap[c].qw])
    BY <1>1, <1>2, <2>1, StageOK, Zenon
  <2> QED BY <2>1, <2>2, Zenon
<1>6. CaptureOK(g)
  <2> HIDE DEF f
  <2>1. f.qw \in BOOLEAN /\ g = [f EXCEPT !.st = "drain", !.qw = f.qw]
    BY <1>2, <1>3, StageSame, Zenon
  <2>2. CaptureOK([f EXCEPT !.st = "drain", !.qw = f.qw])
    BY <1>2, <1>3, <2>1, StageOK, Zenon
  <2> QED BY <2>1, <2>2, Zenon
<1>7. d.st = "drain" /\ t.st = "drain" /\ g.st = "drain"
  <2> HIDE DEF f
  <2>1. cap[c] \in CaptureRecords /\ f \in CaptureRecords
    BY <1>1, <1>3, Zenon DEF CaptureOK
  <2> QED BY <2>1, Zenon DEF CaptureRecords
<1>8. \E k \in {d, t, g} : cap' = [cap EXCEPT ![c] = k]
  BY Zenon DEF open
<1>9. Around' /\ \A e \in Captures \ {c} : file'[e] = file[e]
  <2> DEFINE opened == [file EXCEPT ![c] = new]
  <2>1. /\ opened \in [Captures -> Files] /\ \A e \in Captures \ {c} : opened[e] = file[e]
    BY <1>2, FileChange, Zenon DEF ArchiveInv
  <2>2. file' = opened \/ file' = file
    BY Zenon DEF open
  <2> HIDE DEF opened
  <2> QED BY <2>1, <2>2, Zenon DEF open, ArchiveInv, Around
<1>10. UNCHANGED <<row, aged>>
  BY Zenon DEF open
<1> HIDE DEF d, t, g
<1>11. ASSUME NEW k \in {d, t, g}, cap' = [cap EXCEPT ![c] = k] PROVE ArchiveInv'
  <2>1. CaptureOK(k) /\ k.st = "drain"
    BY <1>4, <1>5, <1>6, <1>7, <1>11, Zenon
  <2>2. k.st \in Under /\ k.st # "settle"
    BY <2>1, Zenon DEF Under
  <2> QED BY <1>1, <1>9, <1>10, <1>11, <2>1, <2>2, Filed, Zenon
<1> QED BY <1>8, <1>11, Zenon

LEMMA DrainKeeps ==
  ASSUME ArchiveInv, NEW c \in Captures, NEW n \in 0..1, NEW ok \in BOOLEAN, drain(c, n, ok)
  PROVE  ArchiveInv'
<1> DEFINE i == cap[c].owner
           f == Failed(c, "storage_or_quota_error")
           good == ~cap[c].err /\ ok /\ Fits(i, n)
           w == [cap[c] EXCEPT !.saved = cap[c].saved + 1, !.written = cap[c].written + n,
                               !.queued = cap[c].queued - 1]
           x == [cap[c] EXCEPT !.queued = cap[c].queued - 1]
           y == [f EXCEPT !.queued = f.queued - 1]
<1>1. /\ CaptureOK(cap[c]) /\ cap[c].st = "drain" /\ cap[c].st \in Under /\ cap[c].queued > 0
      /\ i \in Instances
  BY Owner, Zenon DEF drain, Under
<1>2. "storage_or_quota_error" \in Reasons \ {"none"} /\ n \in Nat
  BY DEF Reasons
<1>3. CaptureOK(f) /\ f.st = "drain" /\ f.queued = cap[c].queued /\ f.err
  BY <1>1, <1>2, FailedOK, Zenon
<1>4. CaptureOK(y) /\ y.st = "drain"
  <2> HIDE DEF f
  <2>1. CaptureOK(y)
    BY <1>1, <1>3, DropOK, Zenon
  <2>2. f \in CaptureRecords
    BY <1>3, Zenon DEF CaptureOK
  <2> QED BY <1>3, <2>1, <2>2, Zenon DEF CaptureRecords
<1>5. cap[c].err => CaptureOK(x)
  BY <1>1, DropOK, Zenon
<1>6. good => CaptureOK(w)
  BY <1>1, <1>2, DrainOK, Zenon
<1>7. x.st = "drain" /\ w.st = "drain"
  BY <1>1, Zenon DEF CaptureOK, CaptureRecords
<1>8. /\ good => cap' = [cap EXCEPT ![c] = w]
      /\ cap[c].err => cap' = [cap EXCEPT ![c] = x]
      /\ ~good /\ ~cap[c].err => cap' = [cap EXCEPT ![c] = y]
  <2>1. [[cap[c] EXCEPT !.saved = @ + 1, !.written = @ + n] EXCEPT !.queued = @ - 1] = w
    BY <1>1, Zenon DEF CaptureOK, CaptureRecords
  <2> HIDE DEF w, f
  <2> QED BY <2>1, Zenon DEF drain, f
<1>9. PICK k : CaptureOK(k) /\ k.st = "drain" /\ cap' = [cap EXCEPT ![c] = k]
  <2> HIDE DEF w, x, y, good
  <2>1. CASE good
    BY <1>6, <1>7, <1>8, <2>1, Zenon
  <2>2. CASE cap[c].err
    BY <1>5, <1>7, <1>8, <2>2, Zenon
  <2>3. CASE ~good /\ ~cap[c].err
    BY <1>4, <1>8, <2>3, Zenon
  <2> QED BY <2>1, <2>2, <2>3, Zenon
<1>10. file' \in [Captures -> Files] /\ \A e \in Captures \ {c} : file'[e] = file[e]
  <2>1. file \in [Captures -> Files] /\ file[c] \in Files
    BY Zenon DEF ArchiveInv, Around
  <2>2. [file[c] EXCEPT !.size = file[c].size + n] \in Files
    BY <1>2, <2>1 DEF Files
  <2>3. file' = file \/ file' = [file EXCEPT ![c] = [file[c] EXCEPT !.size = file[c].size + n]]
    BY Zenon DEF drain, Grown
  <2> QED BY <2>1, <2>2, <2>3, Zenon
<1>11. inst' \in [Instances -> Processes]
  <2>1. inst \in [Instances -> Processes] /\ inst[i] \in Processes
    BY <1>1, Counters, Zenon DEF ArchiveInv, Around, Processes
  <2>2. ASSUME NEW b \in Int, NEW u \in Int
        PROVE  [inst[i] EXCEPT !.buffered = b, !.used = u] \in Processes
    BY <2>1, <2>2, Zenon DEF Processes
  <2>3. inst[i].used \in Int /\ inst[i].used + n \in Int /\ inst[i].buffered - 1 \in Int
    BY <1>2, <2>1 DEF Processes
  <2>4. PICK u \in Int :
          inst' = [inst EXCEPT ![i] = [inst[i] EXCEPT !.buffered = inst[i].buffered - 1, !.used = u]]
    BY <2>3, Zenon DEF drain
  <2> QED BY <2>1, <2>2, <2>3, <2>4, Zenon
<1>12. Around' /\ UNCHANGED <<row, aged>>
  BY <1>10, <1>11, Zenon DEF drain, ArchiveInv, Around, Processes
<1>13. k.st \in Under /\ k.st # "settle"
  BY <1>9, Zenon DEF Under
<1> QED BY <1>1, <1>9, <1>10, <1>12, <1>13, Filed, Zenon

LEMMA CloseKeeps ==
  ASSUME ArchiveInv, NEW c \in Captures, NEW ok \in BOOLEAN, close(c, ok)
  PROVE  ArchiveInv'
<1> DEFINE i == cap[c].owner
           f == Failed(c, "storage_or_quota_error")
           good == ~cap[c].err /\ ok /\ Fits(i, 1) /\ file[c].kind = "tmp"
           w == [cap[c] EXCEPT !.st = "settle", !.written = cap[c].written + 1]
           y == [f EXCEPT !.st = "settle", !.saved = 0]
           gz == [kind |-> "gz", size |-> file[c].size + 1]
<1>1. /\ CaptureOK(cap[c]) /\ cap[c].st = "drain" /\ cap[c].st \in Under
      /\ cap[c].queued = 0 /\ cap[c].closed /\ i \in Instances
  BY Owner, Zenon DEF close, Under
<1>2. "storage_or_quota_error" \in Reasons \ {"none"} /\ "settle" \in Under
  BY Zenon DEF Reasons, Under
<1>3. CaptureOK(f) /\ f.st = "drain" /\ f.queued = 0 /\ f.err /\ f.closed
  BY <1>1, <1>2, FailedOK, Zenon
<1>4. CaptureOK(y) /\ y.st = "settle" /\ y.err
  <2> HIDE DEF f
  <2>1. CaptureOK(y)
    BY <1>3, DiscardOK, Zenon
  <2>2. f \in CaptureRecords
    BY <1>3, Zenon DEF CaptureOK
  <2> QED BY <1>3, <2>1, <2>2, Zenon DEF CaptureRecords
<1>5. CaptureOK(w) /\ w.st = "settle"
  <2>1. CaptureOK(w)
    BY <1>1, CloseOK, Zenon
  <2> QED BY <1>1, <2>1, Zenon DEF CaptureOK, CaptureRecords
<1>6. /\ file[c] \in Files /\ file[c].size \in Nat /\ gz \in Files /\ None \in Files
      /\ file \in [Captures -> Files]
  BY DEF ArchiveInv, Around, Files, None
<1>7. inst' \in [Instances -> Processes]
  <2>1. inst \in [Instances -> Processes] /\ inst[i].used \in Int
    BY <1>1, Counters, Zenon DEF ArchiveInv, Around, Processes
  <2>2. cap[c].written \in Nat
    BY <1>1, Counts, Zenon DEF Counted
  <2>3. inst[i].used + 1 \in Int /\ GivenBack(inst[i].used, cap[c].written) \in Int
    BY <2>1, <2>2 DEF GivenBack
  <2>4. inst' = inst \/ \E u \in Int : inst' = [inst EXCEPT ![i].used = u]
    BY <2>3, Zenon DEF close
  <2>5. ASSUME NEW u \in Int PROVE [inst EXCEPT ![i].used = u] \in [Instances -> Processes]
    BY <1>1, <2>5, Buffered, Zenon DEF ArchiveInv
  <2> QED BY <2>1, <2>4, <2>5, Zenon
<1>8. UNCHANGED <<row, aged, purging>>
  BY Zenon DEF close
<1>9. CASE good
  <2>1. cap' = [cap EXCEPT ![c] = w] /\ file' = [file EXCEPT ![c] = gz]
    BY <1>9, Zenon DEF close
  <2>2. /\ file' \in [Captures -> Files] /\ \A e \in Captures \ {c} : file'[e] = file[e]
        /\ file'[c].kind = "gz"
    BY <1>6, <2>1, Zenon
  <2>3. Around'
    BY <1>7, <1>8, <2>2, Zenon DEF ArchiveInv, Around, Processes
  <2> HIDE DEF w
  <2> QED BY <1>1, <1>2, <1>5, <1>8, <2>1, <2>2, <2>3, Filed, Zenon
<1>10. CASE ~good
  <2>1. cap' = [cap EXCEPT ![c] = y] /\ (file' = file \/ file' = [file EXCEPT ![c] = None])
    BY <1>10, Zenon DEF close
  <2>2. file' \in [Captures -> Files] /\ \A e \in Captures \ {c} : file'[e] = file[e]
    BY <1>6, <2>1, Zenon
  <2>3. Around'
    BY <1>7, <1>8, <2>2, Zenon DEF ArchiveInv, Around, Processes
  <2> HIDE DEF y
  <2> QED BY <1>1, <1>2, <1>4, <1>8, <2>1, <2>2, <2>3, Filed, Zenon
<1> QED BY <1>9, <1>10, Zenon

(* What settle says of a whole body is true of it.                         *)
LEMMA WholeBody ==
  ASSUME ArchiveInv, NEW c \in Captures, cap[c].st = "settle", Status(c) = "complete"
  PROVE  cap[c].saved = cap[c].received /\ file[c].kind = "gz"
<1>1. CaptureOK(cap[c])
  BY Owner, Zenon
<1>2. ~cap[c].err /\ cap[c].reason = "none"
  BY Zenon DEF Status
<1>3. Counted(cap[c]) /\ Balanced(cap[c])
  BY <1>1, Counts, Zenon
<1>4. cap[c].saved = cap[c].received
  BY <1>2, <1>3 DEF Counted, Balanced
<1> QED BY <1>2, <1>4, Zenon DEF ArchiveInv, WholeOK

LEMMA StatusType == ASSUME NEW c PROVE Status(c) \in {"complete", "partial", "omitted", "error"}
BY Zenon DEF Status

LEMMA SettleKeeps ==
  ASSUME ArchiveInv, NEW c \in Captures, NEW stored \in BOOLEAN, settle(c, stored)
  PROVE  ArchiveInv'
<1> DEFINE k == [Fresh EXCEPT !.st = "done"]
           r == [st |-> Status(c), saved |-> cap[c].saved, received |-> cap[c].received]
<1>1. CaptureOK(cap[c]) /\ cap[c].st = "settle"
  BY Owner, Zenon DEF settle
<1>2. CaptureOK(k) /\ k.st = "done"
  <2>1. "done" \in Over
    BY Zenon DEF Over
  <2> QED BY <2>1, FreshOK, Zenon DEF Fresh
<1>3. cap' = [cap EXCEPT ![c] = k]
  BY Zenon DEF settle
<1> HIDE DEF k
<1>4. DOMAIN cap' = Captures /\ cap'[c] = k /\ \A d \in Captures \ {c} : cap'[d] = cap[d]
  BY <1>3, Changed, Zenon DEF ArchiveInv
<1>5. r \in Rows /\ row \in [Captures -> Rows]
  <2>1. cap[c].saved \in Nat /\ cap[c].received \in Nat
    BY <1>1, Counts, Zenon DEF Counted
  <2> QED BY <2>1, StatusType, Zenon DEF Rows, ArchiveInv, Around
<1>6. row' = row \/ row' = [row EXCEPT ![c] = r]
  BY Zenon DEF settle
<1>7. row' \in [Captures -> Rows] /\ (\A d \in Captures \ {c} : row'[d] = row[d])
  <2> HIDE DEF r
  <2> QED BY <1>5, <1>6, Zenon
<1>8. row'[c] = row[c] \/ row'[c] = r
  <2> HIDE DEF r
  <2> QED BY <1>5, <1>6, Zenon
<1>9. row[c].st # "complete"
  BY <1>1, Zenon DEF ArchiveInv, WholeOK
<1>10. row'[c].st = "complete" => row'[c].saved = row'[c].received /\ file[c].kind = "gz"
  <2>1. CASE row'[c] = row[c]
    BY <1>9, <2>1, Zenon
  <2>2. CASE row'[c] = r
    <3>1. SUFFICES ASSUME Status(c) = "complete" PROVE r.saved = r.received /\ file[c].kind = "gz"
      BY <2>2
    <3> QED BY <1>1, <3>1, WholeBody, Zenon
  <2> QED BY <1>8, <2>1, <2>2, Zenon
<1>11. UNCHANGED <<inst, file, aged, purging>>
  BY Zenon DEF settle
<1>12. Around' /\ Elsewhere(c)
  BY <1>4, <1>7, <1>11, Zenon DEF ArchiveInv, Around, Elsewhere
<1>13. WholeOK(c)'
  BY <1>2, <1>4, <1>10, <1>11, Zenon DEF WholeOK
<1> QED BY <1>2, <1>4, <1>12, <1>13, OneCapture, Zenon
-----------------------------------------------------------------------------
LEMMA AgeKeeps ==
  ASSUME ArchiveInv, NEW c \in Captures, Age(c)
  PROVE  ArchiveInv'
BY Zenon DEF Age, ArchiveInv, Around, CapturesOK, WholeOK

LEMMA RemovedKeeps ==
  ASSUME ArchiveInv, NEW i \in Instances, NEW c \in aged, Removed(i, c)
  PROVE  /\ file' \in [Captures -> Files] /\ inst' \in [Instances -> Processes]
         /\ \A d \in Captures : file'[d].kind = "gz" <=> file[d].kind = "gz" /\ d # c
<1>1. c \in Captures
  BY Zenon DEF ArchiveInv, Around
<1>2. None \in Files /\ file \in [Captures -> Files] /\ file[c] \in Files
  BY <1>1, Zenon DEF ArchiveInv, Around, Files, None
<1>3. file' = [file EXCEPT ![c] = None]
  BY Zenon DEF Removed
<1>4. inst[i].used - file[c].size \in Int
  <2>1. inst[i].used \in Int
    BY Counters, Zenon DEF ArchiveInv
  <2> QED BY <1>2, <2>1 DEF Files
<1>5. inst' \in [Instances -> Processes]
  BY <1>4, Buffered, Zenon DEF ArchiveInv, Removed
<1> QED BY <1>1, <1>2, <1>3, <1>5, Zenon DEF None

LEMMA PurgeFileKeeps ==
  ASSUME ArchiveInv, NEW i \in Instances, NEW c \in Captures, purgeFile(i, c)
  PROVE  ArchiveInv'
<1>1. c \in aged /\ UNCHANGED <<cap, row, aged>>
  BY Zenon DEF purgeFile, Expired
<1>2. /\ file' \in [Captures -> Files] /\ inst' \in [Instances -> Processes]
      /\ \A d \in Captures : d # c => (file'[d].kind = "gz" <=> file[d].kind = "gz")
  <2>1. CASE Removed(i, c)
    BY <1>1, <2>1, RemovedKeeps, Zenon
  <2>2. CASE UNCHANGED <<file, inst>>
    BY <2>2, Zenon DEF ArchiveInv, Around, Processes
  <2> QED BY <2>1, <2>2, Zenon DEF purgeFile
<1>3. Around'
  BY <1>1, <1>2, Zenon DEF purgeFile, ArchiveInv, Around, Processes
<1>4. CapturesOK'
  BY <1>1, Zenon DEF ArchiveInv, CapturesOK
<1>5. ASSUME NEW d \in Captures PROVE WholeOK(d)'
  BY <1>1, <1>2, <1>5, Zenon DEF ArchiveInv, WholeOK
<1> QED BY <1>3, <1>4, <1>5, Zenon DEF ArchiveInv

LEMMA SweepKeeps ==
  ASSUME ArchiveInv, NEW i \in Instances, NEW c \in Captures, sweep(i, c)
  PROVE  ArchiveInv'
<1>1. c \in aged /\ UNCHANGED <<cap, row, aged, purging>> /\ Removed(i, c)
  BY Zenon DEF sweep
<1>2. /\ file' \in [Captures -> Files] /\ inst' \in [Instances -> Processes]
      /\ \A d \in Captures : d # c => (file'[d].kind = "gz" <=> file[d].kind = "gz")
  BY <1>1, RemovedKeeps, Zenon
<1>3. Around'
  BY <1>1, <1>2, Zenon DEF ArchiveInv, Around, Processes
<1>4. CapturesOK'
  BY <1>1, Zenon DEF ArchiveInv, CapturesOK
<1>5. ASSUME NEW d \in Captures PROVE WholeOK(d)'
  BY <1>1, <1>2, <1>5, Zenon DEF ArchiveInv, WholeOK
<1> QED BY <1>3, <1>4, <1>5, Zenon DEF ArchiveInv

LEMMA PurgeRowKeeps ==
  ASSUME ArchiveInv, NEW i \in Instances, NEW ok \in BOOLEAN, purgeRow(i, ok)
  PROVE  ArchiveInv'
<1> DEFINE c == purging[i]
<1>1. c \in Captures
  BY Zenon DEF purgeRow, ArchiveInv, Around
<1>2. NoRow \in Rows /\ row \in [Captures -> Rows] /\ NoRow.st # "complete"
  BY Zenon DEF ArchiveInv, Around, Rows, NoRow
<1>3. row' = row \/ row' = [row EXCEPT ![c] = NoRow]
  BY Zenon DEF purgeRow
<1>4. UNCHANGED <<inst, cap, file, aged>> /\ purging' = [purging EXCEPT ![i] = "idle"]
  BY Zenon DEF purgeRow
<1> HIDE DEF c
<1>5. row' \in [Captures -> Rows] /\ \A d \in Captures : row'[d] = row[d] \/ row'[d].st # "complete"
  BY <1>1, <1>2, <1>3, Zenon
<1>6. Around'
  BY <1>4, <1>5, Zenon DEF ArchiveInv, Around
<1>7. CapturesOK'
  BY <1>4, Zenon DEF ArchiveInv, CapturesOK
<1>8. ASSUME NEW d \in Captures PROVE WholeOK(d)'
  BY <1>4, <1>5, <1>8, Zenon DEF ArchiveInv, WholeOK
<1> QED BY <1>6, <1>7, <1>8, Zenon DEF ArchiveInv

LEMMA FiniteCaptures == IsFiniteSet(Captures)
BY ArchiveAssumption, Zenon

LEMMA StoredType ==
  ASSUME NEW f \in [Captures -> Files], NEW kinds
  PROVE  Stored(f, kinds) \in Nat
<1> DEFINE g == [c \in Captures |-> IF f[c].kind \in kinds THEN f[c].size ELSE 0]
<1>1. \A c \in Captures : f[c].size \in Nat
  BY Zenon DEF Files
<1>2. OnNaturals(g, Captures)
  BY <1>1, Zenon DEF OnNaturals
<1> HIDE DEF g
<1>3. SumOver(g, Captures) \in Nat
  BY <1>2, ArchiveAssumption, SumType, Zenon
<1> QED BY <1>3, Zenon DEF Stored, g

LEMMA SweptType ==
  ASSUME Around
  PROVE  /\ Swept(file) \in [Captures -> Files]
         /\ \A c \in Captures : Swept(file)[c].kind = "gz" <=> file[c].kind = "gz"
BY Zenon DEF Around, Files, Swept, None

LEMMA NewKeeps ==
  ASSUME ArchiveInv, NEW i \in Instances, New(i)
  PROVE  ArchiveInv'
<1>1. file' = Swept(file) /\ UNCHANGED <<cap, aged, purging>>
  BY Zenon DEF New
<1>2. file' \in [Captures -> Files] /\ \A c \in Captures : file'[c].kind = "gz" <=> file[c].kind = "gz"
  BY <1>1, SweptType, Zenon DEF ArchiveInv
<1>3. row' \in [Captures -> Rows] /\ \A c \in Captures : row'[c].st # "complete" \/ row'[c] = row[c]
  BY Zenon DEF New, ArchiveInv, Around, Rows
<1>4. inst' \in [Instances -> Processes]
  <2>1. inst \in [Instances -> Processes] /\ inst[i] \in Processes
    BY Counters, Zenon DEF ArchiveInv, Around, Processes
  <2>2. PICK u \in Nat : u = Stored(file', {"gz"})
    BY <1>2, StoredType, Zenon
  <2>3. [inst[i] EXCEPT !.up = TRUE, !.used = u, !.buffered = 0] \in Processes
    <3>1. u \in Int /\ 0 \in Int
      OBVIOUS
    <3> QED BY <2>1, <3>1, Zenon DEF Processes
  <2>4. inst' = [inst EXCEPT ![i] = [inst[i] EXCEPT !.up = TRUE, !.used = u, !.buffered = 0]]
    BY <2>2, Zenon DEF New
  <2> QED BY <2>1, <2>3, <2>4, Zenon
<1>5. Around'
  BY <1>1, <1>2, <1>3, <1>4, Zenon DEF ArchiveInv, Around, Processes
<1>6. CapturesOK'
  BY <1>1, Zenon DEF ArchiveInv, CapturesOK
<1>7. ASSUME NEW d \in Captures PROVE WholeOK(d)'
  BY <1>1, <1>2, <1>3, <1>7, Zenon DEF ArchiveInv, WholeOK
<1> QED BY <1>5, <1>6, <1>7, Zenon DEF ArchiveInv

LEMMA CrashKeeps ==
  ASSUME ArchiveInv, NEW i \in Instances, Crash(i)
  PROVE  ArchiveInv'
<1> DEFINE lost == [Fresh EXCEPT !.st = "lost"]
<1>1. CaptureOK(lost) /\ lost.st = "lost"
  <2>1. "lost" \in Over
    BY Zenon DEF Over
  <2> QED BY <2>1, FreshOK, Zenon DEF Fresh
<1>2. UNCHANGED <<row, file, aged>> /\ purging' = [purging EXCEPT ![i] = "idle"]
  BY Zenon DEF Crash
<1>3. cap' = [c \in Captures |-> IF cap[c].owner = i THEN lost ELSE cap[c]]
  BY Zenon DEF Crash
<1> HIDE DEF lost
<1>4. CapturesOK'
  BY <1>1, <1>3, Zenon DEF ArchiveInv, CapturesOK
<1>5. inst' \in [Instances -> Processes]
  <2>1. inst \in [Instances -> Processes] /\ inst[i] \in Processes
    BY Counters, Zenon DEF ArchiveInv, Around, Processes
  <2>2. [inst[i] EXCEPT !.up = FALSE, !.crashes = inst[i].crashes + 1] \in Processes
    <3>1. inst[i].crashes + 1 \in Nat
      BY <2>1 DEF Processes
    <3> QED BY <2>1, <3>1, Zenon DEF Processes
  <2>3. inst' = [inst EXCEPT ![i] = [inst[i] EXCEPT !.up = FALSE, !.crashes = inst[i].crashes + 1]]
    BY Zenon DEF Crash
  <2> QED BY <2>1, <2>2, <2>3, Zenon
<1>6. Around'
  BY <1>2, <1>5, Zenon DEF ArchiveInv, Around, Processes
<1>7. ASSUME NEW d \in Captures PROVE WholeOK(d)'
  BY <1>1, <1>2, <1>3, <1>7, Zenon DEF ArchiveInv, WholeOK
<1> QED BY <1>4, <1>6, <1>7, Zenon DEF ArchiveInv

LEMMA ArchiveBegins == Init => ArchiveInv
<1> SUFFICES ASSUME Init PROVE ArchiveInv
  BY Zenon
<1>1. CaptureOK(Fresh)
  <2>1. "none" \in Over /\ Fresh = [Fresh EXCEPT !.st = "none"]
    BY DEF Over, Fresh
  <2> QED BY <2>1, FreshOK, Zenon
<1>2. CapturesOK
  BY <1>1, Zenon DEF Init, CapturesOK
<1>3. inst \in [Instances -> Processes]
  BY DEF Init, Processes
<1>4. Around
  BY <1>3, Zenon DEF Init, Around, Processes, Rows, Files, NoRow, None
<1>5. ASSUME NEW c \in Captures PROVE WholeOK(c)
  BY <1>5, Zenon DEF Init, WholeOK, Fresh, NoRow
<1> QED BY <1>2, <1>4, <1>5, Zenon DEF ArchiveInv

LEMMA ArchiveStep == ArchiveInv /\ [Next]_vars => ArchiveInv'
<1> SUFFICES ASSUME ArchiveInv, [Next]_vars PROVE ArchiveInv'
  BY Zenon
<1>1. CASE UNCHANGED vars
  BY <1>1, Zenon DEF vars, ArchiveInv, Around, CapturesOK, WholeOK
<1>2. CASE \E i \in Instances : New(i) \/ Crash(i) \/ \E c \in Captures : Begin(i, c)
  BY <1>2, NewKeeps, CrashKeeps, BeginKeeps, Zenon
<1>3. CASE \E c \in Captures : (\E n \in 1..MaxReceived : Write(c, n)) \/ writer(c)
  BY <1>3, WriteKeeps, ReserveKeeps, SendKeeps, FinishKeeps, Zenon DEF writer
<1>4. CASE \E c \in Captures : run(c)
  BY <1>4, CreateKeeps, OpenKeeps, CloseKeeps, SettleKeeps, DrainKeeps, Zenon DEF run
<1>5. CASE \E c \in Captures : Age(c)
  BY <1>5, AgeKeeps, Zenon
<1>6. CASE \E i \in Instances, c \in Captures : purgeFile(i, c) \/ sweep(i, c)
  BY <1>6, PurgeFileKeeps, SweepKeeps, Zenon
<1>7. CASE \E i \in Instances, ok \in BOOLEAN : purgeRow(i, ok)
  BY <1>7, PurgeRowKeeps, Zenon
<1> QED BY <1>1, <1>2, <1>3, <1>4, <1>5, <1>6, <1>7, Zenon DEF Next

(* For any instances, captures and limits: whatever is refused, fails, is  *)
(* interrupted, restarted or purged, a row that says complete has saved    *)
(* every byte received in a file that is there until the row is aged       *)
(* (Write, run, fail, Finish, Purge).                                      *)
THEOREM ArchivesAreComplete == Spec => []CompleteIsComplete
<1>1. ArchiveInv => CompleteIsComplete
  BY Zenon DEF ArchiveInv, WholeOK, CompleteIsComplete
<1> QED BY <1>1, ArchiveBegins, ArchiveStep, PTL DEF Spec
-----------------------------------------------------------------------------
(* The sums: what one capture adds to what is stored and queued.           *)

Kinds == {"tmp", "gz"}
Weight(f) == IF f.kind \in Kinds THEN f.size ELSE 0
Share(k, i) == IF k.owner = i THEN k.queued + (IF k.reserved THEN 1 ELSE 0) ELSE 0
Shares(caps, i) == [c \in Captures |-> Share(caps[c], i)]
Weights(files) == [c \in Captures |-> Weight(files[c])]

LEMMA WeightType == ASSUME NEW f \in Files PROVE Weight(f) \in Nat
BY Zenon DEF Files, Weight

LEMMA ShareType == ASSUME NEW k, CaptureOK(k), NEW i PROVE Share(k, i) \in Nat
<1>1. k.queued \in Nat
  BY Counts, Zenon DEF Counted
<1> QED BY <1>1 DEF Share

LEMMA StoredIs == ASSUME NEW f PROVE Stored(f, {"tmp", "gz"}) = SumOver(Weights(f), Captures)
BY Zenon DEF Stored, Weights, Weight, Kinds

LEMMA QueuedIs ==
  ASSUME NEW i
  PROVE  Queued(i) = SumOver(Shares(cap, i), Captures) /\ Queued(i)' = SumOver(Shares(cap', i), Captures)
BY Zenon DEF Queued, Shares, Share

LEMMA StoredChange ==
  ASSUME NEW f \in [Captures -> Files], NEW g \in [Captures -> Files], NEW c \in Captures,
         \A d \in Captures \ {c} : g[d] = f[d]
  PROVE  /\ Stored(g, {"tmp", "gz"}) + Weight(f[c]) = Stored(f, {"tmp", "gz"}) + Weight(g[c])
         /\ Stored(f, {"tmp", "gz"}) \in Nat /\ Stored(g, {"tmp", "gz"}) \in Nat
<1> DEFINE u == Weights(f)
           v == Weights(g)
<1>1. OnNaturals(u, Captures) /\ OnNaturals(v, Captures)
  BY WeightType, Zenon DEF OnNaturals, Weights
<1>2. DifferAt(u, v, Captures, c)
  BY <1>1, Zenon DEF DifferAt, Weights
<1>3. u[c] = Weight(f[c]) /\ v[c] = Weight(g[c])
  BY Zenon DEF Weights
<1>5. Stored(f, {"tmp", "gz"}) = SumOver(u, Captures) /\ Stored(g, {"tmp", "gz"}) = SumOver(v, Captures)
  BY StoredIs, Zenon
<1> HIDE DEF u, v
<1>4. SumOver(v, Captures) + u[c] = SumOver(u, Captures) + v[c]
  BY <1>2, SumChange, FiniteCaptures
<1> QED BY <1>3, <1>4, <1>5, StoredType, Zenon

LEMMA QueuedChange ==
  ASSUME CapturesOK, CapturesOK', NEW c \in Captures, \A d \in Captures \ {c} : cap'[d] = cap[d], NEW i
  PROVE  /\ Queued(i)' + Share(cap[c], i) = Queued(i) + Share(cap'[c], i)
         /\ Queued(i) \in Nat /\ Queued(i)' \in Nat
<1> DEFINE u == Shares(cap, i)
           v == Shares(cap', i)
<1>0. \A d \in Captures : CaptureOK(cap[d]) /\ CaptureOK(cap'[d])
  BY Zenon DEF CapturesOK
<1>1. OnNaturals(u, Captures) /\ OnNaturals(v, Captures)
  BY <1>0, ShareType, Zenon DEF OnNaturals, Shares
<1>2. DifferAt(u, v, Captures, c)
  BY <1>1, Zenon DEF DifferAt, Shares
<1>3. u[c] = Share(cap[c], i) /\ v[c] = Share(cap'[c], i)
  BY Zenon DEF Shares
<1>4. Queued(i) = SumOver(u, Captures) /\ Queued(i)' = SumOver(v, Captures)
  BY QueuedIs, Zenon
<1> HIDE DEF u, v
<1>5. SumOver(v, Captures) + u[c] = SumOver(u, Captures) + v[c]
  BY <1>2, SumChange, FiniteCaptures
<1>6. SumOver(u, Captures) \in Nat /\ SumOver(v, Captures) \in Nat
  BY <1>1, SumType, FiniteCaptures, Zenon
<1> QED BY <1>3, <1>4, <1>5, <1>6, Zenon

Alone == \A i, j \in Instances : i = j

(* A step of one capture of the only instance moves the counters by what   *)
(* it changes.                                                             *)
LEMMA OneCounted ==
  ASSUME Alone, QuotaInv, ArchiveInv', NEW c \in Captures, Elsewhere(c), FileOK(c)',
         NEW i \in Instances, inst[i].up, inst'[i].up,
         inst'[i].buffered + Share(cap[c], i) = inst[i].buffered + Share(cap'[c], i),
         inst'[i].used + Weight(file[c]) = inst[i].used + Weight(file'[c]),
         inst'[i].buffered <= BufferLimit, inst'[i].used <= MaxTotal
  PROVE  QuotaInv'
<1>1. \A j \in Instances : j = i
  BY Zenon DEF Alone
<1>2. ASSUME NEW d \in Captures PROVE FileOK(d)'
  <2>1. CASE d = c
    BY <2>1, Zenon
  <2>2. CASE d # c
    <3>1. /\ FileOK(d) /\ cap'[d] = cap[d] /\ file'[d] = file[d]
      BY <2>2, Zenon DEF QuotaInv, Elsewhere
    <3>2. cap[d].st \in Under => cap[d].owner = i
      BY <1>1, Zenon DEF QuotaInv, ArchiveInv, CapturesOK, CaptureOK, Balanced
    <3> QED BY <1>1, <3>1, <3>2, Zenon DEF FileOK
  <2> QED BY <2>1, <2>2, Zenon
<1>3. /\ inst[i].buffered \in Int /\ inst[i].used \in Int
      /\ inst'[i].buffered \in Int /\ inst'[i].used \in Int
  <2>1. inst[i].buffered \in Int /\ inst[i].used \in Int
    BY Counters, Zenon DEF QuotaInv, ArchiveInv
  <2>2. inst'[i] \in Processes
    BY Zenon DEF ArchiveInv, Around, Processes
  <2> QED BY <2>1, <2>2, Zenon DEF Processes
<1>4. /\ Queued(i)' + Share(cap[c], i) = Queued(i) + Share(cap'[c], i)
      /\ Queued(i) \in Nat /\ Queued(i)' \in Nat
  BY QueuedChange, Zenon DEF QuotaInv, ArchiveInv, Elsewhere
<1>5. Share(cap[c], i) \in Nat /\ Share(cap'[c], i) \in Nat
  BY ShareType, Zenon DEF QuotaInv, ArchiveInv, CapturesOK
<1>6. file \in [Captures -> Files] /\ file' \in [Captures -> Files] /\ \A d \in Captures \ {c} : file'[d] = file[d]
  BY Zenon DEF QuotaInv, ArchiveInv, Around, Elsewhere
<1>7. /\ Stored(file', {"tmp", "gz"}) + Weight(file[c]) = Stored(file, {"tmp", "gz"}) + Weight(file'[c])
      /\ Stored(file, {"tmp", "gz"}) \in Nat /\ Stored(file', {"tmp", "gz"}) \in Nat
  BY <1>6, StoredChange, Zenon
<1>8. Weight(file[c]) \in Nat /\ Weight(file'[c]) \in Nat
  BY <1>6, WeightType, Zenon
<1>9. inst[i].buffered = Queued(i) /\ inst[i].used = Stored(file, {"tmp", "gz"})
  BY Zenon DEF QuotaInv
<1>10. inst'[i].buffered = Queued(i)'
  BY <1>3, <1>4, <1>5, <1>9
<1>11. inst'[i].used = Stored(file', {"tmp", "gz"})
  BY <1>3, <1>7, <1>8, <1>9
<1>12. inst'[i].buffered \in 0..BufferLimit /\ inst'[i].used \in 0..MaxTotal
  BY <1>3, <1>4, <1>7, <1>10, <1>11, Limits
<1>13. Stored(file', {"tmp", "gz"}) <= MaxTotal
  BY <1>11, Zenon
<1> QED BY <1>1, <1>2, <1>10, <1>11, <1>12, <1>13, Zenon DEF QuotaInv

LEMMA InRange ==
  ASSUME QuotaInv, NEW i \in Instances
  PROVE  /\ inst[i].buffered \in Int /\ inst[i].used \in Int
         /\ inst[i].buffered <= BufferLimit /\ inst[i].used <= MaxTotal
<1>1. inst[i].buffered \in 0..BufferLimit /\ inst[i].used \in 0..MaxTotal
  BY Zenon DEF QuotaInv
<1> QED BY <1>1, Limits

LEMMA SameCounted ==
  ASSUME Alone, QuotaInv, ArchiveInv', NEW c \in Captures, Elsewhere(c), FileOK(c)',
         NEW i \in Instances, inst[i].up, Share(cap'[c], i) = Share(cap[c], i), UNCHANGED <<inst, file>>
  PROVE  QuotaInv'
BY InRange, OneCounted, Zenon

LEMMA Live ==
  ASSUME QuotaInv, NEW c \in Captures
  PROVE  /\ CaptureOK(cap[c]) /\ cap[c] \in CaptureRecords /\ DOMAIN cap = Captures
         /\ Running(c) => cap[c].owner \in Instances /\ inst[cap[c].owner].up
BY Zenon DEF QuotaInv, ArchiveInv, CapturesOK, CaptureOK, Balanced, FileOK, Running, Under

LEMMA WriteCounts ==
  ASSUME Alone, QuotaInv, ArchiveInv', NEW c \in Captures, NEW n, Write(c, n)
  PROVE  QuotaInv'
<1> DEFINE i == cap[c].owner
<1>1. i \in Instances /\ inst[i].up /\ cap[c] \in CaptureRecords /\ DOMAIN cap = Captures
  BY Live, Zenon DEF Write
<1>2. /\ \A d \in Captures \ {c} : cap'[d] = cap[d]
      /\ cap'[c].st = cap[c].st /\ cap'[c].owner = cap[c].owner /\ cap'[c].queued = cap[c].queued
      /\ cap'[c].reserved = cap[c].reserved /\ cap'[c].qw = cap[c].qw
      /\ cap'[c].written = cap[c].written /\ cap'[c].err = cap[c].err
  BY <1>1, Zenon DEF Write, CaptureRecords
<1>3. Elsewhere(c) /\ UNCHANGED <<inst, file>>
  BY <1>2, Zenon DEF Write, Elsewhere
<1>4. FileOK(c)'
  BY <1>2, <1>3, Zenon DEF QuotaInv, FileOK
<1>5. Share(cap'[c], i) = Share(cap[c], i)
  BY <1>2, Zenon DEF Share
<1> QED BY <1>1, <1>3, <1>4, <1>5, SameCounted, Zenon

LEMMA FinishCounts ==
  ASSUME Alone, QuotaInv, ArchiveInv', NEW c \in Captures, NEW end, Finish(c, end)
  PROVE  QuotaInv'
<1> DEFINE i == cap[c].owner
<1>1. i \in Instances /\ inst[i].up /\ cap[c] \in CaptureRecords /\ DOMAIN cap = Captures
  BY Live, Zenon DEF Finish
<1>2. /\ \A d \in Captures \ {c} : cap'[d] = cap[d]
      /\ cap'[c].st = cap[c].st /\ cap'[c].owner = cap[c].owner /\ cap'[c].queued = cap[c].queued
      /\ cap'[c].reserved = cap[c].reserved /\ cap'[c].qw = cap[c].qw
      /\ cap'[c].written = cap[c].written /\ cap'[c].err = cap[c].err
  BY <1>1, Zenon DEF Finish, CaptureRecords
<1>3. Elsewhere(c) /\ UNCHANGED <<inst, file>>
  BY <1>2, Zenon DEF Finish, Elsewhere
<1>4. FileOK(c)'
  BY <1>2, <1>3, Zenon DEF QuotaInv, FileOK
<1>5. Share(cap'[c], i) = Share(cap[c], i)
  BY <1>2, Zenon DEF Share
<1> QED BY <1>1, <1>3, <1>4, <1>5, SameCounted, Zenon

LEMMA BeginCounts ==
  ASSUME Alone, QuotaInv, ArchiveInv', NEW c \in Captures, NEW i \in Instances, Begin(i, c)
  PROVE  QuotaInv'
<1>1. inst[i].up /\ cap[c] \in CaptureRecords /\ CaptureOK(cap[c]) /\ DOMAIN cap = Captures
  BY Live, Zenon DEF Begin
<1>2. cap[c].owner = "none" /\ cap[c].queued = 0 /\ ~cap[c].reserved
  BY <1>1, Zenon DEF Begin, CaptureOK, Balanced, Over
<1>3. /\ \A d \in Captures \ {c} : cap'[d] = cap[d]
      /\ cap'[c].st = "new" /\ cap'[c].owner = i /\ cap'[c].queued = cap[c].queued
      /\ cap'[c].reserved = cap[c].reserved /\ cap'[c].qw = cap[c].qw
      /\ cap'[c].written = cap[c].written
  BY <1>1, Zenon DEF Begin, CaptureRecords
<1>4. Elsewhere(c) /\ UNCHANGED <<inst, file>>
  BY <1>3, Zenon DEF Begin, Elsewhere
<1>5. FileOK(c)'
  BY <1>1, <1>3, <1>4 DEF QuotaInv, FileOK, Begin
<1>6. Share(cap'[c], i) = Share(cap[c], i)
  BY <1>2, <1>3 DEF Share
<1> QED BY <1>1, <1>4, <1>5, <1>6, SameCounted, Zenon

LEMMA ReserveCounts ==
  ASSUME Alone, QuotaInv, ArchiveInv', NEW c \in Captures, reserve(c)
  PROVE  QuotaInv'
<1> DEFINE i == cap[c].owner
<1>1. /\ i \in Instances /\ inst[i].up /\ cap[c] \in CaptureRecords /\ DOMAIN cap = Captures
      /\ cap[c].st \in Under
  BY Live, Zenon DEF reserve, Running, Under
<1>2. ~cap[c].reserved /\ UNCHANGED <<row, file, aged>>
  BY Zenon DEF reserve
<1>3. CASE \E why : cap' = Refuse(c, why) /\ UNCHANGED inst
  <2>1. /\ \A d \in Captures \ {c} : cap'[d] = cap[d]
        /\ cap'[c].st = cap[c].st /\ cap'[c].owner = cap[c].owner /\ cap'[c].queued = cap[c].queued
        /\ ~cap'[c].reserved /\ cap'[c].qw = cap[c].qw
        /\ cap'[c].written = cap[c].written /\ cap'[c].err = cap[c].err
    BY <1>1, <1>3 DEF Refuse, CaptureRecords
  <2>2. Elsewhere(c)
    BY <1>2, <2>1, Zenon DEF Elsewhere
  <2>3. FileOK(c)'
    BY <1>2, <1>3, <2>1, Zenon DEF QuotaInv, FileOK
  <2>4. Share(cap'[c], i) = Share(cap[c], i)
    BY <1>2, <2>1, Zenon DEF Share
  <2> QED BY <1>1, <1>2, <1>3, <2>2, <2>3, <2>4, SameCounted, Zenon
<1>4. CASE /\ cap' = [cap EXCEPT ![c].reserved = TRUE] /\ ~(inst[i].buffered + 1 > BufferLimit)
           /\ inst' = [inst EXCEPT ![i].buffered = @ + 1]
  <2>1. /\ \A d \in Captures \ {c} : cap'[d] = cap[d]
        /\ cap'[c].st = cap[c].st /\ cap'[c].owner = cap[c].owner /\ cap'[c].queued = cap[c].queued
        /\ cap'[c].reserved /\ cap'[c].qw = cap[c].qw
        /\ cap'[c].written = cap[c].written /\ cap'[c].err = cap[c].err
    BY <1>1, <1>4, Zenon DEF CaptureRecords
  <2>2. /\ inst'[i].buffered = inst[i].buffered + 1 /\ inst'[i].used = inst[i].used
        /\ inst'[i].up = inst[i].up
    BY <1>1, <1>4, Zenon DEF QuotaInv, ArchiveInv, Around
  <2>3. Elsewhere(c)
    BY <1>2, <2>1, Zenon DEF Elsewhere
  <2>4. FileOK(c)'
    BY <1>1, <1>2, <2>1, <2>2, Zenon DEF QuotaInv, FileOK, Under
  <2>5. cap[c].queued \in Nat
    BY <1>1, Zenon DEF CaptureRecords
  <2>6. Share(cap'[c], i) = Share(cap[c], i) + 1 /\ Share(cap[c], i) \in Nat
    BY <1>2, <2>1, <2>5 DEF Share
  <2>7. /\ inst[i].buffered \in Int /\ inst[i].used \in Int /\ inst[i].used <= MaxTotal
    BY <1>1, InRange, Zenon
  <2>8. /\ inst'[i].buffered + Share(cap[c], i) = inst[i].buffered + Share(cap'[c], i)
        /\ inst'[i].buffered <= BufferLimit /\ inst'[i].used <= MaxTotal
    BY <1>4, <2>2, <2>6, <2>7, Limits
  <2>9. inst'[i].used + Weight(file[c]) = inst[i].used + Weight(file'[c])
    BY <1>2, <2>2, Zenon
  <2> QED BY <1>1, <2>2, <2>3, <2>4, <2>8, <2>9, OneCounted, Zenon
<1> QED BY <1>3, <1>4, Zenon DEF reserve

LEMMA SendCounts ==
  ASSUME Alone, QuotaInv, ArchiveInv', NEW c \in Captures, send(c)
  PROVE  QuotaInv'
<1> DEFINE i == cap[c].owner
<1>1. /\ i \in Instances /\ inst[i].up /\ cap[c] \in CaptureRecords /\ DOMAIN cap = Captures
      /\ cap[c].st \in Under
  BY Live, Zenon DEF send, Running, Under
<1>2. cap[c].reserved /\ UNCHANGED <<row, file, aged>> /\ cap[c].queued \in Nat
  BY <1>1, Zenon DEF send, CaptureRecords
<1>3. CASE /\ cap' = [cap EXCEPT ![c].reserved = FALSE, ![c].queued = @ + 1,
                                  ![c].accepted = @ + 1, ![c].todo = @ - 1]
           /\ UNCHANGED inst
  <2>1. /\ \A d \in Captures \ {c} : cap'[d] = cap[d]
        /\ cap'[c].st = cap[c].st /\ cap'[c].owner = cap[c].owner
        /\ cap'[c].queued = cap[c].queued + 1
        /\ ~cap'[c].reserved /\ cap'[c].qw = cap[c].qw
        /\ cap'[c].written = cap[c].written /\ cap'[c].err = cap[c].err
    BY <1>1, <1>3, Zenon DEF CaptureRecords
  <2>2. Elsewhere(c)
    BY <1>2, <2>1, Zenon DEF Elsewhere
  <2>3. FileOK(c)'
    BY <1>2, <1>3, <2>1, Zenon DEF QuotaInv, FileOK
  <2>4. Share(cap'[c], i) = Share(cap[c], i)
    BY <1>2, <2>1 DEF Share
  <2> QED BY <1>1, <1>2, <1>3, <2>2, <2>3, <2>4, SameCounted, Zenon
<1>4. CASE cap' = Refuse(c, "queue_full") /\ inst' = [inst EXCEPT ![i].buffered = @ - 1]
  <2>1. /\ \A d \in Captures \ {c} : cap'[d] = cap[d]
        /\ cap'[c].st = cap[c].st /\ cap'[c].owner = cap[c].owner /\ cap'[c].queued = cap[c].queued
        /\ ~cap'[c].reserved /\ cap'[c].qw = cap[c].qw
        /\ cap'[c].written = cap[c].written /\ cap'[c].err = cap[c].err
    BY <1>1, <1>4, Zenon DEF CaptureRecords, Refuse
  <2>2. /\ inst'[i].buffered = inst[i].buffered - 1 /\ inst'[i].used = inst[i].used
        /\ inst'[i].up = inst[i].up
    BY <1>1, <1>4, Zenon DEF QuotaInv, ArchiveInv, Around
  <2>3. Elsewhere(c)
    BY <1>2, <2>1, Zenon DEF Elsewhere
  <2>4. FileOK(c)'
    BY <1>1, <1>2, <2>1, <2>2, Zenon DEF QuotaInv, FileOK, Under
  <2>6. Share(cap[c], i) = Share(cap'[c], i) + 1 /\ Share(cap'[c], i) \in Nat
    BY <1>2, <2>1 DEF Share
  <2>7. /\ inst[i].buffered \in Int /\ inst[i].used \in Int /\ inst[i].used <= MaxTotal
        /\ inst[i].buffered <= BufferLimit
    BY <1>1, InRange, Zenon
  <2>8. /\ inst'[i].buffered + Share(cap[c], i) = inst[i].buffered + Share(cap'[c], i)
        /\ inst'[i].buffered <= BufferLimit /\ inst'[i].used <= MaxTotal
    BY <2>2, <2>6, <2>7, Limits
  <2>9. inst'[i].used + Weight(file[c]) = inst[i].used + Weight(file'[c])
    BY <1>2, <2>2, Zenon
  <2> QED BY <1>1, <2>2, <2>3, <2>4, <2>8, <2>9, OneCounted, Zenon
<1> QED BY <1>3, <1>4, Zenon DEF send, Returned

LEMMA CreateCounts ==
  ASSUME Alone, QuotaInv, ArchiveInv', NEW c \in Captures, NEW stored, NEW known,
         create(c, stored, known)
  PROVE  QuotaInv'
<1> DEFINE i == cap[c].owner
           h == IF known THEN cap[c] ELSE Failed(c, "metadata_write_failed")
<1>1. /\ i \in Instances /\ inst[i].up /\ cap[c] \in CaptureRecords /\ DOMAIN cap = Captures
      /\ cap[c].st = "new"
  BY Live, Zenon DEF create, Running
<1>2. /\ DOMAIN h = DOMAIN cap[c] /\ h.owner = i /\ h.queued = cap[c].queued
      /\ h.reserved = cap[c].reserved /\ h.qw = cap[c].qw /\ h.written = cap[c].written
  BY <1>1, Zenon DEF CaptureRecords, Failed
<1>3. cap' = [cap EXCEPT ![c] = [h EXCEPT !.st = "open"]]
  BY Zenon DEF create
<1>4. DOMAIN h = {"st", "owner", "received", "accepted", "saved", "reason", "complete", "closed",
                  "todo", "reserved", "queued", "err", "qw", "written"}
  BY <1>1, <1>2, Zenon DEF CaptureRecords
<1> HIDE DEF h
<1>5. /\ \A d \in Captures \ {c} : cap'[d] = cap[d]
      /\ cap'[c].st = "open" /\ cap'[c].owner = i /\ cap'[c].queued = cap[c].queued
      /\ cap'[c].reserved = cap[c].reserved /\ cap'[c].qw = cap[c].qw
      /\ cap'[c].written = cap[c].written
  BY <1>1, <1>2, <1>3, <1>4, Zenon
<1>6. \A d \in Captures \ {c} : row'[d] = row[d]
  BY Zenon DEF create, QuotaInv, ArchiveInv, Around
<1>7. Elsewhere(c) /\ UNCHANGED <<inst, file>>
  BY <1>5, <1>6, Zenon DEF create, Elsewhere
<1>8. FileOK(c)'
  BY <1>1, <1>5, <1>7, Zenon DEF QuotaInv, FileOK
<1>9. Share(cap'[c], i) = Share(cap[c], i)
  BY <1>5, Zenon DEF Share
<1> QED BY <1>1, <1>7, <1>8, <1>9, SameCounted, Zenon

LEMMA OpenCounts ==
  ASSUME Alone, QuotaInv, ArchiveInv', NEW c \in Captures, NEW ok, open(c, ok)
  PROVE  QuotaInv'
<1> DEFINE i == cap[c].owner
           f == Failed(c, "storage_error")
           new == [kind |-> "tmp", size |-> 0]
<1>1. /\ i \in Instances /\ inst[i].up /\ cap[c] \in CaptureRecords /\ DOMAIN cap = Captures
      /\ cap[c].st = "open"
  BY Live, Zenon DEF open, Running
<1>2. /\ file[c].kind = "none" /\ cap[c].written = 0 /\ ~cap[c].qw /\ cap[c].qw \in BOOLEAN
      /\ file \in [Captures -> Files]
  BY <1>1, Zenon DEF QuotaInv, FileOK, ArchiveInv, Around, CaptureRecords
<1>3. UNCHANGED <<inst, row, aged>>
  BY Zenon DEF open
<1>4. CASE file' = [file EXCEPT ![c] = new] /\ cap' = [cap EXCEPT ![c].st = "drain", ![c].qw = TRUE]
  <2>1. /\ \A d \in Captures \ {c} : cap'[d] = cap[d] /\ file'[d] = file[d]
        /\ cap'[c].st = "drain" /\ cap'[c].owner = i /\ cap'[c].queued = cap[c].queued
        /\ cap'[c].reserved = cap[c].reserved /\ cap'[c].qw
        /\ cap'[c].written = cap[c].written
        /\ file'[c] = new
    BY <1>1, <1>2, <1>4, Zenon DEF CaptureRecords
  <2>2. Elsewhere(c)
    BY <1>3, <2>1, Zenon DEF Elsewhere
  <2>3. FileOK(c)'
    BY <1>1, <1>2, <1>3, <2>1 DEF FileOK, Under
  <2>4. Share(cap'[c], i) = Share(cap[c], i) /\ Weight(file[c]) = 0 /\ Weight(file'[c]) = 0
    BY <1>2, <2>1 DEF Share, Weight, Kinds
  <2>5. inst[i].used <= MaxTotal /\ inst[i].buffered <= BufferLimit /\ inst' = inst
    BY <1>1, <1>3, InRange, Zenon
  <2> QED BY <1>1, <2>2, <2>3, <2>4, <2>5, OneCounted, Zenon
<1>5. ASSUME NEW h, DOMAIN h = DOMAIN cap[c], h.owner = i, h.queued = cap[c].queued,
             h.reserved = cap[c].reserved, h.qw = cap[c].qw, h.err, UNCHANGED file,
             cap' = [cap EXCEPT ![c] = [h EXCEPT !.st = "drain"]]
      PROVE  QuotaInv'
  <2>0. DOMAIN h = {"st", "owner", "received", "accepted", "saved", "reason", "complete", "closed",
                    "todo", "reserved", "queued", "err", "qw", "written"}
    BY <1>1, <1>5, Zenon DEF CaptureRecords
  <2>1. /\ \A d \in Captures \ {c} : cap'[d] = cap[d]
        /\ cap'[c].st = "drain" /\ cap'[c].owner = i /\ cap'[c].queued = cap[c].queued
        /\ cap'[c].reserved = cap[c].reserved /\ cap'[c].qw = cap[c].qw /\ cap'[c].err
    BY <1>1, <1>5, <2>0, Zenon
  <2>2. Elsewhere(c) /\ UNCHANGED <<inst, file>>
    BY <1>3, <1>5, <2>1, Zenon DEF Elsewhere
  <2>3. FileOK(c)'
    BY <1>1, <1>2, <2>1, <2>2, Zenon DEF FileOK, Under
  <2>4. Share(cap'[c], i) = Share(cap[c], i)
    BY <2>1, Zenon DEF Share
  <2> QED BY <1>1, <2>2, <2>3, <2>4, SameCounted, Zenon
<1>6. /\ DOMAIN f = DOMAIN cap[c] /\ f.owner = i /\ f.queued = cap[c].queued
      /\ f.reserved = cap[c].reserved /\ f.qw = cap[c].qw /\ f.err
  BY <1>1, Zenon DEF CaptureRecords, Failed
<1>7. CASE cap[c].err /\ cap' = [cap EXCEPT ![c].st = "drain"] /\ UNCHANGED file
  <2>1. cap' = [cap EXCEPT ![c] = [cap[c] EXCEPT !.st = "drain"]]
    BY <1>7, Zenon
  <2> QED BY <1>5, <1>7, <2>1, Zenon
<1>8. CASE UNCHANGED file /\ cap' = [cap EXCEPT ![c] = [f EXCEPT !.st = "drain"]]
  <2> HIDE DEF f
  <2> QED BY <1>5, <1>6, <1>8, Zenon
<1> QED BY <1>4, <1>7, <1>8, Zenon DEF open

LEMMA DrainCounts ==
  ASSUME Alone, QuotaInv, ArchiveInv', NEW c \in Captures, NEW n \in 0..1, NEW ok, drain(c, n, ok)
  PROVE  QuotaInv'
<1> DEFINE i == cap[c].owner
           f == Failed(c, "storage_or_quota_error")
           good == ~cap[c].err /\ ok /\ Fits(i, n)
           h == IF good THEN [cap[c] EXCEPT !.saved = @ + 1, !.written = @ + n]
                ELSE IF cap[c].err THEN cap[c] ELSE f
<1>1. /\ i \in Instances /\ inst[i].up /\ cap[c] \in CaptureRecords /\ DOMAIN cap = Captures
      /\ cap[c].st = "drain" /\ cap[c].queued > 0
  BY Live, Zenon DEF drain, Running
<1>2. cap[c].queued \in Nat /\ cap[c].written \in Nat /\ file \in [Captures -> Files] /\ file[c] \in Files
  BY <1>1, Zenon DEF QuotaInv, ArchiveInv, Around, CaptureRecords
<1>3. UNCHANGED <<row, aged>>
  BY Zenon DEF drain
<1>4. /\ DOMAIN h = {"st", "owner", "received", "accepted", "saved", "reason", "complete", "closed",
                      "todo", "reserved", "queued", "err", "qw", "written"}
      /\ h.st = "drain" /\ h.owner = i /\ h.queued = cap[c].queued
      /\ h.reserved = cap[c].reserved /\ h.qw = cap[c].qw /\ (cap[c].err => h.err)
      /\ h.written = IF good THEN cap[c].written + n ELSE cap[c].written
  <2> HIDE DEF good
  <2>1. CASE good
    BY <1>1, <2>1, Zenon DEF CaptureRecords
  <2>2. CASE ~good /\ cap[c].err
    BY <1>1, <2>2, Zenon DEF CaptureRecords
  <2>3. CASE ~good /\ ~cap[c].err
    BY <1>1, <2>3, Zenon DEF CaptureRecords, Failed
  <2> QED BY <2>1, <2>2, <2>3, Zenon
<1>5. cap' = [cap EXCEPT ![c] = [h EXCEPT !.queued = @ - 1]]
  BY Zenon DEF drain
<1>6. inst' = [inst EXCEPT ![i].buffered = @ - 1, ![i].used = IF good THEN @ + n ELSE @]
  BY Zenon DEF drain
<1>7. good => cap[c].qw /\ file[c].kind = "tmp" /\ Fits(i, n)
  BY <1>1, Zenon DEF QuotaInv, FileOK
<1>8. file' = IF good THEN [file EXCEPT ![c].size = @ + n] ELSE file
  BY <1>7, Zenon DEF drain, Grown
<1> HIDE DEF h, good
<1>9. /\ \A d \in Captures \ {c} : cap'[d] = cap[d]
      /\ cap'[c].st = "drain" /\ cap'[c].owner = i /\ cap'[c].queued = cap[c].queued - 1
      /\ cap'[c].reserved = cap[c].reserved /\ cap'[c].qw = cap[c].qw
      /\ cap[c].err => cap'[c].err
      /\ cap'[c].written = h.written
  BY <1>1, <1>4, <1>5, Zenon
<1>10. /\ \A d \in Captures \ {c} : file'[d] = file[d]
       /\ file'[c].kind = file[c].kind
       /\ file'[c].size = IF good THEN file[c].size + n ELSE file[c].size
  BY <1>2, <1>8, Zenon DEF Files
<1>11. /\ inst'[i].buffered = inst[i].buffered - 1 /\ inst'[i].up = inst[i].up
       /\ inst'[i].used = IF good THEN inst[i].used + n ELSE inst[i].used
  BY <1>1, <1>6, Zenon DEF QuotaInv, ArchiveInv, Around
<1>12. Elsewhere(c)
  BY <1>3, <1>9, <1>10, Zenon DEF Elsewhere
<1>13. FileOK(c)'
  <2>1. FileOK(c)
    BY Zenon DEF QuotaInv
  <2>2. IF cap[c].qw THEN file[c].kind = "tmp" /\ file[c].size = cap[c].written
        ELSE file[c].kind = "none" /\ cap[c].err
    BY <1>1, <2>1, Zenon DEF FileOK
  <2>3. cap[c].qw => file'[c].kind = "tmp" /\ file'[c].size = cap'[c].written
    <3>1. CASE good
      BY <1>4, <1>9, <1>10, <2>2, <3>1, Zenon
    <3>2. CASE ~good
      BY <1>4, <1>9, <1>10, <2>2, <3>2, Zenon
    <3> QED BY <3>1, <3>2, Zenon
  <2>4. ~cap[c].qw => file'[c].kind = "none" /\ cap'[c].err
    BY <1>9, <1>10, <2>2, Zenon
  <2> QED BY <1>1, <1>9, <1>11, <2>3, <2>4, Zenon DEF FileOK
<1>14. Share(cap[c], i) = Share(cap'[c], i) + 1 /\ Share(cap'[c], i) \in Nat
  BY <1>1, <1>2, <1>9 DEF Share
<1>15. /\ Weight(file[c]) \in Nat
       /\ Weight(file'[c]) = IF good THEN Weight(file[c]) + n ELSE Weight(file[c])
  BY <1>2, <1>7, <1>10, Zenon DEF Weight, Kinds, Files
<1>16. /\ inst[i].buffered \in Int /\ inst[i].used \in Int /\ inst[i].used <= MaxTotal
       /\ inst[i].buffered <= BufferLimit
  BY <1>1, InRange, Zenon
<1>17. /\ inst'[i].buffered + Share(cap[c], i) = inst[i].buffered + Share(cap'[c], i)
       /\ inst'[i].buffered <= BufferLimit
  <2>1. inst'[i].buffered = inst[i].buffered - 1
    BY <1>11, Zenon
  <2> QED BY <2>1, <1>14, <1>16, Limits
<1>18. inst'[i].used + Weight(file[c]) = inst[i].used + Weight(file'[c])
  BY <1>11, <1>15, <1>16
<1>19. inst'[i].used <= MaxTotal
  BY <1>7, <1>11, <1>16, Zenon DEF Fits
<1> QED BY <1>1, <1>11, <1>12, <1>13, <1>17, <1>18, <1>19, OneCounted, Zenon

LEMMA CloseCounts ==
  ASSUME Alone, QuotaInv, ArchiveInv', NEW c \in Captures, NEW ok, close(c, ok)
  PROVE  QuotaInv'
<1> DEFINE i == cap[c].owner
           f == Failed(c, "storage_or_quota_error")
           gz == [kind |-> "gz", size |-> file[c].size + 1]
<1>1. /\ i \in Instances /\ inst[i].up /\ cap[c] \in CaptureRecords /\ DOMAIN cap = Captures
      /\ cap[c].st = "drain"
  BY Live, Zenon DEF close, Running
<1>2. /\ cap[c].written \in Nat /\ file \in [Captures -> Files] /\ file[c] \in Files
      /\ file[c].size \in Nat
  BY <1>1, Zenon DEF QuotaInv, ArchiveInv, Around, CaptureRecords, Files
<1>3. UNCHANGED <<row, aged>>
  BY Zenon DEF close
<1>4. IF cap[c].qw THEN file[c].kind = "tmp" /\ file[c].size = cap[c].written ELSE file[c].kind = "none"
  BY <1>1, Zenon DEF QuotaInv, FileOK
<1>5. inst \in [Instances -> Processes] /\ inst[i] \in Processes
  BY <1>1, Zenon DEF QuotaInv, ArchiveInv, Around, Processes
<1>6. /\ inst[i].buffered \in Int /\ inst[i].used \in Int /\ inst[i].used <= MaxTotal
      /\ inst[i].buffered <= BufferLimit
  BY <1>1, InRange, Zenon
<1>7. CASE /\ Fits(i, 1) /\ file[c].kind = "tmp" /\ file' = [file EXCEPT ![c] = gz]
           /\ inst' = [inst EXCEPT ![i].used = @ + 1]
           /\ cap' = [cap EXCEPT ![c].st = "settle", ![c].written = @ + 1]
  <2>1. /\ \A d \in Captures \ {c} : cap'[d] = cap[d]
        /\ cap'[c].st = "settle" /\ cap'[c].owner = i /\ cap'[c].queued = cap[c].queued
        /\ cap'[c].reserved = cap[c].reserved
    BY <1>1, <1>7, Zenon DEF CaptureRecords
  <2>2. (\A d \in Captures \ {c} : file'[d] = file[d]) /\ file'[c] = gz
    BY <1>2, <1>7, Zenon
  <2>3. /\ inst'[i].buffered = inst[i].buffered /\ inst'[i].up = inst[i].up
        /\ inst'[i].used = inst[i].used + 1
    BY <1>1, <1>5, <1>7, Zenon DEF Processes
  <2>4. Elsewhere(c)
    BY <1>3, <2>1, <2>2, Zenon DEF Elsewhere
  <2>5. FileOK(c)'
    BY <1>1, <2>1, <2>2, <2>3 DEF FileOK, Under
  <2>6. Share(cap'[c], i) = Share(cap[c], i)
    BY <2>1, Zenon DEF Share
  <2>7. Weight(file[c]) \in Nat /\ Weight(file'[c]) = Weight(file[c]) + 1
    BY <1>2, <1>7, <2>2, Zenon DEF Weight, Kinds
  <2>8. inst'[i].used + Weight(file[c]) = inst[i].used + Weight(file'[c]) /\ inst'[i].used <= MaxTotal
    BY <1>6, <1>7, <2>3, <2>7 DEF Fits
  <2> QED BY <1>1, <1>6, <2>3, <2>4, <2>5, <2>6, <2>8, OneCounted, Zenon
<1>8. CASE /\ file' = IF file[c].kind = "tmp" THEN [file EXCEPT ![c] = None] ELSE file
           /\ inst' = IF cap[c].qw
                      THEN [inst EXCEPT ![i].used = GivenBack(@, cap[c].written)] ELSE inst
           /\ cap' = [cap EXCEPT ![c] = [f EXCEPT !.st = "settle", !.saved = 0]]
  <2>1. /\ DOMAIN f = {"st", "owner", "received", "accepted", "saved", "reason", "complete", "closed",
                        "todo", "reserved", "queued", "err", "qw", "written"}
        /\ f.owner = i /\ f.queued = cap[c].queued /\ f.reserved = cap[c].reserved
    BY <1>1, Zenon DEF CaptureRecords, Failed
  <2> HIDE DEF f
  <2>2. /\ \A d \in Captures \ {c} : cap'[d] = cap[d]
        /\ cap'[c].st = "settle" /\ cap'[c].owner = i /\ cap'[c].queued = cap[c].queued
        /\ cap'[c].reserved = cap[c].reserved
    BY <1>1, <1>8, <2>1, Zenon
  <2>3. (\A d \in Captures \ {c} : file'[d] = file[d]) /\ file'[c].kind # "tmp"
    BY <1>2, <1>8, Zenon DEF None
  <2>4. /\ inst'[i].buffered = inst[i].buffered /\ inst'[i].up = inst[i].up
        /\ inst'[i].used = IF cap[c].qw THEN inst[i].used - cap[c].written ELSE inst[i].used
    BY <1>1, <1>5, <1>8, Zenon DEF Processes, GivenBack
  <2>5. Elsewhere(c)
    BY <1>3, <2>2, <2>3, Zenon DEF Elsewhere
  <2>6. FileOK(c)'
    BY <1>1, <2>2, <2>3, <2>4, Zenon DEF FileOK, Under
  <2>7. Share(cap'[c], i) = Share(cap[c], i)
    BY <2>2, Zenon DEF Share
  <2>8. Weight(file'[c]) = 0 /\ Weight(file[c]) = IF cap[c].qw THEN cap[c].written ELSE 0
    BY <1>2, <1>4, <1>8, Zenon DEF Weight, Kinds, None
  <2>9. inst'[i].used + Weight(file[c]) = inst[i].used + Weight(file'[c]) /\ inst'[i].used <= MaxTotal
    BY <1>2, <1>6, <2>4, <2>8, Limits
  <2> QED BY <1>1, <1>6, <2>4, <2>5, <2>6, <2>7, <2>9, OneCounted, Zenon
<1> QED BY <1>7, <1>8, Zenon DEF close

LEMMA SettleCounts ==
  ASSUME Alone, QuotaInv, ArchiveInv', NEW c \in Captures, NEW stored, settle(c, stored)
  PROVE  QuotaInv'
<1> DEFINE i == cap[c].owner
           done == [Fresh EXCEPT !.st = "done"]
<1>1. /\ i \in Instances /\ inst[i].up /\ CaptureOK(cap[c]) /\ DOMAIN cap = Captures
      /\ cap[c].st = "settle"
  BY Live, Zenon DEF settle, Running
<1>2. cap[c].queued = 0 /\ ~cap[c].reserved
  <2>1. Counted(cap[c]) /\ Balanced(cap[c])
    BY <1>1, Counts, Zenon
  <2> QED BY <1>1, <2>1 DEF Counted, Balanced
<1>3. cap' = [cap EXCEPT ![c] = done] /\ done.st = "done" /\ done.owner = "none" /\ done.queued = 0
  BY Zenon DEF settle, Fresh
<1>4. (\A d \in Captures \ {c} : cap'[d] = cap[d]) /\ cap'[c] = done
  BY <1>1, <1>3, Zenon
<1>5. \A d \in Captures \ {c} : row'[d] = row[d]
  BY Zenon DEF settle, QuotaInv, ArchiveInv, Around
<1>6. Elsewhere(c) /\ UNCHANGED <<inst, file>>
  BY <1>4, <1>5, Zenon DEF settle, Elsewhere
<1> HIDE DEF done
<1>7. FileOK(c)'
  BY <1>1, <1>3, <1>4, <1>6, Zenon DEF QuotaInv, FileOK, Under
<1>8. Share(cap'[c], i) = Share(cap[c], i)
  <2>1. "none" # i
    BY <1>1, ArchiveAssumption, Zenon
  <2> QED BY <1>2, <1>3, <1>4, <2>1 DEF Share
<1> QED BY <1>1, <1>6, <1>7, <1>8, SameCounted, Zenon

LEMMA RemovedCounts ==
  ASSUME Alone, QuotaInv, ArchiveInv', NEW c \in aged, NEW i \in Instances, inst[i].up,
         file[c].kind # "none", Removed(i, c), UNCHANGED <<cap, row, aged>>
  PROVE  QuotaInv'
<1>1. c \in Captures /\ file \in [Captures -> Files]
  BY Zenon DEF QuotaInv, ArchiveInv, Around
<1>2. cap[c].st \in {"done", "lost"}
  BY <1>1, Zenon DEF QuotaInv, ArchiveInv, WholeOK
<1>3. (\A d \in Captures \ {c} : file'[d] = file[d]) /\ file'[c] = None
  BY <1>1, Zenon DEF Removed
<1>4. inst \in [Instances -> Processes]
  BY Zenon DEF QuotaInv, ArchiveInv, Around, Processes
<1>5. /\ inst'[i].buffered = inst[i].buffered /\ inst'[i].up = inst[i].up
      /\ inst'[i].used = inst[i].used - file[c].size
  BY <1>4, Zenon DEF Removed, Processes
<1>6. Elsewhere(c)
  BY <1>3, Zenon DEF Elsewhere
<1>7. FileOK(c)'
  BY <1>2, <1>3 DEF FileOK, Under, None
<1>8. file[c].size \in Nat /\ Weight(file[c]) = file[c].size /\ Weight(file'[c]) = 0
  <2>1. file[c] \in Files
    BY <1>1, Zenon
  <2> QED BY <1>3, <2>1 DEF Files, Weight, Kinds, None
<1>9. /\ inst[i].buffered \in Int /\ inst[i].used \in Int /\ inst[i].used <= MaxTotal
      /\ inst[i].buffered <= BufferLimit
  BY InRange, Zenon
<1>10. inst'[i].used + Weight(file[c]) = inst[i].used + Weight(file'[c]) /\ inst'[i].used <= MaxTotal
  BY <1>5, <1>8, <1>9, Limits
<1> QED BY <1>1, <1>5, <1>6, <1>7, <1>9, <1>10, OneCounted, Zenon

(* A step that changes nothing that is counted.                            *)
LEMMA Uncounted ==
  ASSUME QuotaInv, ArchiveInv', UNCHANGED <<cap, file, inst>>
  PROVE  QuotaInv'
<1>1. \A i \in Instances : Queued(i)' = Queued(i)
  BY Zenon DEF Queued
<1>2. \A c \in Captures : FileOK(c)'
  BY Zenon DEF QuotaInv, FileOK
<1> QED BY <1>1, <1>2, Zenon DEF QuotaInv

(* A restart counts what it leaves, which is no more than there was.       *)
LEMMA SweptCounts ==
  ASSUME Around
  PROVE  /\ Stored(Swept(file), {"gz"}) = Stored(Swept(file), {"tmp", "gz"})
         /\ Stored(Swept(file), {"tmp", "gz"}) <= Stored(file, {"tmp", "gz"})
         /\ Stored(Swept(file), {"tmp", "gz"}) \in Nat /\ Stored(file, {"tmp", "gz"}) \in Nat
<1> DEFINE g == Swept(file)
           u == [c \in Captures |-> IF g[c].kind \in {"gz"} THEN g[c].size ELSE 0]
           v == Weights(g)
           w == Weights(file)
<1>1. /\ g \in [Captures -> Files] /\ file \in [Captures -> Files]
      /\ \A c \in Captures : g[c] = IF file[c].kind = "tmp" THEN None ELSE file[c]
  BY SweptType, Zenon DEF Around, Swept
<1>2. /\ Stored(g, {"gz"}) = SumOver(u, Captures) /\ Stored(g, {"tmp", "gz"}) = SumOver(v, Captures)
      /\ Stored(file, {"tmp", "gz"}) = SumOver(w, Captures)
  BY StoredIs, Zenon DEF Stored
<1> HIDE DEF g
<1>3. \A c \in Captures : u[c] = v[c] /\ v[c] \in Nat
  BY <1>1, WeightType, Zenon DEF Weights, Weight, Kinds, None, Files
<1>4. \A c \in Captures : w[c] \in Nat /\ v[c] <= w[c]
  BY <1>1 DEF Weights, Weight, Kinds, None, Files
<1> HIDE DEF u, v, w
<1>5. OnNaturals(u, Captures) /\ AtMost(v, w, Captures) /\ \A c \in Captures : u[c] = v[c]
  BY <1>3, <1>4, Zenon DEF OnNaturals, AtMost
<1>6. SumOver(u, Captures) = SumOver(v, Captures)
  BY <1>5, SumSame, FiniteCaptures, Zenon
<1>7. SumOver(v, Captures) <= SumOver(w, Captures)
  BY <1>5, SumAtMost, FiniteCaptures, Zenon
<1>8. Stored(g, {"tmp", "gz"}) \in Nat /\ Stored(file, {"tmp", "gz"}) \in Nat
  BY <1>1, StoredType, Zenon
<1> QED BY <1>2, <1>6, <1>7, <1>8, Zenon DEF g

LEMMA NewCounts ==
  ASSUME Alone, QuotaInv, ArchiveInv', NEW i \in Instances, New(i)
  PROVE  QuotaInv'
<1>1. (\A j \in Instances : j = i) /\ ~inst[i].up /\ UNCHANGED <<cap, aged, purging>>
  BY Zenon DEF Alone, New
<1>2. \A c \in Captures : cap[c].st \notin Under /\ cap[c].owner = "none"
  <2> SUFFICES ASSUME NEW c \in Captures PROVE cap[c].st \notin Under /\ cap[c].owner = "none"
    BY Zenon
  <2>1. Balanced(cap[c]) /\ FileOK(c) /\ cap[c].st \in Under \cup Over
    BY Zenon DEF QuotaInv, ArchiveInv, CapturesOK, CaptureOK, CaptureRecords
  <2>2. cap[c].st \notin Under
    BY <1>1, <2>1, Zenon DEF Balanced, FileOK
  <2> QED BY <2>1, <2>2, Zenon DEF Balanced
<1>3. Queued(i)' = 0
  <2> DEFINE u == Shares(cap', i)
  <2>1. i # "none"
    BY ArchiveAssumption, Zenon
  <2>2. \A c \in Captures : u[c] = 0
    BY <1>1, <1>2, <2>1, Zenon DEF Shares, Share
  <2>3. Queued(i)' = SumOver(u, Captures)
    BY QueuedIs, Zenon
  <2> HIDE DEF u
  <2> QED BY <2>2, <2>3, SumZero, FiniteCaptures, Zenon
<1>4. /\ Stored(file', {"gz"}) = Stored(file', {"tmp", "gz"})
      /\ Stored(file', {"tmp", "gz"}) \in Nat /\ Stored(file', {"tmp", "gz"}) <= MaxTotal
  <2>1. /\ Stored(file', {"gz"}) = Stored(file', {"tmp", "gz"})
        /\ Stored(file', {"tmp", "gz"}) <= Stored(file, {"tmp", "gz"})
        /\ Stored(file', {"tmp", "gz"}) \in Nat /\ Stored(file, {"tmp", "gz"}) \in Nat
    BY SweptCounts, Zenon DEF New, QuotaInv, ArchiveInv
  <2>2. Stored(file, {"tmp", "gz"}) <= MaxTotal
    BY Zenon DEF QuotaInv
  <2> QED BY <2>1, <2>2, Limits
<1>5. inst'[i].up /\ inst'[i].buffered = 0 /\ inst'[i].used = Stored(file', {"gz"})
  <2>1. inst \in [Instances -> Processes]
    BY Zenon DEF QuotaInv, ArchiveInv, Around, Processes
  <2>2. inst' = [inst EXCEPT ![i].up = TRUE, ![i].used = Stored(file', {"gz"}), ![i].buffered = 0]
    BY Zenon DEF New
  <2> QED BY <2>1, <2>2, Zenon DEF Processes
<1>6. ASSUME NEW c \in Captures PROVE FileOK(c)'
  <2>1. file'[c].kind # "tmp" /\ (file[c].kind = "none" => file'[c].kind = "none")
    BY Zenon DEF New, Swept, None
  <2>2. FileOK(c)
    BY Zenon DEF QuotaInv
  <2> QED BY <1>1, <1>2, <2>1, <2>2, Zenon DEF FileOK, Under
<1>7. inst'[i].buffered \in 0..BufferLimit /\ inst'[i].used \in 0..MaxTotal
  BY <1>4, <1>5, Limits
<1> QED BY <1>1, <1>3, <1>4, <1>5, <1>6, <1>7, Zenon DEF QuotaInv

LEMMA CrashCounts ==
  ASSUME Alone, QuotaInv, ArchiveInv', NEW i \in Instances, Crash(i)
  PROVE  QuotaInv'
<1> DEFINE lost == [Fresh EXCEPT !.st = "lost"]
<1>1. (\A j \in Instances : j = i) /\ file' = file
  BY Zenon DEF Alone, Crash
<1>2. cap' = [c \in Captures |-> IF cap[c].owner = i THEN lost ELSE cap[c]] /\ lost.st = "lost"
  BY Zenon DEF Crash, Fresh
<1> HIDE DEF lost
<1>3. ~inst'[i].up /\ inst'[i].buffered = inst[i].buffered /\ inst'[i].used = inst[i].used
  <2>1. inst \in [Instances -> Processes]
    BY Zenon DEF QuotaInv, ArchiveInv, Around, Processes
  <2>2. inst' = [inst EXCEPT ![i].up = FALSE, ![i].crashes = @ + 1]
    BY Zenon DEF Crash
  <2> QED BY <2>1, <2>2, Zenon DEF Processes
<1>4. ASSUME NEW c \in Captures PROVE FileOK(c)'
  <2>1. Balanced(cap[c]) /\ FileOK(c)
    BY Zenon DEF QuotaInv, ArchiveInv, CapturesOK, CaptureOK
  <2>2. CASE cap[c].owner = i
    BY <1>2, <1>3, <2>2, Zenon DEF FileOK, Under
  <2>3. CASE cap[c].owner # i
    BY <1>1, <1>2, <1>3, <2>1, <2>3, Zenon DEF FileOK, Balanced, Under
  <2> QED BY <2>2, <2>3, Zenon
<1> QED BY <1>1, <1>3, <1>4, Zenon DEF QuotaInv

LEMMA QuotaBegins == Alone /\ Init => QuotaInv
<1> SUFFICES ASSUME Alone, Init PROVE QuotaInv
  BY Zenon
<1>1. ArchiveInv
  BY ArchiveBegins, Zenon
<1>2. Stored(file, {"tmp", "gz"}) = 0
  <2> DEFINE u == Weights(file)
  <2>1. \A c \in Captures : u[c] = 0
    BY Zenon DEF Init, Weights, Weight, Kinds, None
  <2>2. Stored(file, {"tmp", "gz"}) = SumOver(u, Captures)
    BY StoredIs, Zenon
  <2> HIDE DEF u
  <2> QED BY <2>1, <2>2, SumZero, FiniteCaptures, Zenon
<1>3. ASSUME NEW i \in Instances PROVE Queued(i) = 0
  <2> DEFINE u == Shares(cap, i)
  <2>1. \A c \in Captures : u[c] = 0
    BY DEF Init, Shares, Share, Fresh
  <2>2. Queued(i) = SumOver(u, Captures)
    BY QueuedIs, Zenon
  <2> HIDE DEF u
  <2> QED BY <2>1, <2>2, SumZero, FiniteCaptures, Zenon
<1>4. \A i \in Instances : inst[i].buffered = 0 /\ inst[i].used = 0
  BY Zenon DEF Init
<1>5. \A c \in Captures : FileOK(c)
  BY Zenon DEF Init, FileOK, Fresh, None, Under
<1>6. 0 \in 0..BufferLimit /\ 0 \in 0..MaxTotal /\ 0 <= MaxTotal
  BY Limits
<1> QED BY <1>1, <1>2, <1>3, <1>4, <1>5, <1>6, Zenon DEF QuotaInv

LEMMA QuotaStep == Alone /\ QuotaInv /\ [Next]_vars => QuotaInv'
<1> SUFFICES ASSUME Alone, QuotaInv, [Next]_vars PROVE QuotaInv'
  BY Zenon
<1>0. ArchiveInv'
  BY ArchiveStep, Zenon DEF QuotaInv
<1>1. CASE UNCHANGED vars
  BY <1>0, <1>1, Uncounted, Zenon DEF vars
<1>2. CASE \E i \in Instances : New(i) \/ Crash(i) \/ \E c \in Captures : Begin(i, c)
  BY <1>0, <1>2, NewCounts, CrashCounts, BeginCounts, Zenon
<1>3. CASE \E c \in Captures : (\E n \in 1..MaxReceived : Write(c, n)) \/ writer(c)
  BY <1>0, <1>3, WriteCounts, ReserveCounts, SendCounts, FinishCounts, Zenon DEF writer
<1>4. CASE \E c \in Captures : run(c)
  BY <1>0, <1>4, CreateCounts, OpenCounts, CloseCounts, SettleCounts, DrainCounts, Zenon DEF run
<1>5. CASE \E c \in Captures : Age(c)
  BY <1>0, <1>5, Uncounted, Zenon DEF Age
<1>6. CASE \E i \in Instances, c \in Captures : purgeFile(i, c)
  <2>1. PICK i \in Instances, c \in Captures : purgeFile(i, c)
    BY <1>6, Zenon
  <2>2. CASE file[c].kind = "gz"
    <3>1. /\ c \in aged /\ inst[i].up /\ file[c].kind # "none" /\ Removed(i, c)
          /\ UNCHANGED <<cap, row, aged>>
      BY <2>1, <2>2, Zenon DEF purgeFile, Expired
    <3> QED BY <1>0, <3>1, RemovedCounts, Zenon
  <2>3. CASE file[c].kind # "gz"
    BY <1>0, <2>1, <2>3, Uncounted, Zenon DEF purgeFile
  <2> QED BY <2>2, <2>3, Zenon
<1>7. CASE \E i \in Instances, c \in Captures : sweep(i, c)
  <2>1. PICK i \in Instances, c \in Captures : sweep(i, c)
    BY <1>7, Zenon
  <2>2. /\ c \in aged /\ inst[i].up /\ file[c].kind # "none" /\ Removed(i, c)
        /\ UNCHANGED <<cap, row, aged>>
    BY <2>1, Zenon DEF sweep
  <2> QED BY <1>0, <2>2, RemovedCounts, Zenon
<1>8. CASE \E i \in Instances, ok \in BOOLEAN : purgeRow(i, ok)
  BY <1>0, <1>8, Uncounted, Zenon DEF purgeRow
<1> QED BY <1>1, <1>2, <1>3, <1>4, <1>5, <1>6, <1>7, <1>8, Zenon DEF Next

(* For one instance, any captures and any limits: in every order of        *)
(* writes, drains, failures, purges, stops and restarts the queue budget   *)
(* is what is queued, the quota is what the files take and never more than *)
(* its limit, and no temporary file is left behind (quotaWriter, run, New, *)
(* Purge).  Two instances over one directory count each their own.         *)
THEOREM QuotasAreExact ==
  ASSUME Alone
  PROVE  Spec => []QuotasExact
<1>1. QuotaInv => QuotasExact
  <2> SUFFICES ASSUME QuotaInv PROVE QuotasExact
    BY Zenon
  <2>1. TypeOK
    <3>1. ASSUME NEW c \in Captures
          PROVE  /\ cap[c].accepted \in 0..MaxBody /\ cap[c].queued \in 0..ChanCap
                 /\ cap[c].saved <= cap[c].accepted /\ cap[c].accepted <= cap[c].received
      <4>1. CaptureOK(cap[c])
        BY Live, Zenon
      <4>2. Counted(cap[c]) /\ Balanced(cap[c])
        BY <4>1, Counts, Zenon
      <4> QED BY <4>2, Limits DEF Counted, Balanced
    <3>2. ASSUME NEW c \in Captures
          PROVE  /\ row[c].st \in {"none", "saving", "complete", "partial", "omitted", "error"}
                 /\ file[c].kind \in {"none", "tmp", "gz"}
      <4>1. row[c] \in Rows /\ file[c] \in Files
        BY Zenon DEF QuotaInv, ArchiveInv, Around
      <4> QED BY <4>1, Zenon DEF Rows, Files
    <3>3. \A i \in Instances : inst[i].buffered \in 0..BufferLimit /\ inst[i].used \in 0..MaxTotal
      BY Zenon DEF QuotaInv
    <3> QED BY <3>1, <3>2, <3>3, Zenon DEF TypeOK
  <2>2. ASSUME NEW c \in Captures, file[c].kind = "tmp"
        PROVE  Running(c) \/ \E i \in Instances : ~inst[i].up
    <3>1. cap[c].st \in Under \cup Over /\ FileOK(c)
      BY Zenon DEF QuotaInv, ArchiveInv, CapturesOK, CaptureOK, CaptureRecords
    <3> QED BY <2>2, <3>1, Zenon DEF FileOK, Running, Under, Over
  <2> QED BY <2>1, <2>2, Zenon DEF QuotaInv, QuotasExact
<1> QED BY <1>1, QuotaBegins, QuotaStep, PTL DEF Spec
=============================================================================
