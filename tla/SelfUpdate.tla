----------------------------- MODULE SelfUpdate -----------------------------
(***************************************************************************)
(* The blue-green update (selfupdate/*.go, handler/system.go).  An         *)
(* instance that is asked to update pulls an image, recreates its peer     *)
(* container from it, waits for the peer's health, points the proxy at the *)
(* peer and stops itself.  Either instance may run the rollout, each       *)
(* Docker call may fail, a process may crash and be restarted by Docker,   *)
(* the proxy may restart and read its file again, and a request may reach  *)
(* an instance after the proxy has left it.                                *)
(*                                                                         *)
(* The containers, the proxy and Redis are external; they do what          *)
(* docker.go, rollout.go and compose.prod.yml ask of them.  Redis is a     *)
(* lock and a status.                                                      *)
(***************************************************************************)
EXTENDS Naturals, FiniteSets

CONSTANTS
  Versions,       \* image versions, which are their tags too
  NoVersion,      \* not a version: unknown
  NoColor,        \* not a color: nobody
  MaxUpdates,     \* bound: update requests
  MaxTroubles     \* bound: crashes and restarts

ASSUME UpdateAssumption ==
  NoVersion \notin Versions /\ NoColor \notin {"blue", "green"}
  /\ MaxUpdates \in Nat /\ MaxTroubles \in Nat

VARIABLES
  box,       \* containers by color: their state, image and incarnation
  roll,      \* the rollout an instance runs
  stopper,   \* instances whose goroutine is about to stop them: the incarnation
  posted,    \* update requests on their way
  lock,      \* selfupdate:lock: the instance that holds it
  status,    \* selfupdate:status: the phase
  caddyfile, proxy,  \* the upstream in the Caddyfile; the one the proxy uses
  saved,     \* state.json
  latest, checked,  \* the registry's latest tag; what an instance last saw of it
  updates, troubles,
  strayed,   \* history: an update began without traffic, or the proxy read a stale file
  broken     \* history: a rollout died, or its last phase was not published

updateVars == <<box, roll, stopper, posted, lock, status, caddyfile, proxy, saved, latest,
                checked, updates, troubles, strayed, broken>>

Colors == {"blue", "green"}
otherColor(c) == IF c = "blue" THEN "green" ELSE "blue"
Targets == Versions \cup {"latest", "previous"}

Idle == [at |-> "idle"]
Absent == [state |-> "absent", version |-> NoVersion, id |-> 0]
Alive(c) == box[c].state \in {"ready", "draining"}
Active == {"pulling", "creating", "waiting", "switching"}

(* compose.prod.yml: blue runs, the proxy points at it, and the check that *)
(* follows a start has run.                                                *)
UpdateInit ==
  /\ \E v \in Versions :
       /\ box = [c \in Colors |-> IF c = "blue" THEN [state |-> "ready", version |-> v, id |-> 1] ELSE Absent]
       /\ latest = v /\ checked = [c \in Colors |-> IF c = "blue" THEN v ELSE NoVersion]
  /\ roll = [c \in Colors |-> Idle] /\ stopper = [c \in Colors |-> 0]
  /\ posted = {} /\ lock = NoColor /\ status = "idle"
  /\ caddyfile = "blue" /\ proxy = "blue" /\ saved = [current |-> NoVersion, previous |-> NoVersion]
  /\ updates = 0 /\ troubles = 0 /\ strayed = FALSE /\ broken = FALSE

Outside == <<caddyfile, proxy, saved, latest, checked, updates, troubles>>
-----------------------------------------------------------------------------
\* An operator asks for an update; the proxy sends the request to an instance.
SystemUpdate(t) ==
  /\ updates < MaxUpdates /\ updates' = updates + 1
  /\ box[proxy].state = "ready"
  /\ posted' = posted \cup {[to |-> proxy, target |-> t, nth |-> updates]}
  /\ UNCHANGED <<box, roll, stopper, lock, status, caddyfile, proxy, saved, latest, checked, troubles, strayed, broken>>

(* StartUpdate: one rollout of an instance at a time (runMu).  A draining  *)
(* instance answers 503 and a dead one nothing.                            *)
StartUpdate(m) ==
  /\ m \in posted /\ posted' = posted \ {m}
  /\ LET c == m.to
         starts == box[c].state = "ready" /\ roll[c] = Idle
     IN  /\ roll' = [roll EXCEPT ![c] = IF starts THEN [at |-> "lock", target |-> m.target] ELSE @]
         /\ strayed' = (strayed \/ (starts /\ c # proxy))
  /\ UNCHANGED <<box, stopper, lock, status, broken>> /\ UNCHANGED Outside

\* setPhase: the phase is published, unless Redis does not take it.
setPhase(phase) ==
  \/ status' = phase /\ UNCHANGED broken
  \/ UNCHANGED status /\ broken' = (broken \/ phase \notin Active)

\* The goroutine ends: the lock is released if it is this instance's.
RolloutEnds(c) ==
  /\ roll' = [roll EXCEPT ![c] = Idle]
  /\ lock' = IF lock = c THEN NoColor ELSE lock

fail(c) == setPhase("failed") /\ RolloutEnds(c)

\* acquireLock: SetNX; when Redis does not answer the local lock must do.
AcquireLock(c) ==
  /\ roll[c].at = "lock"
  /\ \/ /\ lock = NoColor /\ lock' = c
        /\ roll' = [roll EXCEPT ![c].at = "resolve"] /\ UNCHANGED <<status, broken>>
     \/ lock # NoColor /\ fail(c)
     \/ roll' = [roll EXCEPT ![c].at = "resolve"] /\ UNCHANGED <<lock, status, broken>>
  /\ UNCHANGED <<box, stopper, posted, strayed>> /\ UNCHANGED Outside

(* run, first part: what is to be pulled and which version the peer must   *)
(* report.  "latest" is not strict: the check may be old.                  *)
Resolved(c, t) ==
  CASE t = "latest" -> [tag |-> "latest", expected |-> checked[c], strict |-> FALSE]
    [] t = "previous" -> [tag |-> saved.previous, expected |-> saved.previous, strict |-> TRUE]
    [] OTHER -> [tag |-> t, expected |-> t, strict |-> TRUE]

Resolve(c) ==
  LET r == Resolved(c, roll[c].target)
  IN  /\ roll[c].at = "resolve"
      /\ \/ fail(c)
         \/ /\ r.tag # NoVersion
            /\ roll' = [roll EXCEPT ![c] = [at |-> "pull", tag |-> r.tag, expected |-> r.expected, strict |-> r.strict]]
            /\ setPhase("pulling") /\ UNCHANGED lock
      /\ UNCHANGED <<box, stopper, posted, strayed>> /\ UNCHANGED Outside

Pull(c) ==
  /\ roll[c].at = "pull"
  /\ \/ fail(c)
     \/ /\ roll' = [roll EXCEPT ![c] = [at |-> "remove", expected |-> @.expected, strict |-> @.strict, tag |-> @.tag,
                                        image |-> IF @.tag = "latest" THEN latest ELSE @.tag]]
        /\ setPhase("creating") /\ UNCHANGED lock
  /\ UNCHANGED <<box, stopper, posted, strayed>> /\ UNCHANGED Outside

(* removeContainer with force: the peer's process dies with what it was    *)
(* doing.  A failure is logged and the rollout goes on.                    *)
Gone(c) ==
  /\ box' = [box EXCEPT ![c] = [Absent EXCEPT !.id = box[c].id]]
  /\ stopper' = [stopper EXCEPT ![c] = 0]

RemovePeer(c) ==
  LET p == otherColor(c)
  IN  /\ roll[c].at = "remove"
      /\ \/ Gone(p) /\ roll' = [roll EXCEPT ![c].at = "create", ![p] = Idle]
            /\ broken' = (broken \/ roll[p] # Idle)
         \/ roll' = [roll EXCEPT ![c].at = "create"] /\ UNCHANGED <<box, stopper, broken>>
      /\ UNCHANGED <<posted, lock, status, strayed, caddyfile, proxy, saved, latest, checked, updates, troubles>>

\* Mutant: the error of the create call is returned without a phase.
CreatePeer_Silent(c) ==
  LET p == otherColor(c)
  IN  /\ roll[c].at = "create"
      /\ \/ RolloutEnds(c) /\ UNCHANGED <<box, status, broken>>
         \/ /\ box[p].state = "absent"
            /\ box' = [box EXCEPT ![p] = [state |-> "created", version |-> roll[c].image, id |-> @.id + 1]]
            /\ roll' = [roll EXCEPT ![c].at = "start"] /\ UNCHANGED <<lock, status, broken>>
      /\ UNCHANGED <<stopper, posted, strayed>> /\ UNCHANGED Outside

\* createContainer: the name must be free.
CreatePeer(c) ==
  LET p == otherColor(c)
  IN  /\ roll[c].at = "create"
      /\ \/ fail(c) /\ UNCHANGED box
         \/ /\ box[p].state = "absent"
            /\ box' = [box EXCEPT ![p] = [state |-> "created", version |-> roll[c].image, id |-> @.id + 1]]
            /\ roll' = [roll EXCEPT ![c].at = "start"] /\ UNCHANGED <<lock, status, broken>>
      /\ UNCHANGED <<stopper, posted, strayed>> /\ UNCHANGED Outside

StartPeer(c) ==
  LET p == otherColor(c)
  IN  /\ roll[c].at = "start"
      /\ \/ /\ setPhase("failed")
            /\ roll' = [roll EXCEPT ![c] = [at |-> "discard"]] /\ UNCHANGED box
         \/ /\ box' = [box EXCEPT ![p].state = IF @ = "created" THEN "booting" ELSE @]
            /\ roll' = [roll EXCEPT ![c].at = "wait"] /\ setPhase("waiting")
      /\ UNCHANGED <<stopper, posted, lock, strayed>> /\ UNCHANGED Outside

PeerReady(c) ==
  LET p == otherColor(c)
  IN  box[p].state = "ready" /\ (roll[c].strict /\ roll[c].expected # NoVersion => box[p].version = roll[c].expected)

\* Mutant: a peer that does not get ready in time is switched to all the same.
WaitPeer_Impatient(c) ==
  /\ roll[c].at = "wait"
  /\ roll' = [roll EXCEPT ![c].at = "rewrite"] /\ setPhase("switching")
  /\ UNCHANGED <<box, stopper, posted, lock, strayed>> /\ UNCHANGED Outside

(* waitPeer: until the peer reports ready, or the time is over: then the   *)
(* new container is stopped and removed.                                   *)
WaitPeer(c) ==
  /\ roll[c].at = "wait"
  /\ \/ PeerReady(c) /\ roll' = [roll EXCEPT ![c].at = "rewrite"] /\ setPhase("switching")
     \/ /\ setPhase("failed")
        /\ roll' = [roll EXCEPT ![c] = [at |-> "discard"]]
  /\ UNCHANGED <<box, stopper, posted, lock, strayed>> /\ UNCHANGED Outside

\* The container of a failed rollout is removed, or stays when that fails.
DiscardPeer(c) ==
  LET p == otherColor(c)
  IN  /\ roll[c].at = "discard"
      /\ lock' = IF lock = c THEN NoColor ELSE lock
      /\ \/ Gone(p) /\ roll' = [roll EXCEPT ![c] = Idle, ![p] = Idle] /\ broken' = (broken \/ roll[p] # Idle)
         \/ roll' = [roll EXCEPT ![c] = Idle] /\ UNCHANGED <<box, stopper, broken>>
      /\ UNCHANGED <<posted, status, strayed, caddyfile, proxy, saved, latest, checked, updates, troubles>>

\* rewriteCaddyfile: both names become the peer's.  A failure leaves the peer running.
RewriteCaddyfile(c) ==
  /\ roll[c].at = "rewrite"
  /\ \/ fail(c) /\ UNCHANGED caddyfile
     \/ caddyfile' = otherColor(c) /\ roll' = [roll EXCEPT ![c].at = "reload"] /\ UNCHANGED <<lock, status, broken>>
  /\ UNCHANGED <<box, stopper, posted, strayed, proxy, saved, latest, checked, updates, troubles>>

(* caddy reload in the proxy's container.  The answer may be lost after    *)
(* the proxy has taken the file.                                           *)
ReloadCaddy(c) ==
  /\ roll[c].at = "reload"
  /\ \/ fail(c) /\ proxy' \in {proxy, caddyfile}
     \/ proxy' = caddyfile /\ roll' = [roll EXCEPT ![c].at = "save"] /\ UNCHANGED <<lock, status, broken>>
  /\ UNCHANGED <<box, stopper, posted, strayed, caddyfile, saved, latest, checked, updates, troubles>>

\* saveState, which may fail, and the phase "done"; a goroutine will stop this container.
SaveState(c) ==
  /\ roll[c].at = "save"
  /\ \/ saved' = [current |-> IF roll[c].expected # NoVersion THEN roll[c].expected
                              ELSE IF roll[c].tag = "latest" THEN NoVersion ELSE roll[c].tag,
                  previous |-> box[c].version]
     \/ UNCHANGED saved
  /\ setPhase("done") /\ RolloutEnds(c)
  /\ stopper' = [stopper EXCEPT ![c] = box[c].id]
  /\ UNCHANGED <<box, posted, strayed, caddyfile, proxy, latest, checked, updates, troubles>>

(* stopContainer of the own container id, three times at most.  SIGTERM    *)
(* starts the drain of cmd/server; when Docker refuses the instance stays. *)
StopSelf(c) ==
  /\ stopper[c] # 0 /\ stopper' = [stopper EXCEPT ![c] = 0]
  /\ \/ box' = [box EXCEPT ![c].state = IF @ = "ready" /\ box[c].id = stopper[c] THEN "draining" ELSE @]
     \/ UNCHANGED box
  /\ UNCHANGED <<roll, posted, lock, status, strayed, broken>> /\ UNCHANGED Outside

Dies(c, state) ==
  /\ box' = [box EXCEPT ![c].state = state]
  /\ roll' = [roll EXCEPT ![c] = Idle] /\ stopper' = [stopper EXCEPT ![c] = 0]
  /\ broken' = (broken \/ roll[c] # Idle)

\* The requests are drained, or the grace period is over.
Drained(c) ==
  /\ box[c].state = "draining" /\ Dies(c, "stopped")
  /\ UNCHANGED <<posted, lock, status, strayed, caddyfile, proxy, saved, latest, checked, updates, troubles>>

\* An instance answers /health: after its start, or after Docker restarted it.
Boot(c) ==
  /\ box[c].state \in {"booting", "restarting"}
  /\ box' = [box EXCEPT ![c].state = "ready"] /\ checked' = [checked EXCEPT ![c] = NoVersion]
  /\ UNCHANGED <<roll, stopper, posted, lock, status, strayed, caddyfile, proxy, saved, latest, updates, troubles, broken>>

InstanceCrash(c) ==
  /\ troubles < MaxTroubles /\ troubles' = troubles + 1
  /\ Alive(c) /\ Dies(c, IF box[c].state = "ready" THEN "restarting" ELSE "stopped")
  /\ UNCHANGED <<posted, lock, status, strayed, caddyfile, proxy, saved, latest, checked, updates>>

\* The proxy's container is restarted and reads the Caddyfile.
ProxyRestarts ==
  /\ troubles < MaxTroubles /\ troubles' = troubles + 1
  /\ proxy' = caddyfile /\ strayed' = (strayed \/ caddyfile # proxy)
  /\ UNCHANGED <<box, roll, stopper, posted, lock, status, caddyfile, saved, latest, checked, updates, broken>>

\* The lock's fifteen minutes outlast the rollout's.
LockExpires ==
  /\ lock # NoColor /\ roll[lock] = Idle /\ lock' = NoColor
  /\ UNCHANGED <<box, roll, stopper, posted, status, strayed, broken>> /\ UNCHANGED Outside

\* CheckNow: hourly, or at an operator's wish; the version label may be missing.
CheckNow(c) ==
  /\ box[c].state = "ready" /\ checked' = [checked EXCEPT ![c] = latest]
  /\ UNCHANGED <<box, roll, stopper, posted, lock, status, strayed, caddyfile, proxy, saved, latest, updates, troubles, broken>>

\* A release is published.
Publish(v) ==
  /\ troubles < MaxTroubles /\ troubles' = troubles + 1 /\ latest' = v
  /\ UNCHANGED <<box, roll, stopper, posted, lock, status, strayed, caddyfile, proxy, saved, checked, updates, broken>>

UpdateStep(c) ==
  \/ AcquireLock(c) \/ Resolve(c) \/ Pull(c) \/ RemovePeer(c) \/ CreatePeer(c) \/ StartPeer(c)
  \/ WaitPeer(c) \/ DiscardPeer(c) \/ RewriteCaddyfile(c) \/ ReloadCaddy(c) \/ SaveState(c)

UpdateNext ==
  \/ \E t \in Targets : SystemUpdate(t)
  \/ \E m \in posted : StartUpdate(m)
  \/ \E c \in Colors : UpdateStep(c) \/ StopSelf(c) \/ Drained(c) \/ Boot(c) \/ InstanceCrash(c) \/ CheckNow(c)
  \/ ProxyRestarts \/ LockExpires
  \/ \E v \in Versions : Publish(v)

(* Every step of run has a timeout.                                        *)
UpdateFairness ==
  \A c \in Colors : WF_updateVars(UpdateStep(c)) /\ WF_updateVars(StopSelf(c))

UpdateSpec == UpdateInit /\ [][UpdateNext]_updateVars /\ UpdateFairness
-----------------------------------------------------------------------------
(* The proxy points at an instance that answered /health and that no       *)
(* rollout has removed, stopped or told to drain: whatever fails, a        *)
(* rollout takes nothing away before its successor has the traffic         *)
(* (deploy/PRODUCTION-UPGRADE.md: a container that is not ready gets no    *)
(* traffic).  Two cases are excepted, in which an instance without traffic *)
(* rolls out: the request reached it late, or the proxy restarted on a     *)
(* file whose reload had failed.                                           *)
ActiveServes == strayed \/ box[proxy].state \in {"ready", "restarting"}

(* The status that the console polls ends in done or failed, whichever     *)
(* step fails and although another instance answers the poll, unless the   *)
(* instance that rolls out dies or Redis does not take the last phase.     *)
UpdateSettles == status \in Active ~> (status \notin Active \/ broken)
=============================================================================
