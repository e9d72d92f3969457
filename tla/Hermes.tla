------------------------------- MODULE Hermes -------------------------------
(***************************************************************************)
(* services/hermes: the container of one Hermes agent.  Turns of lab       *)
(* runners, requests of the operator and the scheduler's reconcile all     *)
(* make sure that it runs; the scheduler reads the output of its cron jobs *)
(* and posts it.  An agent has a container and locks of its own, so one is *)
(* enough.  Actions of Docker and of the container are external.           *)
(***************************************************************************)
EXTENDS Naturals, Sequences, FiniteSets

CONSTANTS
  Client,     \* turns (of lab runners and crons) and requests at a time
  Bg,         \* background tasks of the scheduler at a time
  None,       \* "no cursor yet"
  MaxOut,     \* bound: outputs the cron jobs write
  MaxFaults   \* bound: Docker errors, deaths of the container, crashes

ASSUME HermesAssumption ==
  /\ Client \cap Bg = {}
  /\ MaxOut \in Nat
  /\ MaxFaults \in Nat
  /\ None \notin Nat

Actor == Client \cup Bg

VARIABLES
  container,    \* what Docker has under the agent's name
  outs,         \* outputs the jobs have written, numbered in order of mtime
  flag,         \* hermes_activated in the database
  phase,        \* the API process: starting (cleanup due), or serving
  pc,           \* where each turn or request and each background task is
  ensureLock,   \* _ensure_locks of the agent: the holder, then the waiters
  runLock,      \* _run_locks of the agent, likewise
  ensuring,     \* the agent is in _hermes_ensuring
  sched,        \* where the scheduler's pass is
  cursor,       \* _hermes_cron_cursors of the agent
  posted,       \* outputs this process has posted in the lab's feed
  faults

docker  == <<container, outs>>
locks   == <<ensureLock, runLock, ensuring>>
polling == <<sched, cursor, posted>>
vars == <<docker, flag, phase, pc, locks, polling, faults>>

(***************************************************************************)
(*   want      waiting for the ensure lock, or about to look               *)
(*   start, create, health   inside it                                     *)
(*   queue     a turn that waits for the run lock                          *)
(*   running   its task is with the container                              *)
(*   stop, remove   about to stop or remove the container                  *)
(*   spawned   a background task that has not run yet                      *)
(***************************************************************************)
InEnsure == {"want", "start", "create", "health"}
Place == InEnsure \cup {"idle", "queue", "running", "stop", "remove", "spawned"}

HermesTypeOK ==
  /\ container \in {"absent", "stopped", "booting", "up"}
  /\ outs \in 0..MaxOut
  /\ flag \in BOOLEAN
  /\ phase \in {"starting", "serving"}
  /\ pc \in [Actor -> Place]
  /\ ensureLock \in Seq(Actor)
  /\ runLock \in Seq(Client)
  /\ ensuring \in BOOLEAN
  /\ sched \in {"sleep", "status"}
  /\ cursor \in 0..MaxOut \cup {None}
  /\ posted \subseteq 1..MaxOut
  /\ faults \in 0..MaxFaults

(* what a process starts with *)
Memory(p, el, rl, e, sc, c, po) ==
  /\ p = [a \in Actor |-> "idle"]
  /\ el = <<>> /\ rl = <<>>
  /\ e = FALSE
  /\ sc = "sleep"
  /\ c = None
  /\ po = {}

HermesInit ==
  /\ container = "absent" /\ outs = 0
  /\ flag = FALSE
  /\ phase = "serving"
  /\ faults = 0
  /\ Memory(pc, ensureLock, runLock, ensuring, sched, cursor, posted)

Exists  == container # "absent"
Running == container \in {"booting", "up"}
Goto(a, where) == pc' = [pc EXCEPT ![a] = where]
Fault == faults < MaxFaults /\ faults' = faults + 1

-----------------------------------------------------------------------------
(* ensure_hermes() *)

Holds(a) == ensureLock # <<>> /\ Head(ensureLock) = a

EnsureBegin(a) ==
  /\ Goto(a, "want")
  /\ ensureLock' = Append(ensureLock, a)

(* It raises: the lock is released and the caller gives up.               *)
EnsureRaises(a) ==
  /\ ensureLock' = Tail(ensureLock)
  /\ Goto(a, "idle")
  /\ ensuring' = IF a \in Bg THEN FALSE ELSE ensuring
  /\ UNCHANGED <<runLock, flag>>

(* It returns: a turn goes on to the run lock, an activation sets the flag *)
(* (a commit may fail).                                                    *)
EnsureReturns(a) ==
  /\ ensureLock' = Tail(ensureLock)
  /\ \/ /\ a \in Client
        /\ Goto(a, "queue")
        /\ runLock' = Append(runLock, a)
        /\ UNCHANGED <<ensuring, flag>>
     \/ /\ a \in Client
        /\ Goto(a, "idle")
        /\ flag' \in {flag, TRUE}
        /\ UNCHANGED <<runLock, ensuring>>
     \/ /\ a \in Bg
        /\ Goto(a, "idle")
        /\ ensuring' = FALSE
        /\ UNCHANGED <<runLock, flag>>

(* mutated form of Look: the get-or-create is not serialized *)
LookUnlocked(a) ==
  /\ pc[a] = "want"
  /\ Exists => ~Running
  /\ Goto(a, IF Exists THEN "start" ELSE "create")
  /\ UNCHANGED <<docker, flag, phase, locks, polling, faults>>

Look(a) ==
  /\ pc[a] = "want"
  /\ Holds(a)
  /\ Exists => ~Running
  /\ Goto(a, IF Exists THEN "start" ELSE "create")
  /\ UNCHANGED <<docker, flag, phase, locks, polling, faults>>

(* It runs already, healthy or not. *)
LookRunning(a) ==
  /\ pc[a] = "want"
  /\ Holds(a)
  /\ Running
  /\ EnsureReturns(a)
  /\ UNCHANGED <<docker, phase, polling, faults>>

(* The container may have been removed since it was looked at: NotFound.   *)
Start(a) ==
  /\ pc[a] = "start"
  /\ Goto(a, IF Exists THEN "health" ELSE "create")
  /\ container' = IF container = "stopped" THEN "booting" ELSE container
  /\ UNCHANGED <<outs, flag, phase, locks, polling, faults>>

(* containers.run(); when the name is taken, the container that has it     *)
Create(a) ==
  /\ pc[a] = "create"
  /\ Goto(a, "health")
  /\ container' = IF Running THEN container ELSE "booting"
  /\ UNCHANGED <<outs, flag, phase, locks, polling, faults>>

(* _wait_healthy() *)
Healthy(a) ==
  /\ pc[a] = "health"
  /\ container = "up"
  /\ EnsureReturns(a)
  /\ UNCHANGED <<docker, phase, polling, faults>>

(* mutated form of Unhealthy: the lock is released on success only *)
UnhealthyKeepsLock(a) ==
  /\ pc[a] = "health"
  /\ container # "up"
  /\ Goto(a, "idle")
  /\ ensuring' = IF a \in Bg THEN FALSE ELSE ensuring
  /\ UNCHANGED <<docker, flag, phase, ensureLock, runLock, polling,
                 faults>>

(* mutated form of Unhealthy: a failure leaves the key in _hermes_ensuring *)
UnhealthyKeepsKey(a) ==
  /\ pc[a] = "health"
  /\ container # "up"
  /\ Goto(a, "idle")
  /\ ensureLock' = Tail(ensureLock)
  /\ UNCHANGED <<docker, flag, phase, runLock, ensuring, polling, faults>>

(* 90 seconds without an answer *)
Unhealthy(a) ==
  /\ pc[a] = "health"
  /\ container # "up"
  /\ EnsureRaises(a)
  /\ UNCHANGED <<docker, phase, polling, faults>>

(* any other error of Docker *)
DockerFails(a) ==
  /\ pc[a] \in {"want", "start", "create"}
  /\ Holds(a)
  /\ Fault
  /\ EnsureRaises(a)
  /\ UNCHANGED <<docker, phase, polling>>

EnsureStep(a) ==
  \/ Look(a) \/ LookRunning(a) \/ Start(a) \/ Create(a)
  \/ Healthy(a) \/ Unhealthy(a) \/ DockerFails(a)

-----------------------------------------------------------------------------
(* execute_hermes_turn() *)

Arrives(c) ==
  /\ pc[c] = "idle"
  /\ phase = "serving"
  /\ UNCHANGED <<docker, phase, runLock, ensuring, polling, faults>>

(* a turn, or a request to activate: both begin with ensure_hermes()       *)
NeedsContainer(c) ==
  /\ Arrives(c)
  /\ EnsureBegin(c)
  /\ UNCHANGED flag

HoldsRun(t) == runLock # <<>> /\ Head(runLock) = t

(* mutated form of TurnRuns: turns are not serialized *)
TurnRunsUnlocked(t) ==
  /\ pc[t] = "queue"
  /\ container = "up"
  /\ Goto(t, "running")
  /\ UNCHANGED <<docker, flag, phase, locks, polling, faults>>

TurnRuns(t) ==
  /\ pc[t] = "queue"
  /\ HoldsRun(t)
  /\ container = "up"
  /\ Goto(t, "running")
  /\ UNCHANGED <<docker, flag, phase, locks, polling, faults>>

(* mutated form of TurnBreaks: the run lock is kept *)
TurnBreaksKeepsLock(t) ==
  /\ \/ pc[t] = "queue" /\ HoldsRun(t) /\ container # "up"
     \/ pc[t] = "running"
  /\ Goto(t, "idle")
  /\ UNCHANGED <<docker, flag, phase, locks, polling, faults>>

(* The adapter cannot be reached, fails, or does not answer in time.       *)
TurnBreaks(t) ==
  /\ \/ pc[t] = "queue" /\ HoldsRun(t) /\ container # "up"
     \/ pc[t] = "running"
  /\ Goto(t, "idle")
  /\ runLock' = Tail(runLock)
  /\ UNCHANGED <<docker, flag, phase, ensureLock, ensuring, polling,
                 faults>>

(* The answer says whether the agent has cron jobs.  hermes_activated is   *)
(* written when that differs from the value the session loaded, which may  *)
(* be older than the one in the database; the commit may fail.             *)
TurnAnswers(t) ==
  /\ pc[t] = "running"
  /\ container = "up"
  /\ Goto(t, "idle")
  /\ runLock' = Tail(runLock)
  /\ flag' \in BOOLEAN
  /\ UNCHANGED <<docker, phase, ensureLock, ensuring, polling, faults>>

TurnStep(t) == TurnRuns(t) \/ TurnBreaks(t) \/ TurnAnswers(t)

-----------------------------------------------------------------------------
(* api/routes/hermes.py *)

(* The flag is cleared first, when the session loaded TRUE and the commit  *)
(* does not fail; then the container is stopped.                           *)
Deactivate(c) ==
  /\ Arrives(c)
  /\ Goto(c, "stop")
  /\ flag' \in {flag, FALSE}
  /\ UNCHANGED ensureLock

Remove(c) ==
  /\ Arrives(c)
  /\ Goto(c, "remove")
  /\ UNCHANGED <<flag, ensureLock>>

(* stop_hermes() and destroy_hermes() take no lock, and look first: what   *)
(* they saw may be older than what is there.                               *)
Stop(c) ==
  /\ pc[c] = "stop"
  /\ container' \in {container, IF Running THEN "stopped" ELSE container}
  /\ Goto(c, "idle")
  /\ UNCHANGED <<outs, flag, phase, locks, polling, faults>>

RemoveFound(c) ==
  /\ pc[c] = "remove"
  /\ container' \in {container, "absent"}
  /\ Goto(c, "idle")
  /\ UNCHANGED <<outs, flag, phase, locks, polling, faults>>

-----------------------------------------------------------------------------
(* _check_hermes_cron() and _safe_ensure_hermes() *)

(* The agent is in the answer of the query.                                *)
PassReads ==
  /\ sched = "sleep"
  /\ flag
  /\ sched' = "status"
  /\ UNCHANGED <<docker, flag, phase, pc, locks, cursor, posted,
                 faults>>

(* Down, unhealthy, or without an answer: a task in the background.        *)
StatusDown(b) ==
  /\ sched = "status"
  /\ pc[b] = "idle"
  /\ sched' = "sleep"
  /\ Goto(b, "spawned")
  /\ UNCHANGED <<docker, flag, phase, locks, cursor, posted, faults>>

SafeEnsure(b) ==
  /\ pc[b] = "spawned"
  /\ IF ensuring
       THEN Goto(b, "idle") /\ UNCHANGED ensureLock
       ELSE EnsureBegin(b)
  /\ ensuring' = TRUE
  /\ UNCHANGED <<docker, flag, phase, runLock, polling, faults>>

(* Running and healthy: it is ticked and asked for the output since the    *)
(* cursor, 0.0 when there is none.                                         *)
Polls(after) ==
  /\ sched = "status"
  /\ container = "up"
  /\ sched' = "sleep"
  /\ cursor' = after
  /\ UNCHANGED <<docker, flag, phase, pc, locks, faults>>

Since == IF cursor = None THEN 0 ELSE cursor

(* mutated form of PollFails: without an answer it begins again *)
PollFailsResets == Polls(0) /\ UNCHANGED posted

(* cron_output() fails: it echoes the cursor it was given.                 *)
PollFails == Polls(Since) /\ UNCHANGED posted

(* mutated form of FirstSight: the clock is ahead of the files *)
FirstSightAhead == cursor = None /\ Polls(outs + 1) /\ UNCHANGED posted

(* At first sight the history is skipped.                                  *)
FirstSight == cursor = None /\ Polls(outs) /\ UNCHANGED posted

(* What is new is posted in the feed, except what cannot be posted or has  *)
(* been written between the listing and the reading of the clock.          *)
PollPosts ==
  /\ cursor # None
  /\ Polls(outs)
  /\ \E new \in SUBSET {o \in 1..outs : o > cursor} : posted' = posted \cup new

SchedulerStep ==
  \/ PassReads \/ \E b \in Bg : StatusDown(b)
  \/ PollFails \/ FirstSight \/ PollPosts

-----------------------------------------------------------------------------
(* The container, and the API process *)

(* the adapter answers /health *)
Boots ==
  /\ container = "booting"
  /\ container' = "up"
  /\ UNCHANGED <<outs, flag, phase, pc, locks, polling, faults>>

Dies ==
  /\ Running
  /\ Fault
  /\ container' = "stopped"
  /\ UNCHANGED <<outs, flag, phase, pc, locks, polling>>

JobWrites ==
  /\ container = "up"
  /\ outs < MaxOut
  /\ outs' = outs + 1
  /\ UNCHANGED <<container, flag, phase, pc, locks, polling, faults>>

(* Only Docker and the database survive a crash. *)
Crash ==
  /\ phase = "serving"
  /\ Fault
  /\ phase' = "starting"
  /\ Memory(pc', ensureLock', runLock', ensuring', sched', cursor', posted')
  /\ UNCHANGED <<docker, flag>>

(* cleanup_hermes_containers(), or nothing when Docker does not answer.    *)
(* The scheduler may be past its first sleep already.                      *)
Cleanup ==
  /\ phase = "starting"
  /\ phase' = "serving"
  /\ container' \in {container, "absent"}
  /\ UNCHANGED <<outs, flag, pc, locks, polling, faults>>

ActorStep(a) ==
  \/ EnsureStep(a)
  \/ a \in Client /\ (TurnStep(a) \/ Stop(a) \/ RemoveFound(a))
  \/ a \in Bg /\ SafeEnsure(a)

HermesNext ==
  \/ \E a \in Actor : ActorStep(a)
  \/ \E c \in Client : NeedsContainer(c) \/ Deactivate(c) \/ Remove(c)
  \/ SchedulerStep
  \/ Boots \/ Dies \/ JobWrites \/ Crash \/ Cleanup

(* The event loop runs what is ready, the scheduler passes again and again,*)
(* every wait has a timeout, and a container that is left alone boots.     *)
HermesFairness ==
  /\ \A a \in Actor : WF_vars(ActorStep(a))
  /\ WF_vars(SchedulerStep)
  /\ WF_vars(Boots)

HermesSpec == HermesInit /\ [][HermesNext]_vars
FairHermesSpec == HermesSpec /\ HermesFairness

-----------------------------------------------------------------------------
(* Properties *)

(* "two concurrent tasks ensuring the same container would both see        *)
(* NotFound and both call containers.run()": whoever is about to create    *)
(* the container finds its name free, whatever is stopped, removed or      *)
(* cleaned up meanwhile.                                                   *)
NameIsFree == \A a \in Actor : pc[a] = "create" => ~Exists

(* "Hermes is a single-loop agent": turns of several labs queue.           *)
OneTurnAtATime == \A t, u \in Client : pc[t] = "running" /\ pc[u] = "running" => t = u

(* _hermes_ensuring has the key exactly while one background task restarts *)
(* the container: polls do not pile up, and no failure leaves the key      *)
(* behind, which would keep the container down for good.                   *)
EnsuringExact ==
  /\ ensuring <=> \E b \in Bg : pc[b] \in InEnsure
  /\ \A b, c \in Bg : pc[b] \in InEnsure /\ pc[c] \in InEnsure => b = c

(* No output is posted twice by a process: what has been posted is behind  *)
(* the cursor, whatever polls fail.                                        *)
PostedOnce == \A o \in posted : cursor # None /\ o <= cursor

(* An agent that stays activated has its container up in the end, after    *)
(* crashes of either side, restarts that fail and containers that are      *)
(* stopped or removed, unless someone goes on stopping it.                 *)
KeptUp ==
  <>[](flag /\ \A c \in Client : pc[c] \notin {"stop", "remove"})
    => <>[](container = "up")

(* Every turn and every request ends, with a result or an error.           *)
TurnsEnd == \A c \in Client : pc[c] # "idle" ~> pc[c] = "idle"

=============================================================================
