---------------------------- MODULE LabSpawners -----------------------------
(***************************************************************************)
(* The callers that start a LabRunner without reserve_runner(): the lab    *)
(* cron and the cron jobs of services/lab_scheduler.py, and the agent      *)
(* instance routes of api/routes/library_agents.py.  They are added here   *)
(* to the routes of LabLifecycle, on the same lab (an instance is a lab,   *)
(* and the lab routes accept it).                                          *)
(*                                                                         *)
(* When a runner is in memory an instance route calls the same method of   *)
(* it as the lab route does; only what it does without one is added.       *)
(***************************************************************************)
EXTENDS LabLifecycle

CONSTANTS
  Inst,        \* instance requests in flight at the same time
  InstKinds,   \* the instance routes they may call
  LabCron,     \* has the lab a cron expression?
  CronJobs,    \* has it cron jobs that inject into the orchestrator?
  CronAgents   \* has it an agent with a cron expression?

ASSUME SpawnersAssumption ==
  /\ InstKinds \subseteq {"run", "resume", "stop", "inject"}
  /\ LabCron \in BOOLEAN
  /\ CronJobs \in BOOLEAN
  /\ CronAgents \in BOOLEAN

VARIABLES
  sched,   \* the scheduler task: where it is and the status it read
  inst     \* the instance requests: where, which route, the status read

spawnVars == <<vars, sched, inst>>

Sleeping == [at |-> "asleep", snap |-> "created"]
NoInst   == [at |-> "idle", kind |-> "run", snap |-> "created"]

SpawnTypeOK ==
  /\ TypeOK
  /\ sched \in [at : {"boot", "recover", "unstick", "asleep", "tick", "jobs",
                      "job", "wake"},
                snap : Status]
  /\ inst \in [Inst -> [at : {"idle", "check", "prep", "spawn"},
                        kind : {"run", "resume", "stop", "inject"},
                        snap : Status]]

SpawnInit ==
  /\ Init
  /\ sched = [at |-> "boot", snap |-> "created"]
  /\ inst = [i \in Inst |-> NoInst]

(* LabRunner(lab.id, ...) handed to a task at once: nothing is reserved. *)
Spawn ==
  /\ \E r \in Runner : Fresh(r) /\ NewRunner(r, "queued")
  /\ UNCHANGED <<registry, reserved>>

-----------------------------------------------------------------------------
(* The scheduler: one recovery after a restart, then a tick every 30 s.    *)

SchedAt(where, next) ==
  sched.at = where /\ sched' = [at |-> next, snap |-> "created"]

(* SELECT ... WHERE status = 'running' *)
RecoverRead ==
  /\ up
  /\ SchedAt("boot", IF status = "running" THEN "recover" ELSE "asleep")
  /\ UNCHANGED <<vars, inst>>

RecoverCheck ==
  /\ SchedAt("recover", IF registry = NoRunner THEN "unstick" ELSE "asleep")
  /\ UNCHANGED <<vars, inst>>

(* mutated form of RecoverWrite: a lab with cron agents is left alone *)
RecoverWriteSkips ==
  /\ SchedAt("unstick", "asleep")
  /\ status' = IF CronAgents THEN status ELSE "failed"
  /\ UNCHANGED <<up, runnerVars, req, inst>>

RecoverWrite ==
  /\ SchedAt("unstick", "asleep")
  /\ status' = IF CronAgents THEN "paused" ELSE "failed"
  /\ UNCHANGED <<up, runnerVars, req, inst>>

(* _check_lab_crons selects the labs that are not running. *)
TickRead ==
  /\ up
  /\ sched.at = "asleep"
  /\ sched' = [at |-> "tick", snap |-> status]
  /\ UNCHANGED <<vars, inst>>

(* The cron is due: next_run_at is committed, then the runner starts. *)
LabCronFires ==
  /\ LabCron
  /\ SchedAt("tick", "jobs")
  /\ sched.snap # "running"
  /\ Spawn
  /\ UNCHANGED <<up, status, req, inst>>

LabCronNotDue ==
  /\ SchedAt("tick", "jobs")
  /\ UNCHANGED <<vars, inst>>

(* _check_lab_cron_jobs reads the labs again. *)
JobsRead ==
  /\ sched.at = "jobs"
  /\ sched' = [at |-> "job", snap |-> status]
  /\ UNCHANGED <<vars, inst>>

(* An orchestrator_inject job is due: its row is committed, then the       *)
(* runner is woken, or one is started.                                     *)
CronJobWakes ==
  /\ CronJobs
  /\ sched.snap \in {"running", "paused"}
  /\ registry # NoRunner
  /\ \/ /\ event[registry]
        /\ SchedAt("job", "asleep")
        /\ UNCHANGED <<pc, event>>
     \/ /\ ~event[registry]
        /\ SchedAt("job", "wake")
        /\ SetEvent(registry)
  /\ UNCHANGED <<up, status, registry, reserved, stopReq, req, inst>>

CronJobSpawns ==
  /\ CronJobs
  /\ sched.snap \in {"running", "paused"}
  /\ registry = NoRunner
  /\ SchedAt("job", "asleep")
  /\ Spawn
  /\ UNCHANGED <<up, status, req, inst>>

CronJobNotDue ==
  /\ SchedAt("job", "asleep")
  /\ UNCHANGED <<vars, inst>>

CronJobDb ==
  /\ SchedAt("wake", "asleep")
  /\ status' = "running"
  /\ UNCHANGED <<up, runnerVars, req, inst>>

Scheduler ==
  \/ RecoverRead \/ RecoverCheck \/ RecoverWrite
  \/ TickRead \/ LabCronFires \/ LabCronNotDue
  \/ JobsRead \/ CronJobWakes \/ CronJobSpawns \/ CronJobNotDue \/ CronJobDb

-----------------------------------------------------------------------------
(* The instance routes, without a runner in memory *)

InstAt(i, where, kinds) == inst[i].at = where /\ inst[i].kind \in kinds
InstGoto(i, where)      == inst' = [inst EXCEPT ![i].at = where]
InstReady(i)            == inst' = [inst EXCEPT ![i] =
                                      [@ EXCEPT !.at = "spawn", !.snap = "created"]]
InstReturn(i)           == inst' = [inst EXCEPT ![i] = NoInst]

InstReceive(i, k) ==
  /\ up
  /\ inst[i].at = "idle"
  /\ inst' = [inst EXCEPT ![i] = [at |-> "check", kind |-> k, snap |-> status]]
  /\ UNCHANGED <<vars, sched>>

InstRefused(i) ==
  /\ inst[i].at = "check"
  /\ registry # NoRunner \/ (inst[i].kind = "run" /\ inst[i].snap = "running")
  /\ InstReturn(i)
  /\ UNCHANGED <<vars, sched>>

InstAccepted(i) ==
  /\ InstAt(i, "check", {"run", "stop", "inject"})
  /\ registry = NoRunner
  /\ inst[i].kind = "run" => inst[i].snap # "running"
  /\ InstGoto(i, "prep")
  /\ UNCHANGED <<vars, sched>>

InstRunPrep(i) ==
  /\ InstAt(i, "prep", {"run", "inject"})
  /\ \E reset \in IF inst[i].kind = "run" THEN BOOLEAN ELSE {FALSE} :
       status' = IF reset \/ inst[i].snap \in Terminal THEN "created"
                                                       ELSE status
  /\ InstReady(i)
  /\ UNCHANGED <<up, runnerVars, req, sched>>

(* mutated form of InstStopDb: a status no route knows *)
InstStopDbStopped(i) ==
  /\ InstAt(i, "prep", {"stop"})
  /\ status' = "stopped"
  /\ InstReturn(i)
  /\ UNCHANGED <<up, runnerVars, req, sched>>

InstStopDb(i) ==
  /\ InstAt(i, "prep", {"stop"})
  /\ status' = "completed"
  /\ InstReturn(i)
  /\ UNCHANGED <<up, runnerVars, req, sched>>

(* No model (422), or ensure_sandbox() raised. *)
InstFails(i) ==
  /\ inst[i].at \in {"prep", "spawn"}
  /\ inst[i].kind \in {"run", "inject"}
  /\ InstReturn(i)
  /\ UNCHANGED <<vars, sched>>

(* /resume starts a runner at once, unless it normalises the status first *)
InstResume(i) ==
  /\ InstAt(i, "check", {"resume"})
  /\ registry = NoRunner
  /\ \/ /\ inst[i].snap \in {"paused", "created"}
        /\ Spawn
        /\ UNCHANGED status
        /\ InstReturn(i)
     \/ /\ inst[i].snap \notin {"paused", "created"}
        /\ status' = "created"
        /\ UNCHANGED runnerVars
        /\ InstReady(i)
  /\ UNCHANGED <<up, req, sched>>

InstSpawn(i) ==
  /\ inst[i].at = "spawn"
  /\ Spawn
  /\ InstReturn(i)
  /\ UNCHANGED <<up, status, req, sched>>

InstStep(i) ==
  \/ InstRefused(i) \/ InstAccepted(i) \/ InstRunPrep(i) \/ InstStopDb(i)
  \/ InstFails(i) \/ InstResume(i) \/ InstSpawn(i)

-----------------------------------------------------------------------------
(* A restart ends the scheduler task and the requests too. *)
SpawnCrash ==
  /\ ProcessCrash
  /\ sched' = [at |-> "boot", snap |-> "created"]
  /\ inst' = [i \in Inst |-> NoInst]

SpawnNext ==
  \/ /\ \/ \E r \in Runner : RunnerStep(r)
        \/ \E q \in Req : HandlerStep(q) \/ \E k \in Kinds : Receive(q, k)
        \/ Startup
     /\ UNCHANGED <<sched, inst>>
  \/ Scheduler
  \/ \E i \in Inst : InstStep(i) \/ \E k \in InstKinds : InstReceive(i, k)
  \/ SpawnCrash

SpawnSpec == SpawnInit /\ [][SpawnNext]_spawnVars

(* The scheduler task runs whenever the event loop does, and the process   *)
(* is started again by its container's restart policy.                     *)
SpawnFairSpec ==
  /\ SpawnSpec
  /\ WF_spawnVars(Scheduler)
  /\ WF_spawnVars(Startup /\ UNCHANGED <<sched, inst>>)

-----------------------------------------------------------------------------
(* Properties *)

(* Whatever starts runners and however many there are, get_runner() never  *)
(* hands out one whose loop is over: stop() would return at once, resume() *)
(* and inject() would wake nobody, and each would leave a wrong status.    *)
RegistryLive == registry # NoRunner => pc[registry] \in InLoop

(* A lab that is stuck in "running" without any runner when the process    *)
(* comes up does not stay so, even when reset_stuck_labs() failed, unless  *)
(* the process dies again first.                                           *)
Stuck == status = "running" /\ \A r \in Runner : pc[r] \notin Busy
RestartUnsticks == (up /\ sched.at = "boot" /\ Stuck) ~> (~Stuck \/ ~up)

(* lab_runner.py:250-253: "The reservation guarantees no other coroutine   *)
(* can scheduled a parallel BackgroundTask for this lab between            *)
(* reserve_runner() returning and run() starting."                         *)
ReservationExclusive ==
  reserved => \A r1, r2 \in Runner :
                pc[r1] = "queued" /\ pc[r2] = "queued" => r1 = r2
=============================================================================
