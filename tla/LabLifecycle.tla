---------------------------- MODULE LabLifecycle ----------------------------
(***************************************************************************)
(* The life of one lab: its row in the database, the in-memory runner      *)
(* registry of services/lab_runner.py, the LabRunner tasks, and the HTTP   *)
(* handlers of api/routes/labs_execution.py that run, pause, resume, stop, *)
(* inject into and reset it.                                               *)
(*                                                                         *)
(* Everything runs on one asyncio event loop, so the code between two      *)
(* awaits is atomic.  An action is such a stretch of code; a database      *)
(* commit is the point at which a write takes effect.  A handler reads the *)
(* lab row (Receive), then acts on what it read (the ...Check actions),    *)
(* so the row may have changed in between.                                 *)
(***************************************************************************)
EXTENDS Naturals, FiniteSets

CONSTANTS
  Runner,      \* LabRunner objects; one no handler refers to is recycled
  NoRunner,    \* "not in the registry"
  Req,         \* HTTP requests in flight at the same time
  Kinds,       \* the routes those requests may call
  Parks,       \* can an iteration end in a PauseAction (or a cron synthesis)?
  DbFails      \* can a status write of the crash and start-up paths be lost?

RouteKinds == {"run", "resume", "pause", "stop", "inject", "reset"}

ASSUME LifecycleAssumption ==
  /\ NoRunner \notin Runner
  /\ Kinds \subseteq RouteKinds
  /\ Parks \in BOOLEAN
  /\ DbFails \in BOOLEAN

VARIABLES
  up,         \* is the control-plane process alive?
  status,     \* labs.status
  registry,   \* _active_runners.get(lab_id)
  reserved,   \* lab_id \in _runner_reservations
  pc,         \* where each LabRunner is
  event,      \* its asyncio.Event _paused: TRUE = set = may proceed
  stopReq,    \* its _stop_requested
  req         \* the requests in flight

vars == <<up, status, registry, reserved, pc, event, stopReq, req>>
runnerVars == <<registry, reserved, pc, event, stopReq>>

Status   == {"created", "running", "paused", "completed", "failed"}
Terminal == {"completed", "failed"}

(***************************************************************************)
(* A runner is queued from reserve_runner() to run(), and in its loop from *)
(* run() (which enters it into the registry) to the finally clause.        *)
(*   init      _run_loop before the row is marked running                  *)
(*   top       about to test _stop_requested and wait for _paused          *)
(*   blocked   in that wait;  woken: the wait was released                 *)
(*   iter      one iteration: limits, next_step, LLM calls, tasks          *)
(*   parking   status "paused" is committed, _paused not cleared yet       *)
(*   parked    waiting after a PauseAction;  unparked: released            *)
(*   exiting   the outcome is written, finally has not run                 *)
(*   stopping  out of the registry, stop_sandbox() under way               *)
(*   done      _stopped is set; also an object not created yet             *)
(***************************************************************************)
InLoop == {"init", "top", "blocked", "woken", "iter", "parking", "parked",
           "unparked", "exiting"}
Busy   == InLoop \cup {"queued"}
PCs    == Busy \cup {"stopping", "done"}

IdleReq == [at |-> "idle", kind |-> "run", snap |-> "created",
            runner |-> NoRunner]
ReqState == [at : {"idle", "check", "prep", "reserve", "pauseDb", "resumeDb",
                   "stopWait", "stopDb", "injected"},
             kind : RouteKinds,
             snap : Status,
             runner : Runner \cup {NoRunner}]

TypeOK ==
  /\ up \in BOOLEAN
  /\ status \in Status
  /\ registry \in Runner \cup {NoRunner}
  /\ reserved \in BOOLEAN
  /\ pc \in [Runner -> PCs]
  /\ event \in [Runner -> BOOLEAN]
  /\ stopReq \in [Runner -> BOOLEAN]
  /\ req \in [Req -> ReqState]

Init ==
  /\ up = TRUE
  /\ status = "created"
  /\ registry = NoRunner
  /\ reserved = FALSE
  /\ pc = [r \in Runner |-> "done"]
  /\ event = [r \in Runner |-> TRUE]
  /\ stopReq = [r \in Runner |-> FALSE]
  /\ req = [q \in Req |-> IdleReq]

-----------------------------------------------------------------------------
(* Helpers *)

(* mutated form of IsReserved: only the live registry is looked at *)
IsActive == registry # NoRunner

IsReserved == registry # NoRunner \/ reserved

At(q, where, k) == req[q].at = where /\ req[q].kind = k
Goto(q, where)  == req' = [req EXCEPT ![q].at = where]
GotoWith(q, where, r) ==
  req' = [req EXCEPT ![q].at = where, ![q].runner = r, ![q].snap = "created"]
Return(q)       == req' = [req EXCEPT ![q] = IdleReq]

(* A LabRunner object that is not in use: a new one for the code. *)
Unreferenced(r) == \A q \in Req : req[q].runner # r
Fresh(r) == pc[r] = "done" /\ Unreferenced(r)

NewRunner(r, where) ==
  /\ pc' = [pc EXCEPT ![r] = where]
  /\ event' = [event EXCEPT ![r] = TRUE]
  /\ stopReq' = [stopReq EXCEPT ![r] = FALSE]

(* Event.set() releases the waiter for good: a later clear() cannot take   *)
(* the wake-up back.                                                       *)
Released(r) ==
  CASE pc[r] = "blocked" -> "woken"
    [] pc[r] = "parked"  -> "unparked"
    [] OTHER             -> pc[r]

SetEvent(r) ==
  /\ event' = [event EXCEPT ![r] = TRUE]
  /\ pc' = [pc EXCEPT ![r] = Released(r)]

ClearEvent(r) ==
  /\ event' = [event EXCEPT ![r] = FALSE]
  /\ UNCHANGED pc

-----------------------------------------------------------------------------
(* LabRunner.run() and _run_loop() *)

Move(r, from, to) == pc[r] = from /\ pc' = [pc EXCEPT ![r] = to]

Finish(r, outcome) ==
  /\ pc' = [pc EXCEPT ![r] = "exiting"]
  /\ status' = outcome
  /\ UNCHANGED <<up, registry, reserved, event, stopReq, req>>

(* mutated form of RunnerStart: the reservation is not discarded *)
RunnerStartKeeps(r) ==
  /\ Move(r, "queued", "init")
  /\ registry' = r
  /\ UNCHANGED <<up, status, reserved, event, stopReq, req>>

RunnerStart(r) ==
  /\ Move(r, "queued", "init")
  /\ registry' = r
  /\ reserved' = FALSE
  /\ UNCHANGED <<up, status, event, stopReq, req>>

MarkRunning(r) ==
  /\ Move(r, "init", "top")
  /\ status' = "running"
  /\ UNCHANGED <<up, registry, reserved, event, stopReq, req>>

(* Top of the loop.  wait() returns at once when the event is set, so the  *)
(* second test of _stop_requested then reads what the first one read.      *)
LoopTop(r) ==
  /\ pc[r] = "top"
  /\ \/ stopReq[r] /\ Finish(r, "completed")
     \/ /\ ~stopReq[r]
        /\ pc' = [pc EXCEPT ![r] = IF event[r] THEN "iter" ELSE "blocked"]
        /\ UNCHANGED <<up, status, registry, reserved, event, stopReq, req>>

(* mutated form of LoopWoken: _stop_requested is not tested again *)
LoopWokenNoTest(r) ==
  /\ Move(r, "woken", "iter")
  /\ UNCHANGED <<up, status, registry, reserved, event, stopReq, req>>

LoopWoken(r) ==
  /\ pc[r] = "woken"
  /\ \/ stopReq[r] /\ Finish(r, "completed")
     \/ /\ ~stopReq[r]
        /\ pc' = [pc EXCEPT ![r] = "iter"]
        /\ UNCHANGED <<up, status, registry, reserved, event, stopReq, req>>

(* max_iterations, max_duration, or a SynthesizeAction without cron agents *)
IterComplete(r) == pc[r] = "iter" /\ Finish(r, "completed")

(* next_step() or the orchestrator call raised: _fail *)
IterFail(r) == pc[r] = "iter" /\ Finish(r, "failed")

(* a PlanAction: the tasks run, current_iteration goes up *)
IterPlan(r) ==
  /\ Move(r, "iter", "top")
  /\ UNCHANGED <<up, status, registry, reserved, event, stopReq, req>>

(* a PauseAction, or a synthesis in a lab with cron agents *)
IterPark(r) ==
  /\ Parks
  /\ Move(r, "iter", "parking")
  /\ status' = "paused"
  /\ UNCHANGED <<up, registry, reserved, event, stopReq, req>>

Park(r) ==
  /\ Move(r, "parking", "parked")
  /\ event' = [event EXCEPT ![r] = FALSE]
  /\ UNCHANGED <<up, status, registry, reserved, stopReq, req>>

Unpark(r) ==
  /\ pc[r] = "unparked"
  /\ \/ stopReq[r] /\ Finish(r, "completed")
     \/ /\ ~stopReq[r]
        /\ pc' = [pc EXCEPT ![r] = "top"]
        /\ status' = "running"
        /\ UNCHANGED <<up, registry, reserved, event, stopReq, req>>

(* An exception anywhere in _run_loop reaches run(), which marks the lab   *)
(* failed; if that write fails too the row keeps its status.  A runner     *)
(* whose lab row is gone returns from "init" without writing anything.     *)
RunnerCrash(r) ==
  /\ pc[r] \in {"init", "top", "woken", "iter", "parking", "unparked"}
  /\ pc' = [pc EXCEPT ![r] = "exiting"]
  /\ \/ status' = "failed"
     \/ DbFails /\ UNCHANGED status
  /\ UNCHANGED <<up, registry, reserved, event, stopReq, req>>

(* mutated form of RunnerUnregister: the registry entry is not popped *)
RunnerUnregisterKeeps(r) ==
  /\ Move(r, "exiting", "stopping")
  /\ reserved' = FALSE
  /\ UNCHANGED <<up, status, registry, event, stopReq, req>>

RunnerUnregister(r) ==
  /\ Move(r, "exiting", "stopping")
  /\ registry' = NoRunner
  /\ reserved' = FALSE
  /\ UNCHANGED <<up, status, event, stopReq, req>>

(* _stopped.set().  The flags of an object nothing refers to are garbage. *)
RunnerStopped(r) ==
  /\ Move(r, "stopping", "done")
  /\ event' = [event EXCEPT ![r] = @ \/ Unreferenced(r)]
  /\ stopReq' = [stopReq EXCEPT ![r] = FALSE]
  /\ UNCHANGED <<up, status, registry, reserved, req>>

RunnerStep(r) ==
  \/ RunnerStart(r) \/ MarkRunning(r) \/ LoopTop(r) \/ LoopWoken(r)
  \/ IterComplete(r) \/ IterFail(r) \/ IterPlan(r) \/ IterPark(r)
  \/ Park(r) \/ Unpark(r) \/ RunnerCrash(r)
  \/ RunnerUnregister(r) \/ RunnerStopped(r)

-----------------------------------------------------------------------------
(* The routes.  Receive is the read of the lab row that opens each one;    *)
(* /stop does not look at the status it read.                              *)

Receive(q, k) ==
  /\ up
  /\ req[q].at = "idle"
  /\ req' = [req EXCEPT ![q] =
               [at |-> "check", kind |-> k, runner |-> NoRunner,
                snap |-> IF k = "stop" THEN "created" ELSE status]]
  /\ UNCHANGED <<up, status, runnerVars>>

(* /run and /reset refuse a running lab and one that has a runner. *)
RunCheck(q) ==
  /\ At(q, "check", "run") \/ At(q, "check", "reset")
  /\ IF req[q].snap = "running" \/ IsReserved
       THEN Return(q) ELSE Goto(q, "prep")
  /\ UNCHANGED <<up, status, runnerVars>>

RunPrep(q) ==
  /\ At(q, "prep", "run")
  /\ \E reset \in BOOLEAN :
       status' = IF reset \/ req[q].snap \in Terminal THEN "created" ELSE status
  /\ Goto(q, "reserve")
  /\ UNCHANGED <<up, runnerVars>>

ResetDb(q) ==
  /\ At(q, "prep", "reset")
  /\ status' = "created"
  /\ Return(q)
  /\ UNCHANGED <<up, runnerVars>>

(* No model to run with (422), or ensure_sandbox() raised. *)
HandlerFails(q) ==
  /\ req[q].kind \in {"run", "inject"}
  /\ req[q].at \in {"prep", "reserve"}
  /\ Return(q)
  /\ UNCHANGED <<up, status, runnerVars>>

(* reserve_runner() and add_task(runner.run); a refusal is a 409 (for      *)
(* /inject: "injected" without a new runner).                              *)
Reserve(q) ==
  /\ req[q].at = "reserve"
  /\ Return(q)
  /\ \/ IsReserved /\ UNCHANGED runnerVars
     \/ /\ ~IsReserved
        /\ \E r \in Runner : Fresh(r) /\ NewRunner(r, "queued")
        /\ reserved' = TRUE
        /\ UNCHANGED registry
  /\ UNCHANGED <<up, status>>

PauseCheck(q) ==
  /\ At(q, "check", "pause")
  /\ \/ /\ registry # NoRunner
        /\ ClearEvent(registry)
        /\ GotoWith(q, "pauseDb", registry)
     \/ /\ registry = NoRunner
        /\ IF req[q].snap \in Terminal \cup {"paused"}
             THEN Return(q) ELSE Goto(q, "pauseDb")
        /\ UNCHANGED <<pc, event>>
  /\ UNCHANGED <<up, status, registry, reserved, stopReq>>

PauseDb(q) ==
  /\ req[q].at = "pauseDb"
  /\ status' = "paused"
  /\ Return(q)
  /\ UNCHANGED <<up, runnerVars>>

ResumeCheck(q) ==
  /\ At(q, "check", "resume")
  /\ \/ /\ registry # NoRunner
        /\ SetEvent(registry)
        /\ GotoWith(q, "resumeDb", registry)
     \/ /\ registry = NoRunner
        /\ IF reserved \/ req[q].snap \notin {"paused", "created"}
             THEN Return(q) ELSE Goto(q, "prep")
        /\ UNCHANGED <<pc, event>>
  /\ UNCHANGED <<up, status, registry, reserved, stopReq>>

ResumePrep(q) ==
  /\ At(q, "prep", "resume")
  /\ status' = "created"
  /\ Goto(q, "reserve")
  /\ UNCHANGED <<up, runnerVars>>

(* the status write of runner.resume() and runner.inject() *)
ResumeDb(q) ==
  /\ req[q].at = "resumeDb"
  /\ status' = "running"
  /\ Return(q)
  /\ UNCHANGED <<up, runnerVars>>

(* mutated form of StopCheck: the paused event is not set *)
StopCheckNoWake(q) ==
  /\ At(q, "check", "stop")
  /\ \/ /\ registry # NoRunner
        /\ stopReq' = [stopReq EXCEPT ![registry] = TRUE]
        /\ GotoWith(q, "stopWait", registry)
     \/ /\ registry = NoRunner
        /\ Goto(q, "stopDb")
        /\ UNCHANGED stopReq
  /\ UNCHANGED <<up, status, registry, reserved, pc, event>>

StopCheck(q) ==
  /\ At(q, "check", "stop")
  /\ \/ /\ registry # NoRunner
        /\ stopReq' = [stopReq EXCEPT ![registry] = TRUE]
        /\ SetEvent(registry)
        /\ GotoWith(q, "stopWait", registry)
     \/ /\ registry = NoRunner
        /\ Goto(q, "stopDb")
        /\ UNCHANGED <<pc, event, stopReq>>
  /\ UNCHANGED <<up, status, registry, reserved>>

(* wait_for(_stopped.wait(), 30 s) *)
StopDone(q) ==
  /\ req[q].at = "stopWait"
  /\ pc[req[q].runner] = "done"
  /\ Return(q)
  /\ UNCHANGED <<up, status, runnerVars>>

(* mutated form of StopTimeout: stop() waits without a bound *)
StopNoTimeout(q) == FALSE /\ UNCHANGED vars

StopTimeout(q) ==
  /\ req[q].at = "stopWait"
  /\ pc[req[q].runner] # "done"
  /\ Return(q)
  /\ UNCHANGED <<up, status, runnerVars>>

(* mutated form of StopDb: a status no route knows *)
StopDbStopped(q) ==
  /\ req[q].at = "stopDb"
  /\ status' = "stopped"
  /\ Return(q)
  /\ UNCHANGED <<up, runnerVars>>

StopDb(q) ==
  /\ req[q].at = "stopDb"
  /\ status' = "completed"
  /\ Return(q)
  /\ UNCHANGED <<up, runnerVars>>

InjectCheck(q) ==
  /\ At(q, "check", "inject")
  /\ IF registry # NoRunner THEN GotoWith(q, "injected", registry)
     ELSE IF reserved THEN Return(q) ELSE Goto(q, "prep")
  /\ UNCHANGED <<up, status, runnerVars>>

(* runner.inject() after its row is committed: wake a paused runner *)
InjectWake(q) ==
  /\ req[q].at = "injected"
  /\ LET r == req[q].runner IN
       IF event[r]
         THEN Return(q) /\ UNCHANGED <<pc, event>>
         ELSE SetEvent(r) /\ Goto(q, "resumeDb")
  /\ UNCHANGED <<up, status, registry, reserved, stopReq>>

InjectPrep(q) ==
  /\ At(q, "prep", "inject")
  /\ status' = IF req[q].snap \in Terminal THEN "created" ELSE status
  /\ Goto(q, "reserve")
  /\ UNCHANGED <<up, runnerVars>>

(* What a handler does once it has read the row. *)
HandlerStep(q) ==
  \/ RunCheck(q) \/ RunPrep(q) \/ ResetDb(q) \/ HandlerFails(q) \/ Reserve(q)
  \/ PauseCheck(q) \/ PauseDb(q)
  \/ ResumeCheck(q) \/ ResumePrep(q) \/ ResumeDb(q)
  \/ StopCheck(q) \/ StopDone(q) \/ StopTimeout(q) \/ StopDb(q)
  \/ InjectCheck(q) \/ InjectWake(q) \/ InjectPrep(q)

-----------------------------------------------------------------------------
(* A restart loses every task and the registry; reset_stuck_labs() runs    *)
(* before the first request is served.                                     *)

ProcessCrash ==
  /\ up
  /\ up' = FALSE
  /\ registry' = NoRunner
  /\ reserved' = FALSE
  /\ pc' = [r \in Runner |-> "done"]
  /\ event' = [r \in Runner |-> TRUE]
  /\ stopReq' = [r \in Runner |-> FALSE]
  /\ req' = [q \in Req |-> IdleReq]
  /\ UNCHANGED status

Startup ==
  /\ ~up
  /\ up' = TRUE
  /\ \/ status' = IF status = "running" THEN "paused" ELSE status
     \/ DbFails /\ UNCHANGED status
  /\ UNCHANGED <<runnerVars, req>>

Next ==
  \/ \E r \in Runner : RunnerStep(r)
  \/ \E q \in Req : HandlerStep(q) \/ \E k \in Kinds : Receive(q, k)
  \/ ProcessCrash \/ Startup

(***************************************************************************)
(* The event loop runs every ready coroutine, database and LLM calls are   *)
(* bounded by their timeouts, and stop() gives up after 30 s: runners and  *)
(* handlers make progress.  Nothing makes a user call a route.             *)
(***************************************************************************)
Fairness ==
  /\ \A r \in Runner : WF_vars(RunnerStep(r))
  /\ \A q \in Req : WF_vars(HandlerStep(q))

Spec == Init /\ [][Next]_vars
FairSpec == Spec /\ Fairness

-----------------------------------------------------------------------------
(* Properties *)

(* At most one LabRunner of the lab is between reserve_runner() and the    *)
(* finally clause of run(): two concurrent /run, /resume or /inject        *)
(* requests never start two loops (the double spawn of "Cluster B").       *)
SingleRunner ==
  \A r1, r2 \in Runner : pc[r1] \in Busy /\ pc[r2] \in Busy => r1 = r2

(* _active_runners names exactly the runner that is in its loop: every     *)
(* loop can be paused, resumed, injected into and stopped, and no handler  *)
(* is given a runner whose loop is over.                                   *)
RegistryExact == \A r \in Runner : registry = r <=> pc[r] \in InLoop

(* A reservation is held exactly while a runner waits to start: none       *)
(* leaks, which would refuse every later run, and none is dropped early.   *)
ReservationExact == reserved <=> \E r \in Runner : pc[r] = "queued"

(* A runner that was asked to stop never starts another iteration, however *)
(* the stop meets a pause, a resume or an inject.                          *)
NoIterationAfterStop ==
  [][\A r \in Runner :
       pc[r] # "iter" /\ pc'[r] = "iter" => ~stopReq[r]]_vars

(* The registry and the reservations implement the slot of RunnerSlot.     *)
Holder == IF \E r \in Runner : pc[r] \in Busy
            THEN CHOOSE r \in Runner : pc[r] \in Busy ELSE NoRunner
Slot == INSTANCE RunnerSlot
          WITH holder <- Holder,
               active <- \E r \in Runner : pc[r] \in InLoop
SlotSpec == Slot!SlotSpec

(* A stop that finds the loop between iterations, or waiting, ends it: a   *)
(* pause that clears the event afterwards does not take the stop back.     *)
StopEndsWaitingLoop ==
  \A r \in Runner :
    (stopReq[r] /\ pc[r] \in {"top", "blocked", "woken", "unparked"})
      ~> pc[r] \notin InLoop

(* Every request is answered.                                              *)
RequestsReturn == \A q \in Req : req[q].at # "idle" ~> req[q].at = "idle"

(* stop(): "unblock if paused so loop can exit" (lab_runner.py:327): a     *)
(* runner that was asked to stop leaves its loop.                          *)
StopEndsLoop == \A r \in Runner : stopReq[r] ~> pc[r] \notin InLoop

(* labs_execution.py:183-186: pausing refuses the transition "so terminal  *)
(* states stay terminal".                                                  *)
TerminalNeverPaused == [][status' = "paused" => status \notin Terminal]_vars

=============================================================================
