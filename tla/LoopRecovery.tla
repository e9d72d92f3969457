---------------------------- MODULE LoopRecovery ----------------------------
(***************************************************************************)
(* Anti-loop (services/loop_detection/manager.py) beside the lab runner.   *)
(* Every message of an iteration is observed; a background task embeds it, *)
(* runs the detectors over the actor's buffer, and on a red report pauses  *)
(* the lab's runner, deletes the looping messages and resumes the runner,  *)
(* all within 60 s.  The tasks outlive the runner that caused them.        *)
(***************************************************************************)
EXTENDS LabLifecycle

CONSTANT Task    \* background tasks of the detector in flight at a time

VARIABLES
  task,          \* where each background task is, and the runner it paused
  recovering     \* lab_id \in _recovering

recVars  == <<task, recovering>>
loopVars == <<vars, recVars>>

(***************************************************************************)
(*   check     a message is embedded, the detectors run, and the           *)
(*             lab.loop_warning of a red report is broadcast               *)
(*   pauseDb   the runner's event is cleared, "paused" not committed       *)
(*   cleanup   messages and buffers are purged, the event recorded         *)
(*   resumeDb  the runner's event is set again, "running" not committed    *)
(***************************************************************************)
Recovers == {"pauseDb", "cleanup", "resumeDb"}
IdleTask == [at |-> "idle", runner |-> NoRunner]
TaskState == [at : {"idle", "check"} \cup Recovers,
              runner : Runner \cup {NoRunner}]

LoopTypeOK ==
  /\ TypeOK
  /\ task \in [Task -> TaskState]
  /\ recovering \in BOOLEAN

LoopInit ==
  /\ Init
  /\ task = [t \in Task |-> IdleTask]
  /\ recovering = FALSE

-----------------------------------------------------------------------------
(* The background tasks *)

TaskGoto(t, where) == task' = [task EXCEPT ![t].at = where]
TaskEnds(t)        == task' = [task EXCEPT ![t] = IdleTask]

(* observe_message(): a message of an iteration, long enough to embed *)
Observe(t) ==
  /\ task[t].at = "idle"
  /\ \E r \in Runner : pc[r] = "iter"
  /\ TaskGoto(t, "check")
  /\ UNCHANGED <<vars, recovering>>

(* The embedder fails, reset_lab() has dropped the buffer, or the report   *)
(* is not red.                                                             *)
NothingFound(t) ==
  /\ task[t].at = "check"
  /\ TaskEnds(t)
  /\ UNCHANGED <<vars, recovering>>

(* mutated form of RecoveryBegins: a lab without a runner keeps its entry  *)
RecoveryBeginsKeeps(t) ==
  /\ task[t].at = "check"
  /\ IF recovering \/ registry = NoRunner
       THEN TaskEnds(t) /\ recovering' = TRUE /\ UNCHANGED <<pc, event>>
       ELSE /\ recovering' = TRUE
            /\ ClearEvent(registry)
            /\ task' = [task EXCEPT ![t] = [at |-> "pauseDb", runner |-> registry]]
  /\ UNCHANGED <<up, status, registry, reserved, stopReq, req>>

(* _handle_report() once the broadcast is out, up to the first await of    *)
(* runner.pause(): one recovery per lab, of the runner it has now.         *)
RecoveryBegins(t) ==
  /\ task[t].at = "check"
  /\ IF recovering \/ registry = NoRunner
       THEN TaskEnds(t) /\ UNCHANGED <<pc, event, recovering>>
       ELSE /\ recovering' = TRUE
            /\ ClearEvent(registry)
            /\ task' = [task EXCEPT ![t] = [at |-> "pauseDb", runner |-> registry]]
  /\ UNCHANGED <<up, status, registry, reserved, stopReq, req>>

(* mutated form of RecoveryPauses: a status no route knows *)
RecoveryPausesLoop(t) ==
  /\ task[t].at = "pauseDb"
  /\ status' = "recovering"
  /\ TaskGoto(t, "cleanup")
  /\ UNCHANGED <<up, runnerVars, req, recovering>>

(* the commit of runner.pause() *)
RecoveryPauses(t) ==
  /\ task[t].at = "pauseDb"
  /\ status' = "paused"
  /\ TaskGoto(t, "cleanup")
  /\ UNCHANGED <<up, runnerVars, req, recovering>>

(* The purge and its event are committed and broadcast; resume() begins.   *)
RecoveryCleans(t) ==
  /\ task[t].at = "cleanup"
  /\ SetEvent(task[t].runner)
  /\ TaskGoto(t, "resumeDb")
  /\ UNCHANGED <<up, status, registry, reserved, stopReq, req, recovering>>

(* the commit of runner.resume(), and the finally of _handle_report() *)
RecoveryResumes(t) ==
  /\ task[t].at = "resumeDb"
  /\ status' = "running"
  /\ recovering' = FALSE
  /\ TaskEnds(t)
  /\ UNCHANGED <<up, runnerVars, req>>

(* mutated form of RecoveryAborts: the entry is not discarded *)
RecoveryAbortsKeeps(t) ==
  /\ task[t].at \in Recovers
  /\ TaskEnds(t)
  /\ UNCHANGED <<vars, recovering>>

(* RECOVERY_TIMEOUT_SEC, or pause(), the purge or resume() raised: only    *)
(* the finally clause runs, and the runner stays as the recovery left it.  *)
RecoveryAborts(t) ==
  /\ task[t].at \in Recovers
  /\ recovering' = FALSE
  /\ TaskEnds(t)
  /\ UNCHANGED <<vars>>

RecoveryStep(t) ==
  \/ NothingFound(t) \/ RecoveryBegins(t) \/ RecoveryPauses(t)
  \/ RecoveryCleans(t) \/ RecoveryResumes(t) \/ RecoveryAborts(t)

-----------------------------------------------------------------------------
(* The lifecycle with the detector beside it *)

(* reset_lab(), in the finally clause of run() right after the registry    *)
(* entry is popped                                                         *)
ResetLab == recovering' = FALSE /\ UNCHANGED task

LoopRunnerStep(r) ==
  \/ RunnerUnregister(r) /\ ResetLab
  \/ RunnerStep(r) /\ pc[r] # "exiting" /\ UNCHANGED recVars

(* A runner a recovery refers to is not recycled. *)
LoopHandlerStep(q) ==
  /\ HandlerStep(q)
  /\ \A t \in Task : LET r == task[t].runner IN
       r \in Runner => ~(pc[r] = "done" /\ pc'[r] = "queued")
  /\ UNCHANGED recVars

LoopCrash ==
  /\ ProcessCrash
  /\ task' = [t \in Task |-> IdleTask]
  /\ recovering' = FALSE

LoopNext ==
  \/ \E r \in Runner : LoopRunnerStep(r)
  \/ \E q \in Req : \/ LoopHandlerStep(q)
                    \/ \E k \in Kinds : Receive(q, k) /\ UNCHANGED recVars
  \/ \E t \in Task : Observe(t) \/ RecoveryStep(t)
  \/ LoopCrash
  \/ Startup /\ UNCHANGED recVars

(* The 60 s limit ends a recovery, the embedder and the broadcast are      *)
(* bounded calls; whether a message is observed is not promised.           *)
LoopFairness ==
  /\ \A r \in Runner : WF_loopVars(LoopRunnerStep(r))
  /\ \A q \in Req : WF_loopVars(LoopHandlerStep(q))
  /\ \A t \in Task : WF_loopVars(RecoveryStep(t))

LoopSpec == LoopInit /\ [][LoopNext]_loopVars
FairLoopSpec == LoopSpec /\ LoopFairness

-----------------------------------------------------------------------------
(* Properties *)

(* The lab is entered in _recovering only while a recovery of it is under  *)
(* way: no path of _handle_report() and _recover() leaves an entry behind  *)
(* that would keep every later loop of the lab from being recovered.       *)
RecoveringIsAtWork == recovering => \E t \in Task : task[t].at \in Recovers

(* R14: a recovery that hangs does not keep the lab's slot for ever.       *)
RecoveryEnds == recovering ~> ~recovering

=============================================================================
