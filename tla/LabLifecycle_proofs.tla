------------------------ MODULE LabLifecycle_proofs -------------------------
(***************************************************************************)
(* Proofs about LabLifecycle, for any number of runners and of requests.   *)
(***************************************************************************)
EXTENDS LabLifecycle, TLAPS

(* The records a handler writes are well typed. *)
LEMMA ReqTypes ==
  ASSUME TypeOK, NEW q \in Req
  PROVE  /\ IdleReq \in ReqState
         /\ Return(q) => req' \in [Req -> ReqState]
         /\ \A where \in {"idle", "check", "prep", "reserve", "pauseDb",
                          "resumeDb", "stopWait", "stopDb", "injected"} :
              /\ Goto(q, where) => req' \in [Req -> ReqState]
              /\ \A r \in Runner :
                   GotoWith(q, where, r) => req' \in [Req -> ReqState]
<1>1. IdleReq \in ReqState
  BY DEF IdleReq, ReqState, RouteKinds, Status
<1>2. Return(q) => req' \in [Req -> ReqState]
  BY <1>1 DEF Return, TypeOK
<1>3. ASSUME NEW where \in {"idle", "check", "prep", "reserve", "pauseDb",
                            "resumeDb", "stopWait", "stopDb", "injected"}
      PROVE  /\ Goto(q, where) => req' \in [Req -> ReqState]
             /\ \A r \in Runner :
                  GotoWith(q, where, r) => req' \in [Req -> ReqState]
  <2>1. req[q] \in ReqState BY DEF TypeOK
  <2>2. [req[q] EXCEPT !.at = where] \in ReqState
    BY <2>1 DEF ReqState
  <2>3. Goto(q, where) => req' = [req EXCEPT ![q] = [req[q] EXCEPT !.at = where]]
    BY DEF Goto
  <2>4. ASSUME NEW r \in Runner
        PROVE  [req[q] EXCEPT !.at = where, !.runner = r, !.snap = "created"]
                 \in ReqState
    BY <2>1 DEF ReqState, Status
  <2>5. ASSUME NEW r \in Runner, GotoWith(q, where, r)
        PROVE  req' = [req EXCEPT ![q] =
                 [req[q] EXCEPT !.at = where, !.runner = r, !.snap = "created"]]
    BY <2>5 DEF GotoWith
  <2>6. QED BY <2>2, <2>3, <2>4, <2>5 DEF TypeOK
<1>4. QED BY <1>1, <1>2, <1>3

(* Setting or clearing the paused event leaves the types alone. *)
LEMMA EventTypes ==
  ASSUME TypeOK, NEW r
  PROVE  /\ SetEvent(r) => /\ event' \in [Runner -> BOOLEAN]
                           /\ pc' \in [Runner -> PCs]
         /\ ClearEvent(r) => /\ event' \in [Runner -> BOOLEAN]
                             /\ pc' \in [Runner -> PCs]
<1>1. r \in Runner => Released(r) \in PCs
  BY DEF Released, TypeOK, PCs, Busy, InLoop
<1>2. QED BY <1>1 DEF SetEvent, ClearEvent, TypeOK

LEMMA RunnerStepType ==
  ASSUME TypeOK, NEW r \in Runner, RunnerStep(r)
  PROVE  TypeOK'
<1> USE DEF TypeOK, PCs, Busy, InLoop, Status
<1>1. CASE RunnerStart(r)      BY <1>1 DEF RunnerStart, Move
<1>2. CASE MarkRunning(r)      BY <1>2 DEF MarkRunning, Move
<1>3. CASE LoopTop(r)          BY <1>3 DEF LoopTop, Finish
<1>4. CASE LoopWoken(r)        BY <1>4 DEF LoopWoken, Finish
<1>5. CASE IterComplete(r)     BY <1>5 DEF IterComplete, Finish
<1>6. CASE IterFail(r)         BY <1>6 DEF IterFail, Finish
<1>7. CASE IterPlan(r)         BY <1>7 DEF IterPlan, Move
<1>8. CASE IterPark(r)         BY <1>8 DEF IterPark, Move
<1>9. CASE Park(r)             BY <1>9 DEF Park, Move
<1>10. CASE Unpark(r)          BY <1>10 DEF Unpark, Finish
<1>11. CASE RunnerCrash(r)     BY <1>11 DEF RunnerCrash
<1>12. CASE RunnerUnregister(r) BY <1>12 DEF RunnerUnregister, Move
<1>13. CASE RunnerStopped(r)
  <2>1. Unreferenced(r) \in BOOLEAN BY DEF Unreferenced
  <2>2. QED BY <1>13, <2>1 DEF RunnerStopped, Move
<1>14. QED
  BY RunnerStep(r), <1>1, <1>2, <1>3, <1>4, <1>5, <1>6, <1>7, <1>8, <1>9,
     <1>10, <1>11, <1>12, <1>13 DEF RunnerStep

LEMMA HandlerStepType ==
  ASSUME TypeOK, NEW q \in Req, HandlerStep(q)
  PROVE  TypeOK'
<1> USE ReqTypes, EventTypes DEF Terminal, runnerVars
<1>1. CASE RunCheck(q)     BY <1>1 DEF RunCheck, TypeOK
<1>2. CASE RunPrep(q)      BY <1>2 DEF RunPrep, TypeOK, Status
<1>3. CASE ResetDb(q)      BY <1>3 DEF ResetDb, TypeOK, Status
<1>4. CASE HandlerFails(q) BY <1>4 DEF HandlerFails, TypeOK
<1>5. CASE Reserve(q)
  <2>1. ASSUME NEW r \in Runner, NewRunner(r, "queued")
        PROVE  /\ pc' \in [Runner -> PCs]
               /\ event' \in [Runner -> BOOLEAN]
               /\ stopReq' \in [Runner -> BOOLEAN]
    BY <2>1 DEF NewRunner, TypeOK, PCs, Busy
  <2>2. QED BY <1>5, <2>1 DEF Reserve, TypeOK
<1>6. CASE PauseCheck(q)   BY <1>6 DEF PauseCheck, TypeOK
<1>7. CASE PauseDb(q)      BY <1>7 DEF PauseDb, TypeOK, Status
<1>8. CASE ResumeCheck(q)  BY <1>8 DEF ResumeCheck, TypeOK
<1>9. CASE ResumePrep(q)   BY <1>9 DEF ResumePrep, TypeOK, Status
<1>10. CASE ResumeDb(q)    BY <1>10 DEF ResumeDb, TypeOK, Status
<1>11. CASE StopCheck(q)   BY <1>11 DEF StopCheck, TypeOK
<1>12. CASE StopDone(q)    BY <1>12 DEF StopDone, TypeOK
<1>13. CASE StopTimeout(q) BY <1>13 DEF StopTimeout, TypeOK
<1>14. CASE StopDb(q)      BY <1>14 DEF StopDb, TypeOK, Status
<1>15. CASE InjectCheck(q) BY <1>15 DEF InjectCheck, TypeOK
<1>16. CASE InjectWake(q)  BY <1>16 DEF InjectWake, TypeOK
<1>17. CASE InjectPrep(q)  BY <1>17 DEF InjectPrep, TypeOK, Status
<1>18. QED
  BY HandlerStep(q), <1>1, <1>2, <1>3, <1>4, <1>5, <1>6, <1>7, <1>8, <1>9,
     <1>10, <1>11, <1>12, <1>13, <1>14, <1>15, <1>16, <1>17
  DEF HandlerStep

LEMMA ReceiveType ==
  ASSUME TypeOK, NEW q \in Req, NEW k \in Kinds, Receive(q, k)
  PROVE  TypeOK'
<1>1. [at |-> "check", kind |-> k, runner |-> NoRunner,
       snap |-> IF k = "stop" THEN "created" ELSE status] \in ReqState
  BY LifecycleAssumption DEF TypeOK, ReqState, Status
<1>2. QED BY <1>1 DEF Receive, TypeOK, runnerVars

LEMMA RestartType ==
  ASSUME TypeOK, ProcessCrash \/ Startup
  PROVE  TypeOK'
<1>1. IdleReq \in ReqState BY DEF IdleReq, ReqState, RouteKinds, Status
<1>2. CASE ProcessCrash BY <1>1, <1>2 DEF ProcessCrash, TypeOK, PCs
<1>3. CASE Startup BY <1>3 DEF Startup, TypeOK, Status, runnerVars
<1>4. QED BY <1>2, <1>3

(* Every variable keeps its type, in every behaviour. *)
THEOREM TypeCorrect == Spec => []TypeOK
<1>1. Init => TypeOK
  <2>1. IdleReq \in ReqState BY DEF IdleReq, ReqState, RouteKinds, Status
  <2>2. QED BY <2>1 DEF Init, TypeOK, Status, PCs
<1>2. TypeOK /\ [Next]_vars => TypeOK'
  <2> SUFFICES ASSUME TypeOK, [Next]_vars PROVE TypeOK'
    OBVIOUS
  <2>1. CASE UNCHANGED vars BY <2>1 DEF vars, TypeOK
  <2>2. CASE Next
    BY <2>2, RunnerStepType, HandlerStepType, ReceiveType, RestartType DEF Next
  <2>3. QED BY <2>1, <2>2
<1>3. QED BY <1>1, <1>2, PTL DEF Spec

-----------------------------------------------------------------------------
(***************************************************************************)
(* The slot.  SingleRunner is not inductive: that a reservation may be     *)
(* taken only when no runner is queued or in its loop needs the two        *)
(* equivalences that tie the registry and the reservation to the runners.  *)
(***************************************************************************)
SlotInv == TypeOK /\ SingleRunner /\ RegistryExact /\ ReservationExact

(* A step the slot does not see: no runner starts waiting, enters its loop *)
(* or leaves it.                                                           *)
SlotStable ==
  /\ registry' = registry
  /\ reserved' = reserved
  /\ \A r \in Runner : /\ (pc'[r] \in InLoop <=> pc[r] \in InLoop)
                      /\ (pc'[r] = "queued" <=> pc[r] = "queued")

LEMMA StableKeepsSlot ==
  ASSUME SlotInv, SlotStable, TypeOK'
  PROVE  SlotInv'
<1>1. SingleRunner'
  BY DEF SlotInv, SlotStable, SingleRunner, Busy
<1>2. RegistryExact'
  BY DEF SlotInv, SlotStable, RegistryExact
<1>3. ReservationExact'
  BY DEF SlotInv, SlotStable, ReservationExact
<1>4. QED BY <1>1, <1>2, <1>3 DEF SlotInv

(* Setting or clearing the event of a runner moves it inside its loop.     *)
LEMMA EventKeepsPlaces ==
  ASSUME TypeOK, NEW r, SetEvent(r) \/ ClearEvent(r), NEW s \in Runner
  PROVE  /\ (pc'[s] \in InLoop <=> pc[s] \in InLoop)
         /\ (pc'[s] = "queued" <=> pc[s] = "queued")
<1>1. CASE SetEvent(r)
  BY <1>1 DEF SetEvent, Released, TypeOK, InLoop
<1>2. CASE ClearEvent(r)
  BY <1>2 DEF ClearEvent
<1>3. QED BY <1>1, <1>2

(* The steps of a runner: it takes the slot over, works inside its loop,   *)
(* gives the slot back, or is done with it.                                *)
LEMMA RunnerStepSlot ==
  ASSUME SlotInv, NEW r \in Runner, RunnerStep(r)
  PROVE  SlotInv'
<1>1. TypeOK' BY RunnerStepType DEF SlotInv
<1>2. CASE RunnerStart(r)
  <2>1. /\ pc[r] = "queued" /\ pc' = [pc EXCEPT ![r] = "init"]
        /\ registry' = r /\ reserved' = FALSE
    BY <1>2 DEF RunnerStart, Move
  <2>2. \A s \in Runner : s # r => pc[s] \notin Busy
    BY <2>1 DEF SlotInv, SingleRunner, Busy
  <2>3. pc'[r] = "init" /\ \A s \in Runner : s # r => pc'[s] = pc[s]
    BY <2>1 DEF SlotInv, TypeOK
  <2>4. QED
    BY <1>1, <2>1, <2>2, <2>3
    DEF SlotInv, SingleRunner, RegistryExact, ReservationExact, Busy, InLoop
<1>3. CASE RunnerUnregister(r)
  <2>1. /\ pc[r] = "exiting" /\ pc' = [pc EXCEPT ![r] = "stopping"]
        /\ registry' = NoRunner /\ reserved' = FALSE
    BY <1>3 DEF RunnerUnregister, Move
  <2>2. \A s \in Runner : s # r => pc[s] \notin Busy
    BY <2>1 DEF SlotInv, SingleRunner, Busy, InLoop
  <2>3. pc'[r] = "stopping" /\ \A s \in Runner : s # r => pc'[s] = pc[s]
    BY <2>1 DEF SlotInv, TypeOK
  <2>4. QED
    BY <1>1, <2>1, <2>2, <2>3, LifecycleAssumption
    DEF SlotInv, SingleRunner, RegistryExact, ReservationExact, Busy, InLoop
<1>4. CASE RunnerStopped(r)
  <2>1. SlotStable
    BY <1>4 DEF RunnerStopped, Move, SlotStable, SlotInv, TypeOK, InLoop
  <2>2. QED BY <1>1, <2>1, StableKeepsSlot
<1>5. CASE ~RunnerStart(r) /\ ~RunnerUnregister(r) /\ ~RunnerStopped(r)
  <2>1. \E to \in InLoop : /\ pc[r] \in InLoop
                          /\ pc' = [pc EXCEPT ![r] = to]
                          /\ registry' = registry
                          /\ reserved' = reserved
    BY <1>5, RunnerStep(r)
    DEF RunnerStep, MarkRunning, LoopTop, LoopWoken, IterComplete, IterFail,
        IterPlan, IterPark, Park, Unpark, RunnerCrash, Move, Finish, InLoop
  <2>2. SlotStable
    BY <2>1 DEF SlotStable, SlotInv, TypeOK, InLoop
  <2>3. QED BY <1>1, <2>2, StableKeepsSlot
<1>6. QED BY <1>2, <1>3, <1>4, <1>5

(* The handlers: only reserve_runner() touches the slot.                   *)
LEMMA HandlerStepSlot ==
  ASSUME SlotInv, NEW q \in Req, HandlerStep(q)
  PROVE  SlotInv'
<1>1. TypeOK /\ TypeOK' BY HandlerStepType DEF SlotInv
<1>2. CASE Reserve(q)
  <2>1. CASE IsReserved
    <3>1. SlotStable BY <1>2, <2>1 DEF Reserve, SlotStable, runnerVars
    <3>2. QED BY <1>1, <3>1, StableKeepsSlot
  <2>2. CASE ~IsReserved
    <3>1. PICK r \in Runner : Fresh(r) /\ NewRunner(r, "queued")
      BY <1>2, <2>2 DEF Reserve
    <3>2. reserved' = TRUE /\ registry' = NoRunner /\ registry = NoRunner
      BY <1>2, <2>2 DEF Reserve, IsReserved
    <3>3. \A s \in Runner : pc[s] \notin Busy
      BY <2>2, LifecycleAssumption
      DEF IsReserved, SlotInv, RegistryExact, ReservationExact, Busy
    <3>4. pc'[r] = "queued" /\ \A s \in Runner : s # r => pc'[s] = pc[s]
      BY <3>1 DEF NewRunner, SlotInv, TypeOK
    <3>5. QED
      BY <1>1, <3>2, <3>3, <3>4, LifecycleAssumption
      DEF SlotInv, SingleRunner, RegistryExact, ReservationExact, Busy, InLoop
  <2>3. QED BY <2>1, <2>2
<1>3. CASE PauseCheck(q) \/ ResumeCheck(q) \/ StopCheck(q) \/ InjectWake(q)
  <2>1. registry' = registry /\ reserved' = reserved
    BY <1>3 DEF PauseCheck, ResumeCheck, StopCheck, InjectWake
  <2>2. \/ pc' = pc
        \/ \E r \in Runner \cup {NoRunner} : SetEvent(r) \/ ClearEvent(r)
    BY <1>1, <1>3 DEF PauseCheck, ResumeCheck, StopCheck, InjectWake,
                      TypeOK, ReqState
  <2>3. SlotStable BY <1>1, <2>1, <2>2, EventKeepsPlaces DEF SlotStable
  <2>4. QED BY <1>1, <2>3, StableKeepsSlot
<1>4. CASE ~Reserve(q) /\ ~PauseCheck(q) /\ ~ResumeCheck(q) /\ ~StopCheck(q)
           /\ ~InjectWake(q)
  <2>1. UNCHANGED runnerVars
    BY <1>4, HandlerStep(q)
    DEF HandlerStep, RunCheck, RunPrep, ResetDb, HandlerFails, PauseDb,
        ResumePrep, ResumeDb, StopDone, StopTimeout, StopDb, InjectCheck,
        InjectPrep
  <2>2. SlotStable BY <2>1 DEF SlotStable, runnerVars
  <2>3. QED BY <1>1, <2>2, StableKeepsSlot
<1>5. QED BY <1>2, <1>3, <1>4

(* Every step keeps the invariant of the slot.                              *)
LEMMA SlotStep ==
  ASSUME SlotInv, [Next]_vars
  PROVE  SlotInv'
<1>1. CASE UNCHANGED vars
  BY <1>1 DEF vars, SlotInv, TypeOK, SingleRunner, RegistryExact,
              ReservationExact
<1>2. ASSUME NEW r \in Runner, RunnerStep(r) PROVE SlotInv'
  BY <1>2, RunnerStepSlot
<1>3. ASSUME NEW q \in Req, HandlerStep(q) PROVE SlotInv'
  BY <1>3, HandlerStepSlot
<1>4. ASSUME NEW q \in Req, NEW k \in Kinds, Receive(q, k) PROVE SlotInv'
  <2>1. TypeOK' BY <1>4, ReceiveType DEF SlotInv
  <2>2. SlotStable BY <1>4 DEF Receive, SlotStable, runnerVars
  <2>3. QED BY <2>1, <2>2, StableKeepsSlot
<1>5. CASE ProcessCrash
  <2>1. TypeOK' BY <1>5, RestartType DEF SlotInv
  <2>2. QED
    BY <1>5, <2>1, LifecycleAssumption
    DEF ProcessCrash, SlotInv, SingleRunner, RegistryExact,
        ReservationExact, Busy, InLoop
<1>6. CASE Startup
  <2>1. TypeOK' BY <1>6, RestartType DEF SlotInv
  <2>2. SlotStable BY <1>6 DEF Startup, SlotStable, runnerVars
  <2>3. QED BY <2>1, <2>2, StableKeepsSlot
<1>7. QED BY <1>1, <1>2, <1>3, <1>4, <1>5, <1>6 DEF Next

(* The invariant of the slot, in every behaviour. *)
THEOREM SlotInvariant == Spec => []SlotInv
<1>1. Init => SlotInv
  <2>1. Init => TypeOK
    <3>1. IdleReq \in ReqState BY DEF IdleReq, ReqState, RouteKinds, Status
    <3>2. QED BY <3>1 DEF Init, TypeOK, Status, PCs
  <2>2. QED
    BY <2>1, LifecycleAssumption
    DEF Init, SlotInv, SingleRunner, RegistryExact, ReservationExact, Busy,
        InLoop
<1>2. SlotInv /\ [Next]_vars => SlotInv'
  BY SlotStep
<1>3. QED BY <1>1, <1>2, PTL DEF Spec

(* No two LabRunners of one lab are ever queued or in their loops, however *)
(* many requests run, resume and inject at the same time.                  *)
THEOREM OneRunner == Spec => []SingleRunner
BY SlotInvariant, PTL DEF SlotInv

(* _active_runners names exactly the runner that is in its loop. *)
THEOREM RegistryIsExact == Spec => []RegistryExact
BY SlotInvariant, PTL DEF SlotInv

(* A reservation is held exactly while a runner waits to start. *)
THEOREM ReservationIsExact == Spec => []ReservationExact
BY SlotInvariant, PTL DEF SlotInv

-----------------------------------------------------------------------------
(* The two steps that enter an iteration test _stop_requested after the    *)
(* last await.                                                             *)
LEMMA StopObeyedStep ==
  ASSUME TypeOK, [Next]_vars, NEW r \in Runner,
         pc[r] # "iter", pc'[r] = "iter"
  PROVE  ~stopReq[r]
<1>1. CASE UNCHANGED vars BY <1>1 DEF vars
<1>2. ASSUME NEW s \in Runner, RunnerStep(s) PROVE ~stopReq[r]
  <2>1. CASE LoopTop(s) BY <2>1 DEF LoopTop, Finish, TypeOK
  <2>2. CASE LoopWoken(s) BY <2>2 DEF LoopWoken, Finish, TypeOK
  <2>3. CASE ~LoopTop(s) /\ ~LoopWoken(s)
    <3>1. \E to \in PCs \ {"iter"} : pc' = [pc EXCEPT ![s] = to]
      BY <1>2, <2>3
      DEF RunnerStep, RunnerStart, MarkRunning, IterComplete, IterFail,
          IterPlan, IterPark, Park, Unpark, RunnerCrash, RunnerUnregister,
          RunnerStopped, Move, Finish, PCs, Busy, InLoop
    <3>2. QED BY <3>1 DEF TypeOK
  <2>4. QED BY <2>1, <2>2, <2>3
<1>3. ASSUME NEW q \in Req, HandlerStep(q) PROVE ~stopReq[r]
  <2>1. \/ pc' = pc
        \/ \E s \in Runner : NewRunner(s, "queued")
        \/ \E s : pc' = [pc EXCEPT ![s] = Released(s)]
    BY <1>3
    DEF HandlerStep, RunCheck, RunPrep, ResetDb, HandlerFails, Reserve,
        PauseCheck, PauseDb, ResumeCheck, ResumePrep, ResumeDb, StopCheck,
        StopDone, StopTimeout, StopDb, InjectCheck, InjectWake, InjectPrep,
        SetEvent, ClearEvent, runnerVars
  <2>2. ASSUME NEW s \in Runner, NewRunner(s, "queued") PROVE FALSE
    BY <2>2 DEF NewRunner, TypeOK
  <2>3. ASSUME NEW s, pc' = [pc EXCEPT ![s] = Released(s)] PROVE FALSE
    <3>1. s = r BY <2>3 DEF TypeOK
    <3>2. Released(s) # "iter" BY <3>1 DEF Released
    <3>3. QED BY <2>3, <3>1, <3>2 DEF TypeOK
  <2>4. QED BY <2>1, <2>2, <2>3
<1>4. ASSUME NEW q \in Req, NEW k \in Kinds, Receive(q, k)
      PROVE  ~stopReq[r]
  BY <1>4 DEF Receive, runnerVars
<1>5. CASE ProcessCrash BY <1>5 DEF ProcessCrash
<1>6. CASE Startup BY <1>6 DEF Startup, runnerVars
<1>7. QED BY <1>1, <1>2, <1>3, <1>4, <1>5, <1>6 DEF Next

(* A runner asked to stop starts no further iteration: the two steps that  *)
(* enter one test _stop_requested after the last await.                    *)
THEOREM StopIsObeyed == Spec => NoIterationAfterStop
<1> DEFINE A == \A r \in Runner :
                  pc[r] # "iter" /\ pc'[r] = "iter" => ~stopReq[r]
<1>1. TypeOK /\ [Next]_vars => A
  BY StopObeyedStep
<1>2. QED BY <1>1, TypeCorrect, PTL DEF Spec, NoIterationAfterStop

-----------------------------------------------------------------------------
(***************************************************************************)
(* The safety half of StopEndsWaitingLoop.  A runner that was asked to     *)
(* stop does not wait at the top of its loop, and where it is outside of   *)
(* an iteration the next place is the way out: no pause or resume takes    *)
(* the stop back.  (Where a PauseAction is under way, in "parking", it may *)
(* be lost: the run lifecycle_stop_lost.)                                  *)
(***************************************************************************)
NeverBlocked == \A r \in Runner : stopReq[r] => pc[r] # "blocked"

Leaving(r) == stopReq[r] /\ pc[r] \in {"top", "woken", "unparked"}
Stands == \A r \in Runner :
  Leaving(r) => \/ stopReq'[r] /\ pc'[r] = pc[r]
                \/ pc'[r] \in {"exiting", "done"}
StopStands == [][Stands]_vars

LEMMA RunnerStepStands ==
  ASSUME TypeOK, NeverBlocked, NEW r \in Runner, RunnerStep(r)
  PROVE  NeverBlocked' /\ Stands
<1> USE DEF TypeOK, NeverBlocked, Stands, Leaving
<1>1. CASE LoopTop(r) BY <1>1 DEF LoopTop, Finish
<1>2. CASE LoopWoken(r) BY <1>2 DEF LoopWoken, Finish
<1>3. CASE Unpark(r) BY <1>3 DEF Unpark, Finish
<1>4. CASE RunnerCrash(r) BY <1>4 DEF RunnerCrash
<1>5. CASE RunnerStopped(r) BY <1>5 DEF RunnerStopped, Move
<1>6. CASE ~LoopTop(r) /\ ~LoopWoken(r) /\ ~Unpark(r) /\ ~RunnerCrash(r)
           /\ ~RunnerStopped(r)
  <2>1. /\ pc[r] \notin {"top", "woken", "unparked"} /\ stopReq' = stopReq
        /\ \E to \in PCs \ {"blocked"} : pc' = [pc EXCEPT ![r] = to]
    BY <1>6, RunnerStep(r)
    DEF RunnerStep, RunnerStart, MarkRunning, IterComplete, IterFail,
        IterPlan, IterPark, Park, RunnerUnregister, Move, Finish, PCs, Busy,
        InLoop
  <2>2. QED BY <2>1
<1>7. QED BY <1>1, <1>2, <1>3, <1>4, <1>5, <1>6

(* Setting the event releases who waits at the top, clearing it moves      *)
(* nobody.                                                                 *)
LEMMA EventStands ==
  ASSUME TypeOK, NeverBlocked, NEW r,
         \/ SetEvent(r) /\ (\A s \in Runner : s # r => stopReq'[s] = stopReq[s])
                        /\ (r \in Runner /\ stopReq[r] => stopReq'[r])
         \/ ClearEvent(r) /\ stopReq' = stopReq
  PROVE  NeverBlocked' /\ Stands
<1>1. CASE ClearEvent(r) /\ stopReq' = stopReq
  BY <1>1 DEF ClearEvent, NeverBlocked, Stands, Leaving
<1>2. CASE SetEvent(r) /\ (\A s \in Runner : s # r => stopReq'[s] = stopReq[s])
                       /\ (r \in Runner /\ stopReq[r] => stopReq'[r])
  <2>1. pc' = [pc EXCEPT ![r] = Released(r)] BY <1>2 DEF SetEvent
  <2>2. \A s \in Runner : s # r => pc'[s] = pc[s] BY <2>1 DEF TypeOK
  <2>3. r \in Runner => /\ pc'[r] # "blocked"
                        /\ Leaving(r) => pc'[r] = pc[r] /\ stopReq'[r]
    BY <1>2, <2>1 DEF TypeOK, Released, Leaving
  <2>4. QED BY <1>2, <2>2, <2>3 DEF NeverBlocked, Stands, Leaving
<1>3. QED BY <1>1, <1>2

(* A new runner was asked nothing. *)
LEMMA NewRunnerStands ==
  ASSUME TypeOK, NeverBlocked, NEW r \in Runner, Fresh(r),
         NewRunner(r, "queued")
  PROVE  NeverBlocked' /\ Stands
BY DEF TypeOK, Fresh, NewRunner, NeverBlocked, Stands, Leaving

LEMMA HandlerStepStands ==
  ASSUME TypeOK, NeverBlocked, NEW q \in Req, HandlerStep(q)
  PROVE  NeverBlocked' /\ Stands
<1>1. UNCHANGED runnerVars => NeverBlocked' /\ Stands
  BY DEF runnerVars, NeverBlocked, Stands, Leaving
<1>2. CASE Reserve(q) BY <1>1, <1>2, NewRunnerStands DEF Reserve
<1>3. CASE PauseCheck(q) \/ ResumeCheck(q) \/ InjectWake(q)
  <2>1. stopReq' = stopReq BY <1>3 DEF PauseCheck, ResumeCheck, InjectWake
  <2>2. pc' = pc \/ \E r : SetEvent(r) \/ ClearEvent(r)
    BY <1>3 DEF PauseCheck, ResumeCheck, InjectWake
  <2>3. CASE pc' = pc
    BY <2>1, <2>3 DEF NeverBlocked, Stands, Leaving
  <2>4. QED BY <2>1, <2>2, <2>3, EventStands
<1>4. CASE StopCheck(q)
  <2>1. CASE registry = NoRunner
    BY <1>4, <2>1 DEF StopCheck, NeverBlocked, Stands, Leaving
  <2>2. CASE registry # NoRunner
    <3>1. /\ registry \in Runner /\ SetEvent(registry)
          /\ stopReq' = [stopReq EXCEPT ![registry] = TRUE]
      BY <1>4, <2>2 DEF StopCheck, TypeOK
    <3>2. /\ \A s \in Runner : s # registry => stopReq'[s] = stopReq[s]
          /\ stopReq'[registry]
      BY <3>1 DEF TypeOK
    <3>3. QED BY <3>1, <3>2, EventStands
  <2>3. QED BY <2>1, <2>2
<1>5. CASE /\ ~Reserve(q) /\ ~PauseCheck(q) /\ ~ResumeCheck(q)
           /\ ~StopCheck(q) /\ ~InjectWake(q)
  <2>1. UNCHANGED runnerVars
    BY <1>5, HandlerStep(q)
    DEF HandlerStep, RunCheck, RunPrep, ResetDb, HandlerFails, PauseDb,
        ResumePrep, ResumeDb, StopDone, StopTimeout, StopDb, InjectCheck,
        InjectPrep
  <2>2. QED BY <1>1, <2>1
<1>6. QED BY <1>2, <1>3, <1>4, <1>5

LEMMA StandsStep ==
  ASSUME TypeOK, NeverBlocked, [Next]_vars
  PROVE  NeverBlocked' /\ Stands
<1>1. UNCHANGED <<pc, stopReq>> => NeverBlocked' /\ Stands
  BY DEF NeverBlocked, Stands, Leaving
<1>2. CASE UNCHANGED vars BY <1>1, <1>2 DEF vars
<1>3. CASE ProcessCrash
  BY <1>3 DEF ProcessCrash, NeverBlocked, Stands
<1>4. CASE Startup BY <1>1, <1>4 DEF Startup, runnerVars
<1>5. ASSUME NEW q \in Req, NEW k \in Kinds, Receive(q, k)
      PROVE  NeverBlocked' /\ Stands
  BY <1>1, <1>5 DEF Receive, runnerVars
<1>6. QED
  BY <1>2, <1>3, <1>4, <1>5, RunnerStepStands, HandlerStepStands DEF Next

LEMMA NobodyBlockedAtFirst == Init => NeverBlocked
BY DEF Init, NeverBlocked

(* Whoever was asked to stop is not left waiting at the top of its loop.   *)
THEOREM StopUnblocks == Spec => []NeverBlocked
<1>1. TypeOK /\ NeverBlocked /\ [Next]_vars => NeverBlocked'
  BY StandsStep
<1>2. QED BY <1>1, NobodyBlockedAtFirst, TypeCorrect, PTL DEF Spec

(* The stop stands until the runner leaves its loop.                       *)
THEOREM StopIsNotTakenBack == Spec => StopStands
<1>1. TypeOK /\ NeverBlocked /\ [Next]_vars => Stands
  BY StandsStep
<1>2. QED
  BY <1>1, StopUnblocks, TypeCorrect, PTL DEF Spec, StopStands

-----------------------------------------------------------------------------
(***************************************************************************)
(* The registry and the reservations implement the slot.                   *)
(***************************************************************************)
SlotActive == \E r \in Runner : pc[r] \in InLoop

(* The holder is the busy runner, if there is one. *)
LEMMA HolderIs ==
  ASSUME SlotInv
  PROVE  /\ \A r \in Runner : pc[r] \in Busy => Holder = r
         /\ (\A r \in Runner : pc[r] \notin Busy) => Holder = NoRunner
BY DEF SlotInv, SingleRunner, Holder

LEMMA HolderWillBe ==
  ASSUME SlotInv'
  PROVE  /\ \A r \in Runner : pc'[r] \in Busy => Holder' = r
         /\ (\A r \in Runner : pc'[r] \notin Busy) => Holder' = NoRunner
BY DEF SlotInv, SingleRunner, Holder

(* A step the slot does not see leaves its holder and its phase alone.     *)
LEMMA StableStutters ==
  ASSUME SlotInv, SlotInv', SlotStable
  PROVE  UNCHANGED <<Holder, SlotActive>>
<1>1. \A r \in Runner : pc'[r] \in Busy <=> pc[r] \in Busy
  BY DEF SlotStable, Busy
<1>2. Holder' = Holder
  BY <1>1, HolderIs, HolderWillBe
<1>3. SlotActive' = SlotActive
  BY DEF SlotStable, SlotActive
<1>4. QED BY <1>2, <1>3

(* run() starts the holder, its finally clause gives the slot back, and    *)
(* every other step of a runner stutters.                                  *)
LEMMA RunnerStepRefines ==
  ASSUME SlotInv, SlotInv', NEW r \in Runner, RunnerStep(r)
  PROVE  \/ /\ Holder # NoRunner /\ ~SlotActive
            /\ SlotActive' /\ Holder' = Holder
         \/ SlotActive /\ Holder' = NoRunner /\ ~SlotActive'
         \/ UNCHANGED <<Holder, SlotActive>>
<1>1. CASE RunnerStart(r)
  <2>1. pc[r] = "queued" /\ pc'[r] = "init"
    BY <1>1 DEF RunnerStart, Move, SlotInv, TypeOK
  <2>2. Holder = r /\ Holder' = r
    BY <2>1, HolderIs, HolderWillBe DEF Busy, InLoop
  <2>3. ~SlotActive
    BY <2>1 DEF SlotActive, SlotInv, SingleRunner, Busy, InLoop
  <2>4. SlotActive' BY <2>1 DEF SlotActive, InLoop
  <2>5. QED BY <2>2, <2>3, <2>4, LifecycleAssumption
<1>2. CASE RunnerUnregister(r)
  <2>1. /\ pc[r] = "exiting" /\ pc' = [pc EXCEPT ![r] = "stopping"]
    BY <1>2 DEF RunnerUnregister, Move
  <2>2. SlotActive BY <2>1 DEF SlotActive, InLoop
  <2>3. \A s \in Runner : pc'[s] \notin Busy
    BY <2>1 DEF SlotInv, TypeOK, SingleRunner, Busy, InLoop
  <2>4. Holder' = NoRunner BY <2>3, HolderWillBe
  <2>5. ~SlotActive' BY <2>3 DEF SlotActive, Busy
  <2>6. QED BY <2>2, <2>4, <2>5
<1>3. CASE ~RunnerStart(r) /\ ~RunnerUnregister(r)
  <2>1. SlotStable
    <3>1. \E to \in InLoop \cup {"stopping", "done"} :
            /\ pc' = [pc EXCEPT ![r] = to]
            /\ registry' = registry /\ reserved' = reserved
            /\ \/ pc[r] \in InLoop /\ to \in InLoop
               \/ pc[r] = "stopping" /\ to = "done"
      BY <1>3, RunnerStep(r)
      DEF RunnerStep, MarkRunning, LoopTop, LoopWoken, IterComplete,
          IterFail, IterPlan, IterPark, Park, Unpark, RunnerCrash,
          RunnerStopped, Move, Finish, InLoop
    <3>2. QED BY <3>1 DEF SlotStable, SlotInv, TypeOK, InLoop
  <2>2. QED BY <2>1, StableStutters
<1>4. QED BY <1>1, <1>2, <1>3

(* reserve_runner() acquires the slot; the rest of the handlers stutter.   *)
LEMMA HandlerStepRefines ==
  ASSUME SlotInv, SlotInv', NEW q \in Req, HandlerStep(q)
  PROVE  \/ \E r \in Runner : Holder = NoRunner /\ Holder' = r /\ ~SlotActive'
         \/ UNCHANGED <<Holder, SlotActive>>
<1>1. CASE Reserve(q) /\ ~IsReserved
  <2>1. PICK r \in Runner : NewRunner(r, "queued")
    BY <1>1 DEF Reserve
  <2>2. \A s \in Runner : pc[s] \notin Busy
    BY <1>1, LifecycleAssumption
    DEF IsReserved, SlotInv, RegistryExact, ReservationExact, Busy
  <2>3. pc'[r] = "queued" /\ \A s \in Runner : s # r => pc'[s] = pc[s]
    BY <2>1 DEF NewRunner, SlotInv, TypeOK
  <2>4. Holder = NoRunner BY <2>2, HolderIs
  <2>5. Holder' = r BY <2>3, HolderWillBe DEF Busy
  <2>6. ~SlotActive' BY <2>2, <2>3 DEF SlotActive, Busy, InLoop
  <2>7. QED BY <2>4, <2>5, <2>6
<1>2. CASE PauseCheck(q) \/ ResumeCheck(q) \/ StopCheck(q) \/ InjectWake(q)
  <2>1. registry' = registry /\ reserved' = reserved
    BY <1>2 DEF PauseCheck, ResumeCheck, StopCheck, InjectWake
  <2>2. \/ pc' = pc
        \/ \E r \in Runner \cup {NoRunner} : SetEvent(r) \/ ClearEvent(r)
    BY <1>2 DEF PauseCheck, ResumeCheck, StopCheck, InjectWake, SlotInv,
                TypeOK, ReqState
  <2>3. SlotStable BY <2>1, <2>2, EventKeepsPlaces DEF SlotStable, SlotInv
  <2>4. QED BY <2>3, StableStutters
<1>3. CASE /\ ~(Reserve(q) /\ ~IsReserved)
           /\ ~PauseCheck(q) /\ ~ResumeCheck(q) /\ ~StopCheck(q)
           /\ ~InjectWake(q)
  <2>1. UNCHANGED runnerVars
    BY <1>3, HandlerStep(q)
    DEF HandlerStep, RunCheck, RunPrep, ResetDb, HandlerFails, Reserve,
        PauseDb, ResumePrep, ResumeDb, StopDone, StopTimeout, StopDb,
        InjectCheck, InjectPrep
  <2>2. SlotStable BY <2>1 DEF SlotStable, runnerVars
  <2>3. QED BY <2>2, StableStutters
<1>4. QED BY <1>1, <1>2, <1>3

(* Every step of the lab is a step of the slot, or one it does not see.     *)
LEMMA SlotRefinesStep ==
  ASSUME SlotInv, SlotInv', [Next]_vars
  PROVE  [Slot!SlotNext]_(Slot!slotVars)
<1> USE DEF Slot!SlotNext, Slot!slotVars
<1>1. UNCHANGED <<Holder, SlotActive>> => UNCHANGED Slot!slotVars
  BY DEF SlotActive
<1>2. CASE UNCHANGED vars BY <1>1, <1>2 DEF vars, Holder, SlotActive
<1>3. ASSUME NEW r \in Runner, RunnerStep(r)
      PROVE  [Slot!SlotNext]_(Slot!slotVars)
  BY <1>1, <1>3, RunnerStepRefines DEF Slot!Start, Slot!Leave, SlotActive
<1>4. ASSUME NEW q \in Req, HandlerStep(q)
      PROVE  [Slot!SlotNext]_(Slot!slotVars)
  BY <1>1, <1>4, HandlerStepRefines DEF Slot!Acquire, SlotActive
<1>5. ASSUME NEW q \in Req, NEW k \in Kinds, Receive(q, k)
      PROVE  [Slot!SlotNext]_(Slot!slotVars)
  <2>1. SlotStable BY <1>5 DEF Receive, SlotStable, runnerVars
  <2>2. QED BY <2>1, <1>1, StableStutters
<1>6. CASE ProcessCrash
  <2>1. \A r \in Runner : pc'[r] \notin Busy
    BY <1>6 DEF ProcessCrash, Busy, InLoop
  <2>2. Holder' = NoRunner /\ ~SlotActive'
    BY <2>1, HolderWillBe DEF SlotActive, Busy
  <2>3. QED BY <2>2 DEF Slot!Reboot, SlotActive
<1>7. CASE Startup
  <2>1. SlotStable BY <1>7 DEF Startup, SlotStable, runnerVars
  <2>2. QED BY <2>1, <1>1, StableStutters
<1>8. QED BY <1>2, <1>3, <1>4, <1>5, <1>6, <1>7 DEF Next

(* At the start nobody holds it. *)
LEMMA SlotStartsEmpty == Init => Slot!SlotInit
BY DEF Init, Slot!SlotInit, Holder, Busy, InLoop

(* The lab's runners implement the slot of RunnerSlot: a run is acquired   *)
(* only when nobody holds the slot, starts once, and leaves it once.       *)
THEOREM SlotRefinement == Spec => SlotSpec
<1>1. SlotInv /\ SlotInv' /\ [Next]_vars => [Slot!SlotNext]_(Slot!slotVars)
  BY SlotRefinesStep
<1>2. QED
  BY <1>1, SlotStartsEmpty, SlotInvariant, PTL
  DEF Spec, SlotSpec, Slot!SlotSpec
=============================================================================
