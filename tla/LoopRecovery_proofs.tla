------------------------ MODULE LoopRecovery_proofs -------------------------
(***************************************************************************)
(* Proofs about LoopRecovery: what LabLifecycle_proofs shows of the lab    *)
(* alone holds with the anti-loop beside it, for any number of runners,    *)
(* requests and background tasks.                                          *)
(***************************************************************************)
EXTENDS LoopRecovery, LabLifecycle_proofs

(* What one step of the composition is to the lab: a step of LabLifecycle, *)
(* or one that writes a status and sets or clears one runner's event.      *)
RecoveryEffect ==
  /\ UNCHANGED <<up, registry, reserved, stopReq, req>>
  /\ status' \in {status, "paused", "running"}
  /\ \/ UNCHANGED <<pc, event>>
     \/ \E r \in Runner \cup {NoRunner} : SetEvent(r) \/ ClearEvent(r)

LEMMA LoopStepKinds ==
  ASSUME LoopTypeOK, [LoopNext]_loopVars
  PROVE  [Next]_vars \/ RecoveryEffect
<1>1. CASE UNCHANGED loopVars BY <1>1 DEF loopVars
<1>2. ASSUME NEW r \in Runner, LoopRunnerStep(r) PROVE Next
  BY <1>2 DEF LoopRunnerStep, RunnerStep, Next
<1>3. ASSUME NEW q \in Req, LoopHandlerStep(q) PROVE Next
  BY <1>3 DEF LoopHandlerStep, Next
<1>4. ASSUME NEW q \in Req, NEW k \in Kinds, Receive(q, k) PROVE Next
  BY <1>4 DEF Next
<1>5. ASSUME NEW t \in Task, Observe(t) PROVE UNCHANGED vars
  BY <1>5 DEF Observe
<1>6. ASSUME NEW t \in Task, RecoveryStep(t)
      PROVE  UNCHANGED vars \/ RecoveryEffect
  <2>1. CASE NothingFound(t) BY <2>1 DEF NothingFound
  <2>2. CASE RecoveryBegins(t)
    <3>1. registry \in Runner \cup {NoRunner} BY DEF LoopTypeOK, TypeOK
    <3>2. QED BY <2>2, <3>1 DEF RecoveryBegins, RecoveryEffect
  <2>3. CASE RecoveryPauses(t)
    BY <2>3 DEF RecoveryPauses, RecoveryEffect, runnerVars
  <2>4. CASE RecoveryCleans(t)
    <3>1. task[t].runner \in Runner \cup {NoRunner}
      BY DEF LoopTypeOK, TaskState
    <3>2. QED BY <2>4, <3>1 DEF RecoveryCleans, RecoveryEffect
  <2>5. CASE RecoveryResumes(t)
    BY <2>5 DEF RecoveryResumes, RecoveryEffect, runnerVars
  <2>6. CASE RecoveryAborts(t) BY <2>6 DEF RecoveryAborts
  <2>7. QED
    BY <1>6, <2>1, <2>2, <2>3, <2>4, <2>5, <2>6 DEF RecoveryStep
<1>7. LoopCrash => Next BY DEF LoopCrash, Next
<1>8. Startup => Next BY DEF Next
<1>9. QED
  BY <1>1, <1>2, <1>3, <1>4, <1>5, <1>6, <1>7, <1>8 DEF LoopNext

LEMMA EffectKeepsSlot ==
  ASSUME SlotInv, RecoveryEffect
  PROVE  SlotInv'
<1>1. TypeOK BY DEF SlotInv
<1>2. TypeOK'
  <2>1. event' \in [Runner -> BOOLEAN] /\ pc' \in [Runner -> PCs]
    BY <1>1, EventTypes DEF RecoveryEffect, TypeOK
  <2>2. status' \in Status BY <1>1 DEF RecoveryEffect, TypeOK, Status
  <2>3. QED BY <1>1, <2>1, <2>2 DEF RecoveryEffect, TypeOK
<1>3. SlotStable
  BY <1>1, EventKeepsPlaces DEF RecoveryEffect, SlotStable
<1>4. QED BY <1>2, <1>3, StableKeepsSlot

(* The variables of the detector keep their types. *)
LEMMA TaskTypes ==
  ASSUME LoopTypeOK, [LoopNext]_loopVars
  PROVE  task' \in [Task -> TaskState] /\ recovering' \in BOOLEAN
<1> USE DEF LoopTypeOK
<1>1. IdleTask \in TaskState BY DEF IdleTask, TaskState
<1>2. ASSUME NEW t \in Task, TaskEnds(t) PROVE task' \in [Task -> TaskState]
  BY <1>1, <1>2 DEF TaskEnds
<1>3. ASSUME NEW t \in Task, NEW where \in {"check", "cleanup", "resumeDb"},
             TaskGoto(t, where)
      PROVE  task' \in [Task -> TaskState]
  <2>1. task[t] \in TaskState OBVIOUS
  <2>2. [task[t] EXCEPT !.at = where] \in TaskState
    BY <2>1 DEF TaskState, Recovers
  <2>3. task' = [task EXCEPT ![t] = [task[t] EXCEPT !.at = where]]
    BY <1>3 DEF TaskGoto
  <2>4. QED BY <2>2, <2>3
<1>4. CASE UNCHANGED recVars BY <1>4 DEF recVars
<1>5. ASSUME NEW t \in Task, Observe(t) \/ RecoveryStep(t)
      PROVE  task' \in [Task -> TaskState] /\ recovering' \in BOOLEAN
  <2>1. CASE Observe(t) BY <2>1, <1>3 DEF Observe
  <2>2. CASE NothingFound(t) BY <2>2, <1>2 DEF NothingFound
  <2>3. CASE RecoveryBegins(t)
    <3>1. [at |-> "pauseDb", runner |-> registry] \in TaskState
      BY DEF TypeOK, TaskState, Recovers
    <3>2. QED BY <2>3, <3>1, <1>2 DEF RecoveryBegins
  <2>4. CASE RecoveryPauses(t) BY <2>4, <1>3 DEF RecoveryPauses
  <2>5. CASE RecoveryCleans(t) BY <2>5, <1>3 DEF RecoveryCleans
  <2>6. CASE RecoveryResumes(t) BY <2>6, <1>2 DEF RecoveryResumes
  <2>7. CASE RecoveryAborts(t) BY <2>7, <1>2 DEF RecoveryAborts
  <2>8. QED
    BY <1>5, <2>1, <2>2, <2>3, <2>4, <2>5, <2>6, <2>7 DEF RecoveryStep
<1>6. ASSUME NEW r \in Runner, LoopRunnerStep(r)
      PROVE  task' \in [Task -> TaskState] /\ recovering' \in BOOLEAN
  BY <1>6 DEF LoopRunnerStep, ResetLab, recVars
<1>7. CASE LoopCrash BY <1>7, <1>1 DEF LoopCrash
<1>8. QED
  BY <1>4, <1>5, <1>6, <1>7 DEF LoopNext, LoopHandlerStep, loopVars, recVars

-----------------------------------------------------------------------------
(***************************************************************************)
(* The inductive invariant: the slot of the lab, the types, and that an    *)
(* entry in _recovering belongs to a recovery under way.  A recovery that  *)
(* leaves Recovers discards the entry, so the last part is inductive once  *)
(* the tasks are known to be records.                                      *)
(***************************************************************************)
LoopInv == LoopTypeOK /\ SlotInv /\ RecoveringIsAtWork

LEMMA AtWorkStep ==
  ASSUME LoopTypeOK, RecoveringIsAtWork, [LoopNext]_loopVars
  PROVE  RecoveringIsAtWork'
<1> USE DEF LoopTypeOK, RecoveringIsAtWork
<1>1. CASE UNCHANGED recVars BY <1>1 DEF recVars
<1>2. ASSUME NEW r \in Runner, LoopRunnerStep(r) PROVE RecoveringIsAtWork'
  BY <1>2, <1>1 DEF LoopRunnerStep, ResetLab
<1>3. CASE LoopCrash BY <1>3 DEF LoopCrash
<1>4. ASSUME NEW t \in Task, Observe(t) \/ NothingFound(t)
      PROVE  RecoveringIsAtWork'
  <2>1. task[t].at \notin Recovers /\ recovering' = recovering
    BY <1>4 DEF Observe, NothingFound, Recovers
  <2>2. \A u \in Task : u # t => task'[u] = task[u]
    BY <1>4 DEF Observe, NothingFound, TaskGoto, TaskEnds
  <2>3. QED BY <2>1, <2>2
<1>5. ASSUME NEW t \in Task, RecoveryBegins(t) PROVE RecoveringIsAtWork'
  <2>1. task[t].at = "check" BY <1>5 DEF RecoveryBegins
  <2>2. CASE recovering \/ registry = NoRunner
    <3>1. recovering' = recovering /\ task' = [task EXCEPT ![t] = IdleTask]
      BY <1>5, <2>2 DEF RecoveryBegins, TaskEnds
    <3>2. \A u \in Task : task[u].at \in Recovers => task'[u] = task[u]
      BY <2>1, <3>1 DEF Recovers
    <3>3. QED BY <3>1, <3>2
  <2>3. CASE ~(recovering \/ registry = NoRunner)
    <3>1. task' = [task EXCEPT ![t] = [at |-> "pauseDb", runner |-> registry]]
      BY <1>5, <2>3 DEF RecoveryBegins
    <3>2. task'[t].at = "pauseDb" BY <3>1
    <3>3. QED BY <3>2 DEF Recovers
  <2>4. QED BY <2>2, <2>3
<1>6. ASSUME NEW t \in Task, RecoveryPauses(t) \/ RecoveryCleans(t)
      PROVE  RecoveringIsAtWork'
  <2>1. PICK where \in {"cleanup", "resumeDb"} :
          task' = [task EXCEPT ![t] = [task[t] EXCEPT !.at = where]]
    BY <1>6 DEF RecoveryPauses, RecoveryCleans, TaskGoto
  <2>2. task[t] \in TaskState OBVIOUS
  <2>3. task'[t].at = where BY <2>1, <2>2 DEF TaskState
  <2>4. QED BY <2>3 DEF Recovers
<1>7. ASSUME NEW t \in Task, RecoveryResumes(t) \/ RecoveryAborts(t)
      PROVE  RecoveringIsAtWork'
  BY <1>7 DEF RecoveryResumes, RecoveryAborts
<1>8. QED
  BY <1>1, <1>2, <1>3, <1>4, <1>5, <1>6, <1>7
  DEF LoopNext, LoopHandlerStep, RecoveryStep, loopVars, recVars

THEOREM LoopInvariant == LoopSpec => []LoopInv
<1>1. LoopInit => LoopInv
  <2> SUFFICES ASSUME LoopInit PROVE LoopInv
    OBVIOUS
  <2>1. TypeOK
    <3>1. IdleReq \in ReqState BY DEF IdleReq, ReqState, RouteKinds, Status
    <3>2. QED BY <3>1 DEF LoopInit, Init, TypeOK, Status, PCs
  <2>2. SlotInv
    BY <2>1, LifecycleAssumption
    DEF LoopInit, Init, SlotInv, SingleRunner, RegistryExact,
        ReservationExact, Busy, InLoop
  <2>3. IdleTask \in TaskState BY DEF IdleTask, TaskState
  <2>4. QED
    BY <2>1, <2>2, <2>3 DEF LoopInit, LoopInv, LoopTypeOK, RecoveringIsAtWork
<1>2. LoopInv /\ [LoopNext]_loopVars => LoopInv'
  <2> SUFFICES ASSUME LoopInv, [LoopNext]_loopVars PROVE LoopInv'
    OBVIOUS
  <2>1. LoopTypeOK /\ SlotInv /\ RecoveringIsAtWork BY DEF LoopInv
  <2>2. SlotInv'
    BY <2>1, LoopStepKinds, SlotStep, EffectKeepsSlot
  <2>3. LoopTypeOK'
    <3>1. task' \in [Task -> TaskState] /\ recovering' \in BOOLEAN
      BY <2>1, TaskTypes
    <3>2. QED BY <2>2, <3>1 DEF SlotInv, LoopTypeOK
  <2>4. RecoveringIsAtWork' BY <2>1, AtWorkStep
  <2>5. QED BY <2>2, <2>3, <2>4 DEF LoopInv
<1>3. QED BY <1>1, <1>2, PTL DEF LoopSpec

(* The lab is entered in _recovering only while a recovery is under way.   *)
THEOREM RecoveringIsReal == LoopSpec => []RecoveringIsAtWork
BY LoopInvariant, PTL DEF LoopInv

(* The anti-loop, which pauses and resumes runners it looked up before an  *)
(* await, never makes a second runner of the lab.                          *)
THEOREM OneRunnerBesideRecovery == LoopSpec => []SingleRunner
BY LoopInvariant, PTL DEF LoopInv, SlotInv

(* Every variable of the lab and of the detector keeps its type: no        *)
(* recovery writes a status the routes do not know, and none points at     *)
(* anything but a runner.                                                  *)
THEOREM LoopTypeCorrect == LoopSpec => []LoopTypeOK
BY LoopInvariant, PTL DEF LoopInv

(* A recovery that resumes a runner it looked up before an await, possibly *)
(* one that has left its loop since, neither brings an entry back into     *)
(* _active_runners nor keeps one there.                                    *)
THEOREM RegistryIsExactBesideRecovery == LoopSpec => []RegistryExact
BY LoopInvariant, PTL DEF LoopInv, SlotInv

(* Nor does it take or drop a reservation. *)
THEOREM ReservationIsExactBesideRecovery == LoopSpec => []ReservationExact
BY LoopInvariant, PTL DEF LoopInv, SlotInv

(* With the anti-loop beside it the lab still implements the slot of       *)
(* RunnerSlot: the two writes of an event and the two commits of a status  *)
(* that a recovery makes are steps the slot does not see.                  *)
THEOREM SlotRefinementBesideRecovery == LoopSpec => SlotSpec
<1>1. LoopInv /\ LoopInv' /\ [LoopNext]_loopVars
        => [Slot!SlotNext]_(Slot!slotVars)
  <2> SUFFICES ASSUME LoopInv, LoopInv', [LoopNext]_loopVars
               PROVE  [Slot!SlotNext]_(Slot!slotVars)
    OBVIOUS
  <2>1. SlotInv /\ SlotInv' /\ TypeOK BY DEF LoopInv, SlotInv
  <2>2. CASE [Next]_vars BY <2>1, <2>2, SlotRefinesStep
  <2>3. CASE RecoveryEffect
    <3>1. SlotStable
      BY <2>1, <2>3, EventKeepsPlaces DEF RecoveryEffect, SlotStable
    <3>2. UNCHANGED <<Holder, SlotActive>> BY <2>1, <3>1, StableStutters
    <3>3. QED BY <3>2 DEF SlotActive, Slot!slotVars
  <2>4. LoopTypeOK BY DEF LoopInv
  <2>5. QED BY <2>2, <2>3, <2>4, LoopStepKinds
<1>2. LoopInit => Slot!SlotInit BY SlotStartsEmpty DEF LoopInit
<1>3. QED
  BY <1>1, <1>2, LoopInvariant, PTL DEF LoopSpec, SlotSpec, Slot!SlotSpec

(* A recovery that resumes a runner whose stop was requested starts no     *)
(* iteration of it.                                                        *)
THEOREM StopIsObeyedBesideRecovery == LoopSpec => NoIterationAfterStop
<1> DEFINE A == \A r \in Runner :
                  pc[r] # "iter" /\ pc'[r] = "iter" => ~stopReq[r]
<1>1. LoopInv /\ [LoopNext]_loopVars => A
  <2> SUFFICES ASSUME LoopInv, [LoopNext]_loopVars, NEW r \in Runner,
                      pc[r] # "iter", pc'[r] = "iter"
               PROVE  ~stopReq[r]
    OBVIOUS
  <2>1. TypeOK /\ LoopTypeOK BY DEF LoopInv, LoopTypeOK
  <2>2. CASE [Next]_vars BY <2>1, <2>2, StopObeyedStep
  <2>3. CASE RecoveryEffect
    <3>1. ASSUME NEW s, SetEvent(s) PROVE FALSE
      <4>1. s = r BY <2>1, <3>1 DEF SetEvent, TypeOK
      <4>2. Released(s) # "iter" BY <4>1 DEF Released
      <4>3. QED BY <2>1, <3>1, <4>1, <4>2 DEF SetEvent, TypeOK
    <3>2. QED BY <2>3, <3>1 DEF RecoveryEffect, ClearEvent
  <2>4. QED BY <2>1, <2>2, <2>3, LoopStepKinds
<1>2. UNCHANGED vars => A BY DEF vars
<1>3. QED
  BY <1>1, <1>2, LoopInvariant, PTL DEF LoopSpec, NoIterationAfterStop

LEMMA EffectStands ==
  ASSUME TypeOK, NeverBlocked, RecoveryEffect
  PROVE  NeverBlocked' /\ Stands
<1>1. stopReq' = stopReq BY DEF RecoveryEffect
<1>2. CASE pc' = pc BY <1>1, <1>2 DEF NeverBlocked, Stands, Leaving
<1>3. CASE \E r \in Runner \cup {NoRunner} : SetEvent(r) \/ ClearEvent(r)
  BY <1>1, <1>3, EventStands
<1>4. QED BY <1>2, <1>3 DEF RecoveryEffect

(* A recovery that pauses a runner whose stop was requested does not make  *)
(* it wait at the top of its loop: the safety half of StopEndsWaitingLoop. *)
THEOREM StopUnblocksBesideRecovery == LoopSpec => []NeverBlocked
<1>1. LoopInit => NeverBlocked BY NobodyBlockedAtFirst DEF LoopInit
<1>2. LoopInv /\ NeverBlocked /\ [LoopNext]_loopVars => NeverBlocked'
  BY LoopStepKinds, StandsStep, EffectStands DEF LoopInv, LoopTypeOK
<1>3. QED BY <1>1, <1>2, LoopInvariant, PTL DEF LoopSpec

(* Nor does it, or a pause of the user beside it, take the stop back.      *)
THEOREM StopIsNotTakenBackBesideRecovery == LoopSpec => StopStands
<1>1. LoopInv /\ NeverBlocked /\ [LoopNext]_loopVars => Stands
  BY LoopStepKinds, StandsStep, EffectStands DEF LoopInv, LoopTypeOK
<1>2. UNCHANGED vars => Stands BY DEF vars, Stands, Leaving
<1>3. QED
  BY <1>1, <1>2, StopUnblocksBesideRecovery, LoopInvariant, PTL
  DEF LoopSpec, StopStands
=============================================================================
