------------------------- MODULE LabSpawners_proofs -------------------------
(***************************************************************************)
(* Proofs about LabSpawners: what survives of the registry's promise when  *)
(* runners are started without a reservation, for any number of runners,   *)
(* of lab requests and of instance requests.                               *)
(***************************************************************************)
EXTENDS LabSpawners, LabLifecycle_proofs

(* Where the runner that the registry names is, after a step of the        *)
(* lifecycle that leaves the registry alone.                               *)
Kept == /\ registry' = registry
        /\ \A s \in Runner : pc[s] \in InLoop => pc'[s] \in InLoop

LEMMA KeptIsLive ==
  ASSUME TypeOK, RegistryLive, Kept
  PROVE  RegistryLive'
BY DEF TypeOK, RegistryLive, Kept

(* An object that is not in use is in no loop. *)
LEMMA NewRunnerKeeps ==
  ASSUME TypeOK, NEW r \in Runner, Fresh(r), NewRunner(r, "queued"),
         registry' = registry
  PROVE  Kept
BY DEF TypeOK, Fresh, NewRunner, Kept, InLoop

LEMMA RunnerStepLive ==
  ASSUME TypeOK, RegistryLive, NEW r \in Runner, RunnerStep(r)
  PROVE  RegistryLive'
<1>1. CASE RunnerStart(r)
  BY <1>1 DEF RunnerStart, Move, TypeOK, RegistryLive, InLoop
<1>2. CASE RunnerUnregister(r)
  BY <1>2 DEF RunnerUnregister, Move, RegistryLive
<1>3. CASE RunnerStopped(r)
  <2>1. Kept BY <1>3 DEF RunnerStopped, Move, TypeOK, Kept, InLoop
  <2>2. QED BY <2>1, KeptIsLive
<1>4. CASE ~RunnerStart(r) /\ ~RunnerUnregister(r) /\ ~RunnerStopped(r)
  <2>1. \E to \in InLoop : pc' = [pc EXCEPT ![r] = to] /\ registry' = registry
    BY <1>4, RunnerStep(r)
    DEF RunnerStep, MarkRunning, LoopTop, LoopWoken, IterComplete, IterFail,
        IterPlan, IterPark, Park, Unpark, RunnerCrash, Move, Finish, InLoop
  <2>2. Kept BY <2>1 DEF Kept, TypeOK
  <2>3. QED BY <2>2, KeptIsLive
<1>5. QED BY <1>1, <1>2, <1>3, <1>4

LEMMA HandlerStepLive ==
  ASSUME TypeOK, RegistryLive, NEW q \in Req, HandlerStep(q)
  PROVE  RegistryLive'
<1>1. CASE Reserve(q)
  <2>1. registry' = registry BY <1>1 DEF Reserve, runnerVars
  <2>2. CASE UNCHANGED runnerVars
    BY <2>2, KeptIsLive DEF Kept, runnerVars
  <2>3. CASE \E r \in Runner : Fresh(r) /\ NewRunner(r, "queued")
    BY <2>1, <2>3, NewRunnerKeeps, KeptIsLive
  <2>4. QED BY <1>1, <2>2, <2>3 DEF Reserve
<1>2. CASE PauseCheck(q) \/ ResumeCheck(q) \/ StopCheck(q) \/ InjectWake(q)
  <2>1. registry' = registry
    BY <1>2 DEF PauseCheck, ResumeCheck, StopCheck, InjectWake
  <2>2. \/ pc' = pc
        \/ \E r \in Runner \cup {NoRunner} : SetEvent(r) \/ ClearEvent(r)
    BY <1>2 DEF PauseCheck, ResumeCheck, StopCheck, InjectWake,
                TypeOK, ReqState
  <2>3. Kept BY <2>1, <2>2, EventKeepsPlaces DEF Kept
  <2>4. QED BY <2>3, KeptIsLive
<1>3. CASE ~Reserve(q) /\ ~PauseCheck(q) /\ ~ResumeCheck(q) /\ ~StopCheck(q)
           /\ ~InjectWake(q)
  <2>1. UNCHANGED runnerVars
    BY <1>3, HandlerStep(q)
    DEF HandlerStep, RunCheck, RunPrep, ResetDb, HandlerFails, PauseDb,
        ResumePrep, ResumeDb, StopDone, StopTimeout, StopDb, InjectCheck,
        InjectPrep
  <2>2. QED BY <2>1, KeptIsLive DEF Kept, runnerVars
<1>4. QED BY <1>1, <1>2, <1>3

-----------------------------------------------------------------------------
(* The scheduler and the instance routes *)

(* A runner that is started without a reservation. *)
LEMMA SpawnKeeps ==
  ASSUME TypeOK, Spawn, UNCHANGED <<up, req>>, status' \in Status
  PROVE  TypeOK' /\ Kept
<1>1. PICK r \in Runner : Fresh(r) /\ NewRunner(r, "queued") BY DEF Spawn
<1>2. registry' = registry /\ reserved' = reserved BY DEF Spawn
<1>3. Kept BY <1>1, <1>2, NewRunnerKeeps
<1>4. /\ pc' \in [Runner -> PCs]
      /\ event' \in [Runner -> BOOLEAN]
      /\ stopReq' \in [Runner -> BOOLEAN]
  BY <1>1 DEF NewRunner, TypeOK, PCs, Busy
<1>5. QED BY <1>2, <1>3, <1>4 DEF TypeOK

SchedType == sched \in [at : {"boot", "recover", "unstick", "asleep", "tick",
                              "jobs", "job", "wake"}, snap : Status]
InstType  == inst \in [Inst -> [at : {"idle", "check", "prep", "spawn"},
                                kind : {"run", "resume", "stop", "inject"},
                                snap : Status]]

LEMMA SchedulerKeeps ==
  ASSUME TypeOK, SchedType, Scheduler
  PROVE  TypeOK' /\ SchedType' /\ Kept /\ inst' = inst
<1> USE DEF SchedType, Status, SchedAt
<1>1. CASE RecoverRead BY <1>1 DEF RecoverRead, vars, TypeOK, Kept
<1>2. CASE RecoverCheck BY <1>2 DEF RecoverCheck, vars, TypeOK, Kept
<1>3. CASE RecoverWrite
  BY <1>3 DEF RecoverWrite, runnerVars, TypeOK, Kept
<1>4. CASE TickRead BY <1>4 DEF TickRead, vars, TypeOK, Kept
<1>5. CASE LabCronFires
  <2>1. status' \in Status BY <1>5 DEF LabCronFires, TypeOK
  <2>2. TypeOK' /\ Kept BY <1>5, <2>1, SpawnKeeps DEF LabCronFires
  <2>3. QED BY <1>5, <2>2 DEF LabCronFires
<1>6. CASE LabCronNotDue BY <1>6 DEF LabCronNotDue, vars, TypeOK, Kept
<1>7. CASE JobsRead BY <1>7 DEF JobsRead, vars, TypeOK, Kept
<1>8. CASE CronJobWakes
  <2>1. /\ UNCHANGED <<up, status, registry, reserved, stopReq, req, inst>>
        /\ UNCHANGED <<pc, event>> \/ SetEvent(registry)
    BY <1>8 DEF CronJobWakes
  <2>2. TypeOK' BY <2>1, EventTypes DEF TypeOK
  <2>3. Kept BY <2>1, EventKeepsPlaces DEF Kept
  <2>4. SchedType' BY <1>8 DEF CronJobWakes
  <2>5. QED BY <2>1, <2>2, <2>3, <2>4
<1>9. CASE CronJobSpawns
  <2>1. status' \in Status BY <1>9 DEF CronJobSpawns, TypeOK
  <2>2. TypeOK' /\ Kept BY <1>9, <2>1, SpawnKeeps DEF CronJobSpawns
  <2>3. QED BY <1>9, <2>2 DEF CronJobSpawns
<1>10. CASE CronJobNotDue BY <1>10 DEF CronJobNotDue, vars, TypeOK, Kept
<1>11. CASE CronJobDb BY <1>11 DEF CronJobDb, runnerVars, TypeOK, Kept
<1>12. QED
  BY Scheduler, <1>1, <1>2, <1>3, <1>4, <1>5, <1>6, <1>7, <1>8, <1>9, <1>10,
     <1>11 DEF Scheduler

LEMMA InstRecords ==
  ASSUME InstType, NEW i \in Inst
  PROVE  /\ InstReturn(i) => InstType'
         /\ InstReady(i) => InstType'
         /\ InstGoto(i, "prep") => InstType'
<1> DEFINE Rec == [at : {"idle", "check", "prep", "spawn"},
                   kind : {"run", "resume", "stop", "inject"}, snap : Status]
<1>1. inst \in [Inst -> Rec] BY DEF InstType
<1>2. NoInst \in Rec BY DEF NoInst, Status
<1>3. [inst[i] EXCEPT !.at = "prep"] \in Rec BY <1>1
<1>4. [inst[i] EXCEPT !.at = "spawn", !.snap = "created"] \in Rec
  BY <1>1 DEF Status
<1>5. \A x \in Rec : [inst EXCEPT ![i] = x] \in [Inst -> Rec] BY <1>1
<1>6. InstReturn(i) => inst' \in [Inst -> Rec]
  BY <1>2, <1>5 DEF InstReturn
<1>7. InstReady(i) => inst' \in [Inst -> Rec]
  BY <1>4, <1>5 DEF InstReady
<1>8. InstGoto(i, "prep") => inst' \in [Inst -> Rec]
  <2>1. InstGoto(i, "prep") =>
          inst' = [inst EXCEPT ![i] = [inst[i] EXCEPT !.at = "prep"]]
    BY DEF InstGoto
  <2>2. QED BY <1>3, <1>5, <2>1
<1>9. QED BY <1>6, <1>7, <1>8 DEF InstType

LEMMA InstStepKeeps ==
  ASSUME TypeOK, InstType, NEW i \in Inst, InstStep(i)
  PROVE  TypeOK' /\ InstType' /\ Kept /\ sched' = sched
<1> USE InstRecords
<1>1. CASE InstRefused(i) BY <1>1 DEF InstRefused, vars, TypeOK, Kept
<1>2. CASE InstAccepted(i) BY <1>2 DEF InstAccepted, vars, TypeOK, Kept
<1>3. CASE InstRunPrep(i)
  BY <1>3 DEF InstRunPrep, runnerVars, TypeOK, Kept, Status
<1>4. CASE InstStopDb(i)
  BY <1>4 DEF InstStopDb, runnerVars, TypeOK, Kept, Status
<1>5. CASE InstFails(i) BY <1>5 DEF InstFails, vars, TypeOK, Kept
<1>6. CASE InstResume(i)
  <2>1. UNCHANGED <<up, req, sched>> BY <1>6 DEF InstResume
  <2>2. CASE Spawn /\ UNCHANGED status /\ InstReturn(i)
    <3>1. status' \in Status BY <2>2 DEF TypeOK
    <3>2. QED BY <2>1, <2>2, <3>1, SpawnKeeps
  <2>3. CASE status' = "created" /\ UNCHANGED runnerVars /\ InstReady(i)
    BY <2>1, <2>3 DEF runnerVars, TypeOK, Kept, Status
  <2>4. QED BY <1>6, <2>2, <2>3 DEF InstResume
<1>7. CASE InstSpawn(i)
  <2>1. status' \in Status BY <1>7 DEF InstSpawn, TypeOK
  <2>2. QED BY <1>7, <2>1, SpawnKeeps DEF InstSpawn
<1>8. QED
  BY InstStep(i), <1>1, <1>2, <1>3, <1>4, <1>5, <1>6, <1>7 DEF InstStep

-----------------------------------------------------------------------------
(* RegistryLive is inductive together with the types: an entry is made by  *)
(* the runner that enters its loop, and whoever leaves its loop pops the   *)
(* entry, be it its own or another's.                                      *)
SpawnInv == SpawnTypeOK /\ RegistryLive

LEMMA SpawnInvInit == SpawnInit => SpawnInv
<1>1. Init => TypeOK
  <2>1. IdleReq \in ReqState BY DEF IdleReq, ReqState, RouteKinds, Status
  <2>2. QED BY <2>1 DEF Init, TypeOK, Status, PCs
<1>2. QED
  BY <1>1 DEF SpawnInit, SpawnInv, SpawnTypeOK, RegistryLive, Init, NoInst,
              Status

LEMMA SpawnInvNext == SpawnInv /\ [SpawnNext]_spawnVars => SpawnInv'
<1> SUFFICES ASSUME SpawnInv, [SpawnNext]_spawnVars PROVE SpawnInv'
  OBVIOUS
<1>1. TypeOK /\ SchedType /\ InstType /\ RegistryLive
  BY DEF SpawnInv, SpawnTypeOK, SchedType, InstType
<1>2. SUFFICES TypeOK' /\ SchedType' /\ InstType' /\ RegistryLive'
  BY DEF SpawnInv, SpawnTypeOK, SchedType, InstType
<1>3. CASE UNCHANGED spawnVars
  BY <1>1, <1>3
  DEF spawnVars, vars, TypeOK, SchedType, InstType, RegistryLive
<1>4. CASE UNCHANGED <<sched, inst>> /\ \E r \in Runner : RunnerStep(r)
  BY <1>1, <1>4, RunnerStepType, RunnerStepLive DEF SchedType, InstType
<1>5. CASE UNCHANGED <<sched, inst>> /\ \E q \in Req : HandlerStep(q)
  BY <1>1, <1>5, HandlerStepType, HandlerStepLive DEF SchedType, InstType
<1>6. CASE /\ UNCHANGED <<sched, inst>>
           /\ \E q \in Req : \E k \in Kinds : Receive(q, k)
  <2>1. TypeOK' BY <1>1, <1>6, ReceiveType
  <2>2. registry' = registry /\ pc' = pc
    BY <1>6 DEF Receive, runnerVars
  <2>3. QED BY <1>1, <1>6, <2>1, <2>2 DEF SchedType, InstType, RegistryLive
<1>7. CASE UNCHANGED <<sched, inst>> /\ Startup
  <2>1. TypeOK' BY <1>1, <1>7, RestartType
  <2>2. registry' = registry /\ pc' = pc BY <1>7 DEF Startup, runnerVars
  <2>3. QED BY <1>1, <1>7, <2>1, <2>2 DEF SchedType, InstType, RegistryLive
<1>8. CASE Scheduler
  BY <1>1, <1>8, SchedulerKeeps, KeptIsLive DEF InstType
<1>9. CASE \E i \in Inst : InstStep(i)
  BY <1>1, <1>9, InstStepKeeps, KeptIsLive DEF SchedType
<1>10. CASE \E i \in Inst : \E k \in InstKinds : InstReceive(i, k)
  <2>1. UNCHANGED <<vars, sched>> BY <1>10 DEF InstReceive
  <2>2. InstType'
    BY <1>1, <1>10, SpawnersAssumption DEF InstReceive, InstType, TypeOK
  <2>3. QED
    BY <1>1, <2>1, <2>2 DEF vars, TypeOK, SchedType, RegistryLive
<1>11. CASE SpawnCrash
  <2>1. TypeOK' BY <1>1, <1>11, RestartType DEF SpawnCrash
  <2>2. registry' = NoRunner BY <1>11 DEF SpawnCrash, ProcessCrash
  <2>3. SchedType' /\ InstType'
    BY <1>11 DEF SpawnCrash, SchedType, InstType, NoInst, Status
  <2>4. QED BY <2>1, <2>2, <2>3 DEF RegistryLive
<1>12. QED
  BY <1>3, <1>4, <1>5, <1>6, <1>7, <1>8, <1>9, <1>10, <1>11 DEF SpawnNext

THEOREM SpawnInvariant == SpawnSpec => []SpawnInv
BY SpawnInvInit, SpawnInvNext, PTL DEF SpawnSpec

(* Every variable keeps its type when the scheduler and the instance       *)
(* routes run beside the lab routes.                                       *)
THEOREM SpawnTypeCorrect == SpawnSpec => []SpawnTypeOK
BY SpawnInvariant, PTL DEF SpawnInv

(* get_runner() never names a runner whose loop is over, however many      *)
(* runners are started without a reservation.                              *)
THEOREM RegistryIsLive == SpawnSpec => []RegistryLive
BY SpawnInvariant, PTL DEF SpawnInv

-----------------------------------------------------------------------------
(***************************************************************************)
(* What a step of the composition is to the lab: a step of LabLifecycle,   *)
(* or one that writes a status, wakes the registered runner, or makes a    *)
(* runner that nothing is reserved for.                                    *)
(***************************************************************************)
Adds    == \E r \in Runner : Fresh(r) /\ NewRunner(r, "queued")
Effect(Change) ==
  UNCHANGED <<up, registry, reserved, req>> /\ status' \in Status /\ Change
Written == Effect(UNCHANGED <<pc, event, stopReq>>)
Woke    == Effect(SetEvent(registry) /\ UNCHANGED stopReq)
Added   == Effect(Adds)

LEMMA SpawnStepKinds ==
  ASSUME TypeOK, [SpawnNext]_spawnVars
  PROVE  [Next]_vars \/ Written \/ Woke \/ Added
<1>1. CASE UNCHANGED spawnVars BY <1>1 DEF spawnVars
<1>2. CASE \/ \E r \in Runner : RunnerStep(r)
           \/ \E q \in Req : HandlerStep(q) \/ \E k \in Kinds : Receive(q, k)
           \/ Startup
  BY <1>2 DEF Next
<1>3. CASE Scheduler
  <2>1. CASE LabCronFires \/ CronJobSpawns
    BY <2>1
    DEF LabCronFires, CronJobSpawns, Spawn, Adds, Added, Effect, TypeOK
  <2>2. CASE CronJobWakes
    BY <2>2 DEF CronJobWakes, Written, Woke, Effect, TypeOK
  <2>3. CASE RecoverWrite \/ CronJobDb
    BY <2>3
    DEF RecoverWrite, CronJobDb, runnerVars, Written, Effect, Status
  <2>4. CASE \/ RecoverRead \/ RecoverCheck \/ TickRead \/ LabCronNotDue
             \/ JobsRead \/ CronJobNotDue
    BY <2>4
    DEF RecoverRead, RecoverCheck, TickRead, LabCronNotDue, JobsRead,
        CronJobNotDue
  <2>5. QED BY <1>3, <2>1, <2>2, <2>3, <2>4 DEF Scheduler
<1>4. ASSUME NEW i \in Inst, InstStep(i)
      PROVE  UNCHANGED vars \/ Written \/ Added
  <2>1. CASE InstRefused(i) \/ InstAccepted(i) \/ InstFails(i)
    BY <2>1 DEF InstRefused, InstAccepted, InstFails
  <2>2. CASE InstRunPrep(i) \/ InstStopDb(i)
    BY <2>2
    DEF InstRunPrep, InstStopDb, runnerVars, Written, Effect, TypeOK, Status
  <2>3. CASE InstSpawn(i)
    BY <2>3 DEF InstSpawn, Spawn, Adds, Added, Effect, TypeOK
  <2>4. CASE InstResume(i)
    BY <2>4
    DEF InstResume, Spawn, runnerVars, Adds, Added, Written, Effect, TypeOK,
        Status
  <2>5. QED BY <1>4, <2>1, <2>2, <2>3, <2>4 DEF InstStep
<1>5. ASSUME NEW i \in Inst, NEW k \in InstKinds, InstReceive(i, k)
      PROVE  UNCHANGED vars
  BY <1>5 DEF InstReceive
<1>6. CASE SpawnCrash BY <1>6 DEF SpawnCrash, Next
<1>7. QED BY <1>1, <1>2, <1>3, <1>4, <1>5, <1>6 DEF SpawnNext

(* A wake-up takes no runner into an iteration, and the runner that is     *)
(* made is in none: that a stop is obeyed needs no reservation.            *)
THEOREM StopIsObeyedUnreserved == SpawnSpec => NoIterationAfterStop
<1> DEFINE A == \A r \in Runner :
                  pc[r] # "iter" /\ pc'[r] = "iter" => ~stopReq[r]
<1>1. SpawnInv /\ [SpawnNext]_spawnVars => A
  <2> SUFFICES ASSUME SpawnInv, [SpawnNext]_spawnVars, NEW r \in Runner,
                      pc[r] # "iter", pc'[r] = "iter"
               PROVE  ~stopReq[r]
    OBVIOUS
  <2>1. TypeOK BY DEF SpawnInv, SpawnTypeOK
  <2>2. CASE [Next]_vars BY <2>1, <2>2, StopObeyedStep
  <2>3. CASE Written BY <2>3 DEF Written, Effect
  <2>4. CASE Woke
    <3>1. pc' = [pc EXCEPT ![registry] = Released(registry)]
      BY <2>4 DEF Woke, Effect, SetEvent
    <3>2. registry = r BY <2>1, <3>1 DEF TypeOK
    <3>3. Released(registry) # "iter" BY <3>2 DEF Released
    <3>4. QED BY <2>1, <3>1, <3>2, <3>3 DEF TypeOK
  <2>5. CASE Added BY <2>1, <2>5 DEF Added, Effect, Adds, NewRunner, TypeOK
  <2>6. QED BY <2>1, <2>2, <2>3, <2>4, <2>5, SpawnStepKinds
<1>2. UNCHANGED vars => A BY DEF vars
<1>3. QED
  BY <1>1, <1>2, SpawnInvariant, PTL DEF SpawnSpec, NoIterationAfterStop

LEMMA SpawnStands ==
  ASSUME SpawnInv, NeverBlocked, [SpawnNext]_spawnVars
  PROVE  NeverBlocked' /\ Stands
<1>1. TypeOK BY DEF SpawnInv, SpawnTypeOK
<1>2. CASE [Next]_vars BY <1>1, <1>2, StandsStep
<1>3. CASE Written
  BY <1>3 DEF Written, Effect, NeverBlocked, Stands, Leaving
<1>4. CASE Woke BY <1>1, <1>4, EventStands DEF Woke, Effect
<1>5. CASE Added BY <1>1, <1>5, NewRunnerStands DEF Added, Effect, Adds
<1>6. QED BY <1>1, <1>2, <1>3, <1>4, <1>5, SpawnStepKinds

(* And no wake-up of a cron job or of an instance takes a stop back, nor   *)
(* does a runner that starts beside the one that was stopped.              *)
THEOREM StopUnblocksUnreserved == SpawnSpec => []NeverBlocked
<1>1. SpawnInit => NeverBlocked BY NobodyBlockedAtFirst DEF SpawnInit
<1>2. SpawnInv /\ NeverBlocked /\ [SpawnNext]_spawnVars => NeverBlocked'
  BY SpawnStands
<1>3. QED BY <1>1, <1>2, SpawnInvariant, PTL DEF SpawnSpec

(* The stop of a runner stands until it leaves its loop, beside the others.*)
THEOREM StopIsNotTakenBackUnreserved == SpawnSpec => StopStands
<1>1. SpawnInv /\ NeverBlocked /\ [SpawnNext]_spawnVars => Stands
  BY SpawnStands
<1>2. UNCHANGED vars => Stands BY DEF vars, Stands, Leaving
<1>3. QED
  BY <1>1, <1>2, StopUnblocksUnreserved, SpawnInvariant, PTL
  DEF SpawnSpec, StopStands

-----------------------------------------------------------------------------
(***************************************************************************)
(* The reservation.  That it is exclusive is lost (ReservationExclusive):  *)
(* a runner that nothing was reserved for can be queued beside the one it  *)
(* stands for, and drops it when it starts.  What is left is that it never *)
(* leaks: it stands only while some runner is queued, which drops it.      *)
(***************************************************************************)
ReservationHasRunner == reserved => \E r \in Runner : pc[r] = "queued"

(* The queue of runners is the same, and nothing new is reserved.          *)
SameQueue ==
  /\ reserved' => reserved
  /\ \A r \in Runner : pc[r] = "queued" => pc'[r] = "queued"

LEMMA ReservationStep ==
  ASSUME TypeOK, ReservationHasRunner, [Next]_vars
  PROVE  ReservationHasRunner'
<1>1. SameQueue => ReservationHasRunner'
  BY DEF SameQueue, ReservationHasRunner
<1>2. CASE UNCHANGED vars BY <1>1, <1>2 DEF vars, SameQueue
<1>3. ASSUME NEW r \in Runner, RunnerStep(r) PROVE ReservationHasRunner'
  <2>1. CASE RunnerStart(r) \/ RunnerUnregister(r)
    BY <2>1 DEF RunnerStart, RunnerUnregister, ReservationHasRunner
  <2>2. CASE RunnerStopped(r)
    BY <1>1, <2>2 DEF RunnerStopped, Move, SameQueue, TypeOK
  <2>3. CASE ~RunnerStart(r) /\ ~RunnerUnregister(r) /\ ~RunnerStopped(r)
    <3>1. /\ pc[r] # "queued" /\ reserved' = reserved
          /\ \E to \in InLoop : pc' = [pc EXCEPT ![r] = to]
      BY <1>3, <2>3
      DEF RunnerStep, MarkRunning, LoopTop, LoopWoken, IterComplete, IterFail,
          IterPlan, IterPark, Park, Unpark, RunnerCrash, Move, Finish, InLoop
    <3>2. QED BY <1>1, <3>1 DEF SameQueue, TypeOK
  <2>4. QED BY <2>1, <2>2, <2>3
<1>4. ASSUME NEW q \in Req, HandlerStep(q) PROVE ReservationHasRunner'
  <2>1. CASE Reserve(q) /\ ~IsReserved
    BY <2>1 DEF Reserve, NewRunner, TypeOK, ReservationHasRunner
  <2>2. CASE PauseCheck(q) \/ ResumeCheck(q) \/ StopCheck(q) \/ InjectWake(q)
    <3>1. reserved' = reserved
      BY <2>2 DEF PauseCheck, ResumeCheck, StopCheck, InjectWake
    <3>2. \/ pc' = pc
          \/ \E r \in Runner \cup {NoRunner} : SetEvent(r) \/ ClearEvent(r)
      BY <2>2 DEF PauseCheck, ResumeCheck, StopCheck, InjectWake, TypeOK,
                  ReqState
    <3>3. SameQueue BY <3>1, <3>2, EventKeepsPlaces DEF SameQueue
    <3>4. QED BY <1>1, <3>3
  <2>3. CASE /\ ~(Reserve(q) /\ ~IsReserved)
             /\ ~PauseCheck(q) /\ ~ResumeCheck(q) /\ ~StopCheck(q)
             /\ ~InjectWake(q)
    <3>1. UNCHANGED runnerVars
      BY <1>4, <2>3
      DEF HandlerStep, RunCheck, RunPrep, ResetDb, HandlerFails, Reserve,
          PauseDb, ResumePrep, ResumeDb, StopDone, StopTimeout, StopDb,
          InjectCheck, InjectPrep
    <3>2. QED BY <1>1, <3>1 DEF SameQueue, runnerVars
  <2>4. QED BY <2>1, <2>2, <2>3
<1>5. ASSUME NEW q \in Req, NEW k \in Kinds, Receive(q, k)
      PROVE  ReservationHasRunner'
  BY <1>1, <1>5 DEF Receive, runnerVars, SameQueue
<1>6. CASE ProcessCrash BY <1>6 DEF ProcessCrash, ReservationHasRunner
<1>7. CASE Startup BY <1>1, <1>7 DEF Startup, runnerVars, SameQueue
<1>8. QED BY <1>2, <1>3, <1>4, <1>5, <1>6, <1>7 DEF Next

(* No reservation is left behind to refuse every later run of the lab,     *)
(* although runners that made none start, run and end beside it.           *)
THEOREM NoReservationLeaks == SpawnSpec => []ReservationHasRunner
<1>1. SpawnInit => ReservationHasRunner
  BY DEF SpawnInit, Init, ReservationHasRunner
<1>2. SpawnInv /\ ReservationHasRunner /\ [SpawnNext]_spawnVars
        => ReservationHasRunner'
  <2> SUFFICES ASSUME SpawnInv, ReservationHasRunner, [SpawnNext]_spawnVars
               PROVE  ReservationHasRunner'
    OBVIOUS
  <2>1. TypeOK BY DEF SpawnInv, SpawnTypeOK
  <2>2. SameQueue => ReservationHasRunner'
    BY DEF SameQueue, ReservationHasRunner
  <2>3. CASE [Next]_vars BY <2>1, <2>3, ReservationStep
  <2>4. CASE Written BY <2>2, <2>4 DEF Written, Effect, SameQueue
  <2>5. CASE Woke
    BY <2>1, <2>2, <2>5, EventKeepsPlaces DEF Woke, Effect, SameQueue
  <2>6. CASE Added
    BY <2>1, <2>2, <2>6 DEF Added, Effect, Adds, NewRunner, SameQueue, TypeOK
  <2>7. QED BY <2>1, <2>3, <2>4, <2>5, <2>6, SpawnStepKinds
<1>3. QED BY <1>1, <1>2, SpawnInvariant, PTL DEF SpawnSpec

-----------------------------------------------------------------------------
(***************************************************************************)
(* It is the callers without a reservation that break the promise of one   *)
(* runner, and no others: on a lab without a cron expression and without   *)
(* cron jobs, and of which no instance is run, resumed or injected into,   *)
(* the scheduler's recovery after a restart and the instances' /stop       *)
(* leave the slot to the lab routes.                                       *)
(***************************************************************************)
OnlyReserving == InstKinds \subseteq {"stop"} /\ ~LabCron /\ ~CronJobs

StopsOnly ==
  \A i \in Inst : inst[i].at = "idle" \/ InstAt(i, "check", {"stop"})
                                      \/ InstAt(i, "prep", {"stop"})

LEMMA StopsOnlyStep ==
  ASSUME OnlyReserving, SpawnInv, StopsOnly, [SpawnNext]_spawnVars
  PROVE  StopsOnly' /\ ([Next]_vars \/ Written)
<1>1. TypeOK /\ InstType BY DEF SpawnInv, SpawnTypeOK, InstType
<1>2. inst' = inst => StopsOnly' BY DEF StopsOnly, InstAt
<1>3. ASSUME NEW i \in Inst,
             \/ InstReturn(i)
             \/ inst[i].kind = "stop" /\ InstGoto(i, "prep")
      PROVE  StopsOnly'
  <2>1. \A j \in Inst : j # i => inst'[j] = inst[j]
    BY <1>1, <1>3 DEF InstReturn, InstGoto, InstType
  <2>2. \/ inst'[i].at = "idle"
        \/ inst'[i].at = "prep" /\ inst'[i].kind = "stop"
    BY <1>1, <1>3 DEF InstReturn, InstGoto, InstType, NoInst
  <2>3. QED BY <2>1, <2>2 DEF StopsOnly, InstAt
<1>4. CASE UNCHANGED spawnVars BY <1>2, <1>4 DEF spawnVars
<1>5. CASE /\ \/ \E r \in Runner : RunnerStep(r)
              \/ \E q \in Req : HandlerStep(q) \/ \E k \in Kinds : Receive(q, k)
              \/ Startup
           /\ UNCHANGED <<sched, inst>>
  BY <1>2, <1>5 DEF Next
<1>6. CASE Scheduler
  <2>1. ~LabCronFires /\ ~CronJobWakes /\ ~CronJobSpawns
    BY DEF OnlyReserving, LabCronFires, CronJobWakes, CronJobSpawns
  <2>2. CASE RecoverWrite \/ CronJobDb
    BY <1>2, <2>2
    DEF RecoverWrite, CronJobDb, runnerVars, Written, Effect, Status
  <2>3. CASE \/ RecoverRead \/ RecoverCheck \/ TickRead \/ LabCronNotDue
             \/ JobsRead \/ CronJobNotDue
    BY <1>2, <2>3
    DEF RecoverRead, RecoverCheck, TickRead, LabCronNotDue, JobsRead,
        CronJobNotDue
  <2>4. QED BY <1>6, <2>1, <2>2, <2>3 DEF Scheduler
<1>7. ASSUME NEW i \in Inst, InstStep(i)
      PROVE  StopsOnly' /\ (UNCHANGED vars \/ Written)
  <2>1. \/ InstAt(i, "check", {"stop"}) \/ InstAt(i, "prep", {"stop"})
        \/ inst[i].at = "idle"
    BY DEF StopsOnly
  <2>2. ~InstRunPrep(i) /\ ~InstFails(i) /\ ~InstResume(i) /\ ~InstSpawn(i)
    BY <2>1 DEF InstRunPrep, InstFails, InstResume, InstSpawn, InstAt
  <2>3. CASE InstRefused(i) BY <1>3, <2>3 DEF InstRefused
  <2>4. CASE InstAccepted(i)
    BY <1>3, <2>1, <2>4 DEF InstAccepted, InstAt
  <2>5. CASE InstStopDb(i)
    BY <1>3, <2>5 DEF InstStopDb, runnerVars, Written, Effect, Status
  <2>6. QED BY <1>7, <2>2, <2>3, <2>4, <2>5 DEF InstStep
<1>8. ASSUME NEW i \in Inst, NEW k \in InstKinds, InstReceive(i, k)
      PROVE  StopsOnly' /\ UNCHANGED vars
  <2>1. k = "stop" BY DEF OnlyReserving
  <2>2. inst'[i].at = "check" /\ inst'[i].kind = "stop"
    BY <1>1, <1>8, <2>1 DEF InstReceive, InstType
  <2>3. \A j \in Inst : j # i => inst'[j] = inst[j]
    BY <1>1, <1>8 DEF InstReceive, InstType
  <2>4. QED BY <1>8, <2>2, <2>3 DEF InstReceive, StopsOnly, InstAt
<1>9. CASE SpawnCrash
  BY <1>9 DEF SpawnCrash, Next, NoInst, StopsOnly, InstAt
<1>10. QED BY <1>4, <1>5, <1>6, <1>7, <1>8, <1>9 DEF SpawnNext

LEMMA WrittenKeepsSlot ==
  ASSUME SlotInv, Written
  PROVE  SlotInv' /\ SlotStable
<1>1. SlotStable BY DEF Written, Effect, SlotStable
<1>2. TypeOK' BY DEF SlotInv, Written, Effect, TypeOK
<1>3. QED BY <1>1, <1>2, StableKeepsSlot

ReservingInv == SpawnInv /\ StopsOnly /\ SlotInv

LEMMA ReservingInvariant ==
  ASSUME OnlyReserving
  PROVE  SpawnSpec => []ReservingInv
<1>1. SpawnInit => StopsOnly /\ SlotInv
  <2>1. SpawnInit => SpawnInv BY SpawnInvInit
  <2>2. SpawnInit => StopsOnly BY DEF SpawnInit, StopsOnly, NoInst
  <2>3. SpawnInit => SlotInv
    BY <2>1, LifecycleAssumption
    DEF SpawnInv, SpawnTypeOK, SpawnInit, Init, SlotInv, SingleRunner,
        RegistryExact, ReservationExact, Busy, InLoop
  <2>4. QED BY <2>2, <2>3
<1>2. SpawnInv /\ StopsOnly /\ SlotInv /\ [SpawnNext]_spawnVars
        => StopsOnly' /\ SlotInv'
  BY StopsOnlyStep, SlotStep, WrittenKeepsSlot
<1>3. SpawnSpec => [](StopsOnly /\ SlotInv)
  BY <1>1, <1>2, SpawnInvariant, PTL DEF SpawnSpec
<1>4. QED BY <1>3, SpawnInvariant, PTL DEF ReservingInv

(* Then the lab has one runner at a time, as OneRunner says of the lab     *)
(* routes alone.                                                           *)
THEOREM OneRunnerIfReserving ==
  ASSUME OnlyReserving
  PROVE  SpawnSpec => []SingleRunner
BY ReservingInvariant, PTL DEF ReservingInv, SlotInv

(* And the registry, the reservations and the scheduler implement the slot.*)
THEOREM SlotRefinementIfReserving ==
  ASSUME OnlyReserving
  PROVE  SpawnSpec => SlotSpec
<1>1. ReservingInv /\ ReservingInv' /\ [SpawnNext]_spawnVars
        => [Slot!SlotNext]_(Slot!slotVars)
  <2> SUFFICES ASSUME ReservingInv, ReservingInv', [SpawnNext]_spawnVars
               PROVE  [Slot!SlotNext]_(Slot!slotVars)
    OBVIOUS
  <2>1. SlotInv /\ SlotInv' BY DEF ReservingInv
  <2>2. [Next]_vars \/ Written BY StopsOnlyStep DEF ReservingInv
  <2>3. CASE [Next]_vars BY <2>1, <2>3, SlotRefinesStep
  <2>4. CASE Written
    <3>1. UNCHANGED <<Holder, SlotActive>>
      BY <2>1, <2>4, WrittenKeepsSlot, StableStutters
    <3>2. QED BY <3>1 DEF SlotActive, Slot!slotVars
  <2>5. QED BY <2>2, <2>3, <2>4
<1>2. SpawnInit => Slot!SlotInit BY SlotStartsEmpty DEF SpawnInit
<1>3. QED
  BY <1>1, <1>2, ReservingInvariant, PTL DEF SpawnSpec, SlotSpec, Slot!SlotSpec
=============================================================================
