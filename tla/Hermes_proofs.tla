---------------------------- MODULE Hermes_proofs ----------------------------
(***************************************************************************)
(* Theorems about Hermes, for any number of turns, requests, background    *)
(* tasks, outputs and faults.                                              *)
(***************************************************************************)
EXTENDS Hermes, SequenceTheorems, TLAPS

(* Whoever is past the wait for a lock is its holder.                      *)
LockInv ==
  /\ \A a \in Actor : pc[a] \in {"start", "create", "health"} => Holds(a)
  /\ \A c \in Client : pc[c] = "running" => HoldsRun(c)

(* The cursor is not ahead of the outputs.                                 *)
CursorBehind == cursor # None => cursor <= outs

LEMMA TailOfSeq ==
  ASSUME NEW S, NEW s \in Seq(S), s # <<>>
  PROVE  Tail(s) \in Seq(S)
OBVIOUS

LEMMA HeadOfAppend ==
  ASSUME NEW S, NEW s \in Seq(S), NEW x \in S, s # <<>>
  PROVE  Append(s, x) # <<>> /\ Head(Append(s, x)) = Head(s)
OBVIOUS

(* What leaving ensure_hermes() is to the locks: a turn queues, an         *)
(* activation or a background task is done.                                *)
LeavesEnsure(a) ==
  /\ ensureLock' = Tail(ensureLock)
  /\ \/ a \in Client /\ Goto(a, "queue") /\ runLock' = Append(runLock, a)
     \/ Goto(a, "idle") /\ UNCHANGED runLock
  /\ a \in Client => UNCHANGED ensuring
  /\ a \in Bg => Goto(a, "idle") /\ ensuring' = FALSE

LEMMA ReturnsLeaves ==
  ASSUME NEW a \in Actor, EnsureReturns(a)
  PROVE  LeavesEnsure(a) /\ flag' \in {flag, TRUE}
BY HermesAssumption DEF EnsureReturns, LeavesEnsure

LEMMA RaisesLeaves ==
  ASSUME NEW a \in Actor, EnsureRaises(a)
  PROVE  LeavesEnsure(a) /\ flag' = flag
BY HermesAssumption DEF EnsureRaises, LeavesEnsure, Actor

LEMMA LeavesTypes ==
  ASSUME HermesTypeOK, NEW a \in Actor, Holds(a), LeavesEnsure(a)
  PROVE  /\ ensureLock' \in Seq(Actor)
         /\ runLock' \in Seq(Client)
         /\ pc' \in [Actor -> Place]
         /\ ensuring' \in BOOLEAN
<1>1. ensureLock' \in Seq(Actor)
  BY TailOfSeq DEF HermesTypeOK, Holds, LeavesEnsure
<1>2. runLock' \in Seq(Client) BY DEF HermesTypeOK, LeavesEnsure
<1>3. pc' \in [Actor -> Place]
  BY DEF HermesTypeOK, LeavesEnsure, Goto, Place, InEnsure
<1>4. ensuring' \in BOOLEAN BY DEF HermesTypeOK, LeavesEnsure, Actor
<1>5. QED BY <1>1, <1>2, <1>3, <1>4

LEMMA LeavesLocks ==
  ASSUME HermesTypeOK, LockInv, NEW a \in Actor, Holds(a),
         pc[a] \in {"want", "health", "start", "create"}, LeavesEnsure(a)
  PROVE  LockInv'
<1>1. \A b \in Actor : b # a => pc[b] \notin {"start", "create", "health"}
  BY DEF LockInv, Holds
<1>2. pc'[a] \in {"idle", "queue"} /\ \A b \in Actor : b # a => pc'[b] = pc[b]
  BY DEF LeavesEnsure, Goto, HermesTypeOK
<1>3. \A b \in Actor : pc'[b] \in {"start", "create", "health"} => Holds(b)'
  BY <1>1, <1>2
<1>4. ASSUME NEW c \in Client, pc'[c] = "running" PROVE HoldsRun(c)'
  <2>1. c # a /\ pc[c] = "running" BY <1>2, <1>4 DEF Actor
  <2>2. HoldsRun(c) BY <2>1 DEF LockInv
  <2>3. CASE UNCHANGED runLock BY <2>2, <2>3 DEF HoldsRun
  <2>4. CASE a \in Client /\ runLock' = Append(runLock, a)
    BY <2>2, <2>4 DEF HoldsRun, HermesTypeOK
  <2>5. QED BY <2>3, <2>4 DEF LeavesEnsure
<1>5. QED BY <1>3, <1>4 DEF LockInv

LEMMA LeavesEnsuring ==
  ASSUME HermesTypeOK, EnsuringExact, NEW a \in Actor, LeavesEnsure(a),
         pc[a] \in InEnsure
  PROVE  EnsuringExact'
<1>1. CASE a \in Client
  <2>1. \A b \in Bg : b # a /\ b \in Actor BY <1>1, HermesAssumption DEF Actor
  <2>2. \A b \in Bg : pc'[b] = pc[b]
    BY <2>1 DEF LeavesEnsure, Goto, HermesTypeOK
  <2>3. ensuring' = ensuring BY <1>1 DEF LeavesEnsure
  <2>4. QED BY <2>2, <2>3 DEF EnsuringExact
<1>2. CASE a \in Bg
  <2>1. \A b \in Bg : b # a => pc'[b] = pc[b] /\ pc[b] \notin InEnsure
    BY <1>2 DEF LeavesEnsure, Goto, HermesTypeOK, EnsuringExact, Actor
  <2>2. pc'[a] = "idle" BY <1>2 DEF LeavesEnsure, Goto, HermesTypeOK
  <2>3. ensuring' = FALSE BY <1>2 DEF LeavesEnsure
  <2>4. QED BY <1>2, <2>1, <2>2, <2>3 DEF EnsuringExact, InEnsure
<1>3. QED BY <1>1, <1>2 DEF Actor

LEMMA TypeStep ==
  ASSUME HermesTypeOK, LockInv, [HermesNext]_vars
  PROVE  HermesTypeOK'
<1>1. CASE UNCHANGED vars
  BY <1>1
  DEF vars, docker, locks, polling, HermesTypeOK,
      Place, InEnsure, Actor
<1>2. ASSUME NEW a \in Actor, Look(a) PROVE HermesTypeOK'
  BY <1>2
  DEF Look, Goto, docker, locks, polling, HermesTypeOK, Place, InEnsure,
      Holds, Actor, Running
<1>3. ASSUME NEW a \in Actor, LookRunning(a) PROVE HermesTypeOK'
  <2>1. Holds(a) BY <1>3 DEF LookRunning, LockInv
  <2>2. LeavesEnsure(a) /\ flag' \in {flag, TRUE}
    BY <1>3, ReturnsLeaves DEF LookRunning
  <2>3. QED
    BY <1>3, <2>1, <2>2, LeavesTypes, HermesAssumption
    DEF LookRunning, Fault, docker, polling, HermesTypeOK
<1>4. ASSUME NEW a \in Actor, Start(a) PROVE HermesTypeOK'
  BY <1>4 DEF Start, Goto, locks, polling, HermesTypeOK, Place, InEnsure, Actor
<1>5. ASSUME NEW a \in Actor, Create(a) PROVE HermesTypeOK'
  BY <1>5
  DEF Create, Goto, locks, polling, HermesTypeOK, Place, InEnsure, Actor,
      Running
<1>6. ASSUME NEW a \in Actor, Healthy(a) PROVE HermesTypeOK'
  <2>1. Holds(a) BY <1>6 DEF Healthy, LockInv
  <2>2. LeavesEnsure(a) /\ flag' \in {flag, TRUE}
    BY <1>6, ReturnsLeaves DEF Healthy
  <2>3. QED
    BY <1>6, <2>1, <2>2, LeavesTypes, HermesAssumption
    DEF Healthy, Fault, docker, polling, HermesTypeOK
<1>7. ASSUME NEW a \in Actor, Unhealthy(a) PROVE HermesTypeOK'
  <2>1. Holds(a) BY <1>7 DEF Unhealthy, LockInv
  <2>2. LeavesEnsure(a) /\ flag' \in {flag, TRUE}
    BY <1>7, RaisesLeaves DEF Unhealthy
  <2>3. QED
    BY <1>7, <2>1, <2>2, LeavesTypes, HermesAssumption
    DEF Unhealthy, Fault, docker, polling, HermesTypeOK
<1>8. ASSUME NEW a \in Actor, DockerFails(a) PROVE HermesTypeOK'
  <2>1. Holds(a) BY <1>8 DEF DockerFails, LockInv
  <2>2. LeavesEnsure(a) /\ flag' = flag BY <1>8, RaisesLeaves DEF DockerFails
  <2>3. faults' \in 0..MaxFaults
    <3>1. faults < MaxFaults /\ faults' = faults + 1
      BY <1>8 DEF DockerFails, Fault
    <3>2. QED BY <3>1, HermesAssumption DEF HermesTypeOK
  <2>4. QED
    BY <1>8, <2>1, <2>2, <2>3, LeavesTypes
    DEF DockerFails, docker, polling, HermesTypeOK
<1>9. ASSUME NEW a \in Client, TurnRuns(a) PROVE HermesTypeOK'
  BY <1>9
  DEF TurnRuns, Goto, docker, locks, polling, HermesTypeOK, Place, InEnsure,
      HoldsRun, Actor
<1>10. ASSUME NEW a \in Client, TurnBreaks(a) PROVE HermesTypeOK'
  BY <1>10
  DEF TurnBreaks, Goto, docker, polling, HermesTypeOK, LockInv, Place,
      InEnsure, Holds, HoldsRun, Actor
<1>11. ASSUME NEW a \in Client, TurnAnswers(a) PROVE HermesTypeOK'
  BY <1>11
  DEF TurnAnswers, Goto, docker, polling, HermesTypeOK, LockInv, Place,
      InEnsure, Holds, HoldsRun, Actor
<1>12. ASSUME NEW a \in Client, Stop(a) PROVE HermesTypeOK'
  BY <1>12
  DEF Stop, Goto, locks, polling, HermesTypeOK, Place, InEnsure, Actor,
      Running
<1>13. ASSUME NEW a \in Client, RemoveFound(a) PROVE HermesTypeOK'
  BY <1>13
  DEF RemoveFound, Goto, locks, polling, HermesTypeOK, Place, InEnsure,
      Actor
<1>14. ASSUME NEW a \in Bg, SafeEnsure(a) PROVE HermesTypeOK'
  <2>1. a \in Actor BY <1>14 DEF Actor
  <2>2. pc' \in [Actor -> Place]
    BY <1>14, <2>1
    DEF SafeEnsure, EnsureBegin, Goto, HermesTypeOK, Place, InEnsure
  <2>3. ensureLock' \in Seq(Actor)
    BY <1>14, <2>1 DEF SafeEnsure, EnsureBegin, HermesTypeOK
  <2>4. QED BY <1>14, <2>2, <2>3 DEF SafeEnsure, docker, polling, HermesTypeOK
<1>15. ASSUME NEW a \in Client, NeedsContainer(a) PROVE HermesTypeOK'
  BY <1>15
  DEF NeedsContainer, Arrives, EnsureBegin, Goto, docker, polling,
      HermesTypeOK, Place, InEnsure, Actor
<1>16. ASSUME NEW a \in Client, Deactivate(a) PROVE HermesTypeOK'
  BY <1>16
  DEF Deactivate, Arrives, Goto, docker, polling, HermesTypeOK, Place,
      InEnsure, Actor
<1>17. ASSUME NEW a \in Client, Remove(a) PROVE HermesTypeOK'
  BY <1>17
  DEF Remove, Arrives, Goto, docker, polling, HermesTypeOK, Place, InEnsure,
      Actor
<1>18. CASE PassReads
  BY <1>18 DEF PassReads, docker, locks, HermesTypeOK, Place, InEnsure, Actor
<1>19. ASSUME NEW a \in Bg, StatusDown(a) PROVE HermesTypeOK'
  BY <1>19
  DEF StatusDown, Goto, docker, locks, HermesTypeOK, Place, InEnsure, Actor
<1>20. CASE PollFails
  BY <1>20, HermesAssumption
  DEF PollFails, Polls, Since, docker, locks, HermesTypeOK, Place, InEnsure,
      Actor
<1>21. CASE FirstSight
  BY <1>21, HermesAssumption
  DEF FirstSight, Polls, docker, locks, HermesTypeOK, Place, InEnsure, Actor
<1>22. CASE PollPosts
  BY <1>22, HermesAssumption
  DEF PollPosts, Polls, docker, locks, HermesTypeOK, Place, InEnsure, Actor
<1>23. CASE Boots
  BY <1>23 DEF Boots, locks, polling, HermesTypeOK, Place, InEnsure, Actor
<1>24. CASE Dies
  BY <1>24, HermesAssumption
  DEF Dies, Fault, locks, polling, HermesTypeOK, Place, InEnsure, Actor,
      Running
<1>25. CASE JobWrites
  BY <1>25, HermesAssumption
  DEF JobWrites, locks, polling, HermesTypeOK, Place, InEnsure, Actor
<1>26. CASE Crash
  <2>1. pc' \in [Actor -> Place] BY <1>26 DEF Crash, Memory, Place
  <2>2. ensureLock' \in Seq(Actor) /\ runLock' \in Seq(Client)
    BY <1>26 DEF Crash, Memory
  <2>3. faults' \in 0..MaxFaults
    BY <1>26, HermesAssumption DEF Crash, Fault, HermesTypeOK
  <2>4. QED BY <1>26, <2>1, <2>2, <2>3 DEF Crash, Memory, docker, HermesTypeOK
<1>27. CASE Cleanup
  BY <1>27 DEF Cleanup, locks, polling, HermesTypeOK, Place, InEnsure, Actor
<1>28. QED
  BY <1>1, <1>2, <1>3, <1>4, <1>5, <1>6, <1>7, <1>8, <1>9, <1>10, <1>11,
     <1>12, <1>13, <1>14, <1>15, <1>16, <1>17, <1>18, <1>19, <1>20, <1>21,
     <1>22, <1>23, <1>24, <1>25, <1>26, <1>27
  DEF HermesNext, ActorStep, EnsureStep, TurnStep, SchedulerStep, Actor

LEMMA LockStep ==
  ASSUME HermesTypeOK, LockInv, [HermesNext]_vars
  PROVE  LockInv'
<1>1. CASE UNCHANGED vars
  BY <1>1
  DEF vars, docker, locks, polling, HermesTypeOK,
      LockInv, Holds, HoldsRun, Actor
<1>2. ASSUME NEW a \in Actor, Look(a) PROVE LockInv'
  BY <1>2
  DEF Look, Goto, docker, locks, polling, HermesTypeOK, LockInv, Holds,
      HoldsRun, Actor, Running
<1>3. ASSUME NEW a \in Actor, LookRunning(a) PROVE LockInv'
  <2>1. Holds(a) BY <1>3 DEF LookRunning, LockInv
  <2>2. LeavesEnsure(a) BY <1>3, ReturnsLeaves DEF LookRunning
  <2>3. QED BY <1>3, <2>1, <2>2, LeavesLocks DEF LookRunning
<1>4. ASSUME NEW a \in Actor, Start(a) PROVE LockInv'
  BY <1>4
  DEF Start, Goto, locks, polling, HermesTypeOK, LockInv, Holds, HoldsRun,
      Actor
<1>5. ASSUME NEW a \in Actor, Create(a) PROVE LockInv'
  BY <1>5
  DEF Create, Goto, locks, polling, HermesTypeOK, LockInv, Holds, HoldsRun,
      Actor, Running
<1>6. ASSUME NEW a \in Actor, Healthy(a) PROVE LockInv'
  <2>1. Holds(a) BY <1>6 DEF Healthy, LockInv
  <2>2. LeavesEnsure(a) BY <1>6, ReturnsLeaves DEF Healthy
  <2>3. QED BY <1>6, <2>1, <2>2, LeavesLocks DEF Healthy
<1>7. ASSUME NEW a \in Actor, Unhealthy(a) PROVE LockInv'
  <2>1. Holds(a) BY <1>7 DEF Unhealthy, LockInv
  <2>2. LeavesEnsure(a) BY <1>7, RaisesLeaves DEF Unhealthy
  <2>3. QED BY <1>7, <2>1, <2>2, LeavesLocks DEF Unhealthy
<1>8. ASSUME NEW a \in Actor, DockerFails(a) PROVE LockInv'
  <2>1. Holds(a) BY <1>8 DEF DockerFails, LockInv
  <2>2. LeavesEnsure(a) BY <1>8, RaisesLeaves DEF DockerFails
  <2>3. QED BY <1>8, <2>1, <2>2, LeavesLocks DEF DockerFails
<1>9. ASSUME NEW a \in Client, TurnRuns(a) PROVE LockInv'
  BY <1>9
  DEF TurnRuns, Goto, docker, locks, polling, HermesTypeOK, LockInv, Holds,
      HoldsRun, Actor
<1>10. ASSUME NEW a \in Client, TurnBreaks(a) PROVE LockInv'
  BY <1>10
  DEF TurnBreaks, Goto, docker, polling, HermesTypeOK, LockInv, Holds,
      HoldsRun, Actor
<1>11. ASSUME NEW a \in Client, TurnAnswers(a) PROVE LockInv'
  BY <1>11
  DEF TurnAnswers, Goto, docker, polling, HermesTypeOK, LockInv, Holds,
      HoldsRun, Actor
<1>12. ASSUME NEW a \in Client, Stop(a) PROVE LockInv'
  BY <1>12
  DEF Stop, Goto, locks, polling, HermesTypeOK, LockInv, Holds, HoldsRun,
      Actor, Running
<1>13. ASSUME NEW a \in Client, RemoveFound(a) PROVE LockInv'
  BY <1>13
  DEF RemoveFound, Goto, locks, polling, HermesTypeOK, LockInv, Holds,
      HoldsRun, Actor
<1>14. ASSUME NEW a \in Bg, SafeEnsure(a) PROVE LockInv'
  <2>1. a \in Actor BY <1>14 DEF Actor
  <2>2. pc'[a] \in {"idle", "want"} /\ \A b \in Actor : b # a => pc'[b] = pc[b]
    BY <1>14, <2>1 DEF SafeEnsure, EnsureBegin, Goto, HermesTypeOK
  <2>3. \A b \in Actor : Holds(b) => Holds(b)'
    <3>1. ensureLock' \in {ensureLock, Append(ensureLock, a)}
      BY <1>14 DEF SafeEnsure, EnsureBegin
    <3>2. ASSUME NEW b \in Actor, Holds(b) PROVE Holds(b)'
      <4>1. /\ ensureLock \in Seq(Actor)
            /\ ensureLock # <<>>
            /\ Head(ensureLock) = b
        BY <3>2 DEF Holds, HermesTypeOK
      <4>2. Append(ensureLock, a) # <<>> /\ Head(Append(ensureLock, a)) = b
        BY <2>1, <4>1, HeadOfAppend
      <4>3. QED BY <3>1, <4>1, <4>2 DEF Holds
    <3>3. QED BY <3>2
  <2>4. UNCHANGED runLock BY <1>14 DEF SafeEnsure
  <2>5. QED BY <2>2, <2>3, <2>4 DEF LockInv, HoldsRun, Actor
<1>15. ASSUME NEW a \in Client, NeedsContainer(a) PROVE LockInv'
  BY <1>15
  DEF NeedsContainer, Arrives, EnsureBegin, Goto, docker, polling,
      HermesTypeOK, LockInv, Holds, HoldsRun, Actor
<1>16. ASSUME NEW a \in Client, Deactivate(a) PROVE LockInv'
  BY <1>16
  DEF Deactivate, Arrives, Goto, docker, polling, HermesTypeOK, LockInv,
      Holds, HoldsRun, Actor
<1>17. ASSUME NEW a \in Client, Remove(a) PROVE LockInv'
  BY <1>17
  DEF Remove, Arrives, Goto, docker, polling, HermesTypeOK, LockInv, Holds,
      HoldsRun, Actor
<1>18. CASE PassReads
  BY <1>18
  DEF PassReads, docker, locks, HermesTypeOK, LockInv, Holds, HoldsRun,
      Actor
<1>19. ASSUME NEW a \in Bg, StatusDown(a) PROVE LockInv'
  BY <1>19
  DEF StatusDown, Goto, docker, locks, HermesTypeOK, LockInv, Holds,
      HoldsRun, Actor
<1>20. CASE PollFails
  BY <1>20, HermesAssumption
  DEF PollFails, Polls, Since, docker, locks, HermesTypeOK, LockInv, Holds,
      HoldsRun, Actor
<1>21. CASE FirstSight
  BY <1>21, HermesAssumption
  DEF FirstSight, Polls, docker, locks, HermesTypeOK, LockInv, Holds,
      HoldsRun, Actor
<1>22. CASE PollPosts
  BY <1>22, HermesAssumption
  DEF PollPosts, Polls, docker, locks, HermesTypeOK, LockInv, Holds,
      HoldsRun, Actor
<1>23. CASE Boots
  BY <1>23
  DEF Boots, locks, polling, HermesTypeOK, LockInv, Holds, HoldsRun, Actor
<1>24. CASE Dies
  BY <1>24, HermesAssumption
  DEF Dies, Fault, locks, polling, HermesTypeOK, LockInv, Holds, HoldsRun,
      Actor, Running
<1>25. CASE JobWrites
  BY <1>25, HermesAssumption
  DEF JobWrites, locks, polling, HermesTypeOK, LockInv, Holds, HoldsRun,
      Actor
<1>26. CASE Crash
  BY <1>26, HermesAssumption
  DEF Crash, Memory, Fault, docker, HermesTypeOK, LockInv, Holds, HoldsRun,
      Actor
<1>27. CASE Cleanup
  BY <1>27
  DEF Cleanup, locks, polling, HermesTypeOK, LockInv, Holds, HoldsRun, Actor
<1>28. QED
  BY <1>1, <1>2, <1>3, <1>4, <1>5, <1>6, <1>7, <1>8, <1>9, <1>10, <1>11,
     <1>12, <1>13, <1>14, <1>15, <1>16, <1>17, <1>18, <1>19, <1>20, <1>21,
     <1>22, <1>23, <1>24, <1>25, <1>26, <1>27
  DEF HermesNext, ActorStep, EnsureStep, TurnStep, SchedulerStep, Actor

LEMMA NameStep ==
  ASSUME HermesTypeOK, LockInv, NameIsFree, [HermesNext]_vars
  PROVE  NameIsFree'
<1>1. CASE UNCHANGED vars
  BY <1>1
  DEF vars, docker, locks, polling, HermesTypeOK,
      NameIsFree, Exists, Actor
<1>2. ASSUME NEW a \in Actor, Look(a) PROVE NameIsFree'
  BY <1>2
  DEF Look, Goto, docker, locks, polling, HermesTypeOK, LockInv, Holds,
      NameIsFree, Exists, Running, Actor
<1>3. ASSUME NEW a \in Actor, LookRunning(a) PROVE NameIsFree'
  BY <1>3
  DEF LookRunning, EnsureReturns, Goto, docker, polling, HermesTypeOK,
      LockInv, Holds, NameIsFree, Exists, Running, Actor
<1>4. ASSUME NEW a \in Actor, Start(a) PROVE NameIsFree'
  BY <1>4
  DEF Start, Goto, locks, polling, HermesTypeOK, LockInv, Holds, NameIsFree,
      Exists, Actor
<1>5. ASSUME NEW a \in Actor, Create(a) PROVE NameIsFree'
  BY <1>5
  DEF Create, Goto, locks, polling, HermesTypeOK, LockInv, Holds,
      NameIsFree, Exists, Running, Actor
<1>6. ASSUME NEW a \in Actor, Healthy(a) PROVE NameIsFree'
  BY <1>6
  DEF Healthy, EnsureReturns, Goto, docker, polling, HermesTypeOK, LockInv,
      Holds, NameIsFree, Exists, Actor
<1>7. ASSUME NEW a \in Actor, Unhealthy(a) PROVE NameIsFree'
  BY <1>7
  DEF Unhealthy, EnsureRaises, Goto, docker, polling, HermesTypeOK, LockInv,
      Holds, NameIsFree, Exists, Actor
<1>8. ASSUME NEW a \in Actor, DockerFails(a) PROVE NameIsFree'
  BY <1>8
  DEF DockerFails, EnsureRaises, Fault, Goto, docker, polling, HermesTypeOK,
      LockInv, Holds, NameIsFree, Exists, Actor
<1>9. ASSUME NEW a \in Client, TurnRuns(a) PROVE NameIsFree'
  BY <1>9
  DEF TurnRuns, Goto, docker, locks, polling, HermesTypeOK, NameIsFree,
      Exists, Actor
<1>10. ASSUME NEW a \in Client, TurnBreaks(a) PROVE NameIsFree'
  BY <1>10
  DEF TurnBreaks, Goto, docker, polling, HermesTypeOK, NameIsFree, Exists,
      Actor
<1>11. ASSUME NEW a \in Client, TurnAnswers(a) PROVE NameIsFree'
  BY <1>11
  DEF TurnAnswers, Goto, docker, polling, HermesTypeOK, NameIsFree, Exists,
      Actor
<1>12. ASSUME NEW a \in Client, Stop(a) PROVE NameIsFree'
  BY <1>12
  DEF Stop, Goto, locks, polling, HermesTypeOK, NameIsFree, Exists, Running,
      Actor
<1>13. ASSUME NEW a \in Client, RemoveFound(a) PROVE NameIsFree'
  BY <1>13
  DEF RemoveFound, Goto, locks, polling, HermesTypeOK, NameIsFree, Exists,
      Actor
<1>14. ASSUME NEW a \in Bg, SafeEnsure(a) PROVE NameIsFree'
  BY <1>14
  DEF SafeEnsure, EnsureBegin, Goto, docker, polling, HermesTypeOK,
      NameIsFree, Exists, Actor
<1>15. ASSUME NEW a \in Client, NeedsContainer(a) PROVE NameIsFree'
  BY <1>15
  DEF NeedsContainer, Arrives, EnsureBegin, Goto, docker, polling,
      HermesTypeOK, NameIsFree, Exists, Actor
<1>16. ASSUME NEW a \in Client, Deactivate(a) PROVE NameIsFree'
  BY <1>16
  DEF Deactivate, Arrives, Goto, docker, polling, HermesTypeOK, NameIsFree,
      Exists, Actor
<1>17. ASSUME NEW a \in Client, Remove(a) PROVE NameIsFree'
  BY <1>17
  DEF Remove, Arrives, Goto, docker, polling, HermesTypeOK, NameIsFree,
      Exists, Actor
<1>18. CASE PassReads
  BY <1>18
  DEF PassReads, docker, locks, HermesTypeOK, NameIsFree, Exists, Actor
<1>19. ASSUME NEW a \in Bg, StatusDown(a) PROVE NameIsFree'
  BY <1>19
  DEF StatusDown, Goto, docker, locks, HermesTypeOK, NameIsFree, Exists,
      Actor
<1>20. CASE PollFails
  BY <1>20
  DEF PollFails, Polls, Since, docker, locks, HermesTypeOK, NameIsFree,
      Exists, Actor
<1>21. CASE FirstSight
  BY <1>21
  DEF FirstSight, Polls, docker, locks, HermesTypeOK, NameIsFree, Exists,
      Actor
<1>22. CASE PollPosts
  BY <1>22
  DEF PollPosts, Polls, docker, locks, HermesTypeOK, NameIsFree, Exists,
      Actor
<1>23. CASE Boots
  BY <1>23 DEF Boots, locks, polling, HermesTypeOK, NameIsFree, Exists, Actor
<1>24. CASE Dies
  BY <1>24
  DEF Dies, Fault, locks, polling, HermesTypeOK, NameIsFree, Exists,
      Running, Actor
<1>25. CASE JobWrites
  BY <1>25
  DEF JobWrites, locks, polling, HermesTypeOK, NameIsFree, Exists, Actor
<1>26. CASE Crash
  BY <1>26
  DEF Crash, Memory, Fault, docker, HermesTypeOK, NameIsFree, Exists, Actor
<1>27. CASE Cleanup
  BY <1>27 DEF Cleanup, locks, polling, HermesTypeOK, NameIsFree, Exists, Actor
<1>28. QED
  BY <1>1, <1>2, <1>3, <1>4, <1>5, <1>6, <1>7, <1>8, <1>9, <1>10, <1>11,
     <1>12, <1>13, <1>14, <1>15, <1>16, <1>17, <1>18, <1>19, <1>20, <1>21,
     <1>22, <1>23, <1>24, <1>25, <1>26, <1>27
  DEF HermesNext, ActorStep, EnsureStep, TurnStep, SchedulerStep, Actor

LEMMA EnsuringStep ==
  ASSUME HermesTypeOK, EnsuringExact, [HermesNext]_vars
  PROVE  EnsuringExact'
<1>1. CASE UNCHANGED vars
  BY <1>1
  DEF vars, docker, locks, polling, HermesTypeOK,
      EnsuringExact, InEnsure, Actor
<1>2. ASSUME NEW a \in Actor, Look(a) PROVE EnsuringExact'
  BY <1>2, HermesAssumption
  DEF Look, Goto, docker, locks, polling, HermesTypeOK, EnsuringExact,
      InEnsure, Actor
<1>3. ASSUME NEW a \in Actor, LookRunning(a) PROVE EnsuringExact'
  <2>1. LeavesEnsure(a) BY <1>3, ReturnsLeaves DEF LookRunning
  <2>2. QED BY <1>3, <2>1, LeavesEnsuring DEF LookRunning, InEnsure
<1>4. ASSUME NEW a \in Actor, Start(a) PROVE EnsuringExact'
  BY <1>4, HermesAssumption
  DEF Start, Goto, locks, polling, HermesTypeOK, EnsuringExact, InEnsure,
      Actor
<1>5. ASSUME NEW a \in Actor, Create(a) PROVE EnsuringExact'
  BY <1>5, HermesAssumption
  DEF Create, Goto, locks, polling, HermesTypeOK, EnsuringExact, InEnsure,
      Actor
<1>6. ASSUME NEW a \in Actor, Healthy(a) PROVE EnsuringExact'
  <2>1. LeavesEnsure(a) BY <1>6, ReturnsLeaves DEF Healthy
  <2>2. QED BY <1>6, <2>1, LeavesEnsuring DEF Healthy, InEnsure
<1>7. ASSUME NEW a \in Actor, Unhealthy(a) PROVE EnsuringExact'
  <2>1. LeavesEnsure(a) BY <1>7, RaisesLeaves DEF Unhealthy
  <2>2. QED BY <1>7, <2>1, LeavesEnsuring DEF Unhealthy, InEnsure
<1>8. ASSUME NEW a \in Actor, DockerFails(a) PROVE EnsuringExact'
  <2>1. LeavesEnsure(a) BY <1>8, RaisesLeaves DEF DockerFails
  <2>2. QED BY <1>8, <2>1, LeavesEnsuring DEF DockerFails, InEnsure
<1>9. ASSUME NEW a \in Client, TurnRuns(a) PROVE EnsuringExact'
  BY <1>9, HermesAssumption
  DEF TurnRuns, Goto, docker, locks, polling, HermesTypeOK, EnsuringExact,
      InEnsure, Actor
<1>10. ASSUME NEW a \in Client, TurnBreaks(a) PROVE EnsuringExact'
  BY <1>10, HermesAssumption
  DEF TurnBreaks, Goto, docker, polling, HermesTypeOK, EnsuringExact,
      InEnsure, Actor
<1>11. ASSUME NEW a \in Client, TurnAnswers(a) PROVE EnsuringExact'
  BY <1>11, HermesAssumption
  DEF TurnAnswers, Goto, docker, polling, HermesTypeOK, EnsuringExact,
      InEnsure, Actor
<1>12. ASSUME NEW a \in Client, Stop(a) PROVE EnsuringExact'
  BY <1>12, HermesAssumption
  DEF Stop, Goto, locks, polling, HermesTypeOK, EnsuringExact, InEnsure,
      Actor
<1>13. ASSUME NEW a \in Client, RemoveFound(a) PROVE EnsuringExact'
  BY <1>13, HermesAssumption
  DEF RemoveFound, Goto, locks, polling, HermesTypeOK, EnsuringExact,
      InEnsure, Actor
<1>14. ASSUME NEW a \in Bg, SafeEnsure(a) PROVE EnsuringExact'
  BY <1>14
  DEF SafeEnsure, EnsureBegin, Goto, docker, polling, HermesTypeOK,
      EnsuringExact, InEnsure, Actor
<1>15. ASSUME NEW a \in Client, NeedsContainer(a) PROVE EnsuringExact'
  BY <1>15, HermesAssumption
  DEF NeedsContainer, Arrives, EnsureBegin, Goto, docker, polling,
      HermesTypeOK, EnsuringExact, InEnsure, Actor
<1>16. ASSUME NEW a \in Client, Deactivate(a) PROVE EnsuringExact'
  BY <1>16, HermesAssumption
  DEF Deactivate, Arrives, Goto, docker, polling, HermesTypeOK,
      EnsuringExact, InEnsure, Actor
<1>17. ASSUME NEW a \in Client, Remove(a) PROVE EnsuringExact'
  BY <1>17, HermesAssumption
  DEF Remove, Arrives, Goto, docker, polling, HermesTypeOK, EnsuringExact,
      InEnsure, Actor
<1>18. CASE PassReads
  BY <1>18
  DEF PassReads, docker, locks, HermesTypeOK, EnsuringExact, InEnsure, Actor
<1>19. ASSUME NEW a \in Bg, StatusDown(a) PROVE EnsuringExact'
  BY <1>19
  DEF StatusDown, Goto, docker, locks, HermesTypeOK, EnsuringExact,
      InEnsure, Actor
<1>20. CASE PollFails
  BY <1>20
  DEF PollFails, Polls, Since, docker, locks, HermesTypeOK, EnsuringExact,
      InEnsure, Actor
<1>21. CASE FirstSight
  BY <1>21
  DEF FirstSight, Polls, docker, locks, HermesTypeOK, EnsuringExact,
      InEnsure, Actor
<1>22. CASE PollPosts
  BY <1>22
  DEF PollPosts, Polls, docker, locks, HermesTypeOK, EnsuringExact,
      InEnsure, Actor
<1>23. CASE Boots
  BY <1>23
  DEF Boots, locks, polling, HermesTypeOK, EnsuringExact, InEnsure, Actor
<1>24. CASE Dies
  BY <1>24
  DEF Dies, Fault, locks, polling, HermesTypeOK, EnsuringExact, InEnsure,
      Actor
<1>25. CASE JobWrites
  BY <1>25
  DEF JobWrites, locks, polling, HermesTypeOK, EnsuringExact, InEnsure,
      Actor
<1>26. CASE Crash
  BY <1>26
  DEF Crash, Memory, Fault, docker, HermesTypeOK, EnsuringExact, InEnsure,
      Actor
<1>27. CASE Cleanup
  BY <1>27
  DEF Cleanup, locks, polling, HermesTypeOK, EnsuringExact, InEnsure, Actor
<1>28. QED
  BY <1>1, <1>2, <1>3, <1>4, <1>5, <1>6, <1>7, <1>8, <1>9, <1>10, <1>11,
     <1>12, <1>13, <1>14, <1>15, <1>16, <1>17, <1>18, <1>19, <1>20, <1>21,
     <1>22, <1>23, <1>24, <1>25, <1>26, <1>27
  DEF HermesNext, ActorStep, EnsureStep, TurnStep, SchedulerStep, Actor

LEMMA PostedStep ==
  ASSUME HermesTypeOK, CursorBehind, PostedOnce, [HermesNext]_vars
  PROVE  CursorBehind' /\ PostedOnce'
<1>1. CASE UNCHANGED vars
  BY <1>1, HermesAssumption
  DEF vars, docker, locks, polling, HermesTypeOK,
      CursorBehind, PostedOnce
<1>2. ASSUME NEW a \in Actor, Look(a) PROVE CursorBehind' /\ PostedOnce'
  BY <1>2, HermesAssumption
  DEF Look, Goto, docker, locks, polling, HermesTypeOK, CursorBehind,
      PostedOnce
<1>3. ASSUME NEW a \in Actor, LookRunning(a) PROVE CursorBehind' /\ PostedOnce'
  BY <1>3, HermesAssumption
  DEF LookRunning, EnsureReturns, Goto, docker, polling, HermesTypeOK,
      CursorBehind, PostedOnce
<1>4. ASSUME NEW a \in Actor, Start(a) PROVE CursorBehind' /\ PostedOnce'
  BY <1>4, HermesAssumption
  DEF Start, Goto, locks, polling, HermesTypeOK, CursorBehind, PostedOnce
<1>5. ASSUME NEW a \in Actor, Create(a) PROVE CursorBehind' /\ PostedOnce'
  BY <1>5, HermesAssumption
  DEF Create, Goto, locks, polling, HermesTypeOK, CursorBehind, PostedOnce
<1>6. ASSUME NEW a \in Actor, Healthy(a) PROVE CursorBehind' /\ PostedOnce'
  BY <1>6, HermesAssumption
  DEF Healthy, EnsureReturns, Goto, docker, polling, HermesTypeOK,
      CursorBehind, PostedOnce
<1>7. ASSUME NEW a \in Actor, Unhealthy(a) PROVE CursorBehind' /\ PostedOnce'
  BY <1>7, HermesAssumption
  DEF Unhealthy, EnsureRaises, Goto, docker, polling, HermesTypeOK,
      CursorBehind, PostedOnce
<1>8. ASSUME NEW a \in Actor, DockerFails(a) PROVE CursorBehind' /\ PostedOnce'
  BY <1>8, HermesAssumption
  DEF DockerFails, EnsureRaises, Fault, Goto, docker, polling, HermesTypeOK,
      CursorBehind, PostedOnce
<1>9. ASSUME NEW a \in Client, TurnRuns(a) PROVE CursorBehind' /\ PostedOnce'
  BY <1>9, HermesAssumption
  DEF TurnRuns, Goto, docker, locks, polling, HermesTypeOK, CursorBehind,
      PostedOnce
<1>10. ASSUME NEW a \in Client, TurnBreaks(a)
       PROVE  CursorBehind' /\ PostedOnce'
  BY <1>10, HermesAssumption
  DEF TurnBreaks, Goto, docker, polling, HermesTypeOK, CursorBehind,
      PostedOnce
<1>11. ASSUME NEW a \in Client, TurnAnswers(a)
       PROVE  CursorBehind' /\ PostedOnce'
  BY <1>11, HermesAssumption
  DEF TurnAnswers, Goto, docker, polling, HermesTypeOK, CursorBehind,
      PostedOnce
<1>12. ASSUME NEW a \in Client, Stop(a) PROVE CursorBehind' /\ PostedOnce'
  BY <1>12, HermesAssumption
  DEF Stop, Goto, locks, polling, HermesTypeOK, CursorBehind, PostedOnce
<1>13. ASSUME NEW a \in Client, RemoveFound(a)
       PROVE  CursorBehind' /\ PostedOnce'
  BY <1>13, HermesAssumption
  DEF RemoveFound, Goto, locks, polling, HermesTypeOK, CursorBehind,
      PostedOnce
<1>14. ASSUME NEW a \in Bg, SafeEnsure(a) PROVE CursorBehind' /\ PostedOnce'
  BY <1>14, HermesAssumption
  DEF SafeEnsure, EnsureBegin, Goto, docker, polling, HermesTypeOK,
      CursorBehind, PostedOnce
<1>15. ASSUME NEW a \in Client, NeedsContainer(a)
       PROVE  CursorBehind' /\ PostedOnce'
  BY <1>15, HermesAssumption
  DEF NeedsContainer, Arrives, EnsureBegin, Goto, docker, polling,
      HermesTypeOK, CursorBehind, PostedOnce
<1>16. ASSUME NEW a \in Client, Deactivate(a)
       PROVE  CursorBehind' /\ PostedOnce'
  BY <1>16, HermesAssumption
  DEF Deactivate, Arrives, Goto, docker, polling, HermesTypeOK,
      CursorBehind, PostedOnce
<1>17. ASSUME NEW a \in Client, Remove(a) PROVE CursorBehind' /\ PostedOnce'
  BY <1>17, HermesAssumption
  DEF Remove, Arrives, Goto, docker, polling, HermesTypeOK, CursorBehind,
      PostedOnce
<1>18. CASE PassReads
  BY <1>18, HermesAssumption
  DEF PassReads, docker, locks, HermesTypeOK, CursorBehind, PostedOnce
<1>19. ASSUME NEW a \in Bg, StatusDown(a) PROVE CursorBehind' /\ PostedOnce'
  BY <1>19, HermesAssumption
  DEF StatusDown, Goto, docker, locks, HermesTypeOK, CursorBehind,
      PostedOnce
<1>20. CASE PollFails
  BY <1>20, HermesAssumption
  DEF PollFails, Polls, Since, docker, locks, HermesTypeOK, CursorBehind,
      PostedOnce
<1>21. CASE FirstSight
  BY <1>21, HermesAssumption
  DEF FirstSight, Polls, docker, locks, HermesTypeOK, CursorBehind,
      PostedOnce
<1>22. CASE PollPosts
  BY <1>22, HermesAssumption
  DEF PollPosts, Polls, docker, locks, HermesTypeOK, CursorBehind,
      PostedOnce
<1>23. CASE Boots
  BY <1>23, HermesAssumption
  DEF Boots, locks, polling, HermesTypeOK, CursorBehind, PostedOnce
<1>24. CASE Dies
  BY <1>24, HermesAssumption
  DEF Dies, Fault, locks, polling, HermesTypeOK, CursorBehind, PostedOnce
<1>25. CASE JobWrites
  BY <1>25, HermesAssumption
  DEF JobWrites, locks, polling, HermesTypeOK, CursorBehind, PostedOnce
<1>26. CASE Crash
  BY <1>26, HermesAssumption
  DEF Crash, Memory, Fault, docker, HermesTypeOK, CursorBehind, PostedOnce
<1>27. CASE Cleanup
  BY <1>27, HermesAssumption
  DEF Cleanup, locks, polling, HermesTypeOK, CursorBehind, PostedOnce
<1>28. QED
  BY <1>1, <1>2, <1>3, <1>4, <1>5, <1>6, <1>7, <1>8, <1>9, <1>10, <1>11,
     <1>12, <1>13, <1>14, <1>15, <1>16, <1>17, <1>18, <1>19, <1>20, <1>21,
     <1>22, <1>23, <1>24, <1>25, <1>26, <1>27
  DEF HermesNext, ActorStep, EnsureStep, TurnStep, SchedulerStep, Actor

(* The inductive invariant.                                                *)
HermesInv ==
  /\ HermesTypeOK
  /\ LockInv
  /\ NameIsFree
  /\ EnsuringExact
  /\ CursorBehind
  /\ PostedOnce

(* The invariant holds in every reachable state.                           *)
THEOREM HermesInvariant == HermesSpec => []HermesInv
<1>1. HermesInit => HermesInv
  <2>1. SUFFICES ASSUME HermesInit PROVE HermesInv OBVIOUS
  <2>2. HermesTypeOK
    <3>1. pc \in [Actor -> Place] BY <2>1 DEF HermesInit, Memory, Place
    <3>2. ensureLock \in Seq(Actor) /\ runLock \in Seq(Client)
      BY <2>1 DEF HermesInit, Memory
    <3>3. cursor = None /\ posted = {} /\ outs = 0 /\ faults = 0
      BY <2>1 DEF HermesInit, Memory
    <3>4. cursor \in 0..MaxOut \cup {None} /\ posted \subseteq 1..MaxOut
      BY <3>3
    <3>5. outs \in 0..MaxOut /\ faults \in 0..MaxFaults
      BY <3>3, HermesAssumption
    <3>6. QED
      BY <2>1, <3>1, <3>2, <3>4, <3>5 DEF HermesInit, Memory, HermesTypeOK
  <2>3. LockInv /\ NameIsFree /\ EnsuringExact
    BY <2>1, HermesAssumption
    DEF HermesInit, Memory, LockInv, NameIsFree, EnsuringExact, InEnsure, Actor
  <2>4. CursorBehind /\ PostedOnce
    BY <2>1 DEF HermesInit, Memory, CursorBehind, PostedOnce
  <2>5. QED BY <2>2, <2>3, <2>4 DEF HermesInv
<1>2. HermesInv /\ [HermesNext]_vars => HermesInv'
  BY TypeStep, LockStep, NameStep, EnsuringStep, PostedStep DEF HermesInv
<1>3. QED BY <1>1, <1>2, PTL DEF HermesSpec

(* Every variable keeps its type, the locks are queues of their users.     *)
THEOREM HermesTypeSafe == HermesSpec => []HermesTypeOK
BY HermesInvariant, PTL DEF HermesInv

(* Creation is serialized by the ensure lock, although stop_hermes(),      *)
(* destroy_hermes() and the cleanup take no lock: containers.run() never   *)
(* meets a container this process made.                                    *)
THEOREM CreatorFindsNameFree == HermesSpec => []NameIsFree
BY HermesInvariant, PTL DEF HermesInv

(* hermes_run_lock(): turns of an agent are one after the other.           *)
THEOREM TurnsAreSerial == HermesSpec => []OneTurnAtATime
<1>1. HermesInv => OneTurnAtATime
  BY DEF HermesInv, LockInv, HoldsRun, OneTurnAtATime
<1>2. QED BY <1>1, HermesInvariant, PTL

(* _hermes_ensuring is exact: no failure leaves the key behind.            *)
THEOREM EnsuringIsExact == HermesSpec => []EnsuringExact
BY HermesInvariant, PTL DEF HermesInv

(* A poll never posts again what this process has posted.                  *)
THEOREM NothingPostedTwice == HermesSpec => []PostedOnce
BY HermesInvariant, PTL DEF HermesInv

-----------------------------------------------------------------------------
(***************************************************************************)
(* The locks.  Each line names exactly the tasks that are inside the       *)
(* critical section or wait for it, each of them once: no failure, timeout *)
(* or crash leaves behind a lock nobody will release, and nobody waits     *)
(* without a place in the line.                                            *)
(***************************************************************************)

(* s lists the members of S, each of them once. *)
Line(s, S) ==
  /\ s \in Seq(S)
  /\ \A i, j \in DOMAIN s : s[i] = s[j] => i = j
  /\ \A a \in S : \E i \in DOMAIN s : s[i] = a

LEMMA NobodyInLine == Line(<<>>, {})
<1>1. \A S : <<>> \in Seq(S) OBVIOUS
<1>2. DOMAIN <<>> = {} OBVIOUS
<1>3. QED BY <1>1, <1>2 DEF Line

LEMMA LineJoined ==
  ASSUME NEW s, NEW S, Line(s, S), NEW a, a \notin S
  PROVE  Line(Append(s, a), S \cup {a})
<1>1. s \in Seq(S) /\ s \in Seq(S \cup {a}) BY DEF Line
<1>2. /\ Append(s, a) \in Seq(S \cup {a})
      /\ Len(s) \in Nat
      /\ DOMAIN s = 1 .. Len(s)
      /\ DOMAIN Append(s, a) = 1 .. Len(s) + 1
      /\ Append(s, a)[Len(s) + 1] = a
      /\ \A i \in DOMAIN s : Append(s, a)[i] = s[i] /\ s[i] \in S
  BY <1>1
<1>3. \A i, j \in DOMAIN Append(s, a) :
        Append(s, a)[i] = Append(s, a)[j] => i = j
  BY <1>2 DEF Line
<1>4. \A b \in S \cup {a} : \E i \in DOMAIN Append(s, a) : Append(s, a)[i] = b
  <2>1. Len(s) + 1 \in DOMAIN Append(s, a) BY <1>2
  <2>2. \A i \in DOMAIN s : i \in DOMAIN Append(s, a) BY <1>2
  <2>3. QED BY <1>2, <2>1, <2>2 DEF Line
<1>5. QED BY <1>2, <1>3, <1>4 DEF Line

LEMMA LineLeft ==
  ASSUME NEW s, NEW S, Line(s, S), s # <<>>
  PROVE  Head(s) \in S /\ Line(Tail(s), S \ {Head(s)})
<1>1. s \in Seq(S) BY DEF Line
<1>2. /\ Len(s) \in Nat \ {0}
      /\ DOMAIN s = 1 .. Len(s)
      /\ Head(s) = s[1]
      /\ Tail(s) \in Seq(S)
      /\ Len(Tail(s)) = Len(s) - 1
      /\ DOMAIN Tail(s) = 1 .. Len(s) - 1
      /\ \A i \in DOMAIN Tail(s) : Tail(s)[i] = s[i + 1]
  BY <1>1
<1>3. \A i \in DOMAIN s : s[i] \in S BY <1>1
<1>4. ASSUME NEW i \in DOMAIN Tail(s)
      PROVE  Tail(s)[i] \in S \ {Head(s)}
  <2>1. i + 1 \in DOMAIN s /\ 1 \in DOMAIN s /\ i + 1 # 1 BY <1>2
  <2>2. s[i + 1] # s[1] BY <2>1 DEF Line
  <2>3. QED BY <1>2, <1>3, <2>1, <2>2
<1>5. Tail(s) \in Seq(S \ {Head(s)})
  <2>1. Tail(s) \in [1 .. Len(s) - 1 -> S \ {Head(s)}]
    <3>1. PICK n \in Nat : Tail(s) \in [1 .. n -> S]
      <4>1. Tail(s) \in Seq(S) BY <1>2
      <4>2. Tail(s) \in UNION {[1 .. n -> S] : n \in Nat}
        BY <4>1, SeqDef, Zenon
      <4>3. QED BY <4>2, Zenon
    <3>2. Tail(s) = [i \in 1 .. n |-> Tail(s)[i]] BY <3>1
    <3>3. 1 .. n = 1 .. Len(s) - 1 BY <1>2, <3>1
    <3>4. QED BY <1>2, <1>4, <3>2, <3>3
  <2>2. Len(s) - 1 \in Nat BY <1>2
  <2>3. QED BY <2>1, <2>2, SeqDef
<1>6. ASSUME NEW i \in DOMAIN Tail(s), NEW j \in DOMAIN Tail(s),
             Tail(s)[i] = Tail(s)[j]
      PROVE  i = j
  <2>1. i + 1 \in DOMAIN s /\ j + 1 \in DOMAIN s BY <1>2
  <2>2. i + 1 = j + 1 BY <1>2, <1>6, <2>1 DEF Line
  <2>3. QED BY <1>2, <2>2
<1>7. ASSUME NEW b \in S \ {Head(s)}
      PROVE  \E i \in DOMAIN Tail(s) : Tail(s)[i] = b
  <2>1. PICK i \in DOMAIN s : s[i] = b BY DEF Line
  <2>2. i # 1 BY <1>2, <2>1
  <2>3. i - 1 \in DOMAIN Tail(s) /\ (i - 1) + 1 = i BY <1>2, <2>1, <2>2
  <2>4. QED BY <1>2, <2>1, <2>3
<1>8. 1 \in DOMAIN s BY <1>2
<1>9. QED BY <1>2, <1>3, <1>5, <1>6, <1>7, <1>8 DEF Line

(* Those who are in ensure_hermes(), and the turns at the run lock. *)
Ensurers == {a \in Actor : pc[a] \in InEnsure}
Turns    == {c \in Client : pc[c] \in {"queue", "running"}}

LocksExact == Line(ensureLock, Ensurers) /\ Line(runLock, Turns)

(* What one step is to a lock: nothing, somebody new joins, the holder     *)
(* leaves, or the process is gone.                                         *)
StepOfLine(s, t, S, T) ==
  \/ t = s /\ T = S
  \/ \E a : a \notin S /\ t = Append(s, a) /\ T = S \cup {a}
  \/ s # <<>> /\ t = Tail(s) /\ T = S \ {Head(s)}
  \/ t = <<>> /\ T = {}

LEMMA LineStep ==
  ASSUME NEW s, NEW S, NEW t, NEW T, Line(s, S), StepOfLine(s, t, S, T)
  PROVE  Line(t, T)
<1>1. CASE t = s /\ T = S BY <1>1
<1>2. ASSUME NEW a, a \notin S, t = Append(s, a), T = S \cup {a}
      PROVE  Line(t, T)
  BY <1>2, LineJoined
<1>3. CASE s # <<>> /\ t = Tail(s) /\ T = S \ {Head(s)}
  BY <1>3, LineLeft
<1>4. CASE t = <<>> /\ T = {} BY <1>4, NobodyInLine
<1>5. QED BY <1>1, <1>2, <1>3, <1>4 DEF StepOfLine

(* One task moves. *)
LEMMA MovesLines ==
  ASSUME HermesTypeOK, NEW a \in Actor, NEW where, Goto(a, where)
  PROVE  /\ where \in InEnsure => Ensurers' = Ensurers \cup {a}
         /\ where \notin InEnsure => Ensurers' = Ensurers \ {a}
         /\ a \in Client /\ where \in {"queue", "running"} =>
              Turns' = Turns \cup {a}
         /\ a \notin Client \/ where \notin {"queue", "running"} =>
              Turns' = Turns \ {a}
<1>1. pc'[a] = where /\ \A b \in Actor : b # a => pc'[b] = pc[b]
  BY DEF Goto, HermesTypeOK
<1>2. QED BY <1>1 DEF Ensurers, Turns, Actor

LEMMA StaysInLines ==
  ASSUME UNCHANGED <<pc, ensureLock, runLock>>
  PROVE  /\ StepOfLine(ensureLock, ensureLock', Ensurers, Ensurers')
         /\ StepOfLine(runLock, runLock', Turns, Turns')
BY DEF StepOfLine, Ensurers, Turns

LEMMA LeavesLine ==
  ASSUME HermesTypeOK, NEW a \in Actor, Holds(a), pc[a] \in InEnsure,
         LeavesEnsure(a)
  PROVE  /\ StepOfLine(ensureLock, ensureLock', Ensurers, Ensurers')
         /\ StepOfLine(runLock, runLock', Turns, Turns')
<1>1. a \notin Turns BY DEF Turns, InEnsure
<1>2. CASE a \in Client /\ Goto(a, "queue") /\ runLock' = Append(runLock, a)
  <2>1. Ensurers' = Ensurers \ {a} /\ Turns' = Turns \cup {a}
    BY <1>2, MovesLines DEF InEnsure
  <2>2. QED BY <1>1, <1>2, <2>1 DEF LeavesEnsure, Holds, StepOfLine
<1>3. CASE Goto(a, "idle") /\ UNCHANGED runLock
  <2>1. Ensurers' = Ensurers \ {a} /\ Turns' = Turns \ {a}
    BY <1>3, MovesLines DEF InEnsure
  <2>2. QED BY <1>1, <1>3, <2>1 DEF LeavesEnsure, Holds, StepOfLine
<1>4. QED BY <1>2, <1>3 DEF LeavesEnsure

(* The steps of one task. *)
LEMMA ActorLines ==
  ASSUME HermesTypeOK, LockInv, NEW a \in Actor, ActorStep(a)
  PROVE  /\ StepOfLine(ensureLock, ensureLock', Ensurers, Ensurers')
         /\ StepOfLine(runLock, runLock', Turns, Turns')
<1>1. CASE Look(a) \/ Start(a) \/ Create(a)
  <2>1. PICK where \in InEnsure : Goto(a, where)
    BY <1>1 DEF Look, Start, Create, InEnsure
  <2>2. pc[a] \in InEnsure /\ UNCHANGED <<ensureLock, runLock>>
    BY <1>1 DEF Look, Start, Create, InEnsure, locks
  <2>3. a \in Ensurers /\ a \notin Turns
    BY <2>2 DEF Ensurers, Turns, InEnsure
  <2>4. where \notin {"queue", "running"} BY DEF InEnsure
  <2>5. Ensurers' = Ensurers \cup {a} /\ Turns' = Turns \ {a}
    BY <2>1, <2>4, MovesLines
  <2>6. QED BY <2>2, <2>3, <2>5 DEF StepOfLine
<1>2. CASE LookRunning(a) \/ Healthy(a) \/ Unhealthy(a) \/ DockerFails(a)
  <2>1. LeavesEnsure(a)
    BY <1>2, ReturnsLeaves, RaisesLeaves
    DEF LookRunning, Healthy, Unhealthy, DockerFails
  <2>2. Holds(a) /\ pc[a] \in InEnsure
    BY <1>2
    DEF LookRunning, Healthy, Unhealthy, DockerFails, LockInv, InEnsure
  <2>3. QED BY <2>1, <2>2, LeavesLine
<1>3. CASE a \in Client /\ TurnRuns(a)
  <2>1. Goto(a, "running") /\ pc[a] = "queue" /\ UNCHANGED <<ensureLock, runLock>>
    BY <1>3 DEF TurnRuns, locks
  <2>2. a \in Turns /\ a \notin Ensurers
    BY <1>3, <2>1 DEF Turns, Ensurers, InEnsure
  <2>3. Turns' = Turns \cup {a} /\ Ensurers' = Ensurers \ {a}
    BY <1>3, <2>1, MovesLines DEF InEnsure
  <2>4. QED BY <2>1, <2>2, <2>3 DEF StepOfLine
<1>4. CASE a \in Client /\ (TurnBreaks(a) \/ TurnAnswers(a))
  <2>1. /\ Goto(a, "idle") /\ pc[a] \in {"queue", "running"}
        /\ HoldsRun(a)
        /\ runLock' = Tail(runLock) /\ UNCHANGED ensureLock
    BY <1>4 DEF TurnBreaks, TurnAnswers, LockInv
  <2>2. a \notin Ensurers BY <2>1 DEF Ensurers, InEnsure
  <2>3. Turns' = Turns \ {a} /\ Ensurers' = Ensurers \ {a}
    BY <2>1, MovesLines DEF InEnsure
  <2>4. QED BY <2>1, <2>2, <2>3 DEF StepOfLine, HoldsRun
<1>5. CASE a \in Client /\ (Stop(a) \/ RemoveFound(a))
  <2>1. /\ Goto(a, "idle") /\ pc[a] \in {"stop", "remove"}
        /\ UNCHANGED <<ensureLock, runLock>>
    BY <1>5 DEF Stop, RemoveFound, locks
  <2>2. a \notin Ensurers /\ a \notin Turns
    BY <2>1 DEF Ensurers, Turns, InEnsure
  <2>3. Turns' = Turns \ {a} /\ Ensurers' = Ensurers \ {a}
    BY <2>1, MovesLines DEF InEnsure
  <2>4. QED BY <2>1, <2>2, <2>3 DEF StepOfLine
<1>6. CASE a \in Bg /\ SafeEnsure(a)
  <2>1. pc[a] = "spawned" /\ UNCHANGED runLock BY <1>6 DEF SafeEnsure
  <2>2. a \notin Ensurers /\ a \notin Turns
    BY <2>1 DEF Ensurers, Turns, InEnsure
  <2>3. CASE Goto(a, "idle") /\ UNCHANGED ensureLock
    <3>1. Turns' = Turns \ {a} /\ Ensurers' = Ensurers \ {a}
      BY <2>3, MovesLines DEF InEnsure
    <3>2. QED BY <2>1, <2>2, <2>3, <3>1 DEF StepOfLine
  <2>4. CASE EnsureBegin(a)
    <3>1. Turns' = Turns \ {a} /\ Ensurers' = Ensurers \cup {a}
      BY <2>4, MovesLines DEF InEnsure, EnsureBegin
    <3>2. QED BY <2>1, <2>2, <2>4, <3>1 DEF StepOfLine, EnsureBegin
  <2>5. QED BY <1>6, <2>3, <2>4 DEF SafeEnsure
<1>7. QED
  BY <1>1, <1>2, <1>3, <1>4, <1>5, <1>6 DEF ActorStep, EnsureStep, TurnStep

LEMMA LocksStep ==
  ASSUME HermesTypeOK, LockInv, LocksExact, [HermesNext]_vars
  PROVE  LocksExact'
<1>1. CASE \/ UNCHANGED vars \/ PassReads \/ PollFails \/ FirstSight
           \/ PollPosts \/ Boots \/ Dies \/ JobWrites \/ Cleanup
  <2>1. UNCHANGED <<pc, ensureLock, runLock>>
    BY <1>1
    DEF vars, locks, PassReads, PollFails, FirstSight, PollPosts, Polls,
        Boots, Dies, JobWrites, Cleanup
  <2>2. QED BY <2>1, StaysInLines, LineStep DEF LocksExact
<1>2. ASSUME NEW a \in Actor, ActorStep(a) PROVE LocksExact'
  BY <1>2, ActorLines, LineStep DEF LocksExact
<1>3. ASSUME NEW a \in Actor, pc[a] = "idle",
             NEW where \in {"stop", "remove", "spawned"}, Goto(a, where),
             UNCHANGED <<ensureLock, runLock>>
      PROVE  LocksExact'
  <2>1. a \notin Ensurers /\ a \notin Turns
    BY <1>3 DEF Ensurers, Turns, InEnsure
  <2>2. Turns' = Turns \ {a} /\ Ensurers' = Ensurers \ {a}
    BY <1>3, MovesLines DEF InEnsure
  <2>3. Turns' = Turns /\ Ensurers' = Ensurers BY <2>1, <2>2
  <2>4. QED BY <1>3, <2>3 DEF LocksExact
<1>4. ASSUME NEW c \in Client, NeedsContainer(c) PROVE LocksExact'
  <2>1. /\ c \in Actor /\ pc[c] = "idle" /\ UNCHANGED runLock
        /\ Goto(c, "want") /\ ensureLock' = Append(ensureLock, c)
    BY <1>4 DEF NeedsContainer, Arrives, EnsureBegin, Actor
  <2>2. c \notin Ensurers /\ c \notin Turns
    BY <2>1 DEF Ensurers, Turns, InEnsure
  <2>3. Turns' = Turns \ {c} /\ Ensurers' = Ensurers \cup {c}
    BY <2>1, MovesLines DEF InEnsure
  <2>4. Turns' = Turns BY <2>2, <2>3
  <2>5. QED BY <2>1, <2>2, <2>3, <2>4, LineJoined DEF LocksExact
<1>5. ASSUME NEW c \in Client, Deactivate(c) \/ Remove(c) PROVE LocksExact'
  BY <1>3, <1>5 DEF Deactivate, Remove, Arrives, Actor
<1>6. ASSUME NEW b \in Bg, StatusDown(b) PROVE LocksExact'
  BY <1>3, <1>6 DEF StatusDown, locks, Actor
<1>7. CASE Crash
  <2>1. ensureLock' = <<>> /\ runLock' = <<>>
        /\ \A a \in Actor : pc'[a] = "idle"
    BY <1>7 DEF Crash, Memory
  <2>2. Ensurers' = {} /\ Turns' = {}
    BY <2>1 DEF Ensurers, Turns, InEnsure, Actor
  <2>3. QED BY <2>1, <2>2, NobodyInLine DEF LocksExact
<1>8. QED
  BY <1>1, <1>2, <1>4, <1>5, <1>6, <1>7 DEF HermesNext, SchedulerStep

(* No lock of the agent is lost, and none is left behind: the lines name   *)
(* exactly the tasks at the lock, whatever fails, is stopped or dies.      *)
THEOREM LocksAreExact == HermesSpec => []LocksExact
<1>1. HermesInit => LocksExact
  <2>1. SUFFICES ASSUME HermesInit PROVE LocksExact OBVIOUS
  <2>2. ensureLock = <<>> /\ runLock = <<>>
        /\ \A a \in Actor : pc[a] = "idle"
    BY <2>1 DEF HermesInit, Memory
  <2>3. Ensurers = {} /\ Turns = {}
    BY <2>2 DEF Ensurers, Turns, InEnsure, Actor
  <2>4. QED BY <2>2, <2>3, NobodyInLine DEF LocksExact
<1>2. HermesInv /\ LocksExact /\ [HermesNext]_vars => LocksExact'
  BY LocksStep DEF HermesInv
<1>3. QED BY <1>1, <1>2, HermesInvariant, PTL DEF HermesSpec

(* So whoever waits for a lock waits for a task that is at work inside it  *)
(* and, by the timeouts of every step in there, comes out: the safety half *)
(* of TurnsEnd.                                                            *)
SomebodyWorks ==
  /\ \A a \in Actor : pc[a] \in InEnsure =>
       \E h \in Actor : Holds(h) /\ pc[h] \in InEnsure
  /\ \A c \in Client : pc[c] \in {"queue", "running"} =>
       \E h \in Client : HoldsRun(h) /\ pc[h] \in {"queue", "running"}

(* No lock of an agent is held by a task that is gone.                     *)
THEOREM NoLockIsOrphaned == HermesSpec => []SomebodyWorks
<1>1. LocksExact => SomebodyWorks
  <2>1. ASSUME NEW s, NEW S, Line(s, S), NEW a \in S
        PROVE  s # <<>> /\ Head(s) \in S
    <3>1. s # <<>> BY <2>1 DEF Line
    <3>2. QED BY <2>1, <3>1, LineLeft
  <2>2. SUFFICES ASSUME LocksExact PROVE SomebodyWorks OBVIOUS
  <2>3. ASSUME NEW a \in Actor, pc[a] \in InEnsure
        PROVE  \E h \in Actor : Holds(h) /\ pc[h] \in InEnsure
    <3>1. a \in Ensurers BY <2>3 DEF Ensurers
    <3>2. ensureLock # <<>> /\ Head(ensureLock) \in Ensurers
      BY <2>1, <2>2, <3>1 DEF LocksExact
    <3>3. QED BY <3>2 DEF Ensurers, Holds
  <2>4. ASSUME NEW c \in Client, pc[c] \in {"queue", "running"}
        PROVE  \E h \in Client : HoldsRun(h) /\ pc[h] \in {"queue", "running"}
    <3>1. c \in Turns BY <2>4 DEF Turns
    <3>2. runLock # <<>> /\ Head(runLock) \in Turns
      BY <2>1, <2>2, <3>1 DEF LocksExact
    <3>3. QED BY <3>2 DEF Turns, HoldsRun
  <2>5. QED BY <2>3, <2>4 DEF SomebodyWorks
<1>2. QED BY <1>1, LocksAreExact, PTL
=============================================================================
