--------------------------- MODULE PlanRun_proofs ---------------------------
(***************************************************************************)
(* For any plans, callers, providers, permits and tool limits: a plan's    *)
(* tasks leak no permit and forget no waiter of a provider, their calls    *)
(* belong to them, and their waves implement PlanOrder.                    *)
(***************************************************************************)
EXTENDS PlanRun, Dispatcher_proofs

(* Tasks outside the wave are over, and counted, or have not begun; every  *)
(* agent that counts as complete has a task that is over.                  *)
WaveInv ==
  /\ \A t \in wave : task[t] # "pending"
  /\ \A t \in Caller \ wave :
       \/ task[t] = "pending"
       \/ task[t] \in Over /\ plan.agent[t] \in completed
  /\ \A n \in completed : \E t \in Caller : task[t] \in Over /\ plan.agent[t] = n

PlanInv ==
  /\ PlanTypeOK
  /\ DispInv
  /\ CallsBelong
  /\ \A t \in Caller : call[t].at # "none" => call[t].by \in Name
  /\ WaveInv

LEMMA InitPlanInv == ASSUME PlanInit PROVE PlanInv
<1>1. DispInv BY InitDispInv DEF PlanInit
<1>2. \A t \in Caller : call[t].at = "none" /\ task[t] = "pending"
  BY DEF PlanInit, DispInit, NoCall
<1>3. PlanTypeOK
  <2>1. DispTypeOK BY <1>1 DEF DispInv
  <2>2. 0 \in 0..ToolMax BY PlanAssumption
  <2>3. QED BY <2>1, <2>2 DEF PlanInit, PlanTypeOK
<1>4. CallsBelong BY <1>2 DEF CallsBelong
<1>5. WaveInv BY <1>2 DEF WaveInv, PlanInit
<1>6. QED BY <1>1, <1>2, <1>3, <1>4, <1>5 DEF PlanInv

-----------------------------------------------------------------------------
(* The steps of a task *)

(* What a task that has begun does to its call: none, or a new one.        *)
Fresh(x) ==
  /\ x \in CallState
  /\ x.at \in {"none", "route"}
  /\ x.at = "route" => x.by \in Name

LEMMA FreshKeeps ==
  ASSUME PlanInv, NEW t \in Caller, NEW x, Fresh(x),
         call[t].at \notin OnSlot,
         call' = [call EXCEPT ![t] = x],
         UNCHANGED <<holders, queue, depth, pinned>>
  PROVE  DispInv'
<1>1. x \in CallState /\ x.at \notin OnSlot /\ Ordered(x)
  BY DEF Fresh, OnSlot, Ordered
<1>2. DispInv /\ pinned' \in [Name -> Provider \cup {None}]
  BY DEF PlanInv, DispInv, DispTypeOK
<1>3. QED BY <1>1, <1>2, AwayFromSlots

(* A step of one task that has begun keeps the waves as they are. *)
LEMMA TaskKeepsWaves ==
  ASSUME PlanInv, NEW t \in Caller, task[t] \notin Over \cup {"pending"},
         NEW where \in {"ready", "model", "tools", "nested"} \cup Over,
         task' = [task EXCEPT ![t] = where],
         UNCHANGED <<plan, wave, completed>>
  PROVE  WaveInv'
<1>1. task \in [Caller -> {"pending", "ready", "model", "tools", "nested"}
                          \cup Over]
  BY DEF PlanInv, PlanTypeOK
<1>2. t \in wave /\ wave \subseteq Caller
  BY DEF PlanInv, PlanTypeOK, WaveInv
<1>3. \A u \in Caller : u # t => task'[u] = task[u] BY <1>1
<1>4. task'[t] = where /\ where # "pending" BY <1>1 DEF Over
<1>5. \A u \in wave' : task'[u] # "pending"
  BY <1>2, <1>3, <1>4 DEF PlanInv, WaveInv
<1>6. \A u \in Caller \ wave' :
        \/ task'[u] = "pending"
        \/ task'[u] \in Over /\ plan'.agent[u] \in completed'
  BY <1>2, <1>3 DEF PlanInv, WaveInv
<1>7. ASSUME NEW n \in completed'
      PROVE  \E u \in Caller : task'[u] \in Over /\ plan'.agent[u] = n
  <2>1. PICK u \in Caller : task[u] \in Over /\ plan.agent[u] = n
    BY <1>7 DEF PlanInv, WaveInv
  <2>2. QED BY <1>3, <2>1
<1>8. QED BY <1>5, <1>6, <1>7 DEF WaveInv

(* The steps of a task that give it a new call, or take the one it has.    *)
LEMMA TaskCallKeeps ==
  ASSUME PlanInv, NEW t \in Caller, task[t] \notin Over \cup {"pending"},
         NEW where \in {"ready", "model", "tools", "nested"} \cup Over,
         task' = [task EXCEPT ![t] = where],
         NEW x, Fresh(x), x.at = "route" <=> where \in {"model", "nested"},
         call[t].at \notin OnSlot, call' = [call EXCEPT ![t] = x],
         used' \in [Caller -> 0..ToolMax], subUsed' \in [Caller -> 0..ToolMax],
         UNCHANGED <<holders, queue, depth, pinned,
                     plan, wave, completed, returned>>
  PROVE  PlanInv'
<1>1. DispInv' BY FreshKeeps
<1>2. WaveInv' BY TaskKeepsWaves
<1>3. call \in [Caller -> CallState]
      /\ task \in [Caller -> {"pending", "ready", "model", "tools", "nested"}
                             \cup Over]
  BY DEF PlanInv, PlanTypeOK, DispTypeOK
<1>4. /\ call'[t] = x /\ task'[t] = where
      /\ \A u \in Caller : u # t => call'[u] = call[u] /\ task'[u] = task[u]
  BY <1>3
<1>5. CallsBelong'
  <2>1. ASSUME NEW u \in Caller
        PROVE  call'[u].at # "none" <=> task'[u] \in {"model", "nested"}
    <3>1. CASE u = t BY <1>4, <3>1 DEF Fresh
    <3>2. CASE u # t BY <1>4, <3>2 DEF PlanInv, CallsBelong
    <3>3. QED BY <3>1, <3>2
  <2>2. QED BY <2>1 DEF CallsBelong
<1>6. \A u \in Caller : call'[u].at # "none" => call'[u].by \in Name
  BY <1>4 DEF PlanInv, Fresh
<1>7. PlanTypeOK'
  <2>1. task' \in [Caller -> {"pending", "ready", "model", "tools", "nested"}
                             \cup Over]
    BY <1>3
  <2>2. DispTypeOK' BY <1>1 DEF DispInv
  <2>3. QED BY <2>1, <2>2 DEF PlanInv, PlanTypeOK
<1>8. QED BY <1>1, <1>2, <1>5, <1>6, <1>7 DEF PlanInv

LEMMA NoCallIsFresh == Fresh(NoCall)
BY NoCallProperties DEF Fresh

LEMMA NewCallIsFresh ==
  ASSUME NEW a \in Name
  PROVE  LET x == [at |-> "route", by |-> a, order |-> <<>>] IN
         Fresh(x) /\ x.at = "route"
BY <<>> \in Seq(Provider) DEF Fresh, CallState

LEMMA TaskStepKeeps ==
  ASSUME PlanInv, NEW t \in Caller, TaskStep(t)
  PROVE  PlanInv'
<1>1. /\ call \in [Caller -> CallState]
      /\ used \in [Caller -> 0..ToolMax] /\ subUsed \in [Caller -> 0..ToolMax]
      /\ plan \in Plans
      /\ task \in [Caller -> {"pending", "ready", "model", "tools", "nested"}
                             \cup Over]
      /\ CallsBelong
  BY DEF PlanInv, PlanTypeOK, DispTypeOK
<1>2. plan.agent[t] \in Name BY <1>1, PlanAssumption
<1>3. call[t].at = "none" <=> task[t] \notin {"model", "nested"}
  BY <1>1 DEF CallsBelong
<1>4. CASE StartTask(t) \/ NextRound(t)
  <2> DEFINE x == [at |-> "route", by |-> plan.agent[t], order |-> <<>>]
  <2>1. /\ task[t] \in {"ready", "tools"} /\ call[t].at = "none"
        /\ call' = [call EXCEPT ![t] = x]
        /\ task' = [task EXCEPT ![t] = "model"]
        /\ UNCHANGED <<holders, queue, depth, pinned, plan, wave, completed,
                       returned, used, subUsed>>
    BY <1>4 DEF StartTask, NextRound, Ask, BeginCall, Goto
  <2>2. Fresh(x) /\ x.at = "route" BY <1>2, NewCallIsFresh
  <2>3. call[t].at \notin OnSlot /\ task[t] \notin Over \cup {"pending"}
    BY <2>1 DEF OnSlot, Over
  <2> HIDE DEF x
  <2>4. "route" = x.at <=> "model" \in {"model", "nested"} BY <2>2
  <2>5. used' \in [Caller -> 0..ToolMax] /\ subUsed' \in [Caller -> 0..ToolMax]
    BY <1>1, <2>1
  <2>6. QED BY <2>1, <2>2, <2>3, <2>5, TaskCallKeeps
<1>5. CASE TaskFails(t) \/ TaskEnds(t) \/ SubEnds(t)
  <2>1. PICK where \in {"failed", "result", "tools"} :
          task' = [task EXCEPT ![t] = where]
    BY <1>5 DEF TaskFails, TaskEnds, SubEnds, Goto
  <2>2. /\ task[t] \in {"ready", "tools", "model", "nested"}
        /\ call[t].at \in {"none", "ok", "error"}
        /\ \/ call' = call /\ call[t].at = "none"
           \/ call' = [call EXCEPT ![t] = NoCall]
        /\ UNCHANGED <<holders, queue, depth, pinned, plan, wave, completed,
                       returned, used, subUsed>>
    BY <1>3, <1>5 DEF TaskFails, TaskEnds, SubEnds, Take, dispVars
  <2>3. call[t].at \notin OnSlot /\ task[t] \notin Over \cup {"pending"}
    BY <2>2 DEF OnSlot, Over
  <2>4. used' \in [Caller -> 0..ToolMax] /\ subUsed' \in [Caller -> 0..ToolMax]
    BY <1>1, <2>2
  <2>5. where \in {"ready", "model", "tools", "nested"} \cup Over
        /\ where \notin {"model", "nested"}
    BY DEF Over
  <2>6. PICK x : /\ Fresh(x) /\ x.at = "none" /\ call' = [call EXCEPT ![t] = x]
    <3>1. CASE call' = call /\ call[t].at = "none"
      <4>1. Fresh(call[t]) BY <1>1, <3>1 DEF Fresh
      <4>2. call' = [call EXCEPT ![t] = call[t]] BY <1>1, <3>1
      <4>3. QED BY <3>1, <4>1, <4>2
    <3>2. CASE call' = [call EXCEPT ![t] = NoCall]
      BY <3>2, NoCallIsFresh, NoCallProperties
    <3>3. QED BY <2>2, <3>1, <3>2
  <2>7. QED BY <2>1, <2>2, <2>3, <2>4, <2>5, <2>6, TaskCallKeeps
<1>6. CASE PlainTool(t) \/ CallAgent(t)
  <2>1. /\ task[t] \in {"model", "tools"} /\ call[t].at \in {"none", "ok"}
        /\ used[t] < ToolMax /\ used' = [used EXCEPT ![t] = @ + 1]
        /\ UNCHANGED <<holders, queue, depth, pinned, plan, wave, completed,
                       returned>>
    BY <1>3, <1>6 DEF PlainTool, CallAgent, ToolTurn, Budget
  <2>2. call[t].at \notin OnSlot /\ task[t] \notin Over \cup {"pending"}
    BY <2>1 DEF OnSlot, Over
  <2>3. used' \in [Caller -> 0..ToolMax]
    <3>1. used[t] \in Nat /\ ToolMax \in Nat BY <1>1, PlanAssumption
    <3>2. used[t] + 1 \in 0..ToolMax BY <2>1, <3>1
    <3>3. QED BY <1>1, <2>1, <3>2
  <2>4. CASE PlainTool(t)
    <3>1. /\ task' = [task EXCEPT ![t] = "tools"]
          /\ call' = [call EXCEPT ![t] = NoCall] /\ subUsed' = subUsed
      BY <2>4 DEF PlainTool, Goto
    <3>2. NoCall.at = "route" <=> "tools" \in {"model", "nested"}
      BY NoCallProperties
    <3>3. QED
      BY <1>1, <2>1, <2>2, <2>3, <3>1, <3>2, NoCallIsFresh, TaskCallKeeps
  <2>5. CASE CallAgent(t)
    <3>1. PICK target \in Callable[plan.agent[t]] :
            call' = [call EXCEPT ![t] = [at |-> "route", by |-> target,
                                         order |-> <<>>]]
      BY <2>5 DEF CallAgent
    <3>2. target \in Name BY <1>2, <3>1, PlanAssumption
    <3> DEFINE x == [at |-> "route", by |-> target, order |-> <<>>]
    <3>3. Fresh(x) /\ x.at = "route" BY <3>2, NewCallIsFresh
    <3>4. call' = [call EXCEPT ![t] = x] BY <3>1
    <3>5. task' = [task EXCEPT ![t] = "nested"]
          /\ subUsed' = [subUsed EXCEPT ![t] = 0]
      BY <2>5 DEF CallAgent, Goto
    <3>6. subUsed' \in [Caller -> 0..ToolMax]
      <4>1. 0 \in 0..ToolMax BY PlanAssumption
      <4>2. QED BY <1>1, <3>5, <4>1
    <3> HIDE DEF x
    <3>7. QED
      BY <2>1, <2>2, <2>3, <3>3, <3>4, <3>5, <3>6, TaskCallKeeps
  <2>6. QED BY <1>6, <2>4, <2>5
<1>7. CASE SubTools(t)
  <2> DEFINE x == [call[t] EXCEPT !.at = "route"]
  <2>1. /\ task[t] = "nested" /\ call[t].at = "ok"
        /\ call' = [call EXCEPT ![t].at = "route"]
        /\ UNCHANGED <<holders, queue, depth, pinned, plan, wave, completed,
                       returned, task, used>>
    BY <1>7 DEF SubTools
  <2>2. PICK n \in 1..ToolMax :
          subUsed[t] + n <= ToolMax /\ subUsed' = [subUsed EXCEPT ![t] = @ + n]
    BY <1>7 DEF SubTools
  <2>3. subUsed' \in [Caller -> 0..ToolMax]
    <3>1. subUsed[t] \in Nat /\ ToolMax \in Nat /\ n \in Nat
      BY <1>1, PlanAssumption
    <3>2. subUsed[t] + n \in 0..ToolMax BY <2>2, <3>1
    <3>3. QED BY <1>1, <2>2, <3>2
  <2>4. call[t] \in CallState /\ call[t].by \in Name
    BY <1>1, <2>1 DEF PlanInv
  <2>5. x \in CallState /\ x.at = "route" /\ x.by = call[t].by
    BY <2>4 DEF CallState
  <2>6. Fresh(x) BY <2>4, <2>5 DEF Fresh
  <2>7. call' = [call EXCEPT ![t] = x] BY <1>1, <2>1
  <2>8. task' = [task EXCEPT ![t] = "nested"] BY <1>1, <2>1
  <2>9. call[t].at \notin OnSlot /\ task[t] \notin Over \cup {"pending"}
    BY <2>1 DEF OnSlot, Over
  <2> HIDE DEF x
  <2>10. QED
    BY <1>1, <2>1, <2>3, <2>5, <2>6, <2>7, <2>8, <2>9, TaskCallKeeps
<1>8. CASE ToolTimeout(t)
  <2>1. /\ task[t] = "nested" /\ Cut(t)
        /\ task' = [task EXCEPT ![t] = "tools"]
        /\ UNCHANGED <<plan, wave, completed, returned, used, subUsed>>
    BY <1>8 DEF ToolTimeout, Goto
  <2>2. DispInv' /\ Follows(call', [call EXCEPT ![t] = NoCall])
    BY <2>1, CutKeeps DEF PlanInv
  <2>3. /\ call'[t].at = "none"
        /\ \A u \in Caller : u # t =>
             /\ call'[u].by = call[u].by
             /\ call'[u].at = "none" <=> call[u].at = "none"
    BY <1>1, <2>2, NoCallProperties DEF Follows
  <2>4. task'[t] = "tools" /\ \A u \in Caller : u # t => task'[u] = task[u]
    BY <1>1, <2>1
  <2>5. WaveInv'
    <3>1. task[t] \notin Over \cup {"pending"} BY <2>1 DEF Over
    <3>2. QED BY <2>1, <3>1, TaskKeepsWaves
  <2>6. CallsBelong'
    <3>1. ASSUME NEW u \in Caller
          PROVE  call'[u].at # "none" <=> task'[u] \in {"model", "nested"}
      <4>1. CASE u = t BY <2>3, <2>4, <4>1
      <4>2. CASE u # t BY <1>1, <2>3, <2>4, <4>2 DEF CallsBelong
      <4>3. QED BY <4>1, <4>2
    <3>2. QED BY <3>1 DEF CallsBelong
  <2>7. \A u \in Caller : call'[u].at # "none" => call'[u].by \in Name
    BY <2>3 DEF PlanInv
  <2>8. PlanTypeOK' BY <1>1, <2>1, <2>2 DEF PlanInv, PlanTypeOK, DispInv
  <2>9. QED BY <2>2, <2>5, <2>6, <2>7, <2>8 DEF PlanInv
<1>9. QED BY <1>4, <1>5, <1>6, <1>7, <1>8 DEF TaskStep

-----------------------------------------------------------------------------
(* The steps of the dispatcher, and the waves *)

LEMMA DispatcherStepKeeps ==
  ASSUME PlanInv, NEW t \in Caller, DispatcherStep(t)
  PROVE  PlanInv'
<1>1. CallStep(t) /\ UNCHANGED planVars BY DEF DispatcherStep
<1>2. DispInv' /\ Follows(call', call) BY <1>1, CallStepKeeps DEF PlanInv
<1>3. CallsBelong' /\ \A u \in Caller : call'[u].at # "none" => call'[u].by \in Name
  BY <1>1, <1>2 DEF PlanInv, CallsBelong, Follows, planVars
<1>4. PlanTypeOK' BY <1>1, <1>2 DEF PlanInv, PlanTypeOK, DispInv, planVars
<1>5. WaveInv' BY <1>1 DEF PlanInv, WaveInv, planVars
<1>6. QED BY <1>2, <1>3, <1>4, <1>5 DEF PlanInv

(* When a wave is over, the complete agents are those with a task that is. *)
Done == completed \cup {plan.agent[t] : t \in wave}

LEMMA DoneAgents ==
  ASSUME PlanInv, \A t \in wave : task[t] \in Over
  PROVE  /\ Done = {plan.agent[t] : t \in {u \in Caller : task[u] \in Over}}
         /\ Done \subseteq Name
         /\ \A t \in Caller : task[t] = "pending" \/ task[t] \in Over
<1>1. wave \subseteq Caller /\ completed \subseteq Name
  BY DEF PlanInv, PlanTypeOK
<1>2. plan.agent \in [Caller -> Name]
  BY PlanAssumption DEF PlanInv, PlanTypeOK
<1>3. \A t \in Caller : task[t] = "pending" \/ task[t] \in Over
  BY DEF PlanInv, WaveInv
<1>4. ASSUME NEW n
      PROVE  n \in Done <=> \E t \in Caller : task[t] \in Over /\ plan.agent[t] = n
  <2>1. CASE n \in completed BY <1>4, <2>1 DEF PlanInv, WaveInv, Done
  <2>2. CASE n \notin completed
    <3>1. ASSUME NEW t \in wave, plan.agent[t] = n
          PROVE  \E u \in Caller : task[u] \in Over /\ plan.agent[u] = n
      BY <1>1, <3>1
    <3>2. ASSUME NEW t \in Caller, task[t] \in Over, plan.agent[t] = n
          PROVE  t \in wave
      BY <2>2, <3>2 DEF PlanInv, WaveInv, Over
    <3>3. QED BY <2>2, <3>1, <3>2 DEF Done
  <2>3. QED BY <2>1, <2>2
<1>5. Done = {plan.agent[t] : t \in {u \in Caller : task[u] \in Over}} BY <1>4
<1>6. Done \subseteq Name BY <1>1, <1>2 DEF Done
<1>7. QED BY <1>3, <1>5, <1>6

LEMMA NextWaveFacts ==
  ASSUME PlanInv, NextWave
  PROVE  /\ \A t \in wave : task[t] \in Over
         /\ completed' = Done /\ wave' = Chosen(Done)
         /\ task' = [t \in Caller |-> IF t \in Chosen(Done) THEN "ready"
                                      ELSE task[t]]
         /\ returned' \in BOOLEAN
         /\ Chosen(Done) \subseteq Pending
         /\ Pending \subseteq Caller
         /\ UNCHANGED <<plan, used, subUsed, dispVars>>
BY DEF NextWave, Done, Chosen, Ready, Pending

LEMMA NextWaveKeeps ==
  ASSUME PlanInv, NextWave
  PROVE  PlanInv'
<1>1. /\ \A t \in wave : task[t] \in Over
      /\ completed' = Done /\ wave' = Chosen(Done)
      /\ task' = [t \in Caller |-> IF t \in Chosen(Done) THEN "ready" ELSE task[t]]
      /\ returned' \in BOOLEAN
      /\ Chosen(Done) \subseteq Pending
      /\ Pending \subseteq Caller
      /\ UNCHANGED <<plan, used, subUsed, dispVars>>
  BY NextWaveFacts
<1>2. /\ Done = {plan.agent[t] : t \in {u \in Caller : task[u] \in Over}}
      /\ Done \subseteq Name
      /\ \A t \in Caller : task[t] = "pending" \/ task[t] \in Over
  BY <1>1, DoneAgents
<1> DEFINE chosen == Chosen(Done)
<1>3. chosen \subseteq Caller /\ \A t \in chosen : task[t] = "pending"
  BY <1>1 DEF Pending
<1>4. UNCHANGED <<call, holders, queue, depth, pinned>> BY <1>1 DEF dispVars
<1>5. wave' = chosen /\ plan' = plan
      /\ \A t \in Caller : task'[t] = IF t \in chosen THEN "ready" ELSE task[t]
  BY <1>1
<1>6. DispInv'
  BY <1>4 DEF PlanInv, DispInv, DispTypeOK, NobodyForgotten, DepthCovers,
              Woken, Uses
<1>7. PlanTypeOK'
  <2>1. task \in [Caller -> {"pending", "ready", "model", "tools", "nested"}
                            \cup Over]
    BY DEF PlanInv, PlanTypeOK
  <2>2. task' \in [Caller -> {"pending", "ready", "model", "tools", "nested"}
                             \cup Over]
    BY <1>1, <2>1
  <2>3. DispTypeOK' BY <1>6 DEF DispInv
  <2>4. wave' \subseteq Caller /\ completed' \subseteq Name
    BY <1>1, <1>2, <1>3
  <2>5. QED BY <1>1, <2>2, <2>3, <2>4 DEF PlanInv, PlanTypeOK
<1> HIDE DEF chosen
<1>8. CallsBelong'
  <2>1. ASSUME NEW t \in Caller
        PROVE  task'[t] \in {"model", "nested"} <=> task[t] \in {"model", "nested"}
    BY <1>3, <1>5
  <2>2. QED BY <1>4, <2>1 DEF PlanInv, CallsBelong
<1>9. WaveInv'
  <2>1. \A t \in wave' : task'[t] # "pending" BY <1>3, <1>5
  <2>2. ASSUME NEW t \in Caller, t \notin chosen, task[t] # "pending"
        PROVE  task'[t] \in Over /\ plan'.agent[t] \in completed'
    BY <1>1, <1>2, <1>5, <2>2
  <2>3. ASSUME NEW n \in completed'
        PROVE  \E t \in Caller : task'[t] \in Over /\ plan'.agent[t] = n
    <3>1. PICK t \in Caller : task[t] \in Over /\ plan.agent[t] = n
      BY <1>1, <1>2, <2>3
    <3>2. t \notin chosen BY <1>3, <3>1 DEF Over
    <3>3. QED BY <1>5, <3>1, <3>2
  <2>4. \A t \in Caller \ wave' :
          \/ task'[t] = "pending"
          \/ task'[t] \in Over /\ plan'.agent[t] \in completed'
    BY <1>5, <2>2
  <2>5. QED BY <2>1, <2>3, <2>4 DEF WaveInv
<1>10. \A t \in Caller : call'[t].at # "none" => call'[t].by \in Name
  BY <1>4 DEF PlanInv
<1>11. QED BY <1>6, <1>7, <1>8, <1>9, <1>10 DEF PlanInv

LEMMA NextPlanInv == PlanInv /\ [PlanNext]_vars => PlanInv'
<1> SUFFICES ASSUME PlanInv, [PlanNext]_vars PROVE PlanInv'
  OBVIOUS
<1>1. CASE NextWave BY <1>1, NextWaveKeeps
<1>2. ASSUME NEW t \in Caller, TaskStep(t) PROVE PlanInv'
  BY <1>2, TaskStepKeeps
<1>3. ASSUME NEW t \in Caller, DispatcherStep(t) PROVE PlanInv'
  BY <1>3, DispatcherStepKeeps
<1>4. CASE UNCHANGED vars
  BY <1>4 DEF PlanInv, PlanTypeOK, DispInv, DispTypeOK, NobodyForgotten,
              DepthCovers, Woken, Uses, CallsBelong, WaveInv, vars, dispVars,
              planVars
<1>5. QED BY <1>1, <1>2, <1>3, <1>4 DEF PlanNext, Terminated

-----------------------------------------------------------------------------
(* Theorems *)

(* The inductive invariant of a plan, its calls and the providers.         *)
THEOREM PlanInvariant == PlanSpec => []PlanInv
<1>1. PlanInit => PlanInv BY InitPlanInv
<1>2. QED BY <1>1, NextPlanInv, PTL DEF PlanSpec

(* Tasks, calls, budgets and semaphores stay within their types: no task   *)
(* makes more than tool_max_calls tool calls.                              *)
THEOREM PlanTypeSafe == PlanSpec => []PlanTypeOK
<1>1. PlanInv => PlanTypeOK BY DEF PlanInv
<1>2. QED BY <1>1, PlanInvariant, PTL

(* No outcome, failover, timeout or cancellation leaks a permit.           *)
THEOREM PermitsNeverLeak == PlanSpec => []PermitsMatch
<1>1. PlanInv => PermitsMatch BY PermitsFollow DEF PlanInv
<1>2. QED BY <1>1, PlanInvariant, PTL

(* A provider with a permit to give leaves nobody in its line.             *)
THEOREM NoWaiterForgotten == PlanSpec => []NobodyForgotten
<1>1. PlanInv => NobodyForgotten BY DEF PlanInv, DispInv
<1>2. QED BY <1>1, PlanInvariant, PTL

(* The load that candidates are sorted by counts every call on a provider. *)
THEOREM LoadCoversCalls == PlanSpec => []DepthCovers
<1>1. PlanInv => DepthCovers BY DEF PlanInv, DispInv
<1>2. QED BY <1>1, PlanInvariant, PTL

(* No call outlives its task, and no task is without the call it waits for.*)
THEOREM CallsBelongToTasks == PlanSpec => []CallsBelong
<1>1. PlanInv => CallsBelong BY DEF PlanInv
<1>2. QED BY <1>1, PlanInvariant, PTL

-----------------------------------------------------------------------------
(* The waves implement PlanOrder *)

LEMMA OrderInitially == ASSUME PlanInit PROVE Order!OrderInit
<1>1. plan \in Plans /\ \A t \in Caller : task[t] = "pending"
  BY DEF PlanInit
<1>2. \A t \in Caller : (CASE task[t] = "pending" -> "waiting"
                          [] task[t] \in Over     -> "finished"
                          [] OTHER                -> "running") = "waiting"
  <2>1. \A t \in Caller : task[t] \notin Over BY <1>1 DEF Over
  <2>2. QED BY <1>1, <2>1
<1>3. OrderState = [t \in Caller |-> "waiting"] BY <1>2 DEF OrderState
<1>4. QED BY <1>1, <1>3 DEF Order!OrderInit

(* A step of a task finishes it in PlanOrder, or does not show. *)
LEMMA TaskStepOrder ==
  ASSUME PlanInv, NEW t \in Caller, TaskStep(t)
  PROVE  Order!Finish(t) \/ UNCHANGED <<plan, OrderState>>
<1>1. task \in [Caller -> {"pending", "ready", "model", "tools", "nested"}
                          \cup Over]
  BY DEF PlanInv, PlanTypeOK
<1>2. /\ plan' = plan /\ task[t] \in {"ready", "model", "tools", "nested"}
      /\ \E where \in {"model", "tools", "nested"} \cup Over :
           task' = [task EXCEPT ![t] = where]
  BY <1>1 DEF TaskStep, StartTask, TaskFails, TaskEnds, PlainTool, CallAgent,
              ToolTurn, SubTools, SubEnds, ToolTimeout, NextRound, Ask, Goto, Over
<1>3. PICK where \in {"model", "tools", "nested"} \cup Over :
        task' = [task EXCEPT ![t] = where]
  BY <1>2
<1>4. OrderState[t] = "running" BY <1>2 DEF OrderState, Over
<1>5. \A u \in Caller : u # t => OrderState'[u] = OrderState[u]
  BY <1>1, <1>3 DEF OrderState
<1>6. task'[t] = where BY <1>1, <1>3
<1>7. CASE where \in Over
  <2>1. OrderState'[t] = "finished" BY <1>6, <1>7 DEF OrderState, Over
  <2>2. OrderState' = [OrderState EXCEPT ![t] = "finished"]
    BY <1>5, <2>1 DEF OrderState
  <2>3. QED BY <1>2, <1>4, <2>2 DEF Order!Finish
<1>8. CASE where \notin Over
  <2>1. OrderState'[t] = "running" BY <1>3, <1>6, <1>8 DEF OrderState, Over
  <2>2. \A u \in Caller : OrderState'[u] = OrderState[u] BY <1>4, <1>5, <2>1
  <2>3. OrderState' = OrderState BY <2>2 DEF OrderState
  <2>4. QED BY <1>2, <2>3
<1>9. QED BY <1>7, <1>8

(* The next wave begins tasks that are satisfied, or all that are left.    *)
LEMMA NextWaveOrder ==
  ASSUME PlanInv, NextWave
  PROVE  Order!OrderNext
<1>1. /\ \A t \in wave : task[t] \in Over
      /\ task' = [t \in Caller |-> IF t \in Chosen(Done) THEN "ready" ELSE task[t]]
      /\ Chosen(Done) \subseteq Pending
      /\ Pending \subseteq Caller
      /\ plan' = plan
  BY NextWaveFacts
<1>2. /\ Done = {plan.agent[t] : t \in {u \in Caller : task[u] \in Over}}
      /\ \A t \in Caller : task[t] = "pending" \/ task[t] \in Over
  BY <1>1, DoneAgents
<1>3. \A t \in Caller :
        /\ OrderState[t] = "waiting" <=> task[t] = "pending"
        /\ OrderState[t] = "finished" <=> task[t] \in Over
        /\ OrderState[t] # "running"
  BY <1>2 DEF OrderState, Over
<1>4. Order!Waiting = Pending BY <1>3 DEF Order!Waiting, Pending
<1>5. Order!FinishedAgents = Done
  <2>1. {u \in Caller : OrderState[u] = "finished"}
          = {u \in Caller : task[u] \in Over}
    BY <1>3
  <2>2. QED BY <1>2, <2>1 DEF Order!FinishedAgents
<1>6. Ready(Done) = {t \in Order!Waiting : Order!Satisfied(t)}
  BY <1>4, <1>5 DEF Ready, Order!Satisfied
<1>7. OrderState' = [t \in Caller |-> IF t \in Chosen(Done) THEN "running"
                                     ELSE OrderState[t]]
  BY <1>1 DEF OrderState, Over
<1>8. Order!Begin(Chosen(Done)) BY <1>1, <1>7 DEF Order!Begin
<1>9. CASE Ready(Done) = {}
  <2>1. Chosen(Done) = Order!Waiting BY <1>4, <1>9 DEF Chosen
  <2>2. \A t \in Order!Waiting : ~Order!Satisfied(t) BY <1>6, <1>9
  <2>3. Order!Begin(Order!Waiting) BY <1>8, <2>1
  <2>4. Order!BeginRest BY <1>3, <2>2, <2>3 DEF Order!BeginRest
  <2>5. QED BY <2>4 DEF Order!OrderNext
<1>10. CASE Ready(Done) # {}
  <2>1. Chosen(Done) = Ready(Done) BY <1>10 DEF Chosen
  <2>2. Chosen(Done) \in SUBSET {t \in Order!Waiting : Order!Satisfied(t)}
    BY <1>6, <2>1
  <2>3. Order!BeginSatisfied BY <1>8, <1>10, <2>1, <2>2 DEF Order!BeginSatisfied
  <2>4. QED BY <2>3 DEF Order!OrderNext
<1>11. QED BY <1>9, <1>10

LEMMA NextOrder ==
  ASSUME PlanInv, [PlanNext]_vars
  PROVE  [Order!OrderNext]_<<plan, OrderState>>
<1>1. CASE NextWave BY <1>1, NextWaveOrder
<1>2. ASSUME NEW t \in Caller, TaskStep(t)
      PROVE  [Order!OrderNext]_<<plan, OrderState>>
  BY <1>2, TaskStepOrder DEF Order!OrderNext
<1>3. ASSUME NEW t \in Caller, DispatcherStep(t)
      PROVE  UNCHANGED <<plan, OrderState>>
  BY <1>3 DEF DispatcherStep, planVars, OrderState
<1>4. CASE UNCHANGED vars
  BY <1>4 DEF vars, planVars, OrderState
<1>5. QED BY <1>1, <1>2, <1>3, <1>4 DEF PlanNext, Terminated

(* For every plan, whatever depends on what: a task begins when the agents *)
(* it depends on have finished, or when nothing else can run, and once.    *)
THEOREM WavesImplementOrder == PlanSpec => OrderSpec
<1>1. PlanInit => Order!OrderInit BY OrderInitially
<1>2. PlanInv /\ [PlanNext]_vars => [Order!OrderNext]_Order!orderVars
  BY NextOrder DEF Order!orderVars
<1>3. QED BY <1>1, <1>2, PlanInvariant, PTL DEF PlanSpec, OrderSpec, Order!OrderSpec

-----------------------------------------------------------------------------
(* The safety half of PlanEnds and LineMoves *)

(* Whoever is in line for a provider has somebody ahead who has a permit   *)
(* of it, and who therefore waits for no other caller.                     *)
WaitersHaveHolders ==
  \A c \in Caller : call[c].at = "wait" =>
    \E h \in Caller : Has(call[h], Head(call[c].order))

LEMMA HolderAhead ==
  ASSUME DispInv
  PROVE  WaitersHaveHolders
<1>1. SUFFICES ASSUME NEW c \in Caller, call[c].at = "wait"
               PROVE  \E h \in Caller : Has(call[h], Head(call[c].order))
  BY DEF WaitersHaveHolders
<1> DEFINE p == Head(call[c].order)
<1>2. call[c] \in CallState /\ call[c].order # <<>>
  BY <1>1 DEF DispInv, DispTypeOK, Ordered, OnSlot
<1>3. p \in Provider
  <2>1. call[c].order \in Seq(Provider) BY <1>2 DEF CallState
  <2>2. QED BY <1>2, <2>1
<1> HIDE DEF p
<1>4. Matched(call, p, holders[p], queue[p]) BY <1>3 DEF DispInv
<1>5. queue[p] # <<>>
  <2>1. Waits(call[c], p) BY <1>1 DEF Waits, p
  <2>2. PICK i \in 1..Len(queue[p]) : queue[p][i] = c
    BY <1>4, <2>1 DEF Matched
  <2>3. QED BY <2>2
<1>6. CASE Woken(p) # {} BY <1>6 DEF Woken, Uses, Has, p
<1>7. CASE Woken(p) = {}
  <2>1. Cardinality(holders[p]) = Limit[p]
    BY <1>3, <1>5, <1>7 DEF DispInv, NobodyForgotten
  <2>2. Limit[p] \in Nat \ {0} BY <1>3, DispatcherAssumption
  <2>3. holders[p] # {} BY <2>1, <2>2, FS_EmptySet
  <2>4. QED BY <1>4, <2>3 DEF Matched, p
<1>8. QED BY <1>6, <1>7

(* The providers are taken one at a time: a call holds nothing while it    *)
(* waits, so that the waiting of a fan-out, of fail-overs and of calls     *)
(* inside a call_agent never closes into a circle.                         *)
THEOREM NobodyWaitsForNobody == PlanSpec => []WaitersHaveHolders
<1>1. PlanInv => WaitersHaveHolders BY HolderAhead DEF PlanInv
<1>2. QED BY <1>1, PlanInvariant, PTL

(* As long as a plan is not returned, its wave is over, or one of the      *)
(* tasks that have begun is not in line: it has a step of its own, or its  *)
(* provider has.                                                           *)
SomeTaskActs ==
  ~returned =>
    \/ \A t \in wave : task[t] \in Over
    \/ \E t \in Caller : /\ task[t] \notin Over \cup {"pending"}
                         /\ call[t].at # "wait"

(* A plan that is not returned always has a task, or the next wave, that   *)
(* waits for no other call of the plan.                                    *)
THEOREM NoPlanIsStuck == PlanSpec => []SomeTaskActs
<1>1. PlanInv => SomeTaskActs
  <2>1. SUFFICES ASSUME PlanInv, NEW t \in wave, task[t] \notin Over
                 PROVE  \E u \in Caller : /\ task[u] \notin Over \cup {"pending"}
                                          /\ call[u].at # "wait"
    BY DEF SomeTaskActs
  <2>2. t \in Caller /\ task[t] # "pending"
    BY <2>1 DEF PlanInv, PlanTypeOK, WaveInv
  <2>3. CASE call[t].at # "wait" BY <2>1, <2>2, <2>3
  <2>4. CASE call[t].at = "wait"
    <3>1. PICK h \in Caller : Has(call[h], Head(call[t].order))
      BY <2>1, <2>2, <2>4, HolderAhead DEF PlanInv, WaitersHaveHolders
    <3>2. call[h].at \in {"woken", "chat"} BY <3>1 DEF Has
    <3>3. task[h] \in {"model", "nested"}
      BY <2>1, <3>2 DEF PlanInv, CallsBelong
    <3>4. QED BY <3>2, <3>3 DEF Over
  <2>5. QED BY <2>3, <2>4
<1>2. QED BY <1>1, PlanInvariant, PTL

-----------------------------------------------------------------------------
(* The order in which a provider serves the tasks *)

LEMMA TaskStepInOrder ==
  ASSUME PlanInv, NEW t \in Caller, TaskStep(t)
  PROVE  FirstComeFirstServed
<1>1. DispInv /\ call \in [Caller -> CallState]
  BY DEF PlanInv, DispInv, DispTypeOK
<1>2. CASE ToolTimeout(t) BY <1>1, <1>2, CutInOrder DEF ToolTimeout
<1>3. CASE ~ToolTimeout(t)
  <2>1. call[t].at = "none" <=> task[t] \notin {"model", "nested"}
    BY DEF PlanInv, CallsBelong
  <2>2. /\ call[t].at # "wait" /\ queue' = queue
        /\ \A u \in Caller : u # t => call'[u] = call[u]
    BY <1>1, <1>3, <2>1 DEF TaskStep, StartTask, TaskFails, TaskEnds,
       PlainTool, CallAgent, ToolTurn, SubTools, SubEnds, NextRound, Ask,
       BeginCall, Take, dispVars
  <2>3. QED BY <1>1, <2>2, QuietInOrder
<1>4. QED BY <1>2, <1>3

(* A step that is none of the calls' leaves the lines as they are.         *)
LEMMA StillInOrder ==
  ASSUME PlanInv, UNCHANGED dispVars
  PROVE  FirstComeFirstServed
<1>1. DispInv BY DEF PlanInv
<1>2. call' = call /\ queue' = queue BY DEF dispVars
<1>3. CASE \E c \in Caller : call[c].at # "wait"
  BY <1>1, <1>2, <1>3, QuietInOrder
<1>4. CASE \A c \in Caller : call[c].at = "wait"
  <2>1. ASSUME NEW p \in Provider
        PROVE  queue[p] = <<>>
    <3>1. holders[p] = {} /\ Woken(p) = {}
      <4>1. Matched(call, p, holders[p], queue[p]) BY <1>1 DEF DispInv
      <4>2. QED BY <1>4, <4>1 DEF Matched, Has, Woken
    <3>2. Limit[p] \in Nat \ {0} BY DispatcherAssumption
    <3>3. Cardinality(holders[p]) # Limit[p] BY <3>1, <3>2, FS_EmptySet
    <3>4. QED BY <1>1, <3>1, <3>3 DEF DispInv, NobodyForgotten
  <2>2. QED BY <2>1 DEF FirstComeFirstServed
<1>5. QED BY <1>3, <1>4

(* Calls that wait for the same provider are served in the order in which  *)
(* they came to it, whatever fails over, times out or is cancelled between *)
(* them.                                                                   *)
THEOREM NobodyIsOvertaken == PlanSpec => [][FirstComeFirstServed]_vars
<1>1. PlanInv /\ [PlanNext]_vars => [FirstComeFirstServed]_vars
  <2> SUFFICES ASSUME PlanInv, PlanNext PROVE FirstComeFirstServed
    OBVIOUS
  <2>1. CASE NextWave BY <2>1, StillInOrder DEF NextWave
  <2>2. ASSUME NEW t \in Caller, TaskStep(t) PROVE FirstComeFirstServed
    BY <2>2, TaskStepInOrder
  <2>3. ASSUME NEW t \in Caller, DispatcherStep(t) PROVE FirstComeFirstServed
    BY <2>3, CallStepInOrder DEF DispatcherStep, PlanInv
  <2>4. CASE Terminated BY <2>4, StillInOrder DEF Terminated, vars
  <2>5. QED BY <2>1, <2>2, <2>3, <2>4 DEF PlanNext
<1>2. QED BY <1>1, PlanInvariant, PTL DEF PlanSpec

=============================================================================
