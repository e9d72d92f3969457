------------------------------ MODULE PlanRun -------------------------------
(***************************************************************************)
(* _execute_tasks() of services/lab_runner.py: the tasks of one plan run   *)
(* in waves, as their dependencies allow; each is a conversation of an     *)
(* agent with its model through the dispatcher, with tool calls, and the   *)
(* call_agent tool puts a call to another agent inside a tool call, under  *)
(* the tool's timeout.                                                     *)
(***************************************************************************)
EXTENDS Dispatcher

CONSTANTS
  Plans,      \* the plans looked at: [agent, deps] of each task
  Callable,   \* callable_agents: whom an agent may call with call_agent
  ToolMax     \* tool_max_calls

ASSUME PlanAssumption ==
  /\ Plans \subseteq [agent : [Caller -> Name],
                      deps : [Caller -> SUBSET (Name \cup {None})]]
  /\ Callable \in [Name -> SUBSET Name]
  /\ ToolMax \in Nat

VARIABLES
  plan,        \* the plan that runs
  wave,        \* the tasks of the gather() under way
  completed,   \* completed_agents
  returned,    \* _execute_tasks() is over
  task,        \* where each task is
  used,        \* total_tool_calls of each task
  subUsed      \* total_tc of the call_agent under way in it

planVars == <<plan, wave, completed, returned, task, used, subUsed>>
vars == <<dispVars, planVars>>

(***************************************************************************)
(*   pending   not in a wave yet                                           *)
(*   ready     its coroutine is about to build the messages                *)
(*   model     the agent's own LLM call                                    *)
(*   tools     between two tool calls of a round                           *)
(*   nested    inside a call_agent, in the LLM call of the other agent     *)
(*   result, failed   it has returned a TaskResult, with or without error  *)
(***************************************************************************)
Over == {"result", "failed"}
PlanTypeOK ==
  /\ DispTypeOK
  /\ plan \in Plans
  /\ wave \subseteq Caller
  /\ completed \subseteq Name
  /\ returned \in BOOLEAN
  /\ task \in [Caller -> {"pending", "ready", "model", "tools", "nested"}
                         \cup Over]
  /\ used \in [Caller -> 0..ToolMax]
  /\ subUsed \in [Caller -> 0..ToolMax]

PlanInit ==
  /\ DispInit
  /\ plan \in Plans
  /\ wave = {}
  /\ completed = {}
  /\ returned = FALSE
  /\ task = [t \in Caller |-> "pending"]
  /\ used = [t \in Caller |-> 0]
  /\ subUsed = [t \in Caller |-> 0]

Goto(t, where) == task' = [task EXCEPT ![t] = where]

-----------------------------------------------------------------------------
(* The waves *)

Pending == {t \in Caller : task[t] = "pending"}
Ready(done) == {t \in Pending : plan.deps[t] \subseteq done}

(* mutated form of Chosen: an agent of the same wave satisfies a dependency *)
ChosenEager(done) ==
  LET ready == Ready(done)
      more  == Ready(done \cup {plan.agent[t] : t \in ready}) IN
  IF ready = {} THEN Pending ELSE more

(* The tasks whose dependencies are met; all of them when there is none.   *)
Chosen(done) == IF Ready(done) = {} THEN Pending ELSE Ready(done)

(* mutated form of NextWave: a task that failed does not count as complete *)
NextWaveStrict ==
  /\ ~returned
  /\ \A t \in wave : task[t] \in Over
  /\ LET done == completed \cup
                   {plan.agent[t] : t \in {u \in wave : task[u] = "result"}} IN
       /\ completed' = done
       /\ wave' = IF Pending = {} THEN {} ELSE Ready(done)
       /\ task' = [t \in Caller |-> IF t \in wave' THEN "ready" ELSE task[t]]
       /\ returned' = (Pending = {})
  /\ UNCHANGED <<plan, used, subUsed, dispVars>>

(* gather() has returned: its agents are complete, and the next wave is    *)
(* chosen, or the results are returned.                                    *)
NextWave ==
  /\ ~returned
  /\ \A t \in wave : task[t] \in Over
  /\ LET done == completed \cup {plan.agent[t] : t \in wave} IN
       /\ completed' = done
       /\ wave' = Chosen(done)
       /\ task' = [t \in Caller |-> IF t \in Chosen(done) THEN "ready"
                                    ELSE task[t]]
       /\ returned' = (Pending = {})
  /\ UNCHANGED <<plan, used, subUsed, dispVars>>

-----------------------------------------------------------------------------
(* _call_agent() *)

Ask(t, a, where) ==
  /\ BeginCall(t, a)
  /\ Goto(t, where)

(* The caller takes the outcome of its call. *)
Take(t, outcome) ==
  /\ call[t].at = outcome
  /\ call' = [call EXCEPT ![t] = NoCall]
  /\ UNCHANGED <<holders, queue, depth, pinned>>

StartTask(t) ==
  /\ task[t] = "ready"
  /\ Ask(t, plan.agent[t], "model")
  /\ UNCHANGED <<plan, wave, completed, returned, used, subUsed>>

(* Every exception of the task becomes a TaskResult with an error: a       *)
(* failed call, or a query on the session that the tasks share.            *)
TaskFails(t) ==
  /\ \/ task[t] \in {"ready", "tools"} /\ UNCHANGED dispVars
     \/ task[t] = "model" /\ (Take(t, "error") \/ Take(t, "ok"))
  /\ Goto(t, "failed")
  /\ UNCHANGED <<plan, wave, completed, returned, used, subUsed>>

(* no tool call in the answer, or none left: it is the result *)
TaskEnds(t) ==
  /\ task[t] = "model"
  /\ Take(t, "ok")
  /\ Goto(t, "result")
  /\ UNCHANGED <<plan, wave, completed, returned, used, subUsed>>

(* mutated form of Budget: the limit of tool calls is not looked at *)
NoBudget(t) == TRUE

Budget(t) == used[t] < ToolMax

(* The first tool call of an answer takes the answer; the next ones follow *)
(* it in the same round.                                                   *)
ToolTurn(t) ==
  /\ Budget(t)
  /\ \/ task[t] = "model" /\ call[t].at = "ok"
     \/ task[t] = "tools"
  /\ used' = [used EXCEPT ![t] = @ + 1]
  /\ UNCHANGED <<plan, wave, completed, returned>>

(* a tool that makes no call, or a call_agent that is refused *)
PlainTool(t) ==
  /\ ToolTurn(t)
  /\ Goto(t, "tools")
  /\ call' = [call EXCEPT ![t] = NoCall]
  /\ UNCHANGED <<subUsed, holders, queue, depth, pinned>>

(* call_agent: the other agent's call begins inside the tool call *)
CallAgent(t) ==
  /\ ToolTurn(t)
  /\ \E target \in Callable[plan.agent[t]] :
       call' = [call EXCEPT ![t] = [at |-> "route", by |-> target,
                                    order |-> <<>>]]
  /\ Goto(t, "nested")
  /\ subUsed' = [subUsed EXCEPT ![t] = 0]
  /\ UNCHANGED <<holders, queue, depth, pinned>>

(* The other agent runs tools (not call_agent) and is asked again. *)
SubTools(t) ==
  /\ task[t] = "nested"
  /\ call[t].at = "ok"
  /\ \E n \in 1..ToolMax :
       subUsed[t] + n <= ToolMax /\ subUsed' = [subUsed EXCEPT ![t] = @ + n]
  /\ call' = [call EXCEPT ![t].at = "route"]
  /\ UNCHANGED <<plan, wave, completed, returned, task, used, holders, queue,
                 depth, pinned>>

(* It answers, or its call fails, which the caller reads as a tool output. *)
SubEnds(t) ==
  /\ task[t] = "nested"
  /\ Take(t, "ok") \/ Take(t, "error")
  /\ Goto(t, "tools")
  /\ UNCHANGED <<plan, wave, completed, returned, used, subUsed>>

(* mutated form of ToolTimeout: the tool is abandoned, not cancelled *)
ToolTimeoutAbandons(t) ==
  /\ task[t] = "nested"
  /\ Goto(t, "tools")
  /\ UNCHANGED <<plan, wave, completed, returned, used, subUsed, dispVars>>

(* wait_for() around the tool: the nested call is cancelled *)
ToolTimeout(t) ==
  /\ task[t] = "nested"
  /\ Cut(t)
  /\ Goto(t, "tools")
  /\ UNCHANGED <<plan, wave, completed, returned, used, subUsed>>

(* The results of the round go back to the model. *)
NextRound(t) ==
  /\ task[t] = "tools"
  /\ Ask(t, plan.agent[t], "model")
  /\ UNCHANGED <<plan, wave, completed, returned, used, subUsed>>

TaskStep(t) ==
  \/ StartTask(t) \/ TaskFails(t) \/ TaskEnds(t)
  \/ PlainTool(t) \/ CallAgent(t) \/ SubTools(t) \/ SubEnds(t)
  \/ ToolTimeout(t) \/ NextRound(t)

-----------------------------------------------------------------------------
DispatcherStep(t) == CallStep(t) /\ UNCHANGED planVars

(* The results are with the strategy: nothing happens any more. *)
Terminated == returned /\ UNCHANGED vars

PlanNext ==
  \/ NextWave
  \/ \E t \in Caller : TaskStep(t) \/ DispatcherStep(t)
  \/ Terminated

(* The event loop runs what is ready, and providers answer or time out.    *)
PlanFairness ==
  /\ WF_vars(NextWave)
  /\ \A t \in Caller : WF_vars(TaskStep(t) \/ DispatcherStep(t))

PlanSpec == PlanInit /\ [][PlanNext]_vars
FairPlanSpec == PlanSpec /\ PlanFairness

-----------------------------------------------------------------------------
(* Properties *)

(* The waves implement the promise of PlanOrder: no task starts before the *)
(* agents it depends on have finished, unless nothing else can run.        *)
OrderState ==
  [t \in Caller |-> CASE task[t] = "pending" -> "waiting"
                     [] task[t] \in Over     -> "finished"
                     [] OTHER                -> "running"]
Order == INSTANCE PlanOrder WITH Item <- Caller, state <- OrderState
OrderSpec == Order!OrderSpec

(* A task is in the dispatcher exactly while it asks a model, for itself   *)
(* or inside call_agent: no call outlives the task that made it, and no    *)
(* cancelled one leaves its caller in line.                                *)
CallsBelong ==
  \A t \in Caller : call[t].at # "none" <=> task[t] \in {"model", "nested"}

(* Every plan ends, whatever its dependencies, with a provider that serves *)
(* one call at a time, tasks that call each other, failures and timeouts.  *)
PlanEnds == <>returned

(* Nobody stands in line for a provider for ever.                          *)
LineMoves == \A t \in Caller : call[t].at = "wait" ~> call[t].at # "wait"

=============================================================================
