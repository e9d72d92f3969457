----------------------------- MODULE PlanOrder ------------------------------
(***************************************************************************)
(* What _execute_tasks() promises of a plan: a task starts when every      *)
(* agent it depends on has finished a task of the plan, each task runs     *)
(* once, and a plan whose dependencies cannot be met is run all the same.  *)
(***************************************************************************)
CONSTANTS Item,   \* the tasks of the plan
          Plans   \* the agent and the dependencies they may have

VARIABLES plan, state

orderVars == <<plan, state>>

OrderInit ==
  /\ plan \in Plans
  /\ state = [i \in Item |-> "waiting"]

Waiting == {i \in Item : state[i] = "waiting"}
FinishedAgents == {plan.agent[i] : i \in {j \in Item : state[j] = "finished"}}
Satisfied(i) == plan.deps[i] \subseteq FinishedAgents

Begin(items) ==
  /\ state' = [i \in Item |-> IF i \in items THEN "running" ELSE state[i]]
  /\ UNCHANGED plan

(* some of the waiting tasks whose dependencies are met *)
BeginSatisfied ==
  \E items \in SUBSET {i \in Waiting : Satisfied(i)} :
    items # {} /\ Begin(items)

(* "Dependency deadlock": nothing runs, and nothing can *)
BeginRest ==
  /\ \A i \in Item : state[i] # "running"
  /\ \A i \in Waiting : ~Satisfied(i)
  /\ Begin(Waiting)

Finish(i) ==
  /\ state[i] = "running"
  /\ state' = [state EXCEPT ![i] = "finished"]
  /\ UNCHANGED plan

OrderNext == BeginSatisfied \/ BeginRest \/ \E i \in Item : Finish(i)

OrderSpec == OrderInit /\ [][OrderNext]_orderVars

=============================================================================
