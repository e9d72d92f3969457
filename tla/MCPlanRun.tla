----------------------------- MODULE MCPlanRun ------------------------------
(***************************************************************************)
(* Three tasks of two agents, in the shapes the orchestrator can ask for.  *)
(***************************************************************************)
EXTENDS PlanRun

CONSTANTS t1, t2, t3, a, b, p1, p2

MCPlan(a1, d1, a2, d2, a3, d3) ==
  [agent |-> [t \in Caller |-> CASE t = t1 -> a1 [] t = t2 -> a2 [] t = t3 -> a3],
   deps  |-> [t \in Caller |-> CASE t = t1 -> d1 [] t = t2 -> d2 [] t = t3 -> d3]]

MCPlans ==
  { MCPlan(a, {}, b, {a}, a, {b}),        \* a chain
    MCPlan(b, {}, b, {}, b, {}),          \* all at once
    MCPlan(b, {}, a, {None}, b, {a}) }    \* an unknown agent, and who waits for it

MCLimit    == [p \in Provider |-> 1]
MCCallable == [n \in Name |-> IF n = a THEN {b} ELSE {}]
=============================================================================
