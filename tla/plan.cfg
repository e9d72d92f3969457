\* Three tasks of two agents over two providers that serve one call at a time.
SPECIFICATION FairPlanSpec
CONSTANTS
  t1 = t1
  t2 = t2
  t3 = t3
  a = a
  b = b
  p1 = p1
  p2 = p2
  None = None
  Caller = {t1, t2, t3}
  Name = {a, b}
  Provider = {p1, p2}
  Plans <- MCPlans
  Limit <- MCLimit
  Callable <- MCCallable
  ToolMax = 1
  MaxDepth = 3
INVARIANTS PlanTypeOK PermitsMatch NobodyForgotten  CallsBelong
PROPERTIES  PlanEnds LineMoves
