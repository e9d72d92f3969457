\* The lab route and the instance route of the same lab.
SPECIFICATION SpawnSpec
CONSTANTS
  Runner = {r1, r2}
  NoRunner = NoRunner
  Req = {q1}
  Kinds = {"run"}
  Parks = FALSE
  DbFails = FALSE
  Inst = {i1}
  InstKinds = {"run"}
  LabCron = FALSE
  CronJobs = FALSE
  CronAgents = FALSE
INVARIANTS ReservationExclusive
