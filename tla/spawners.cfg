\* The instance routes and the scheduler, on one lab; a strategy that parks.
SPECIFICATION SpawnFairSpec
CONSTANTS
  Runner = {r1, r2}
  NoRunner = NoRunner
  Req = {}
  Kinds = {}
  Parks = TRUE
  DbFails = TRUE
  Inst = {i1}
  InstKinds = {"run", "resume", "stop"}
  LabCron = TRUE
  CronJobs = TRUE
  CronAgents = TRUE
INVARIANTS SpawnTypeOK RegistryLive
 
