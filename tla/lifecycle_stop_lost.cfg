\* A stop() that meets an iteration ending in a PauseAction.
SPECIFICATION FairSpec
CONSTANTS
  Runner = {r1, r2}
  NoRunner = NoRunner
  Req = {q1}
  Kinds = {"run", "stop"}
  Parks = TRUE
  DbFails = FALSE
PROPERTIES StopEndsLoop
