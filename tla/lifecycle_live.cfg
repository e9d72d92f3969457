\* One request at a time, called again and again, and the anti-loop beside
\* them: the liveness properties.
SPECIFICATION FairLoopSpec
CONSTANTS
  Runner = {r1, r2}
  NoRunner = NoRunner
  Req = {q1}
  Task = {t1}
  Kinds = {"run", "resume", "pause", "stop", "inject", "reset"}
  Parks = TRUE
  DbFails = FALSE
INVARIANTS LoopTypeOK RecoveringIsAtWork
PROPERTIES StopEndsWaitingLoop RequestsReturn RecoveryEnds
