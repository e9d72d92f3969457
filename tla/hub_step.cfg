\* The agent disconnects while a step is waiting for its answer.
SPECIFICATION FairSpec
CONSTANTS
  Conn = {c1}
  NoConn = NoConn
  Exec = {e1}
  Steps = 1
  Continue = {}
CHECK_DEADLOCK FALSE
PROPERTIES StepResultStored
