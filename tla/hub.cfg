\* A three-step workflow and an agent that reconnects twice.
SPECIFICATION FairSpec
CONSTANTS
  Conn = {c1, c2, c3}
  NoConn = NoConn
  Exec = {e1}
  Steps = 3
  Continue = {1}
CHECK_DEADLOCK FALSE
INVARIANTS HubTypeOK PendingExact SuccessMeansRan StepsInOrder RegisteredLive
PROPERTIES WaitEnds OnlineAgain
