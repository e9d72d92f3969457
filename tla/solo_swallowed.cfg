\* What the replay guard drops, against what was given to the agent.
SPECIFICATION Spec
CONSTANTS
  Text = {t1, t2}
  Window = 20
  MaxUser = 2
  MaxExtra = 1
SYMMETRY Symmetry
CHECK_DEADLOCK FALSE
PROPERTIES GuardDropsDone
