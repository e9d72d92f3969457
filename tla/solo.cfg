\* Two texts, two rows of the user, one tool call or park; all in the window.
SPECIFICATION Spec
CONSTANTS
  Text = {t1, t2}
  Window = 20
  MaxUser = 2
  MaxExtra = 1
SYMMETRY Symmetry
CHECK_DEADLOCK FALSE
INVARIANTS SoloTypeOK
PROPERTIES DispatchedOnce  
