\* A pause that races the end of the loop.
SPECIFICATION Spec
CONSTANTS
  Runner = {r1, r2}
  NoRunner = NoRunner
  Req = {q1}
  Kinds = {"run", "pause"}
  Parks = FALSE
  DbFails = FALSE
PROPERTIES TerminalNeverPaused
