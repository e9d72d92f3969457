\* Two concurrent requests of every kind, a strategy that parks, lost writes.
SPECIFICATION Spec
CONSTANTS
  Runner = {r1, r2}
  NoRunner = NoRunner
  Req = {q1, q2}
  Kinds = {"run", "resume", "pause", "stop", "inject", "reset"}
  Parks = TRUE
  DbFails = TRUE
SYMMETRY Symmetry
INVARIANTS TypeOK SingleRunner RegistryExact ReservationExact
PROPERTIES NoIterationAfterStop SlotSpec
