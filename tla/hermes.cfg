\* Two turns or requests beside the scheduler and its background tasks.
SPECIFICATION FairHermesSpec
CONSTANTS
  Client = {c1, c2}
  Bg = {b1, b2}
  None = None
  MaxOut = 1
  MaxFaults = 1
INVARIANTS HermesTypeOK NameIsFree OneTurnAtATime EnsuringExact 
PROPERTIES KeptUp TurnsEnd
