SPECIFICATION Spec
CONSTANTS
  Workers = {w1}
  Clients = {}
  FirstOuts = {w1}
  MaxFrame = 1
  CamFails = TRUE
  MayInterrupt = TRUE
  SpuriousWakeups = TRUE
  Cam = Cam
  Http = Http
  None = None
INVARIANT NoUseAfterFree
CHECK_DEADLOCK FALSE
