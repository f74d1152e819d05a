SPECIFICATION FairSpec
CONSTANTS
  Workers = {w1}
  Clients = {c1}
  FirstOuts = {w1, Http}
  MaxFrame = 2
  CamFails = TRUE
  MayInterrupt = TRUE
  SpuriousWakeups = FALSE
  Cam = Cam
  Http = Http
  None = None
INVARIANTS TypeOK FramesWhole Fresh LockLostOnlyAtEnd
PROPERTIES IsRegister NobodyStarves EndsUnlessLeftWaiting
CHECK_DEADLOCK FALSE
