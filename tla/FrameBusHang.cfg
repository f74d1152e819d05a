SPECIFICATION FairSpec
CONSTANTS
  Workers = {}
  Clients = {c1}
  FirstOuts = {Http}
  MaxFrame = 2
  CamFails = FALSE
  MayInterrupt = TRUE
  SpuriousWakeups = FALSE
  Cam = Cam
  Http = Http
  None = None
PROPERTY ShutdownCompletes
CHECK_DEADLOCK FALSE
