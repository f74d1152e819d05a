SPECIFICATION Spec
CONSTANTS
  Takers = {t1}
  RingSize = 1
  Exceed = 1
  Size <- FrameSize
  Slack = 1
  MaxFrame = 5
  MaxTrouble = 3
  MaxClock = 1
  ClockBack = TRUE
  MemFails = TRUE
  Worker = Worker
INVARIANTS TypeOK PicturesWhole RingBounded
PROPERTY OldestGoes
CHECK_DEADLOCK FALSE
