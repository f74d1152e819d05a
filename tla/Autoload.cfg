SPECIFICATION Spec
CONSTANTS
  Leftovers = {"3600", ""}
  MaxJobs = 2
INVARIANTS TypeOK Exclusive RcFollowsFlag CameraExclusive
PROPERTY BootRuns
