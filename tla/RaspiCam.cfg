SPECIFICATION FairSpec
CONSTANTS
  Headers = {h1, h2}
  Recommended = {{h1}, {h1, h2}}
  MaxParts = 2
  MaxTrouble = 1
  Overtakes = FALSE
  Options = {{"stills", "preview"}, {}}
INVARIANTS TypeOK Conserved Quiet PictureWhole
PROPERTY StopEnds
CHECK_DEADLOCK FALSE
