SPECIFICATION FairSpec
CONSTANTS
  Bufs = {b1, b2}
  Resolutions = {1, 2}
  StartRes = 1
  Every = 2
  Uses = {{"timings"}, {"commands"}}
  EmptyFrames = TRUE
  Fails = TRUE
  MaxFrame = 4
  Cam = cam
  Cmd = cmd
INVARIANTS TypeOK EveryNth BuffersConserved Ready
PROPERTIES Recovers FreshUnlessIgnored CamEnds
CHECK_DEADLOCK FALSE
