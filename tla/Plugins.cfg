SPECIFICATION FairSpec
CONSTANTS
  Loaded <- SomePairs
  MaxPicture = 4
  Rest <- SomePictures
  Room = 11
  Files = 2
  ZmqSize = 2
  Restarts = 0
  MaxCloses = 1
  MaxTrouble = 2
  CrLf = CrLf
  Ok = Ok
  Text = Text
  Dash = Dash
  Word = Word
  None = None
INVARIANT TypeOK
PROPERTIES Shown Flows
CHECK_DEADLOCK FALSE
