CONSTANTS
  Alphabet = {"CR", "LF"}
  Pluses = 0
  FrameLength = 3
  BufSize = 3
  MaxFail = 2
  SemMax = 1
  MaxInput = 4
  MaxConnects = 1
  MaxFaults = 1
SPECIFICATION FairSpec
PROPERTIES
  EscapeTakesEffect
CHECK_DEADLOCK FALSE
