CONSTANTS
  Alphabet = {"x"}
  Pluses = 1
  FrameLength = 3
  BufSize = 4
  MaxFail = 2
  SemMax = 1
  MaxInput = 5
  MaxConnects = 1
  MaxFaults = 2
SPECIFICATION FairSpec
INVARIANTS
  SentInOrder
  FramesSound
PROPERTIES
  BufferDrains
CHECK_DEADLOCK FALSE
