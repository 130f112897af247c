\* Four chunks: one in the buffer, one in RecvThread, and both replaced once.
CONSTANTS
  RecvBufSize = 2
  MaxChunks = 4
  Blank = Blank
SPECIFICATION FairSpec
INVARIANTS
  TypeOK
  BufferExclusive
  PrintedInOrder
PROPERTIES
  EventuallyPrinted
  ImplementsPipe
