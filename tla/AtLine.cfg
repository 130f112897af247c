CONSTANTS
  Alphabet = {"a", "T", "+", "CR", "LF"}
  DataAlphabet = {"a", "T"}
  MaxLine = 4
  BufSize = 6
  UIntRange = 16
  MaxInput = 7
  MaxResets = 1
SPECIFICATION FairSpec
INVARIANTS
  LineSound
PROPERTIES
  AcceptedAsTyped
  GoodLineAccepted
  LineDealtWith
CHECK_DEADLOCK FALSE
