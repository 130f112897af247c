CONSTANTS
  Lengths = {0}
  MinLength = 1
  MaxLength = 3
  DefLength = 2
  OnesLength = 9
  AnyLength = 8
  Tails = {"a"}
  Retries = 3
  Writers = {"AT", "WEB"}
  MaxFaults = 3
  MaxCommands = 3
SPECIFICATION FairSpec
PROPERTIES
  BootLoadsSaved
  FlashSound
  Recovers
CHECK_DEADLOCK FALSE
