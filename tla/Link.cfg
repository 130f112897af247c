SPECIFICATION FairSpec
CONSTANTS
  TryTimes = {0, 2, 3}
  TriesWrap = 4
  RequestTries = 1
  RebindTries = 1
  MaxCommands = 2
  MaxLosses = 1
  MaxFaults = 1
INVARIANTS LinkSettles
PROPERTIES ScanAnswered UpReported
CHECK_DEADLOCK FALSE
