CONSTANTS
  Clients = {"a", "b", "c"}
  Uploaders = {"a"}
  TcpEntries = 2
  NumFds = 3
  MaxConnects = 3
  MaxSends = 5
  MaxQueue = 1
  MaxUpsets = 2
SPECIFICATION FairSpec
INVARIANTS
  TableSound
  ImageWhole
PROPERTIES
  EveryRequestServed
CHECK_DEADLOCK FALSE
