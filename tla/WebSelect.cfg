CONSTANTS
  Clients = {"a", "b", "c"}
  Uploaders = {"a"}
  TcpEntries = 2
  NumFds = 4
  MaxConnects = 3
  MaxSends = 1
  MaxQueue = 1
  MaxUpsets = 0
SPECIFICATION OthersSpec
INVARIANTS
  SelectSeesAll
CHECK_DEADLOCK FALSE
