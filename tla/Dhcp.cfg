CONSTANTS
  Stations = {s1, s2, s3}
  NoMac = NoMac
  NumEntries = 2
  HostMask = 7
  ServerHost = 1
  Timeout = 2
  LeaseTime = 2
  MaxStarts = 1
SPECIFICATION FairSpec
INVARIANTS
  TypeOK
  OneEntryPerClient
  LeaseHonoured
  NoHistoryWhenBound
PROPERTIES
  OfferExpires
CHECK_DEADLOCK FALSE
