\* Five blocks of the minimum size fit; a size below the minimum, one that
\* needs rounding, and one that only a merge of several blocks can serve.
CONSTANTS
  PoolSize = 178
  HeaderSize = 16
  MinAllocation = 16
  Sizes = {1, 21, 70}
  UIntRange = 1024
SPECIFICATION FairSpec
INVARIANTS
  TypeOK
  Tiled
  HeldExact
  FullMeansFull
  AllFreedRestored
  PoolSound
PROPERTIES
  SearchTerminates
  ImplementsMemPool
