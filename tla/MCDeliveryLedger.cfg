SPECIFICATION FairSpec
CONSTANTS
  empty = empty  full = full  a1 = a1  a2 = a2
  None = None
  Blobs = {empty, full}
  SizeOf <- MCSizeOf
  Specs <- MCSpecs
  Contracts = {a1, a2}
  MaxLive = 2
  MaxReserved = 6
  MaxBlob = 2
  MaxTombstones = 1
  MaxSequence = 3
  MaxAttempts = 2
  MaxBatch = 2
  MaxPrepared = 2
INVARIANTS RestoreAccepts DispatchBound
PROPERTIES OnlyNewestClaimActs EveryDeliveryIsConsumed
