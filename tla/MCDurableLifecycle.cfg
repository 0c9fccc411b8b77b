SPECIFICATION FairSpec
CONSTANTS
  t1 = t1  t2 = t2  x1 = x1  x2 = x2
  None = None
  Tasks = {t1, t2}
  Executors = {x1, x2}
  ExecutorOf <- TwoExecutors
  HostKinds = {"request"}
  Batches <- SmallBatches
  MaxEvents = 3
  MaxEffects = 2
INVARIANTS ReleasedIsDurable ReleasedAtMostOnce CoordinatorAgreesWithStore
PROPERTY CallsReturn
