SPECIFICATION Spec
CONSTANTS
  t1 = t1  t2 = t2  x1 = x1  x2 = x2
  None = None
  Tasks = {t1, t2}
  Executors = {x1, x2}
  ExecutorOf <- TwoExecutors
  HostKinds = {"request"}
  Batches <- SmallBatches
  MaxEvents = 2
  MaxEffects = 2
INVARIANT NeverAdoptsAnotherEvent
