SPECIFICATION Spec
CONSTANTS
  t1 = t1  t2 = t2  x1 = x1  x2 = x2
  None = None
  Tasks = {t1}
  Executors = {x1}
  ExecutorOf <- OneExecutor
  HostKinds = {"request", "decline", "idle"}
  Batches <- RichBatches
  MaxEvents = 3
  MaxEffects = 3
INVARIANT SucceededIsDurable
