CONSTANTS
  t0 = t0
  t1 = t1
  t2 = t2
  Task = {t0, t1, t2}
  IocTask = t0
  UserBuffer = {"p", "q", "r"}
  KernelBuffer = {"k"}
  NbBlocks = 2
  Block = {"a0", "a1", "b0", "b1"}
  Disk <- TwoImages
  Outcomes = {"SUCCESS", "ERROR"}
  Requests <- MixedRequests
SPECIFICATION Spec
INVARIANTS
  TypeOK
  ExclusiveAccess
  OwnOutcome
  BlocksMoved
PROPERTIES
  EveryRequestServed
