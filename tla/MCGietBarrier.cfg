CONSTANTS
  Task = {t1, t2, t3}
  MaxBarrierCount = 2
  MaxCount = 3
  Calls <- TwoBarriers
  Ready = {0}
SPECIFICATION Spec
INVARIANTS
  TypeOK
  NobodyEarly
  NoLostDecrement
PROPERTIES
  EveryoneReturns
