CONSTANTS
  Task = {t1, t2}
  MaxBarrierCount = 1
  MaxCount = 3
  Calls <- Reuse
  Ready = {0}
SPECIFICATION Spec
PROPERTIES
  EveryoneReturns
