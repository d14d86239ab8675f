CONSTANTS
  Task = {t1, t2}
  MaxBarrierCount = 1
  MaxCount = 3
  Calls <- InitThenWait
  Ready = {}
SPECIFICATION Spec
PROPERTIES
  EveryoneReturns
