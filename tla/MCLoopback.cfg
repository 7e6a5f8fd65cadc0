SPECIFICATION LoopbackFairSpec
CONSTANTS
  Wrap = 1
  MaxLen = 2
  Configs <- NoClock
  BusFaults = {"nack"}
  MaxBytes = 2
  Overtakes = {"start", "byte", "stop"}
  Dedicated = {}
  Stretch = {TRUE, FALSE}
  Reinit = FALSE
  Priorities = {}
  Settable = {}
INVARIANTS
  SlaveStopOnce
  SlaveStopBeforeNext
PROPERTIES
  SlaveTxInOrder
  OkMeansTransferred
  OkMeansTold
  LoopbackCallsReturn
