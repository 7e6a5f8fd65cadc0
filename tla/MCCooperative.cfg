SPECIFICATION ServedSpec
CONSTANTS
  Wrap = 1
  MaxLen = 3
  Configs <- NoClock
  BusFaults = {"nack"}
INVARIANTS
  StartOnIdleBus
  PendingHoldsBus
  NoWriteCollision
  ReadEndsWithNack
  NoRequestInFlight
  ReadsOwnBytes
PROPERTIES
  CallsReturn
