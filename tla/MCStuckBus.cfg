SPECIFICATION Spec
CONSTANTS
  Wrap = 3
  MaxLen = 1
  Configs <- BothLimits
  BusFaults = {"nack", "silent_nack", "collision", "error"}
INVARIANTS
  TypeOK
  OkReleasesBus
  DiagnosisAfterCleanStop
  DeinitFreesPending
  EngineRunsInitialized
PROPERTIES
  PendingBlocksNewTransfer
  StopBeforeClear
  LostArbitrationNeedsReset
  KeepsSession
