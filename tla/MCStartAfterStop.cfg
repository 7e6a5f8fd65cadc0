SPECIFICATION Spec
CONSTANTS
  Wrap = 2
  MaxLen = 1
  Configs <- TransferLimit
  BusFaults = {}
PROPERTIES
  StartAfterStopRetired
