SPECIFICATION Spec
CONSTANTS
  Wrap = 2
  MaxLen = 1
  Configs <- BothLimits
  BusFaults = {"collision"}
PROPERTIES
  RecoveryClears
