SPECIFICATION FairSpec
CONSTANTS
  Wrap = 2
  MaxLen = 1
  Configs <- TransferLimit
  BusFaults = {"nack", "silent_nack", "collision"}
PROPERTIES
  CallsReturn
