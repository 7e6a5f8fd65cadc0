SPECIFICATION FairSpec
CONSTANTS
  MaxBytes = 3
  Overtakes = {"byte", "stop"}
  Dedicated = {}
  Stretch = {TRUE, FALSE}
  Reinit = FALSE
  Priorities = {2, 8}
  Settable = {"event", "rx", "tx"}
INVARIANTS
  TypeOK
  ReportsInOrder
  TxWhileRead
  NothingForgotten
PROPERTIES
  TxInOrder
  SclReleased
