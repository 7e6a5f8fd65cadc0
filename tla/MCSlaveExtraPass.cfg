SPECIFICATION Spec
CONSTANTS
  MaxBytes = 2
  Overtakes = {}
  Dedicated = {"rx"}
  Stretch = {TRUE}
  Reinit = FALSE
  Priorities = {}
  Settable = {"event", "rx", "tx"}
PROPERTY TxInOrder
