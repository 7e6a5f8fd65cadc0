---------------------------- MODULE MCI2CMaster ----------------------------
(* Configurations for model checking I2CMaster.                             *)
EXTENDS I2CMasterSession

cfg(get_ms, timeout_ms, pending_timeout_ms) ==
  [get_ms |-> get_ms, timeout_ms |-> timeout_ms,
   pending_timeout_ms |-> pending_timeout_ms]

NoClock       == {cfg(FALSE, 0, 0)}
TransferLimit == {cfg(TRUE, 1, 0)}
BothLimits    == {cfg(TRUE, 1, 1)}
PendingLimit  == {cfg(TRUE, 0, 1)}
=============================================================================
