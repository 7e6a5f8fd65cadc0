-------------------------- MODULE I2CMasterSession --------------------------
(* The master engine keeps what I2CSession promises its callers.            *)
EXTENDS I2CMaster

Session == INSTANCE I2CSession WITH
  pending    <- pending_state # "NONE",
  op         <- call.op,
  recovering <- fn = "recover_stale_pending"

\* Whatever the bus does, every call and every status is one of the abstract
\* session's: no status says more about the pending transaction than is true.
KeepsSession == Session!Spec
=============================================================================
