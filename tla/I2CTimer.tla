------------------------------ MODULE I2CTimer ------------------------------
(***************************************************************************)
(* The pending timeout of the master engine over a tick that wraps, next   *)
(* to the true age of the pending transaction.  timeout_expired measures   *)
(* the waits of wait_until by the same subtraction.                        *)
(***************************************************************************)
EXTENDS Integers

CONSTANTS
  Wrap,    \* the tick is a uint32_t: 2^32 in the code, small in a run
  MaxAge   \* bound on the true age, for a run

ASSUME WrapAssumption == Wrap \in Nat /\ Wrap > 0
ASSUME MaxAgeAssumption == MaxAge \in Nat

VARIABLES
  now,                 \* what get_ms returns
  pending_timeout_ms,  \* g_pending_timeout_ms[inst]
  pending,             \* g_pending_state[inst] is not NONE
  pending_start_ms,    \* g_pending_start_ms[inst]
  age                  \* ticks since the transaction became pending

vars == <<now, pending_timeout_ms, pending, pending_start_ms, age>>

Ms == 0 .. Wrap - 1

\* The types; no start tick outlives its transaction.
TypeOK ==
  /\ now \in Ms /\ pending_timeout_ms \in Ms /\ pending_start_ms \in Ms
  /\ pending \in BOOLEAN
  /\ age \in 0 .. MaxAge
  /\ ~pending => pending_start_ms = 0

\* init was called, with a tick to read.
Init ==
  /\ now \in Ms /\ pending_timeout_ms \in Ms
  /\ pending = FALSE /\ pending_start_ms = 0 /\ age = 0

pending_timeout_enabled == pending_timeout_ms # 0

Tick ==
  /\ now' = (now + 1) % Wrap
  /\ IF pending THEN age < MaxAge /\ age' = age + 1 ELSE UNCHANGED age
  /\ UNCHANGED <<pending_timeout_ms, pending, pending_start_ms>>

pending_set ==
  /\ ~pending /\ pending' = TRUE
  /\ pending_start_ms' = IF pending_timeout_enabled THEN now ELSE 0
  /\ age' = 0
  /\ UNCHANGED <<now, pending_timeout_ms>>

\* Fault injected: the start tick is left behind.
pending_clear_state ==
  /\ pending /\ pending' = FALSE
  /\ age' = 0
  /\ UNCHANGED <<now, pending_timeout_ms, pending_start_ms>>

pending_clear ==
  /\ pending /\ pending' = FALSE
  /\ pending_start_ms' = 0
  /\ age' = 0
  /\ UNCHANGED <<now, pending_timeout_ms>>

Next == Tick \/ pending_set \/ pending_clear

Spec == Init /\ [][Next]_vars

\* Fault injected: a deadline is compared instead of the elapsed time.
pending_timeout_expired_deadline ==
  pending /\ pending_timeout_enabled /\ now >= pending_start_ms + pending_timeout_ms

\* (uint32_t)(now - start) >= pending_timeout_ms
pending_timeout_expired ==
  /\ pending /\ pending_timeout_enabled
  /\ (now - pending_start_ms) % Wrap >= pending_timeout_ms

\* Over a wrap of the tick, too, a pending transaction expires on the very tick
\* that makes it pending_timeout_ms old, as long as it is younger than a wrap.
ExpiryIsExact ==
  pending /\ pending_timeout_enabled /\ age < Wrap
  => (pending_timeout_expired <=> age >= pending_timeout_ms)
=============================================================================
