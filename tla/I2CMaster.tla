----------------------------- MODULE I2CMaster -----------------------------
(***************************************************************************)
(* The master engine, src/src/dspic33ak_i2c_master.c, for one present      *)
(* instance.  Public calls run one at a time, to completion, in the        *)
(* caller's thread; the hardware (I2CHost) and the millisecond tick run    *)
(* between any two of their steps.                                         *)
(*                                                                         *)
(* A step of the engine is either the issue of one low-level request or    *)
(* one decisive poll of wait_until.  A poll reads several bits one after   *)
(* another; every bit it reads is only changed one way by the hardware     *)
(* while the engine waits, so the poll is as good as atomic.               *)
(***************************************************************************)
EXTENDS I2CHost

CONSTANTS
  Wrap,      \* the tick is a uint32_t: 2^32 in the code, small in a run
  MaxLen,    \* longest tx_len and rx_len a caller passes
  Configs    \* the configurations a caller may pass to init

ASSUME WrapAssumption == Wrap \in Nat /\ Wrap > 0
ASSUME MaxLenAssumption == MaxLen \in Nat /\ MaxLen > 0
ASSUME ConfigsAssumption ==
  Configs \subseteq [get_ms: BOOLEAN, timeout_ms: 0 .. Wrap - 1,
                     pending_timeout_ms: 0 .. Wrap - 1]

VARIABLES
  now,               \* what the get_ms callback returns
  initialized,       \* g_initialized[inst]
  config,            \* g_get_ms, g_timeout_ms, g_pending_timeout_ms [inst]
  pending_state,     \* g_pending_state[inst]
  pending_start_ms,  \* g_pending_start_ms[inst]
  pc,                \* the primitive about to run; "idle" between calls
  fn,                \* the sequence function running it
  call,              \* the public call in progress, with its lengths
  i,                 \* byte counter of the running sequence
  st,                \* local st of the sequence: # "OK" once it has failed
  start_ms,          \* local start_ms of wait_until
  ret                \* the last public call and the status it returned

statics == <<initialized, config, pending_state, pending_start_ms>>
control == <<pc, fn, call, i, st, start_ms, ret>>
vars    == <<hw, now, statics, control>>

Status == {"OK", "INVALID_ARG", "NOT_INITIALIZED", "BUSY", "TIMEOUT",
           "NACK", "BUS", "COLLISION", "SEQUENCE"}

WriteOps == {"write", "write_no_stop", "write_read"}
ReadOps  == {"read", "write_read", "read_after_restart"}
Independent == {"write", "write_no_stop", "write_read", "read"}
Ops == {"init", "deinit", "set_bus_speed", "stop"} \cup WriteOps \cup ReadOps

\* A call with its lengths; an operation ignores the length it does not take.
Call   == [op: Ops, tx_len: 0 .. MaxLen, rx_len: 0 .. MaxLen]
NoCall == [op |-> "none", tx_len |-> 0, rx_len |-> 0]
NoRet  == [op |-> "none", st |-> "OK"]

\* A read of no bytes is one of the arguments RejectArguments refuses.
Transfers ==
  {c \in Call :
     /\ c.op \in Independent \cup {"read_after_restart", "stop"}
     /\ c.op \notin WriteOps => c.tx_len = 0
     /\ IF c.op \in ReadOps THEN c.rx_len > 0 ELSE c.rx_len = 0}

Lifecycle(op) == [op |-> op, tx_len |-> 0, rx_len |-> 0]

ZeroConfig == [get_ms |-> FALSE, timeout_ms |-> 0, pending_timeout_ms |-> 0]

Issues == {"start_issue", "restart_issue", "byte_issue", "read_issue",
           "ack_issue", "stop_issue"}
Waits  == {"start_wait", "restart_wait", "byte_ready", "byte_host",
           "byte_done", "byte_accepted", "read_wait", "ack_wait", "stop_wait"}
Pcs    == {"idle"} \cup Issues \cup Waits

Fns == {"none", "write_no_stop_sequence", "read",
        "read_after_restart_sequence", "stop_pending_sequence",
        "abort_pending_sequence", "recover_stale_pending"}

DataTypeOK ==
  /\ now \in 0 .. Wrap - 1
  /\ initialized \in BOOLEAN
  /\ config \in Configs \cup {ZeroConfig}
  /\ pending_state \in {"NONE", "MASTER_WRITE"}
  /\ pending_start_ms \in 0 .. Wrap - 1

ControlTypeOK ==
  /\ pc \in Pcs
  /\ fn \in Fns
  /\ call \in Call \cup {NoCall}
  /\ i \in 0 .. MaxLen
  /\ st \in Status
  /\ start_ms \in 0 .. Wrap - 1
  /\ ret \in [op: Ops, st: Status] \cup {NoRet}

TypeOK == HwTypeOK /\ DataTypeOK /\ ControlTypeOK

Init ==
  /\ HwInit
  /\ now = 0
  /\ initialized = FALSE
  /\ config = ZeroConfig
  /\ pending_state = "NONE" /\ pending_start_ms = 0
  /\ pc = "idle" /\ fn = "none" /\ call = NoCall /\ i = 0
  /\ st = "OK" /\ start_ms = 0 /\ ret = NoRet

-----------------------------------------------------------------------------
(* Time.                                                                    *)

\* (uint32_t)(now - since)
Elapsed(since) == (now - since) % Wrap

timeout_enabled == config.get_ms /\ config.timeout_ms # 0
timeout_start_ms == IF timeout_enabled THEN now ELSE 0

\* Fault injected: a deadline is compared instead of the elapsed time.
timeout_expired_deadline(since) ==
  timeout_enabled /\ now >= since + config.timeout_ms

timeout_expired(since) ==
  timeout_enabled /\ Elapsed(since) >= config.timeout_ms

pending_timeout_enabled == config.get_ms /\ config.pending_timeout_ms # 0

pending_timeout_expired ==
  /\ pending_state # "NONE"
  /\ pending_timeout_enabled
  /\ Elapsed(pending_start_ms) >= config.pending_timeout_ms

\* A tick nobody can read (no get_ms) is left out.
Tick ==
  /\ config.get_ms
  /\ now' = (now + 1) % Wrap
  /\ UNCHANGED <<hw, statics, control>>

-----------------------------------------------------------------------------
(* Pending state, and the flow of control.                                  *)

pending_clear == pending_state' = "NONE" /\ pending_start_ms' = 0

pending_set ==
  /\ pending_state' = "MASTER_WRITE"
  /\ pending_start_ms' = IF pending_timeout_enabled THEN now ELSE 0

pending_kept == UNCHANGED <<pending_state, pending_start_ms>>

\* The public call op returns s to its caller.
Return(op, s) ==
  /\ pc' = "idle" /\ fn' = "none" /\ call' = NoCall /\ i' = 0
  /\ st' = "OK" /\ start_ms' = 0
  /\ ret' = [op |-> op, st |-> s]

\* Go to p in function f, at byte n; a wait_until captures its start tick first.
Goto(p, f, n) ==
  /\ pc' = p /\ fn' = f /\ i' = n
  /\ start_ms' = IF p \in Waits THEN timeout_start_ms ELSE 0
  /\ UNCHANGED <<call, ret>>

Continue(p) == Goto(p, fn, i) /\ UNCHANGED st

\* Public call c passes its guards and begins at p.
Begin(c, p, f) ==
  /\ pc' = p /\ fn' = f /\ call' = c /\ ret' = NoRet
  /\ UNCHANGED <<hw, now, statics, i, st, start_ms>>

\* Public call op returns s without touching anything.
Refuse(op, s) == Return(op, s) /\ UNCHANGED <<hw, now, statics>>

-----------------------------------------------------------------------------
(* Guards of the public calls.                                              *)

RejectArguments(op) == pc = "idle" /\ Refuse(op, "INVALID_ARG")

RequireInitialized(op) ==
  /\ pc = "idle" /\ ~initialized
  /\ op # "init"
  /\ Refuse(op, "NOT_INITIALIZED")

\* Every transfer, and deinit, first stops a pending transaction that expired.
RecoverStalePending(c) ==
  /\ pc = "idle" /\ initialized
  /\ pending_timeout_expired
  /\ Begin(c, "stop_issue", "recover_stale_pending")

PendingBusy(c) ==
  /\ pc = "idle" /\ initialized /\ ~pending_timeout_expired
  /\ c.op \in Independent
  /\ pending_state # "NONE"
  /\ Refuse(c.op, "BUSY")

\* Fault injected: a pending transaction does not refuse a new one.
BeginIndependent_unguarded(c) ==
  /\ pc = "idle" /\ initialized /\ ~pending_timeout_expired
  /\ c.op \in Independent
  /\ Begin(c, "start_issue",
           IF c.op = "read" THEN "read" ELSE "write_no_stop_sequence")

\* Fault injected: the check for an initialized instance is missing.
BeginIndependent_uninitialized(c) ==
  /\ pc = "idle" /\ ~pending_timeout_expired
  /\ c.op \in Independent
  /\ pending_state = "NONE"
  /\ Begin(c, "start_issue",
           IF c.op = "read" THEN "read" ELSE "write_no_stop_sequence")

BeginIndependent(c) ==
  /\ pc = "idle" /\ initialized /\ ~pending_timeout_expired
  /\ c.op \in Independent
  /\ pending_state = "NONE"
  /\ Begin(c, "start_issue",
           IF c.op = "read" THEN "read" ELSE "write_no_stop_sequence")

SequenceError(c) ==
  /\ pc = "idle" /\ initialized
  /\ c.op \in {"read_after_restart", "stop"}
  /\ pending_state = "NONE"
  /\ Refuse(c.op, "SEQUENCE")

BeginPending(c) ==
  /\ pc = "idle" /\ initialized /\ ~pending_timeout_expired
  /\ pending_state = "MASTER_WRITE"
  /\ \/ /\ c.op = "read_after_restart"
        /\ Begin(c, "restart_issue", "read_after_restart_sequence")
     \/ /\ c.op = "stop"
        /\ Begin(c, "stop_issue", "stop_pending_sequence")

Transfer(c) ==
  \/ RecoverStalePending(c) \/ PendingBusy(c) \/ BeginIndependent(c)
  \/ SequenceError(c) \/ BeginPending(c)

-----------------------------------------------------------------------------
(* Lifecycle calls.                                                         *)

\* Any earlier state of the instance is overwritten, a pending one included.
init(cfg) ==
  /\ pc = "idle"
  /\ CON1' = {"ON"} /\ STAT1' = {} /\ STAT2' = {}
  /\ config' = cfg
  /\ pending_clear
  /\ initialized' = TRUE
  /\ Return("init", "OK")
  /\ UNCHANGED now

host_idle == ~HostWorking /\ "TRSTAT" \notin STAT1

\* The tail of deinit: module off, state forgotten.
ForceOff(s) ==
  /\ HwOff
  /\ initialized' = FALSE
  /\ config' = ZeroConfig
  /\ pending_clear
  /\ Return("deinit", s)
  /\ UNCHANGED now

\* Fault injected: the idle check also holds back a pending transaction.
DeinitBusy_always ==
  /\ pc = "idle" /\ initialized /\ ~pending_timeout_expired
  /\ ~host_idle
  /\ Refuse("deinit", "BUSY")

DeinitBusy ==
  /\ pc = "idle" /\ initialized /\ ~pending_timeout_expired
  /\ pending_state = "NONE" /\ ~host_idle
  /\ Refuse("deinit", "BUSY")

Deinit ==
  /\ pc = "idle" /\ initialized /\ ~pending_timeout_expired
  /\ pending_state = "NONE" => host_idle
  /\ ForceOff("OK")

SetBusSpeedBusy ==
  /\ pc = "idle" /\ initialized
  /\ pending_state # "NONE" \/ ~host_idle
  /\ Refuse("set_bus_speed", "BUSY")

\* The module is off while LBRG and HBRG change.
SetBusSpeed ==
  /\ pc = "idle" /\ initialized
  /\ pending_state = "NONE" /\ host_idle
  /\ STAT1' = STAT1 \cap {"IWCOL", "BCL"}
  /\ Return("set_bus_speed", "OK")
  /\ UNCHANGED <<CON1, STAT2, now, statics>>

PublicCall ==
  \/ \E op \in Ops : RejectArguments(op) \/ RequireInitialized(op)
  \/ \E c \in Transfers : Transfer(c)
  \/ \E cfg \in Configs : init(cfg)
  \/ RecoverStalePending(Lifecycle("deinit")) \/ DeinitBusy \/ Deinit
  \/ SetBusSpeedBusy \/ SetBusSpeed
-----------------------------------------------------------------------------
(* The low-level issues: each writes its registers, then is waited for.     *)

start_issue ==
  /\ pc = "start_issue"
  /\ CON1'  = CON1 \cup {"SEN"}
  /\ STAT1' = STAT1 \ {"IWCOL", "BCL"}
  /\ STAT2' = STAT2 \ {"ERR", "STARTE", "STOPE", "NACKE"}
  /\ Continue("start_wait")
  /\ UNCHANGED <<now, statics>>

restart_issue ==
  /\ pc = "restart_issue"
  /\ CON1'  = CON1 \cup {"RSEN"}
  /\ STAT2' = STAT2 \ {"STARTE"}
  /\ Continue("restart_wait")
  /\ UNCHANGED <<STAT1, now, statics>>

stop_issue ==
  /\ pc = "stop_issue"
  /\ CON1'  = CON1 \cup {"PEN"}
  /\ STAT2' = STAT2 \ {"STOPE"}
  /\ Continue("stop_wait")
  /\ UNCHANGED <<STAT1, now, statics>>

write_byte_issue ==
  /\ pc = "byte_issue"
  /\ STAT1' = HwWriteTRN(STAT1 \ {"IWCOL"})
  /\ STAT2' = STAT2 \ {"NACKE"}
  /\ Continue("byte_done")
  /\ UNCHANGED <<CON1, now, statics>>

read_byte_issue ==
  /\ pc = "read_issue"
  /\ CON1' = CON1 \cup {"RCEN"}
  /\ Continue("read_wait")
  /\ UNCHANGED <<STAT1, STAT2, now, statics>>

\* i is the index of the byte just received.
last_byte == i + 1 >= call.rx_len

\* Fault injected: "more follows" is i < rx_len, so the last byte is ACKed.
ack_issue_off_by_one ==
  /\ pc = "ack_issue"
  /\ STAT1' = STAT1 \ {"RBF"}
  /\ CON1'  = (CON1 \ {"ACKDT"}) \cup {"ACKEN"}
                \cup (IF i < call.rx_len THEN {} ELSE {"ACKDT"})
  /\ Continue("ack_wait")
  /\ UNCHANGED <<STAT2, now, statics>>

\* Fault injected: the byte is acknowledged without being read out of RCV.
ack_issue_unread ==
  /\ pc = "ack_issue"
  /\ CON1'  = (CON1 \ {"ACKDT"}) \cup {"ACKEN"}
                \cup (IF last_byte THEN {"ACKDT"} ELSE {})
  /\ Continue("ack_wait")
  /\ UNCHANGED <<STAT1, STAT2, now, statics>>

\* read_byte_get empties RCV; every byte but the last is acknowledged.
ack_issue ==
  /\ pc = "ack_issue"
  /\ STAT1' = STAT1 \ {"RBF"}
  /\ CON1'  = (CON1 \ {"ACKDT"}) \cup {"ACKEN"}
                \cup (IF last_byte THEN {"ACKDT"} ELSE {})
  /\ Continue("ack_wait")
  /\ UNCHANGED <<STAT2, now, statics>>

-----------------------------------------------------------------------------
(* wait_until.                                                              *)

start_done == "STARTE" \in STAT2 \/ "S" \in STAT1

\* Fault injected: S, left set by the first START, counts as the repeated one.
restart_done_by_S == "S" \in STAT1

restart_done == "RSEN" \notin CON1 /\ "STARTE" \in STAT2

host_active == "HSTACT" \in STAT2

\* Fault injected: STOPE alone ends the wait.
stop_fully_done_by_STOPE == "STOPE" \in STAT2

stop_fully_done == "STOPE" \in STAT2 /\ "PEN" \notin CON1

write_byte_busy == "TRSTAT" \in STAT1

done_fn ==
  CASE pc = "start_wait"    -> start_done
    [] pc = "restart_wait"  -> restart_done
    [] pc \in {"byte_ready", "byte_done"} -> ~write_byte_busy
    [] pc = "byte_host"     -> host_active
    [] pc = "byte_accepted" -> "D_A" \in STAT1
    [] pc = "read_wait"     -> "RBF" \in STAT1
    [] pc = "ack_wait"      -> "ACKEN" \notin CON1
    [] pc = "stop_wait"     -> stop_fully_done

has_collision == STAT1 \cap {"IWCOL", "BCL"} # {}
has_error     == "ERR" \in STAT2

\* What one pass of the loop decides; "AGAIN" is another pass.
wait_until ==
  CASE has_collision -> "COLLISION"
    [] ~has_collision /\ has_error -> "BUS"
    [] ~has_collision /\ ~has_error /\ done_fn -> "OK"
    [] OTHER -> IF timeout_expired(start_ms) THEN "TIMEOUT" ELSE "AGAIN"

-----------------------------------------------------------------------------
(* What follows each wait.  A sequence that fails stops the bus: quietly if  *)
(* nothing is pending, through abort_pending_sequence if a write is.         *)

Fail(s) ==
  /\ st' = s
  /\ Goto("stop_issue",
          IF fn = "read_after_restart_sequence"
            THEN "abort_pending_sequence" ELSE fn, 0)
  /\ UNCHANGED <<hw, now, statics>>

WaitFails ==
  /\ pc \in Waits \ {"stop_wait"}
  /\ wait_until \in {"COLLISION", "BUS", "TIMEOUT"}
  /\ Fail(wait_until)

\* The next primitive after each wait that needs no further decision.
NextPrimitive(w) ==
  CASE w \in {"start_wait", "restart_wait"} -> "byte_ready"
    [] w = "byte_ready" -> "byte_host"
    [] w = "byte_host"  -> "byte_issue"
    [] w = "byte_done"  -> "byte_accepted"
    [] w = "read_wait"  -> "ack_issue"

WaitSucceeds ==
  /\ pc \in Waits \ {"byte_accepted", "ack_wait", "stop_wait"}
  /\ wait_until = "OK"
  /\ Continue(NextPrimitive(pc))
  /\ UNCHANGED <<hw, now, statics>>

ByteNacked ==
  /\ pc = "byte_accepted" /\ wait_until = "OK"
  /\ "NACKE" \in STAT2
  /\ Fail("NACK")

ByteAcked ==
  /\ pc = "byte_accepted" /\ wait_until = "OK"
  /\ "NACKE" \notin STAT2

\* Fault injected: one byte too many.
WriteNextByte_extra ==
  /\ ByteAcked
  /\ fn = "write_no_stop_sequence" /\ i <= call.tx_len
  /\ Goto("byte_ready", fn, i + 1)
  /\ UNCHANGED <<st, hw, now, statics>>

\* Byte 0 is the address; tx_len data bytes follow it.
WriteNextByte ==
  /\ ByteAcked
  /\ fn = "write_no_stop_sequence" /\ i < call.tx_len
  /\ Goto("byte_ready", fn, i + 1)
  /\ UNCHANGED <<st, hw, now, statics>>

\* The write phase is complete, and pending from here on.
WritePhaseDone ==
  /\ ByteAcked
  /\ fn = "write_no_stop_sequence" /\ i >= call.tx_len
  /\ pending_set
  /\ \/ call.op = "write_no_stop" /\ Return(call.op, "OK")
     \/ /\ call.op = "write"
        /\ Goto("stop_issue", "stop_pending_sequence", 0)
        /\ UNCHANGED st
     \/ /\ call.op = "write_read"
        /\ Goto("restart_issue", "read_after_restart_sequence", 0)
        /\ UNCHANGED st
  /\ UNCHANGED <<hw, now, initialized, config>>

ReadAddressed ==
  /\ ByteAcked
  /\ fn \in {"read", "read_after_restart_sequence"}
  /\ Goto("read_issue", fn, 0)
  /\ UNCHANGED <<st, hw, now, statics>>

ReadNextByte ==
  /\ pc = "ack_wait" /\ wait_until = "OK"
  /\ ~last_byte
  /\ Goto("read_issue", fn, i + 1)
  /\ UNCHANGED <<st, hw, now, statics>>

ReadPhaseDone ==
  /\ pc = "ack_wait" /\ wait_until = "OK"
  /\ last_byte
  /\ Goto("stop_issue", IF fn = "read" THEN fn ELSE "stop_pending_sequence", 0)
  /\ UNCHANGED <<st, hw, now, statics>>

-----------------------------------------------------------------------------
(* stop_quiet has ended with stop: what its caller makes of it.             *)

StopWait(f, stop) == pc = "stop_wait" /\ fn = f /\ wait_until = stop
StopOutcomes == {"OK", "COLLISION", "BUS", "TIMEOUT"}

Finish(s) == Return(call.op, s) /\ UNCHANGED <<hw, now, initialized, config>>

\* Nothing is pending: the status of the transfer outlives that of its STOP.
QuietStop(stop) ==
  /\ \/ StopWait("write_no_stop_sequence", stop) /\ Finish(st)
     \/ /\ StopWait("read", stop)
        /\ Finish(IF st = "OK" THEN stop ELSE st)
  /\ pending_kept

StopPending(stop) ==
  /\ StopWait("stop_pending_sequence", stop)
  /\ IF stop = "OK" THEN pending_clear ELSE pending_kept
  /\ Finish(stop)

\* Fault injected: the pending state is dropped whether STOP completed or not.
AbortPending_always(stop) ==
  /\ StopWait("abort_pending_sequence", stop)
  /\ pending_clear
  /\ Finish(IF stop = "OK" THEN st ELSE stop)

\* Fault injected: the error of the transfer masks that of the STOP.
AbortPending_masking(stop) ==
  /\ StopWait("abort_pending_sequence", stop)
  /\ IF stop = "OK" THEN pending_clear ELSE pending_kept
  /\ Finish(st)

\* Fault injected: a clean STOP leaves the transaction pending.
AbortPending_forgetting(stop) ==
  /\ StopWait("abort_pending_sequence", stop)
  /\ pending_kept
  /\ Finish(IF stop = "OK" THEN st ELSE stop)

AbortPending(stop) ==
  /\ StopWait("abort_pending_sequence", stop)
  /\ IF stop = "OK" THEN pending_clear ELSE pending_kept
  /\ Finish(IF stop = "OK" THEN st ELSE stop)

RecoveryStatus(stop) == IF stop = "OK" THEN "TIMEOUT" ELSE stop

Recovered(stop) ==
  /\ StopWait("recover_stale_pending", stop) /\ call.op # "deinit"
  /\ IF stop = "OK" THEN pending_clear ELSE pending_kept
  /\ Finish(RecoveryStatus(stop))

\* deinit goes on whatever became of the STOP.
DeinitRecovered(stop) ==
  /\ StopWait("recover_stale_pending", stop) /\ call.op = "deinit"
  /\ ForceOff(RecoveryStatus(stop))

Issue ==
  \/ start_issue \/ restart_issue \/ stop_issue
  \/ write_byte_issue \/ read_byte_issue \/ ack_issue

Poll ==
  \/ WaitFails \/ WaitSucceeds \/ ByteNacked
  \/ WriteNextByte \/ WritePhaseDone
  \/ ReadAddressed \/ ReadNextByte \/ ReadPhaseDone
  \/ \E stop \in StopOutcomes :
       \/ QuietStop(stop) \/ StopPending(stop) \/ AbortPending(stop)
       \/ Recovered(stop) \/ DeinitRecovered(stop)

Engine == Issue \/ Poll

Hardware == HwStep /\ UNCHANGED <<now, statics, control>>

Next == PublicCall \/ Engine \/ Hardware \/ Tick

Spec == Init /\ [][Next]_vars
\* The CPU polls far more often than the tick advances, so a poll that can
\* decide again and again does decide.  Nothing makes the hardware answer.
FairSpec == Spec /\ SF_vars(Engine) /\ WF_vars(Tick)

\* A target that answers in the end: the host state machine makes progress.
ServedSpec == FairSpec /\ WF_vars(HwServes /\ UNCHANGED <<now, statics, control>>)

-----------------------------------------------------------------------------
(* Safety properties.                                                       *)

\* A transfer that ends with STOP and reports OK leaves nothing behind: the
\* STOP has retired, no request is outstanding and nothing is pending
\* (stop_fully_done, stop_pending_sequence).
OkReleasesBus ==
  /\ ret.st = "OK"
  /\ ret.op \in {"write", "read", "write_read", "read_after_restart", "stop"}
  => pending_state = "NONE" /\ ~HostWorking

\* read_after_restart reports the error of the transfer itself, a NACK, only
\* after a clean STOP; otherwise it reports the STOP error
\* (abort_pending_sequence).
DiagnosisAfterCleanStop ==
  ret = [op |-> "read_after_restart", st |-> "NACK"]
  => pending_state = "NONE" /\ "PEN" \notin CON1 /\ ~host_active

\* After deinit nothing is pending, and unless it refused, the module is off
\* and the instance forgotten, whatever the recovery STOP did.
DeinitFreesPending ==
  ret.op = "deinit" =>
    /\ pending_state # "NONE" => ret.st = "INVALID_ARG"
    /\ ret.st \in StopOutcomes => ~initialized /\ "ON" \notin CON1

\* The engine touches the peripheral only while it is initialized and on, so
\* the checks the primitives repeat (require_initialized) never fail.
EngineRunsInitialized == pc # "idle" => initialized /\ "ON" \in CON1

\* A START is never asked for while a transaction is pending, whatever has
\* failed or timed out before (begin_independent_transaction).
PendingBlocksNewTransfer ==
  [][ "SEN" \notin CON1 /\ "SEN" \in CON1' => pending_state = "NONE" ]_vars

\* A pending transaction ends with a STOP that has fully retired; failing
\* that, only a reset of the module ends it.
StopBeforeClear ==
  [][ pending_state # "NONE" /\ pending_state' = "NONE"
      => \/ stop_fully_done
         \/ ret'.op \in {"init", "deinit"} ]_vars

\* A pending transaction that lost arbitration can be neither continued,
\* stopped nor recovered: BCL is cleared by start_issue alone, which pending
\* keeps out, and it fails every wait.  Only init and deinit get out of it.
LostArbitrationNeedsReset ==
  [][ pending_state # "NONE" /\ "BCL" \in STAT1
      => \/ pending_state' # "NONE" /\ "BCL" \in STAT1'
         \/ ret'.op \in {"init", "deinit"} ]_vars

-----------------------------------------------------------------------------
(* Safety properties of a bus on which no wait ends early.                  *)

\* A START is asked for only on a bus the previous transfer has given up.
StartOnIdleBus ==
  pc = "start_issue" => ~HostWorking /\ "S" \notin STAT1

\* write_no_stop leaves the bus held, with nothing asked of it, and what is
\* marked pending between calls is exactly that.
PendingHoldsBus ==
  pc = "idle" /\ pending_state # "NONE"
  => host_active /\ "S" \in STAT1 /\ CON1 \cap Requests = {}

\* No byte is written while the host cannot take it, so a collision reported
\* is never the engine's own doing.
NoWriteCollision == "IWCOL" \notin STAT1

\* A completed receive ends with a NACK, its bytes read and no request open:
\* otherwise the target still drives SDA when the STOP is made.
ReadEndsWithNack ==
  /\ pc = "stop_issue"
  /\ \/ fn = "read" /\ st = "OK"
     \/ fn = "stop_pending_sequence" /\ call.op \in ReadOps
  => "ACKDT" \in CON1 /\ "RBF" \notin STAT1 /\ CON1 \cap Requests = {}

\* CON1 is read, modified and written back (reg_set).  No request the hardware
\* may clear meanwhile is set in it then, or it would be made twice.
NoRequestInFlight ==
  pc \in Issues \ {"byte_issue"} => CON1 \cap Requests = {}

\* "The normal blocking API adds the extra sequencing needed for safe
\* back-to-back transactions": no byte of an earlier transfer is still in RCV
\* when a read asks for its own (read_byte_blocking would return it at once).
ReadsOwnBytes == pc = "read_issue" => "RBF" \notin STAT1

-----------------------------------------------------------------------------
(* Liveness.                                                                *)

\* Every public call returns.
CallsReturn == pc # "idle" ~> pc = "idle"

-----------------------------------------------------------------------------
(* What comments and documents of the code say, and the model refutes.     *)

\* "callers never start a new transfer on a bus whose STOP has not yet
\* retired" (stop_fully_done).
StartAfterStopRetired ==
  [][ "SEN" \notin CON1 /\ "SEN" \in CON1' => "PEN" \notin CON1 ]_vars

\* While STOP has failed, "the next public call is then rejected [...] instead
\* of starting a new transfer on a stuck bus" (stop_pending_sequence).
RestartAfterStopRetired ==
  [][ "RSEN" \notin CON1 /\ "RSEN" \in CON1' => "PEN" \notin CON1 ]_vars

\* recover_stale_pending_if_needed "returns ERR_TIMEOUT when it had to force a
\* stale no-STOP transaction closed" (begin_independent_transaction).
TimeoutMeansRecovered ==
  [][ fn = "recover_stale_pending" /\ pc' = "idle" /\ ret'.st = "TIMEOUT"
      => pending_state' = "NONE" ]_vars

\* An expired pending transaction whose recovery STOP has retired is cleared.
RecoveryClears ==
  [][ fn = "recover_stale_pending" /\ pc' = "idle" /\ stop_fully_done
      => pending_state' = "NONE" ]_vars

\* deinit "forces the peripheral off and clears HAL state".
DeinitForcesOff ==
  ret.op = "deinit" /\ ret.st \notin {"INVALID_ARG", "NOT_INITIALIZED"}
  => ~initialized

\* deinit does not leave "the caller with no way out": it returns.
DeinitReturns == call.op = "deinit" ~> pc = "idle"
=============================================================================
