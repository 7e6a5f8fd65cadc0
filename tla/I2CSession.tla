----------------------------- MODULE I2CSession -----------------------------
(***************************************************************************)
(* What the master API promises a caller of one instance, without the bus: *)
(* whether the instance is initialized, whether a no-STOP write is pending *)
(* and what each status says of the two.                                   *)
(***************************************************************************)

VARIABLES
  initialized,  \* init was called, deinit not since
  pending,      \* a no-STOP write holds the bus
  op,           \* the call in progress, "none" between calls
  recovering,   \* ... which only stops an expired pending write
  ret           \* the last call and the status it returned

session == <<initialized, pending, op, recovering, ret>>

\* Calls that start a transaction, and calls that go on with a pending one.
Independent   == {"write", "write_no_stop", "write_read", "read"}
Continuations == {"read_after_restart", "stop"}
Transfers     == Independent \cup Continuations
Ops           == Transfers \cup {"init", "deinit", "set_bus_speed"}

BusErrors == {"TIMEOUT", "BUS", "COLLISION"}
NoRet     == [op |-> "none", st |-> "OK"]

Init ==
  /\ initialized = FALSE /\ pending = FALSE
  /\ op = "none" /\ recovering = FALSE /\ ret = NoRet

Returns(o, s) ==
  /\ op' = "none" /\ recovering' = FALSE
  /\ ret' = [op |-> o, st |-> s]

-----------------------------------------------------------------------------
(* Calls that return at once.                                               *)

Refuse(o, s) == op = "none" /\ Returns(o, s) /\ UNCHANGED <<initialized, pending>>

Refused(o) ==
  \/ Refuse(o, "INVALID_ARG")
  \/ o # "init" /\ ~initialized /\ Refuse(o, "NOT_INITIALIZED")
  \/ o \in Independent /\ pending /\ Refuse(o, "BUSY")
  \/ o \in Continuations /\ initialized /\ ~pending /\ Refuse(o, "SEQUENCE")
  \/ o = "deinit" /\ initialized /\ ~pending /\ Refuse(o, "BUSY")
  \/ o = "set_bus_speed" /\ initialized /\ Refuse(o, "BUSY")

Initialize ==
  /\ op = "none"
  /\ initialized' = TRUE /\ pending' = FALSE
  /\ Returns("init", "OK")

Deinitialize ==
  /\ op = "none" /\ initialized
  /\ initialized' = FALSE /\ pending' = FALSE
  /\ Returns("deinit", "OK")

SetBusSpeed ==
  /\ initialized /\ ~pending
  /\ Refuse("set_bus_speed", "OK")

-----------------------------------------------------------------------------
(* Calls that use the bus.                                                  *)

Start(o, recovery) ==
  /\ op = "none" /\ initialized
  /\ op' = o /\ recovering' = recovery /\ ret' = NoRet
  /\ UNCHANGED <<initialized, pending>>

StartTransfer ==
  \/ \E o \in Independent : ~pending /\ Start(o, FALSE)
  \/ \E o \in Continuations : pending /\ Start(o, FALSE)

StartRecovery == \E o \in Transfers \cup {"deinit"} : pending /\ Start(o, TRUE)

\* Between its write phase and its STOP a transfer is pending, too.
WritePhaseDone ==
  /\ op \in {"write", "write_read"} /\ ~recovering
  /\ ~pending /\ pending' = TRUE
  /\ UNCHANGED <<initialized, op, recovering, ret>>

\* OK: the transfer was made, and only write_no_stop leaves the bus held.
Succeed ==
  /\ op \in Transfers /\ ~recovering
  /\ pending <=> op \notin {"write_no_stop", "read"}
  /\ pending' = (op = "write_no_stop")
  /\ Returns(op, "OK") /\ UNCHANGED initialized

\* A NACK: the transfer failed and its transaction is over.
Nack ==
  /\ op \in Transfers \ {"stop"} /\ ~recovering
  /\ pending' = FALSE
  /\ Returns(op, "NACK") /\ UNCHANGED initialized

\* A bus error: a pending transaction may be over or not, except that a failed
\* stop never ends one.
BusError(s) ==
  /\ op \in Transfers /\ ~recovering
  /\ IF op = "stop" THEN pending' = pending ELSE pending' \in {pending, FALSE}
  /\ Returns(op, s) /\ UNCHANGED initialized

\* The expired transaction was ended, which the caller learns as TIMEOUT, or
\* it is still pending.
Recover(s) ==
  /\ op \in Transfers /\ recovering
  /\ pending' = pending \/ (s = "TIMEOUT" /\ pending' = FALSE)
  /\ Returns(op, s) /\ UNCHANGED initialized

\* deinit turns the instance off even if its recovery failed.
DeinitRecovered(s) ==
  /\ op = "deinit"
  /\ initialized' = FALSE /\ pending' = FALSE
  /\ Returns(op, s)

Next ==
  \/ \E o \in Ops : Refused(o)
  \/ Initialize \/ Deinitialize \/ SetBusSpeed
  \/ StartTransfer \/ StartRecovery
  \/ WritePhaseDone \/ Succeed \/ Nack
  \/ \E s \in BusErrors : BusError(s) \/ Recover(s) \/ DeinitRecovered(s)

Spec == Init /\ [][Next]_session
=============================================================================
