----------------------- MODULE I2CMasterSession_proofs -----------------------
(***************************************************************************)
(* The master engine implements the session I2CSession promises, for every *)
(* tick width, transfer length, set of configurations and set of bus       *)
(* faults: each of its steps is a step of the session, or none.            *)
(***************************************************************************)
EXTENDS I2CMasterSession, I2CMaster_proofs

AtStop  == pc \in {"stop_issue", "stop_wait"}
Reading == pc \in {"read_issue", "read_wait", "ack_issue", "ack_wait"}

\* Which call, which pending state and which status go with which sequence
\* function: what the C call graph guarantees and the flat pc has to remember.
SequenceShape ==
  /\ pc = "idle" <=> fn = "none"
  /\ pc = "idle" => call = NoCall /\ st = "OK"
  /\ ~AtStop => st = "OK"
  /\ st \in StopOutcomes \cup {"NACK"}
  /\ Reading => fn \in {"read", "read_after_restart_sequence"}
  /\ fn = "write_no_stop_sequence" =>
       /\ call.op \in WriteOps /\ pending_state = "NONE"
       /\ AtStop => st # "OK"
  /\ fn = "read" => call.op = "read" /\ pending_state = "NONE"
  /\ fn = "read_after_restart_sequence" =>
       /\ call.op \in {"write_read", "read_after_restart"}
       /\ pending_state = "MASTER_WRITE" /\ ~AtStop
  /\ fn = "stop_pending_sequence" =>
       /\ call.op \in {"write", "write_read", "read_after_restart", "stop"}
       /\ pending_state = "MASTER_WRITE" /\ AtStop /\ st = "OK"
  /\ fn = "abort_pending_sequence" =>
       /\ call.op \in {"write_read", "read_after_restart"}
       /\ pending_state = "MASTER_WRITE" /\ AtStop /\ st # "OK"
  /\ fn = "recover_stale_pending" => pending_state = "MASTER_WRITE" /\ AtStop

SInv == IInv /\ SequenceShape

LEMMA InitShape == Init => SequenceShape
BY DEF Init, SequenceShape, AtStop, Reading, StopOutcomes

LEMMA ReturnShape ==
  ASSUME NEW op, NEW s, Return(op, s)
  PROVE  SequenceShape'
BY DEF Return, SequenceShape, AtStop, Reading, StopOutcomes

LEMMA PublicCallShape == ASSUME SInv, PublicCall PROVE SequenceShape'
<1>1. CASE \E op \in Ops : RejectArguments(op) \/ RequireInitialized(op)
  BY <1>1, ReturnShape DEF RejectArguments, RequireInitialized, Refuse
<1>2. CASE \E c \in Transfers : Transfer(c)
  <2>1. PICK c \in Transfers : Transfer(c)
    BY <1>2
  <2>2. c.op \in Independent \cup {"read_after_restart", "stop"}
    BY <2>1 DEF Transfers
  <2>3. CASE PendingBusy(c) \/ SequenceError(c)
    BY <2>3, ReturnShape DEF PendingBusy, SequenceError, Refuse
  <2>4. CASE RecoverStalePending(c)
    BY <2>4
    DEF RecoverStalePending, pending_timeout_expired, Begin, statics, SInv, IInv, TypeOK,
        DataTypeOK, SequenceShape, AtStop, Reading
  <2>5. CASE BeginIndependent(c)
    BY <2>2, <2>5
    DEF BeginIndependent, Begin, statics, SInv, SequenceShape, AtStop, Reading, Independent,
        WriteOps
  <2>6. CASE BeginPending(c)
    BY <2>6
    DEF BeginPending, Begin, statics, SInv, SequenceShape, AtStop, Reading
  <2> QED
    BY <2>1, <2>3, <2>4, <2>5, <2>6 DEF Transfer
<1>3. CASE \E cfg \in Configs : init(cfg)
  BY <1>3, ReturnShape DEF init
<1>4. CASE RecoverStalePending(Lifecycle("deinit"))
  BY <1>4
  DEF RecoverStalePending, pending_timeout_expired, Begin, statics, SInv, IInv, TypeOK,
      DataTypeOK, SequenceShape, AtStop, Reading
<1>5. CASE DeinitBusy \/ SetBusSpeedBusy \/ Deinit \/ SetBusSpeed
  BY <1>5, ReturnShape
  DEF DeinitBusy, SetBusSpeedBusy, Refuse, Deinit, ForceOff, SetBusSpeed
<1> QED
  BY <1>1, <1>2, <1>3, <1>4, <1>5 DEF PublicCall

LEMMA IssueShape == ASSUME SInv, Issue PROVE SequenceShape'
BY DEF Issue, start_issue, restart_issue, stop_issue, write_byte_issue, read_byte_issue,
       ack_issue, Continue, Goto, statics, SInv, SequenceShape, AtStop, Reading

\* A sequence that fails goes on to its STOP with the status it failed with.
LEMMA FailShape ==
  ASSUME SInv, NEW s \in (StopOutcomes \cup {"NACK"}) \ {"OK"}, Fail(s),
         pc \notin {"idle", "stop_issue", "stop_wait"}
  PROVE  SequenceShape'
BY DEF Fail, Goto, statics, SInv, IInv, CallShape, SequenceShape, AtStop, Reading

LEMMA PollShape == ASSUME SInv, Poll PROVE SequenceShape'
<1> USE DEF SequenceShape, AtStop, Reading
<1>1. CASE WaitFails
  BY <1>1, FailShape DEF WaitFails, StopOutcomes, Waits
<1>2. CASE ByteNacked
  BY <1>2, FailShape DEF ByteNacked, StopOutcomes
<1>3. CASE WaitSucceeds
  BY <1>3 DEF WaitSucceeds, Waits, NextPrimitive, Continue, Goto, statics, SInv
<1>4. CASE WriteNextByte \/ ReadAddressed \/ ReadNextByte \/ ReadPhaseDone
  BY <1>4
  DEF WriteNextByte, ReadAddressed, ReadNextByte, ReadPhaseDone, ByteAcked, Goto, statics, SInv,
      StopOutcomes
<1>5. CASE WritePhaseDone
  <2>1. CASE Return(call.op, "OK")
    BY <2>1, ReturnShape
  <2>2. CASE ~Return(call.op, "OK")
    BY <1>5, <2>2
    DEF WritePhaseDone, ByteAcked, pending_set, Goto, SInv, StopOutcomes
  <2> QED
    BY <2>1, <2>2
<1>6. CASE \E stop \in StopOutcomes :
             \/ QuietStop(stop) \/ StopPending(stop) \/ AbortPending(stop)
             \/ Recovered(stop) \/ DeinitRecovered(stop)
  BY <1>6, ReturnShape
  DEF QuietStop, StopPending, AbortPending, Recovered, DeinitRecovered, Finish, ForceOff
<1> QED
  BY <1>1, <1>2, <1>3, <1>4, <1>5, <1>6 DEF Poll

LEMMA NextShape == SInv /\ [Next]_vars => SInv'
<1> SUFFICES ASSUME SInv, [Next]_vars PROVE SequenceShape'
  BY NextInv DEF SInv
<1>1. CASE PublicCall \/ Engine
  BY <1>1, PublicCallShape, IssueShape, PollShape DEF Engine
<1>2. CASE Hardware \/ Tick \/ UNCHANGED vars
  BY <1>2 DEF Hardware, Tick, vars, control, statics, SInv, SequenceShape, AtStop, Reading
<1> QED
  BY <1>1, <1>2 DEF Next

\* In every reachable state the sequence function, the call, the pending state
\* and the status of the transfer fit together as the C call graph makes them.
THEOREM SequencesKeepShape == Spec => []SInv
<1>1. Init => SInv
  BY InitInv, InitShape DEF SInv
<1> QED
  BY <1>1, NextShape, PTL DEF Spec

-----------------------------------------------------------------------------
(* The refinement, one lemma per kind of step.                              *)

LEMMA InitRefines == Init => Session!Init
BY DEF Init, NoCall, NoRet, Session!Init, Session!NoRet

\* The status of a transfer that fails, or of its STOP, is one the session knows.
LEMMA FailureStatus == StopOutcomes = {"OK"} \cup Session!BusErrors
BY DEF StopOutcomes, Session!BusErrors

LEMMA ReturnRefines ==
  ASSUME NEW op, NEW s, Return(op, s)
  PROVE  Session!Returns(op, s)
BY DEF Return, NoCall, Session!Returns

LEMMA RefuseRefines ==
  ASSUME SInv, pc = "idle", NEW op, NEW s, Refuse(op, s)
  PROVE  Session!Refuse(op, s)
BY ReturnRefines
DEF Refuse, statics, SInv, SequenceShape, NoCall, Session!Refuse

\* A call that passes its guards starts a transfer or a recovery.
LEMMA BeginRefines ==
  ASSUME SInv, pc = "idle", initialized, NEW c, NEW p, NEW f, Begin(c, p, f)
  PROVE  /\ f = "recover_stale_pending" => Session!Start(c.op, TRUE)
         /\ f # "recover_stale_pending" => Session!Start(c.op, FALSE)
BY DEF Begin, statics, SInv, SequenceShape, NoCall, NoRet, Session!Start, Session!NoRet

LEMMA PublicCallRefines == ASSUME SInv, PublicCall PROVE Session!Next
<1> USE DEF Session!Next
<1>1. CASE \E op \in Ops : RejectArguments(op) \/ RequireInitialized(op)
  <2>1. PICK op \in Ops : RejectArguments(op) \/ RequireInitialized(op)
    BY <1>1
  <2>2. op \in Session!Ops
    BY <2>1 DEF Ops, WriteOps, ReadOps, Session!Ops, Session!Transfers, Session!Independent,
                Session!Continuations
  <2>3. Session!Refused(op)
    BY <2>1, RefuseRefines DEF RejectArguments, RequireInitialized, Session!Refused
  <2> QED
    BY <2>2, <2>3
<1>2. CASE \E c \in Transfers : Transfer(c)
  <2>1. PICK c \in Transfers : Transfer(c)
    BY <1>2
  <2>2. /\ c.op \in Session!Transfers /\ c.op \in Session!Ops
        /\ c.op \in Independent <=> c.op \in Session!Independent
    BY <2>1 DEF Transfers, Independent, Session!Ops, Session!Transfers, Session!Independent,
                Session!Continuations
  <2>3. CASE PendingBusy(c)
    <3>1. Session!Refused(c.op)
      BY <2>2, <2>3, RefuseRefines DEF PendingBusy, Session!Refused
    <3> QED
      BY <2>2, <3>1
  <2>4. CASE SequenceError(c)
    <3>1. Session!Refused(c.op)
      BY <2>2, <2>4, RefuseRefines DEF SequenceError, Session!Refused, Session!Continuations
    <3> QED
      BY <2>2, <3>1
  <2>5. CASE RecoverStalePending(c)
    <3>1. Session!Start(c.op, TRUE) /\ pending_state # "NONE"
      BY <2>5, BeginRefines DEF RecoverStalePending, pending_timeout_expired
    <3> QED
      BY <2>2, <3>1 DEF Session!StartRecovery
  <2>6. CASE BeginIndependent(c)
    <3>1. Session!Start(c.op, FALSE) /\ pending_state = "NONE"
      <4>1. PICK f \in {"read", "write_no_stop_sequence"} : Begin(c, "start_issue", f)
        BY <2>6 DEF BeginIndependent
      <4> QED
        BY <2>6, <4>1, BeginRefines DEF BeginIndependent
    <3>2. c.op \in Session!Independent
      BY <2>2, <2>6 DEF BeginIndependent
    <3> QED
      BY <3>1, <3>2 DEF Session!StartTransfer
  <2>7. CASE BeginPending(c)
    <3>1. Session!Start(c.op, FALSE) /\ pending_state # "NONE"
      <4>1. pc = "idle" /\ initialized /\ pending_state # "NONE"
        BY <2>7 DEF BeginPending
      <4>2. PICK p \in {"restart_issue", "stop_issue"},
                 f \in {"read_after_restart_sequence", "stop_pending_sequence"} :
              Begin(c, p, f)
        BY <2>7 DEF BeginPending
      <4> QED
        BY <4>1, <4>2, BeginRefines
    <3>2. c.op \in Session!Continuations
      BY <2>7 DEF BeginPending, Session!Continuations
    <3> QED
      BY <3>1, <3>2 DEF Session!StartTransfer
  <2> QED
    BY <2>1, <2>3, <2>4, <2>5, <2>6, <2>7 DEF Transfer
<1>3. CASE \E cfg \in Configs : init(cfg)
  BY <1>3, ReturnRefines
  DEF init, pending_clear, SInv, SequenceShape, NoCall, Session!Initialize
<1>4. CASE RecoverStalePending(Lifecycle("deinit"))
  <2>1. Session!Start("deinit", TRUE) /\ pending_state # "NONE"
    <3>1. Lifecycle("deinit").op = "deinit"
      BY DEF Lifecycle
    <3> QED
      BY <1>4, <3>1, BeginRefines DEF RecoverStalePending, pending_timeout_expired
  <2> QED
    BY <2>1 DEF Session!StartRecovery
<1>5. CASE DeinitBusy
  <2>1. Session!Refused("deinit")
    BY <1>5, RefuseRefines DEF DeinitBusy, Session!Refused
  <2> QED
    BY <2>1 DEF Session!Ops
<1>6. CASE Deinit
  BY <1>6, ReturnRefines
  DEF Deinit, ForceOff, pending_clear, SInv, SequenceShape, NoCall, Session!Deinitialize
<1>7. CASE SetBusSpeedBusy
  <2>1. Session!Refused("set_bus_speed")
    BY <1>7, RefuseRefines DEF SetBusSpeedBusy, Session!Refused
  <2> QED
    BY <2>1 DEF Session!Ops
<1>8. CASE SetBusSpeed
  BY <1>8, ReturnRefines
  DEF SetBusSpeed, statics, SInv, SequenceShape, NoCall, Session!SetBusSpeed, Session!Refuse
<1> QED
  BY <1>1, <1>2, <1>3, <1>4, <1>5, <1>6, <1>7, <1>8 DEF PublicCall

\* The request a primitive issues is no business of the caller's.
LEMMA IssueRefines == ASSUME SInv, Issue PROVE UNCHANGED Session!session
BY DEF Issue, start_issue, restart_issue, stop_issue, write_byte_issue, read_byte_issue,
       ack_issue, Continue, Goto, statics, Session!session

\* Nor is a step on, or to its STOP, of a sequence that is no recovery.
LEMMA GotoRefines ==
  ASSUME NEW p, NEW f, NEW k, Goto(p, f, k), UNCHANGED <<initialized, pending_state>>,
         fn # "recover_stale_pending", f # "recover_stale_pending"
  PROVE  UNCHANGED Session!session
BY DEF Goto, Session!session

\* A transfer that returns has the public call it was begun for.
LEMMA TransferInProgress ==
  ASSUME SInv, pc # "idle", fn # "recover_stale_pending" \/ call.op # "deinit"
  PROVE  call.op \in Session!Transfers
BY DEF SInv, IInv, CallShape, Transfers, Independent, Lifecycle, Session!Transfers,
       Session!Independent, Session!Continuations

LEMMA WritePhaseRefines == ASSUME SInv, WritePhaseDone PROVE Session!Next
<1>1. /\ fn = "write_no_stop_sequence" /\ pending_state = "NONE" /\ call.op \in WriteOps
      /\ pending_state' = "MASTER_WRITE" /\ UNCHANGED initialized
  BY DEF SInv, SequenceShape, WritePhaseDone, pending_set
<1>2. CASE call.op = "write_no_stop" /\ Return(call.op, "OK")
  <2>1. Session!Succeed
    BY <1>1, <1>2, ReturnRefines
    DEF Session!Succeed, Session!Transfers, Session!Independent
  <2> QED
    BY <2>1 DEF Session!Next
<1>3. CASE ~(call.op = "write_no_stop" /\ Return(call.op, "OK"))
  <2>1. Session!WritePhaseDone
    BY <1>1, <1>3 DEF WritePhaseDone, Goto, Session!WritePhaseDone
  <2> QED
    BY <2>1 DEF Session!Next
<1> QED
  BY <1>2, <1>3

\* The end of a sequence by its STOP: success, the NACK or the bus error that
\* made it fail, or the bus error of the STOP itself.
LEMMA StopRefines ==
  ASSUME SInv, NEW stop \in StopOutcomes,
         QuietStop(stop) \/ StopPending(stop) \/ AbortPending(stop)
  PROVE  Session!Next
<1> USE DEF SInv, SequenceShape, Finish, pending_clear, pending_kept, StopWait, AtStop
<1>1. /\ pc # "idle" /\ fn # "recover_stale_pending" /\ UNCHANGED initialized
      /\ call.op \in Session!Transfers
  BY TransferInProgress DEF QuietStop, StopPending, AbortPending
<1>2. CASE QuietStop(stop)
  <2>1. /\ call.op # "stop" /\ pending_state = "NONE" /\ pending_state' = "NONE"
    BY <1>2 DEF QuietStop, WriteOps
  <2>2. PICK s \in StopOutcomes \cup {"NACK"} :
           Return(call.op, s) /\ (s = "OK" => call.op = "read")
    BY <1>2 DEF QuietStop
  <2>3. CASE s = "OK"
    BY <1>1, <2>1, <2>2, <2>3, ReturnRefines DEF Session!Succeed, Session!Next
  <2>4. CASE s = "NACK"
    BY <1>1, <2>1, <2>2, <2>4, ReturnRefines DEF Session!Nack, Session!Next
  <2>5. CASE s \in Session!BusErrors
    BY <1>1, <2>1, <2>2, <2>5, ReturnRefines DEF Session!BusError, Session!Next
  <2> QED
    BY <2>2, <2>3, <2>4, <2>5, FailureStatus
<1>3. CASE StopPending(stop)
  <2>1. /\ pending_state # "NONE" /\ Return(call.op, stop)
        /\ call.op \in {"write", "write_read", "read_after_restart", "stop"}
        /\ pending_state' = IF stop = "OK" THEN "NONE" ELSE pending_state
    BY <1>3 DEF StopPending
  <2>2. CASE stop = "OK"
    BY <1>1, <2>1, <2>2, ReturnRefines DEF Session!Succeed, Session!Next
  <2>3. CASE stop \in Session!BusErrors
    <3>1. Session!BusError(stop)
      BY <1>1, <2>1, <2>3, ReturnRefines DEF Session!BusError, Session!BusErrors
    <3> QED
      BY <2>3, <3>1 DEF Session!Next
  <2> QED
    BY <2>2, <2>3, FailureStatus
<1>4. CASE AbortPending(stop)
  <2>1. /\ pending_state # "NONE" /\ call.op # "stop"
        /\ st \in Session!BusErrors \cup {"NACK"}
        /\ Return(call.op, IF stop = "OK" THEN st ELSE stop)
        /\ pending_state' = IF stop = "OK" THEN "NONE" ELSE pending_state
    BY <1>4, FailureStatus DEF AbortPending
  <2>2. CASE stop = "OK" /\ st = "NACK"
    BY <1>1, <2>1, <2>2, ReturnRefines DEF Session!Nack, Session!Next
  <2>3. CASE stop = "OK" /\ st \in Session!BusErrors
    BY <1>1, <2>1, <2>3, ReturnRefines DEF Session!BusError, Session!Next
  <2>4. CASE stop \in Session!BusErrors
    <3>1. Session!BusError(stop)
      BY <1>1, <2>1, <2>4, ReturnRefines DEF Session!BusError, Session!BusErrors
    <3> QED
      BY <2>4, <3>1 DEF Session!Next
  <2> QED
    BY <2>1, <2>2, <2>3, <2>4, FailureStatus
<1> QED
  BY <1>2, <1>3, <1>4

\* The end of the recovery of an expired pending write.
LEMMA RecoveryRefines ==
  ASSUME SInv, NEW stop \in StopOutcomes, Recovered(stop) \/ DeinitRecovered(stop)
  PROVE  Session!Next
<1>1. RecoveryStatus(stop) \in Session!BusErrors
  BY DEF RecoveryStatus, StopOutcomes, Session!BusErrors
<1>2. CASE Recovered(stop)
  <2>1. pc # "idle" /\ call.op \in Session!Transfers
    BY <1>2, TransferInProgress DEF Recovered, StopWait
  <2>2. Session!Recover(RecoveryStatus(stop))
    BY <1>2, <2>1, ReturnRefines
    DEF Recovered, StopWait, Finish, RecoveryStatus, pending_clear, pending_kept,
        Session!Recover
  <2> QED
    BY <1>1, <2>2 DEF Session!Next
<1>3. CASE DeinitRecovered(stop)
  <2>1. Session!DeinitRecovered(RecoveryStatus(stop))
    BY <1>3, ReturnRefines
    DEF DeinitRecovered, ForceOff, pending_clear, Session!DeinitRecovered
  <2> QED
    BY <1>1, <2>1 DEF Session!Next
<1> QED
  BY <1>2, <1>3

LEMMA PollRefines == ASSUME SInv, Poll PROVE [Session!Next]_(Session!session)
<1> USE DEF SInv, SequenceShape, AtStop, Reading
<1>1. CASE WaitFails \/ ByteNacked
  BY <1>1, GotoRefines DEF WaitFails, Waits, ByteNacked, Fail, statics
<1>2. CASE WaitSucceeds
  BY <1>2, GotoRefines DEF WaitSucceeds, Waits, Continue, statics
<1>3. CASE WriteNextByte \/ ReadAddressed \/ ReadNextByte \/ ReadPhaseDone
  BY <1>3, GotoRefines
  DEF WriteNextByte, ReadAddressed, ReadNextByte, ReadPhaseDone, ByteAcked, statics
<1>4. CASE WritePhaseDone
  BY <1>4, WritePhaseRefines
<1>5. CASE \E stop \in StopOutcomes :
             \/ QuietStop(stop) \/ StopPending(stop) \/ AbortPending(stop)
             \/ Recovered(stop) \/ DeinitRecovered(stop)
  BY <1>5, StopRefines, RecoveryRefines
<1> QED
  BY <1>1, <1>2, <1>3, <1>4, <1>5 DEF Poll

LEMMA NextRefines == SInv /\ [Next]_vars => [Session!Next]_(Session!session)
<1> SUFFICES ASSUME SInv, [Next]_vars PROVE [Session!Next]_(Session!session)
  OBVIOUS
<1>1. CASE PublicCall \/ Issue \/ Poll
  BY <1>1, PublicCallRefines, IssueRefines, PollRefines
<1>2. CASE Hardware \/ Tick \/ UNCHANGED vars
  BY <1>2 DEF Hardware, Tick, vars, control, statics, Session!session
<1> QED
  BY <1>1, <1>2 DEF Next, Engine

\* The engine implements the session its callers are promised, whatever the
\* bus does and whenever the tick advances.
THEOREM ImplementsSession == Spec => KeepsSession
BY InitRefines, NextRefines, SequencesKeepShape, PTL DEF Spec, KeepsSession, Session!Spec
=============================================================================
