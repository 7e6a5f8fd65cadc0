-------------------------- MODULE I2CMaster_proofs --------------------------
(***************************************************************************)
(* Theorems about I2CMaster, for every tick width, transfer length, set of *)
(* configurations and set of bus faults.                                   *)
(***************************************************************************)
EXTENDS I2CMaster, TLAPS

Assumptions == Wrap \in Nat /\ Wrap > 0 /\ MaxLen \in Nat /\ MaxLen > 0
               /\ Configs \subseteq [get_ms: BOOLEAN, timeout_ms: 0 .. Wrap - 1,
                                     pending_timeout_ms: 0 .. Wrap - 1]

LEMMA Facts == Assumptions
BY WrapAssumption, MaxLenAssumption, ConfigsAssumption DEF Assumptions

-----------------------------------------------------------------------------
(* Type correctness.                                                        *)

LEMMA UnchangedData == ASSUME DataTypeOK, UNCHANGED <<now, statics>> PROVE DataTypeOK'
BY DEF DataTypeOK, statics

LEMMA UnchangedHw == ASSUME HwTypeOK, UNCHANGED hw PROVE HwTypeOK'
BY DEF HwTypeOK, hw

\* The hardware's own steps keep the registers registers.
LEMMA HwStepType == ASSUME HwTypeOK, HwStep PROVE HwTypeOK'
BY DEF HwTypeOK, HwStep, HwServes, HwStartEvent, HwStartOwned, HwRestartEvent,
       HwRestartRetired, HwStopEvent, HwStopRetired, HwByteSent, HwByteReceived,
       HwAckSent, HwCollision, HwError, Con1Bits, Stat1Bits, Stat2Bits, Requests

LEMMA ReturnType ==
  ASSUME NEW op \in Ops, NEW s \in Status, Return(op, s)
  PROVE  ControlTypeOK'
BY Facts DEF Return, ControlTypeOK, Assumptions, Pcs, Fns, Status

LEMMA GotoType ==
  ASSUME TypeOK, NEW p \in Pcs, NEW f \in Fns, NEW n \in 0 .. MaxLen,
         Goto(p, f, n), st' \in Status
  PROVE  ControlTypeOK'
BY Facts DEF Goto, TypeOK, DataTypeOK, ControlTypeOK, timeout_start_ms, Assumptions

LEMMA BeginType ==
  ASSUME TypeOK, NEW c \in Call, NEW p \in Pcs, NEW f \in Fns, Begin(c, p, f)
  PROVE  TypeOK'
<1>1. ControlTypeOK'
  BY DEF Begin, TypeOK, ControlTypeOK
<1> QED
  BY <1>1, UnchangedData, UnchangedHw DEF Begin, TypeOK

LEMMA RefuseType ==
  ASSUME TypeOK, NEW op \in Ops, NEW s \in Status, Refuse(op, s)
  PROVE  TypeOK'
BY ReturnType, UnchangedData, UnchangedHw DEF Refuse, TypeOK

LEMMA TransfersAreCalls == Transfers \subseteq Call
BY DEF Transfers

LEMMA ForceOffType ==
  ASSUME TypeOK, NEW s \in Status, ForceOff(s)
  PROVE  TypeOK'
<1>1. ControlTypeOK'
  BY ReturnType DEF ForceOff, Ops
<1>2. HwTypeOK'
  BY DEF ForceOff, HwOff, TypeOK, HwTypeOK
<1>3. DataTypeOK'
  <2>1. 0 \in 0 .. Wrap - 1
    BY Facts DEF Assumptions
  <2> QED
    BY <2>1, Zenon DEF ForceOff, TypeOK, DataTypeOK, pending_clear
<1> QED
  BY <1>1, <1>2, <1>3 DEF TypeOK

LEMMA PublicCallType == ASSUME TypeOK, PublicCall PROVE TypeOK'
<1>1. CASE \E op \in Ops : RejectArguments(op) \/ RequireInitialized(op)
  BY <1>1, RefuseType DEF RejectArguments, RequireInitialized, Status
<1>2. CASE \E c \in Transfers : Transfer(c)
  <2>1. PICK c \in Transfers : Transfer(c)
    BY <1>2
  <2>2. c \in Call /\ c.op \in Ops
    BY <2>1, TransfersAreCalls DEF Call
  <2>3. CASE RecoverStalePending(c)
    BY <2>2, <2>3, BeginType DEF RecoverStalePending, Pcs, Issues, Fns
  <2>4. CASE PendingBusy(c)
    BY <2>2, <2>4, RefuseType DEF PendingBusy, Status
  <2>5. CASE BeginIndependent(c)
    BY <2>2, <2>5, BeginType DEF BeginIndependent, Pcs, Issues, Fns
  <2>6. CASE SequenceError(c)
    BY <2>2, <2>6, RefuseType DEF SequenceError, Status
  <2>7. CASE BeginPending(c)
    BY <2>2, <2>7, BeginType DEF BeginPending, Pcs, Issues, Fns
  <2> QED
    BY <2>1, <2>3, <2>4, <2>5, <2>6, <2>7 DEF Transfer
<1>3. CASE \E cfg \in Configs : init(cfg)
  <2>1. PICK cfg \in Configs : init(cfg)
    BY <1>3
  <2>2. ControlTypeOK'
    BY <2>1, ReturnType DEF init, Ops, Status
  <2>3. HwTypeOK' /\ DataTypeOK'
    BY <2>1, Facts DEF init, TypeOK, HwTypeOK, DataTypeOK, Con1Bits, pending_clear, Assumptions
  <2> QED
    BY <2>2, <2>3 DEF TypeOK
<1>4. CASE RecoverStalePending(Lifecycle("deinit"))
  <2>1. Lifecycle("deinit") \in Call
    BY Facts DEF Lifecycle, Call, Ops, Assumptions
  <2> QED
    BY <1>4, <2>1, BeginType DEF RecoverStalePending, Pcs, Issues, Fns
<1>5. CASE DeinitBusy \/ SetBusSpeedBusy
  BY <1>5, RefuseType DEF DeinitBusy, SetBusSpeedBusy, Ops, Status
<1>6. CASE Deinit
  BY <1>6, ForceOffType DEF Deinit, Status
<1>7. CASE SetBusSpeed
  <2>1. ControlTypeOK'
    BY <1>7, ReturnType DEF SetBusSpeed, Ops, Status
  <2>2. HwTypeOK' /\ DataTypeOK'
    BY <1>7 DEF SetBusSpeed, TypeOK, HwTypeOK, DataTypeOK, statics
  <2> QED
    BY <2>1, <2>2 DEF TypeOK
<1> QED
  BY <1>1, <1>2, <1>3, <1>4, <1>5, <1>6, <1>7 DEF PublicCall

LEMMA IssueType == ASSUME TypeOK, Issue PROVE TypeOK'
<1>1. ASSUME NEW p \in Pcs, Continue(p) PROVE ControlTypeOK'
  BY <1>1, GotoType DEF Continue, TypeOK, ControlTypeOK
<1>2. ControlTypeOK'
  BY <1>1 DEF Issue, start_issue, restart_issue, stop_issue, write_byte_issue,
              read_byte_issue, ack_issue, Pcs, Waits
<1>3. HwTypeOK' /\ DataTypeOK'
  BY DEF Issue, start_issue, restart_issue, stop_issue, write_byte_issue,
         read_byte_issue, ack_issue, HwWriteTRN, TypeOK, HwTypeOK, DataTypeOK,
         Con1Bits, Stat1Bits, Stat2Bits, Requests, statics
<1> QED
  BY <1>2, <1>3 DEF TypeOK

LEMMA FailType == ASSUME TypeOK, NEW s \in Status, Fail(s) PROVE TypeOK'
<1>1. ControlTypeOK'
  BY GotoType, Facts DEF Fail, TypeOK, ControlTypeOK, Pcs, Issues, Fns, Assumptions
<1> QED
  BY <1>1, UnchangedData, UnchangedHw DEF Fail, TypeOK

\* A call in progress has a public operation to return from, and has not
\* returned yet.
CallInProgress == pc # "idle" => call \in Call /\ ret = NoRet

LEMMA FinishType ==
  ASSUME TypeOK, CallInProgress, pc # "idle", NEW s \in Status, Finish(s),
         \/ pending_clear
         \/ pending_kept
         \/ pending_set
  PROVE  TypeOK'
<1>1. ControlTypeOK'
  BY ReturnType DEF Finish, CallInProgress, Call
<1>2. DataTypeOK'
  BY Facts DEF Finish, pending_clear, pending_kept, pending_set, TypeOK, DataTypeOK,
               Assumptions
<1> QED
  BY <1>1, <1>2, UnchangedHw DEF Finish, TypeOK

LEMMA PollType == ASSUME TypeOK, CallInProgress, Poll PROVE TypeOK'
<1> USE DEF Issues, Waits
<1>1. CASE WaitFails
  BY <1>1, FailType DEF WaitFails, Status
<1>2. CASE WaitSucceeds
  <2>1. NextPrimitive(pc) \in Pcs
    BY <1>2 DEF WaitSucceeds, NextPrimitive, Pcs
  <2>2. ControlTypeOK'
    BY <1>2, <2>1, GotoType DEF WaitSucceeds, Continue, TypeOK, ControlTypeOK
  <2> QED
    BY <1>2, <2>2, UnchangedData, UnchangedHw DEF WaitSucceeds, TypeOK
<1>3. CASE ByteNacked
  BY <1>3, FailType DEF ByteNacked, Status
<1>4. CASE WriteNextByte
  <2>1. i + 1 \in 0 .. MaxLen
    BY <1>4, Facts
    DEF WriteNextByte, TypeOK, ControlTypeOK, Call, NoCall, Assumptions
  <2>2. ControlTypeOK'
    BY <1>4, <2>1, GotoType DEF WriteNextByte, TypeOK, ControlTypeOK, Pcs
  <2> QED
    BY <1>4, <2>2, UnchangedData, UnchangedHw DEF WriteNextByte, TypeOK
<1>5. CASE WritePhaseDone
  <2>1. HwTypeOK' /\ DataTypeOK'
    BY <1>5, Facts, UnchangedHw
    DEF WritePhaseDone, pending_set, TypeOK, DataTypeOK, Assumptions
  <2>2. CASE call.op = "write_no_stop" /\ Return(call.op, "OK")
    BY <2>1, <2>2, ReturnType DEF TypeOK, Ops, WriteOps, Status
  <2>3. CASE /\ Goto("stop_issue", "stop_pending_sequence", 0)
             /\ UNCHANGED st
    <3>1. ControlTypeOK'
      BY <2>3, GotoType, Facts DEF TypeOK, ControlTypeOK, Pcs, Fns, Assumptions
    <3> QED
      BY <2>1, <3>1 DEF TypeOK
  <2>4. CASE /\ Goto("restart_issue", "read_after_restart_sequence", 0)
             /\ UNCHANGED st
    <3>1. ControlTypeOK'
      BY <2>4, GotoType, Facts DEF TypeOK, ControlTypeOK, Pcs, Fns, Assumptions
    <3> QED
      BY <2>1, <3>1 DEF TypeOK
  <2> QED
    BY <1>5, <2>2, <2>3, <2>4 DEF WritePhaseDone
<1>6. CASE ReadAddressed
  <2>1. ControlTypeOK'
    BY <1>6, GotoType, Facts
    DEF ReadAddressed, TypeOK, ControlTypeOK, Pcs, Assumptions
  <2> QED
    BY <1>6, <2>1, UnchangedData, UnchangedHw DEF ReadAddressed, TypeOK
<1>7. CASE ReadNextByte
  <2>1. i + 1 \in 0 .. MaxLen
    BY <1>7, Facts
    DEF ReadNextByte, last_byte, TypeOK, ControlTypeOK, Call, NoCall, Assumptions
  <2>2. ControlTypeOK'
    BY <1>7, <2>1, GotoType DEF ReadNextByte, TypeOK, ControlTypeOK, Pcs
  <2> QED
    BY <1>7, <2>2, UnchangedData, UnchangedHw DEF ReadNextByte, TypeOK
<1>8. CASE ReadPhaseDone
  <2>1. ControlTypeOK'
    BY <1>8, GotoType, Facts
    DEF ReadPhaseDone, TypeOK, ControlTypeOK, Pcs, Fns, Assumptions
  <2> QED
    BY <1>8, <2>1, UnchangedData, UnchangedHw DEF ReadPhaseDone, TypeOK
<1>9. CASE \E stop \in StopOutcomes :
             \/ QuietStop(stop) \/ StopPending(stop) \/ AbortPending(stop)
             \/ Recovered(stop)
  <2>1. PICK stop \in StopOutcomes :
             \/ QuietStop(stop) \/ StopPending(stop) \/ AbortPending(stop)
             \/ Recovered(stop)
    BY <1>9
  <2>2. stop \in Status /\ st \in Status
    BY DEF StopOutcomes, Status, TypeOK, ControlTypeOK
  <2>3. pc # "idle"
    BY <2>1 DEF QuietStop, StopPending, AbortPending, Recovered, StopWait
  <2>4. CASE QuietStop(stop)
    BY <2>2, <2>3, <2>4, FinishType DEF QuietStop
  <2>5. CASE StopPending(stop)
    BY <2>2, <2>3, <2>5, FinishType DEF StopPending
  <2>6. CASE AbortPending(stop)
    BY <2>2, <2>3, <2>6, FinishType DEF AbortPending
  <2>7. CASE Recovered(stop)
    BY <2>2, <2>3, <2>7, FinishType DEF Recovered, RecoveryStatus, Status
  <2> QED
    BY <2>1, <2>4, <2>5, <2>6, <2>7
<1>10. CASE \E stop \in StopOutcomes : DeinitRecovered(stop)
  BY <1>10, ForceOffType DEF DeinitRecovered, RecoveryStatus, StopOutcomes, Status
<1> QED
  BY <1>1, <1>2, <1>3, <1>4, <1>5, <1>6, <1>7, <1>8, <1>9, <1>10 DEF Poll

LEMMA TickType == ASSUME TypeOK, Tick PROVE TypeOK'
BY Facts, UnchangedHw
DEF Tick, TypeOK, DataTypeOK, ControlTypeOK, statics, control, Assumptions

LEMMA HardwareType == ASSUME TypeOK, Hardware PROVE TypeOK'
BY HwStepType, UnchangedData DEF Hardware, TypeOK, ControlTypeOK, control

-----------------------------------------------------------------------------
(* The inductive invariant.  DeinitFreesPending and the action properties do *)
(* not follow from TypeOK: they need to know which calls can be in progress  *)
(* in which function, and what an idle instance guarantees to the next call. *)

\* Only deinit's recovery runs for a call that is not a transfer.
CallShape ==
  pc # "idle" =>
    /\ ret = NoRet
    /\ \/ call \in Transfers
       \/ /\ call = Lifecycle("deinit")
          /\ fn = "recover_stale_pending"
    /\ fn = "recover_stale_pending" => pc \in {"stop_issue", "stop_wait"}

\* On while initialized, nothing pending while not.
LifecycleInv ==
  /\ initialized => "ON" \in CON1
  /\ ~initialized => pending_state = "NONE"
  /\ pc # "idle" => initialized

\* A call about to ask for a START has found nothing pending.
StartNotPending == pc = "start_issue" => pending_state = "NONE"

IInv == TypeOK /\ CallShape /\ LifecycleInv /\ StartNotPending /\ DeinitFreesPending

LEMMA InitInv == Init => IInv
<1> SUFFICES ASSUME Init PROVE IInv
  OBVIOUS
<1>1. 0 \in 0 .. Wrap - 1 /\ 0 \in 0 .. MaxLen
  BY Facts DEF Assumptions
<1>2. HwTypeOK
  BY DEF Init, HwInit, HwTypeOK
<1>3. DataTypeOK
  BY <1>1, Zenon DEF Init, DataTypeOK
<1>4. ControlTypeOK
  BY <1>1 DEF Init, ControlTypeOK, Pcs, Fns, Status
<1>5. CallShape /\ LifecycleInv /\ StartNotPending /\ DeinitFreesPending
  BY DEF Init, CallShape, LifecycleInv, StartNotPending, DeinitFreesPending, NoRet
<1> QED
  BY <1>2, <1>3, <1>4, <1>5 DEF IInv, TypeOK

LEMMA CallShapeInProgress == CallShape => CallInProgress
BY TransfersAreCalls, Facts
DEF CallShape, CallInProgress, Lifecycle, Call, Ops, Assumptions

\* What the hardware never does by itself.
LEMMA HwFrame ==
  ASSUME HwStep
  PROVE  /\ "ON" \in CON1' <=> "ON" \in CON1
         /\ "SEN" \in CON1' => "SEN" \in CON1
         /\ "RSEN" \in CON1' => "RSEN" \in CON1
         /\ "BCL" \in STAT1 => "BCL" \in STAT1'
BY DEF HwStep, HwServes, HwStartEvent, HwStartOwned, HwRestartEvent,
       HwRestartRetired, HwStopEvent, HwStopRetired, HwByteSent, HwByteReceived,
       HwAckSent, HwCollision, HwError, Requests

LEMMA BeginInv ==
  ASSUME IInv, NEW c, NEW p \in Pcs, NEW f \in Fns, Begin(c, p, f), initialized,
         \/ c \in Transfers /\ f # "recover_stale_pending"
         \/ /\ c \in Transfers \cup {Lifecycle("deinit")}
            /\ f = "recover_stale_pending"
            /\ p = "stop_issue",
         p = "start_issue" => pending_state = "NONE"
  PROVE  IInv'
<1>1. c \in Call
  BY TransfersAreCalls, Facts DEF Lifecycle, Call, Ops, Assumptions
<1>2. TypeOK'
  BY <1>1, BeginType DEF IInv
<1>3. CallShape'
  BY DEF Begin, CallShape, Lifecycle
<1>4. LifecycleInv' /\ StartNotPending'
  BY DEF Begin, IInv, LifecycleInv, StartNotPending, hw, statics
<1>5. DeinitFreesPending'
  BY DEF Begin, DeinitFreesPending, NoRet
<1> QED
  BY <1>2, <1>3, <1>4, <1>5 DEF IInv

LEMMA RefuseInv ==
  ASSUME IInv, pc = "idle", NEW op \in Ops, NEW s \in Status \ StopOutcomes,
         Refuse(op, s),
         op = "deinit" /\ s # "INVALID_ARG" => pending_state = "NONE"
  PROVE  IInv'
<1>1. TypeOK'
  BY RefuseType DEF IInv
<1>2. CallShape' /\ StartNotPending'
  BY DEF Refuse, Return, CallShape, StartNotPending
<1>3. LifecycleInv'
  BY DEF Refuse, Return, IInv, LifecycleInv, hw, statics
<1>4. DeinitFreesPending'
  BY DEF Refuse, Return, DeinitFreesPending, hw, statics
<1> QED
  BY <1>1, <1>2, <1>3, <1>4 DEF IInv

LEMMA ForceOffInv ==
  ASSUME IInv, NEW s \in Status, ForceOff(s)
  PROVE  IInv'
<1>1. TypeOK'
  BY ForceOffType DEF IInv
<1>2. CallShape' /\ StartNotPending'
  BY DEF ForceOff, Return, CallShape, StartNotPending
<1>3. LifecycleInv'
  BY DEF ForceOff, Return, LifecycleInv, pending_clear
<1>4. DeinitFreesPending'
  BY DEF ForceOff, HwOff, Return, DeinitFreesPending, pending_clear
<1> QED
  BY <1>1, <1>2, <1>3, <1>4 DEF IInv

LEMMA PublicCallInv == ASSUME IInv, PublicCall PROVE IInv'
<1> USE DEF Status, StopOutcomes
<1>1. CASE \E op \in Ops : RejectArguments(op) \/ RequireInitialized(op)
  BY <1>1, RefuseInv DEF RejectArguments, RequireInitialized, IInv, LifecycleInv
<1>2. CASE \E c \in Transfers : Transfer(c)
  <2>1. PICK c \in Transfers : Transfer(c)
    BY <1>2
  <2>2. c.op \in Ops /\ c.op # "deinit"
    BY <2>1 DEF Transfers, Call, Independent
  <2>3. CASE RecoverStalePending(c)
    BY <2>1, <2>3, BeginInv DEF RecoverStalePending, Pcs, Issues, Fns
  <2>4. CASE PendingBusy(c)
    BY <2>2, <2>4, RefuseInv DEF PendingBusy
  <2>5. CASE BeginIndependent(c)
    BY <2>1, <2>5, BeginInv DEF BeginIndependent, Pcs, Issues, Fns
  <2>6. CASE SequenceError(c)
    BY <2>2, <2>6, RefuseInv DEF SequenceError
  <2>7. CASE BeginPending(c)
    BY <2>1, <2>7, BeginInv DEF BeginPending, Pcs, Issues, Fns
  <2> QED
    BY <2>1, <2>3, <2>4, <2>5, <2>6, <2>7 DEF Transfer
<1>3. CASE \E cfg \in Configs : init(cfg)
  <2>1. TypeOK'
    BY <1>3, PublicCallType DEF IInv, PublicCall
  <2>2. CallShape' /\ StartNotPending' /\ DeinitFreesPending'
    BY <1>3 DEF init, Return, CallShape, StartNotPending, DeinitFreesPending
  <2>3. LifecycleInv'
    BY <1>3 DEF init, LifecycleInv
  <2> QED
    BY <2>1, <2>2, <2>3 DEF IInv
<1>4. CASE RecoverStalePending(Lifecycle("deinit"))
  BY <1>4, BeginInv DEF RecoverStalePending, Pcs, Issues, Fns
<1>5. CASE DeinitBusy
  BY <1>5, RefuseInv DEF DeinitBusy, Ops
<1>6. CASE SetBusSpeedBusy
  BY <1>6, RefuseInv DEF SetBusSpeedBusy, Ops
<1>7. CASE Deinit
  BY <1>7, ForceOffInv DEF Deinit
<1>8. CASE SetBusSpeed
  <2>1. TypeOK'
    BY <1>8, PublicCallType DEF IInv, PublicCall
  <2>2. CallShape' /\ StartNotPending' /\ DeinitFreesPending'
    BY <1>8 DEF SetBusSpeed, Return, CallShape, StartNotPending, DeinitFreesPending
  <2>3. LifecycleInv'
    BY <1>8 DEF SetBusSpeed, Return, IInv, LifecycleInv, statics
  <2> QED
    BY <2>1, <2>2, <2>3 DEF IInv
<1> QED
  BY <1>1, <1>2, <1>3, <1>4, <1>5, <1>6, <1>7, <1>8 DEF PublicCall

LEMMA IssueInv == ASSUME IInv, Issue PROVE IInv'
<1> USE DEF Issue, start_issue, restart_issue, stop_issue, write_byte_issue,
            read_byte_issue, ack_issue, Continue, Goto
<1>1. TypeOK'
  BY IssueType DEF IInv
<1>2. CallShape' /\ StartNotPending'
  BY DEF IInv, CallShape, StartNotPending
<1>3. LifecycleInv'
  BY DEF IInv, LifecycleInv, statics
<1>4. DeinitFreesPending'
  BY DEF IInv, CallShape, DeinitFreesPending, NoRet
<1> QED
  BY <1>1, <1>2, <1>3, <1>4 DEF IInv

LEMMA FailInv ==
  ASSUME IInv, NEW s \in Status, Fail(s), pc # "idle",
         fn = "recover_stale_pending" => pc = "stop_issue"
  PROVE  IInv'
<1>1. TypeOK'
  BY FailType DEF IInv
<1>2. CallShape' /\ StartNotPending'
  BY DEF IInv, Fail, Goto, CallShape, StartNotPending
<1>3. LifecycleInv'
  BY DEF IInv, Fail, Goto, LifecycleInv, hw, statics
<1>4. DeinitFreesPending'
  BY DEF IInv, Fail, Goto, CallShape, DeinitFreesPending, NoRet
<1> QED
  BY <1>1, <1>2, <1>3, <1>4 DEF IInv

\* Continuing a call in progress at another primitive of the same function.
LEMMA StepInv ==
  ASSUME IInv, TypeOK', NEW p \in Pcs \ {"start_issue"}, NEW f \in Fns, NEW n,
         Goto(p, f, n), UNCHANGED <<hw, initialized>>,
         pc # "idle", fn # "recover_stale_pending", f # "recover_stale_pending"
  PROVE  IInv'
<1>1. CallShape' /\ StartNotPending'
  BY DEF IInv, Goto, CallShape, StartNotPending
<1>2. LifecycleInv'
  BY DEF IInv, Goto, LifecycleInv, hw
<1>3. DeinitFreesPending'
  BY DEF IInv, Goto, CallShape, DeinitFreesPending, NoRet
<1> QED
  BY <1>1, <1>2, <1>3 DEF IInv

\* A transfer that returns, whatever it makes of the pending state.
LEMMA FinishInv ==
  ASSUME IInv, TypeOK', NEW s, Return(call.op, s), UNCHANGED <<hw, initialized>>,
         pc # "idle", call \in Transfers
  PROVE  IInv'
<1>1. CallShape' /\ StartNotPending'
  BY DEF Return, CallShape, StartNotPending
<1>2. LifecycleInv'
  BY DEF IInv, Return, LifecycleInv, hw
<1>3. DeinitFreesPending'
  BY DEF Return, DeinitFreesPending, Transfers, Independent
<1> QED
  BY <1>1, <1>2, <1>3 DEF IInv

LEMMA PollInv == ASSUME IInv, Poll PROVE IInv'
<1> USE DEF Issues, Waits
<1>1. TypeOK'
  BY PollType, CallShapeInProgress DEF IInv
<1>2. CASE WaitFails
  BY <1>2, FailInv DEF WaitFails, Status, IInv, CallShape
<1>3. CASE WaitSucceeds
  <2>1. NextPrimitive(pc) \in Pcs \ {"start_issue"}
    BY <1>3 DEF WaitSucceeds, NextPrimitive, Pcs
  <2>2. fn \in Fns /\ fn # "recover_stale_pending"
    BY <1>3 DEF WaitSucceeds, IInv, CallShape, TypeOK, ControlTypeOK
  <2> QED
    BY <1>1, <1>3, <2>1, <2>2, StepInv DEF WaitSucceeds, Continue, statics
<1>4. CASE ByteNacked
  BY <1>4, FailInv DEF ByteNacked, Status, IInv, CallShape
<1>5. CASE WriteNextByte
  BY <1>1, <1>5, StepInv DEF WriteNextByte, ByteAcked, statics, Pcs, Fns
<1>6. CASE WritePhaseDone
  <2>1. CASE Return(call.op, "OK")
    BY <1>1, <1>6, <2>1, FinishInv DEF WritePhaseDone, ByteAcked, IInv, CallShape
  <2>2. CASE Goto("stop_issue", "stop_pending_sequence", 0)
    BY <1>1, <1>6, <2>2, StepInv DEF WritePhaseDone, ByteAcked, Pcs, Fns
  <2>3. CASE Goto("restart_issue", "read_after_restart_sequence", 0)
    BY <1>1, <1>6, <2>3, StepInv DEF WritePhaseDone, ByteAcked, Pcs, Fns
  <2> QED
    BY <1>6, <2>1, <2>2, <2>3 DEF WritePhaseDone
<1>7. CASE ReadAddressed
  BY <1>1, <1>7, StepInv DEF ReadAddressed, ByteAcked, statics, Pcs, Fns
<1>8. CASE ReadNextByte
  BY <1>1, <1>8, StepInv
  DEF ReadNextByte, statics, Pcs, IInv, CallShape, TypeOK, ControlTypeOK
<1>9. CASE ReadPhaseDone
  <2>1. fn # "recover_stale_pending"
    BY <1>9 DEF ReadPhaseDone, IInv, CallShape
  <2> QED
    BY <1>1, <1>9, <2>1, StepInv DEF ReadPhaseDone, statics, Pcs, Fns
<1>10. CASE \E stop \in StopOutcomes :
             \/ QuietStop(stop) \/ StopPending(stop) \/ AbortPending(stop)
             \/ Recovered(stop)
  <2>1. PICK stop \in StopOutcomes :
             \/ QuietStop(stop) \/ StopPending(stop) \/ AbortPending(stop)
             \/ Recovered(stop)
    BY <1>10
  <2>2. pc # "idle" /\ call \in Transfers
    BY <2>1
    DEF QuietStop, StopPending, AbortPending, Recovered, StopWait, IInv, CallShape, Lifecycle
  <2>3. \E s : Finish(s)
    BY <2>1 DEF QuietStop, StopPending, AbortPending, Recovered
  <2> QED
    BY <1>1, <2>2, <2>3, FinishInv DEF Finish
<1>11. CASE \E stop \in StopOutcomes : DeinitRecovered(stop)
  BY <1>11, ForceOffInv DEF DeinitRecovered, RecoveryStatus, StopOutcomes, Status
<1> QED
  BY <1>2, <1>3, <1>4, <1>5, <1>6, <1>7, <1>8, <1>9, <1>10, <1>11 DEF Poll

LEMMA NextInv == IInv /\ [Next]_vars => IInv'
<1> SUFFICES ASSUME IInv, [Next]_vars PROVE IInv'
  OBVIOUS
<1>1. CASE PublicCall \/ Engine
  BY <1>1, PublicCallInv, IssueInv, PollInv DEF Engine
<1>2. CASE Hardware
  <2>1. TypeOK'
    BY <1>2, HardwareType DEF IInv
  <2>2. CallShape' /\ StartNotPending'
    BY <1>2 DEF Hardware, IInv, CallShape, StartNotPending, control, statics
  <2>3. LifecycleInv'
    BY <1>2, HwFrame DEF Hardware, IInv, LifecycleInv, control, statics
  <2>4. DeinitFreesPending'
    BY <1>2, HwFrame DEF Hardware, IInv, DeinitFreesPending, control, statics
  <2> QED
    BY <2>1, <2>2, <2>3, <2>4 DEF IInv
<1>3. CASE Tick \/ UNCHANGED vars
  <2>1. TypeOK'
    BY <1>3, TickType, UnchangedData, UnchangedHw
    DEF IInv, vars, TypeOK, ControlTypeOK, control
  <2>2. UNCHANGED <<hw, statics, control>>
    BY <1>3 DEF Tick, vars
  <2>3. CallShape' /\ StartNotPending'
    BY <2>2 DEF IInv, CallShape, StartNotPending, control, statics
  <2>4. LifecycleInv' /\ DeinitFreesPending'
    BY <2>2 DEF IInv, LifecycleInv, DeinitFreesPending, control, statics, hw
  <2> QED
    BY <2>1, <2>3, <2>4 DEF IInv
<1> QED
  BY <1>1, <1>2, <1>3 DEF Next

\* In every reachable state the inductive invariant holds.
THEOREM Invariance == Spec => []IInv
BY InitInv, NextInv, PTL DEF Spec

\* Every variable of the engine and every register keeps its type; above all
\* the byte counter stays within the lengths of the call.
THEOREM TypeCorrect == Spec => []TypeOK
<1>1. IInv => TypeOK
  BY DEF IInv
<1> QED
  BY <1>1, Invariance, PTL

\* The engine runs only on an initialized module that is on.
THEOREM RunsInitialized == Spec => []EngineRunsInitialized
<1>1. IInv => EngineRunsInitialized
  BY DEF IInv, LifecycleInv, EngineRunsInitialized
<1> QED
  BY <1>1, Invariance, PTL

\* deinit leaves nothing pending and, unless it refused, the module off.
THEOREM DeinitFrees == Spec => []DeinitFreesPending
<1>1. IInv => DeinitFreesPending
  BY DEF IInv
<1> QED
  BY <1>1, Invariance, PTL

-----------------------------------------------------------------------------
(* Action properties.                                                       *)

Reset == (\E s \in Status : ForceOff(s)) \/ (\E cfg \in Configs : init(cfg))

LEMMA ResetReturns == ASSUME Reset PROVE ret'.op \in {"init", "deinit"}
BY DEF Reset, ForceOff, init, Return

\* A wait for STOP that ends well has seen the STOP retired and no collision.
LEMMA StopSucceeds ==
  ASSUME pc = "stop_wait", wait_until = "OK"
  PROVE  stop_fully_done /\ "BCL" \notin STAT1
BY DEF wait_until, done_fn, has_collision, timeout_expired

\* The registers change only by an issue, the hardware, a reset or a speed change.
LEMMA RegistersKept ==
  ASSUME Next
  PROVE  \/ UNCHANGED hw
         \/ Issue \/ HwStep \/ Reset \/ SetBusSpeed
<1>1. CASE PublicCall
  BY <1>1
  DEF PublicCall, Refuse, Begin, Reset, RejectArguments, RequireInitialized, Transfer,
      RecoverStalePending, PendingBusy, BeginIndependent, SequenceError, BeginPending,
      DeinitBusy, SetBusSpeedBusy, Deinit, Status
<1>2. CASE Poll
  <2>1. CASE \E stop \in StopOutcomes : DeinitRecovered(stop)
    BY <2>1 DEF DeinitRecovered, RecoveryStatus, StopOutcomes, Status, Reset
  <2> QED
    BY <1>2, <2>1
    DEF Poll, WaitFails, Fail, WaitSucceeds, ByteNacked, WriteNextByte, WritePhaseDone,
        ReadAddressed, ReadNextByte, ReadPhaseDone, QuietStop, StopPending, AbortPending,
        Recovered, Finish
<1> QED
  BY <1>1, <1>2 DEF Next, Engine, Hardware, Tick

\* What ends a pending transaction.
LEMMA PendingEnds ==
  ASSUME Next, pending_state # "NONE", pending_state' = "NONE"
  PROVE  \/ stop_fully_done /\ "BCL" \notin STAT1
         \/ Reset
<1>1. CASE PublicCall
  BY <1>1
  DEF PublicCall, Refuse, Begin, Reset, RejectArguments, RequireInitialized, Transfer,
      RecoverStalePending, PendingBusy, BeginIndependent, SequenceError, BeginPending,
      DeinitBusy, SetBusSpeedBusy, SetBusSpeed, Deinit, Status, statics
<1>2. CASE Poll
  <2>1. CASE \E stop \in StopOutcomes : DeinitRecovered(stop)
    BY <2>1 DEF DeinitRecovered, RecoveryStatus, StopOutcomes, Status, Reset
  <2>2. CASE \E stop \in StopOutcomes :
               \/ QuietStop(stop) \/ StopPending(stop) \/ AbortPending(stop)
               \/ Recovered(stop)
    BY <2>2, StopSucceeds
    DEF QuietStop, StopPending, AbortPending, Recovered, StopWait, pending_kept
  <2> QED
    BY <1>2, <2>1, <2>2
    DEF Poll, WaitFails, Fail, WaitSucceeds, ByteNacked, WriteNextByte, WritePhaseDone,
        ReadAddressed, ReadNextByte, ReadPhaseDone, pending_set, statics
<1>3. CASE Issue
  BY <1>3
  DEF Issue, start_issue, restart_issue, stop_issue, write_byte_issue, read_byte_issue,
      ack_issue, statics
<1> QED
  BY <1>1, <1>2, <1>3 DEF Next, Engine, Hardware, Tick, statics

\* No START is asked for while a transaction is pending.
THEOREM PendingBlocks == Spec => PendingBlocksNewTransfer
<1>1. ASSUME IInv, Next, "SEN" \notin CON1, "SEN" \in CON1'
      PROVE  pending_state = "NONE"
  <2>1. CASE Issue
    BY <1>1, <2>1
    DEF Issue, start_issue, restart_issue, stop_issue, write_byte_issue,
        read_byte_issue, ack_issue, IInv, StartNotPending
  <2>2. CASE Reset
    BY <1>1, <2>2 DEF Reset, ForceOff, HwOff, init
  <2> QED
    BY <1>1, <2>1, <2>2, RegistersKept, HwFrame DEF SetBusSpeed, hw
<1>2. IInv /\ [Next]_vars
      => [ "SEN" \notin CON1 /\ "SEN" \in CON1' => pending_state = "NONE" ]_vars
  BY <1>1
<1> QED
  BY <1>2, Invariance, PTL DEF Spec, PendingBlocksNewTransfer

\* A pending transaction ends by a retired STOP or by a reset.
THEOREM PendingEndsByStop == Spec => StopBeforeClear
<1>1. ASSUME Next, pending_state # "NONE", pending_state' = "NONE"
      PROVE  stop_fully_done \/ ret'.op \in {"init", "deinit"}
  BY <1>1, PendingEnds, ResetReturns
<1>2. [Next]_vars
      => [ pending_state # "NONE" /\ pending_state' = "NONE"
           => \/ stop_fully_done
              \/ ret'.op \in {"init", "deinit"} ]_vars
  BY <1>1
<1> QED
  BY <1>2, PTL DEF Spec, StopBeforeClear

\* Nothing but a reset ends a pending transaction that has lost arbitration.
THEOREM LostArbitration == Spec => LostArbitrationNeedsReset
<1>1. ASSUME IInv, Next, pending_state # "NONE", "BCL" \in STAT1
      PROVE  \/ pending_state' # "NONE" /\ "BCL" \in STAT1'
             \/ ret'.op \in {"init", "deinit"}
  <2>1. CASE Reset
    BY <2>1, ResetReturns
  <2>2. CASE ~Reset
    <3>1. pending_state' # "NONE"
      BY <1>1, <2>2, PendingEnds
    <3>2. CASE Issue
      BY <1>1, <3>1, <3>2
      DEF Issue, start_issue, restart_issue, stop_issue, write_byte_issue, HwWriteTRN,
          read_byte_issue, ack_issue, IInv, StartNotPending
    <3>3. CASE SetBusSpeed
      BY <1>1, <3>3 DEF SetBusSpeed
    <3> QED
      BY <1>1, <2>2, <3>1, <3>2, <3>3, RegistersKept, HwFrame DEF hw
  <2> QED
    BY <2>1, <2>2
<1>2. IInv /\ [Next]_vars
      => [ pending_state # "NONE" /\ "BCL" \in STAT1
           => \/ pending_state' # "NONE" /\ "BCL" \in STAT1'
              \/ ret'.op \in {"init", "deinit"} ]_vars
  BY <1>1
<1> QED
  BY <1>2, Invariance, PTL DEF Spec, LostArbitrationNeedsReset

=============================================================================
