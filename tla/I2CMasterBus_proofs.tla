------------------------- MODULE I2CMasterBus_proofs -------------------------
(***************************************************************************)
(* What a status of the master engine says of the bus.  First on a bus     *)
(* where anything may fail, then on one where no wait ends early.          *)
(***************************************************************************)
EXTENDS I2CMasterSession_proofs

-----------------------------------------------------------------------------
(* A bus where anything may fail.  The wait for START can end before the    *)
(* START is over, so SEN may outlive it; a byte written meanwhile collides, *)
(* which is why a sequence that gets past its first byte without a          *)
(* collision has no START left to make.                                     *)

\* The sequence is past its first byte, or a pending one was.
PastFirstByte ==
  \/ pending_state # "NONE"
  \/ pc \in {"byte_done", "byte_accepted"} \/ Reading
  \/ fn = "read" /\ AtStop /\ st = "OK"

NoStartLeft == PastFirstByte /\ ~has_collision => "SEN" \notin CON1

\* How far a STOP has come while it is waited for.
StopProgress ==
  pc = "stop_wait" /\ PastFirstByte /\ ~has_collision =>
    /\ "STOPE" \in STAT2 => "RCEN" \notin CON1 /\ "ACKEN" \notin CON1
    /\ "PEN" \notin CON1 => "STOPE" \in STAT2 /\ "RSEN" \notin CON1 /\ ~host_active

\* DiagnosisAfterCleanStop needs SEN, too: the hardware would take the bus again.
CleanAfterNack ==
  ret = [op |-> "read_after_restart", st |-> "NACK"]
  => /\ pending_state = "NONE"
     /\ "PEN" \notin CON1 /\ "SEN" \notin CON1 /\ ~host_active

BusInv == NoStartLeft /\ StopProgress /\ OkReleasesBus /\ CleanAfterNack

\* A collision stays recorded, and a host without work stays without.
LEMMA HwKeeps ==
  ASSUME HwStep
  PROVE  /\ has_collision => has_collision'
         /\ ~HostWorking => ~HostWorking'
         /\ "SEN" \notin CON1 /\ ~host_active => ~host_active'
         /\ "PEN" \in CON1' => "PEN" \in CON1
BY DEF HwStep, HwServes, HwStartEvent, HwStartOwned, HwRestartEvent, HwRestartRetired,
       HwStopEvent, HwStopRetired, HwByteSent, HwByteReceived, HwAckSent, HwCollision, HwError,
       HostWorking, has_collision, host_active, Requests

\* A START is made or dropped, never asked for, by the hardware; STOP goes on.
LEMMA HwStopGoesOn ==
  ASSUME HwStep, "SEN" \notin CON1, ~has_collision',
         "STOPE" \in STAT2 => "RCEN" \notin CON1 /\ "ACKEN" \notin CON1,
         "PEN" \notin CON1 => "STOPE" \in STAT2 /\ "RSEN" \notin CON1 /\ ~host_active
  PROVE  /\ "STOPE" \in STAT2' => "RCEN" \notin CON1' /\ "ACKEN" \notin CON1'
         /\ "PEN" \notin CON1' => "STOPE" \in STAT2' /\ "RSEN" \notin CON1' /\ ~host_active'
BY DEF HwStep, HwServes, HwStartEvent, HwStartOwned, HwRestartEvent, HwRestartRetired,
       HwStopEvent, HwStopRetired, HwByteSent, HwByteReceived, HwAckSent, HwCollision, HwError,
       has_collision, host_active, Requests

LEMMA InitBus == Init => BusInv
BY DEF Init, HwInit, NoRet, BusInv, NoStartLeft, StopProgress, OkReleasesBus, CleanAfterNack,
       PastFirstByte, AtStop, Reading

\* A call that returns without an OK of a transfer, or the NACK of a read, says
\* nothing of the bus.
LEMMA SilentReturn ==
  ASSUME BusInv, SInv, NEW op, NEW s, Return(op, s), UNCHANGED <<hw, pending_state>>,
         s = "OK" => op \in {"write_no_stop", "set_bus_speed"},
         s # "NACK" \/ op # "read_after_restart",
         PastFirstByte' => PastFirstByte
  PROVE  BusInv'
<1>1. NoStartLeft'
  BY DEF BusInv, NoStartLeft, Return, hw, has_collision
<1>2. StopProgress'
  BY DEF Return, StopProgress
<1>3. OkReleasesBus' /\ CleanAfterNack'
  BY DEF Return, OkReleasesBus, CleanAfterNack
<1> QED
  BY <1>1, <1>2, <1>3 DEF BusInv

\* After a reset nothing is asked of the hardware.
LEMMA ResetBus ==
  ASSUME NEW op \in {"init", "deinit"}, NEW s, Return(op, s), pending_clear
  PROVE  BusInv'
BY DEF Return, pending_clear, BusInv, NoStartLeft, StopProgress, OkReleasesBus,
       CleanAfterNack, PastFirstByte, AtStop, Reading

LEMMA BeginBus ==
  ASSUME SInv, BusInv, pc = "idle", NEW c, NEW f, NEW p \in Issues \ {"read_issue", "ack_issue"},
         f = "read" => p = "start_issue",
         Begin(c, p, f)
  PROVE  BusInv'
<1>1. PastFirstByte' => PastFirstByte
  BY DEF Begin, statics, PastFirstByte, AtStop, Reading, Issues
<1>2. NoStartLeft'
  BY <1>1 DEF Begin, hw, has_collision, BusInv, NoStartLeft
<1>3. StopProgress'
  BY DEF Begin, StopProgress, Issues
<1>4. OkReleasesBus' /\ CleanAfterNack'
  BY DEF Begin, OkReleasesBus, CleanAfterNack, NoRet
<1> QED
  BY <1>2, <1>3, <1>4 DEF BusInv

LEMMA RefuseBus ==
  ASSUME SInv, BusInv, pc = "idle", NEW op, NEW s \in Status \ (StopOutcomes \cup {"NACK"}),
         Refuse(op, s)
  PROVE  BusInv'
<1>1. PastFirstByte' => PastFirstByte
  BY DEF Refuse, Return, statics, PastFirstByte, AtStop, Reading
<1> QED
  BY <1>1, SilentReturn DEF Refuse, statics, StopOutcomes

LEMMA PublicCallBus == ASSUME SInv, BusInv, PublicCall PROVE BusInv'
<1>1. CASE \E op \in Ops : RejectArguments(op) \/ RequireInitialized(op)
  BY <1>1, RefuseBus DEF RejectArguments, RequireInitialized, Status, StopOutcomes
<1>2. CASE \E c \in Transfers : Transfer(c)
  <2>1. PICK c \in Transfers : Transfer(c)
    BY <1>2
  <2>2. CASE PendingBusy(c) \/ SequenceError(c)
    BY <2>2, RefuseBus DEF PendingBusy, SequenceError, Status, StopOutcomes
  <2>3. CASE RecoverStalePending(c)
    BY <2>3, BeginBus DEF RecoverStalePending, Issues
  <2>4. CASE BeginIndependent(c)
    BY <2>4, BeginBus DEF BeginIndependent, Issues
  <2>5. CASE BeginPending(c)
    BY <2>5, BeginBus DEF BeginPending, Issues
  <2> QED
    BY <2>1, <2>2, <2>3, <2>4, <2>5 DEF Transfer
<1>3. CASE \E cfg \in Configs : init(cfg)
  BY <1>3, ResetBus DEF init
<1>4. CASE RecoverStalePending(Lifecycle("deinit"))
  BY <1>4, BeginBus DEF RecoverStalePending, Issues
<1>5. CASE DeinitBusy \/ SetBusSpeedBusy
  BY <1>5, RefuseBus DEF DeinitBusy, SetBusSpeedBusy, Status, StopOutcomes
<1>6. CASE Deinit
  BY <1>6, ResetBus DEF Deinit, ForceOff
<1>7. CASE SetBusSpeed
  BY <1>7
  DEF SetBusSpeed, Return, statics, BusInv, NoStartLeft, StopProgress, OkReleasesBus,
      CleanAfterNack, PastFirstByte, AtStop, Reading
<1> QED
  BY <1>1, <1>2, <1>3, <1>4, <1>5, <1>6, <1>7 DEF PublicCall

\* Within a call nothing has been returned that could say anything.
LEMMA WithinCall ==
  ASSUME ret' = NoRet
  PROVE  OkReleasesBus' /\ CleanAfterNack'
BY DEF NoRet, OkReleasesBus, CleanAfterNack

LEMMA IssueBus == ASSUME SInv, BusInv, Issue PROVE BusInv'
<1> USE DEF Continue, Goto
<1>1. OkReleasesBus' /\ CleanAfterNack'
  BY WithinCall
  DEF Issue, start_issue, restart_issue, stop_issue, write_byte_issue, read_byte_issue,
      ack_issue, SInv, IInv, CallShape
<1>2. NoStartLeft'
  <2>1. CASE start_issue
    BY <2>1 DEF start_issue, statics, SInv, IInv, StartNotPending, NoStartLeft, PastFirstByte,
                AtStop, Reading
  <2>2. CASE write_byte_issue
    BY <2>2 DEF write_byte_issue, HwWriteTRN, has_collision, NoStartLeft, Requests
  <2>3. CASE restart_issue \/ stop_issue \/ read_byte_issue \/ ack_issue
    BY <2>3
    DEF restart_issue, stop_issue, read_byte_issue, ack_issue, statics, has_collision, BusInv,
        NoStartLeft, PastFirstByte, AtStop, Reading
  <2> QED
    BY <2>1, <2>2, <2>3 DEF Issue
<1>3. StopProgress'
  BY DEF Issue, start_issue, restart_issue, stop_issue, write_byte_issue, read_byte_issue,
         ack_issue, StopProgress
<1> QED
  BY <1>1, <1>2, <1>3 DEF BusInv

\* A poll that goes on leaves the registers alone.
LEMMA GotoBus ==
  ASSUME SInv, BusInv, pc # "idle", NEW p \in Pcs \ {"stop_wait"}, NEW f, NEW k, Goto(p, f, k),
         UNCHANGED hw,
         PastFirstByte' /\ ~has_collision => PastFirstByte
  PROVE  BusInv'
<1>1. NoStartLeft'
  BY DEF hw, has_collision, BusInv, NoStartLeft
<1>2. StopProgress'
  BY DEF Goto, StopProgress
<1>3. OkReleasesBus' /\ CleanAfterNack'
  BY WithinCall DEF Goto, SInv, IInv, CallShape
<1> QED
  BY <1>1, <1>2, <1>3 DEF BusInv

\* The STOP of a sequence past its first byte has retired: the bus is free.
LEMMA StopReleases ==
  ASSUME BusInv, pc = "stop_wait", wait_until = "OK", PastFirstByte
  PROVE  ~HostWorking /\ "SEN" \notin CON1 /\ "PEN" \notin CON1 /\ ~host_active
<1>1. ~has_collision /\ stop_fully_done
  BY DEF wait_until, done_fn, timeout_expired
<1> QED
  BY <1>1 DEF BusInv, NoStartLeft, StopProgress, stop_fully_done, HostWorking, host_active,
              Requests

LEMMA StopBus ==
  ASSUME SInv, BusInv, NEW stop \in StopOutcomes,
         QuietStop(stop) \/ StopPending(stop) \/ AbortPending(stop) \/ Recovered(stop)
  PROVE  BusInv'
<1>1. /\ pc = "stop_wait" /\ wait_until = stop /\ UNCHANGED hw
      /\ pending_state' \in {pending_state, "NONE"}
      /\ \E s : Return(call.op, s)
  BY DEF QuietStop, StopPending, AbortPending, Recovered, StopWait, Finish, pending_kept,
         pending_clear
<1>2. NoStartLeft'
  BY <1>1 DEF Return, hw, has_collision, BusInv, NoStartLeft, PastFirstByte, AtStop, Reading
<1>3. StopProgress'
  BY <1>1 DEF Return, StopProgress
<1>4. OkReleasesBus'
  <2>1. SUFFICES ASSUME ret'.st = "OK", ret'.op # "write_no_stop"
                 PROVE  pending_state' = "NONE" /\ ~HostWorking'
    BY DEF OkReleasesBus
  <2>2. /\ wait_until = "OK" /\ PastFirstByte /\ pending_state' = "NONE"
    BY <1>1, <2>1
    DEF QuietStop, StopPending, AbortPending, Recovered, RecoveryStatus, StopWait, Finish,
        Return, pending_kept, pending_clear, SInv, SequenceShape, PastFirstByte, AtStop
  <2> QED
    BY <1>1, <2>2, StopReleases DEF hw, HostWorking
<1>5. CleanAfterNack'
  <2>1. SUFFICES ASSUME ret'.st = "NACK", ret'.op = "read_after_restart"
                 PROVE  /\ pending_state' = "NONE"
                        /\ "PEN" \notin CON1' /\ "SEN" \notin CON1' /\ ~host_active'
    BY DEF CleanAfterNack
  <2>2. /\ wait_until = "OK" /\ PastFirstByte /\ pending_state' = "NONE"
    BY <1>1, <2>1
    DEF QuietStop, StopPending, AbortPending, Recovered, RecoveryStatus, StopWait, Finish,
        Return, pending_kept, pending_clear, SInv, SequenceShape, PastFirstByte, AtStop,
        StopOutcomes, WriteOps
  <2> QED
    BY <1>1, <2>2, StopReleases DEF hw, host_active
<1> QED
  BY <1>2, <1>3, <1>4, <1>5 DEF BusInv

LEMMA PollBus == ASSUME SInv, BusInv, Poll PROVE BusInv'
<1> USE DEF PastFirstByte, AtStop, Reading, Goto, SInv, SequenceShape
<1>1. CASE WaitFails \/ ByteNacked
  BY <1>1, GotoBus DEF WaitFails, Waits, ByteNacked, Fail, statics, Pcs, Issues
<1>2. CASE WaitSucceeds
  BY <1>2, GotoBus DEF WaitSucceeds, Waits, NextPrimitive, Continue, statics, Pcs, Issues
<1>3. CASE WriteNextByte \/ ReadAddressed \/ ReadNextByte \/ ReadPhaseDone
  BY <1>3, GotoBus
  DEF WriteNextByte, ReadAddressed, ReadNextByte, ReadPhaseDone, ByteAcked, statics, Pcs,
      Issues, Waits
<1>4. CASE WritePhaseDone
  <2>1. CASE Return(call.op, "OK")
    <3>1. UNCHANGED hw /\ PastFirstByte /\ call.op = "write_no_stop"
      BY <1>4, <2>1 DEF WritePhaseDone, ByteAcked, Return
    <3> QED
      BY <2>1, <3>1
      DEF Return, hw, has_collision, BusInv, NoStartLeft, StopProgress, OkReleasesBus,
          CleanAfterNack
  <2>2. CASE ~Return(call.op, "OK")
    BY <1>4, <2>2, GotoBus DEF WritePhaseDone, ByteAcked, Pcs, Issues
  <2> QED
    BY <2>1, <2>2
<1>5. CASE \E stop \in StopOutcomes :
             QuietStop(stop) \/ StopPending(stop) \/ AbortPending(stop) \/ Recovered(stop)
  BY <1>5, StopBus
<1>6. CASE \E stop \in StopOutcomes : DeinitRecovered(stop)
  BY <1>6, ResetBus DEF DeinitRecovered, ForceOff
<1> QED
  BY <1>1, <1>2, <1>3, <1>4, <1>5, <1>6 DEF Poll

LEMMA HardwareBus == ASSUME SInv, BusInv, Hardware PROVE BusInv'
<1> USE DEF Hardware, control, statics, BusInv
<1>1. PastFirstByte' <=> PastFirstByte
  BY DEF PastFirstByte, AtStop, Reading
<1>2. NoStartLeft'
  BY <1>1, HwFrame, HwKeeps DEF NoStartLeft
<1>3. StopProgress'
  BY <1>1, HwKeeps, HwStopGoesOn DEF NoStartLeft, StopProgress
<1>4. OkReleasesBus'
  BY HwKeeps DEF OkReleasesBus
<1>5. CleanAfterNack'
  BY HwFrame, HwKeeps DEF CleanAfterNack
<1> QED
  BY <1>2, <1>3, <1>4, <1>5

LEMMA NextBus == (SInv /\ BusInv) /\ [Next]_vars => (SInv /\ BusInv)'
<1> SUFFICES ASSUME SInv, BusInv, [Next]_vars PROVE BusInv'
  BY NextShape
<1>1. CASE PublicCall \/ Issue \/ Poll
  BY <1>1, PublicCallBus, IssueBus, PollBus
<1>2. CASE Hardware
  BY <1>2, HardwareBus
<1>3. CASE Tick \/ UNCHANGED vars
  BY <1>3
  DEF Tick, vars, hw, control, statics, BusInv, NoStartLeft, StopProgress, OkReleasesBus,
      CleanAfterNack, PastFirstByte, AtStop, Reading, HostWorking, has_collision, host_active
<1> QED
  BY <1>1, <1>2, <1>3 DEF Next, Engine

LEMMA BusInvariance == Spec => [](SInv /\ BusInv)
<1>1. Init => SInv /\ BusInv
  BY InitInv, InitShape, InitBus DEF SInv
<1> QED
  BY <1>1, NextBus, PTL DEF Spec

\* A transfer that made its STOP and reports OK has released the bus: nothing
\* is pending, nothing asked of the hardware and the host idle.
THEOREM OkReleases == Spec => []OkReleasesBus
<1>1. BusInv => OkReleasesBus
  BY DEF BusInv
<1> QED
  BY <1>1, BusInvariance, PTL

\* A NACK from read_after_restart is reported only over a bus the STOP freed:
\* abort_pending_sequence has the status of a STOP that failed win over it.
THEOREM DiagnosisIsSafe == Spec => []DiagnosisAfterCleanStop
<1>1. BusInv => DiagnosisAfterCleanStop
  BY DEF BusInv, CleanAfterNack, DiagnosisAfterCleanStop
<1> QED
  BY <1>1, BusInvariance, PTL

-----------------------------------------------------------------------------
(* A bus on which no wait ends early: the targets may refuse a byte but     *)
(* nothing else goes wrong, and no configuration limits a transfer.         *)

Undisturbed ==
  /\ BusFaults \subseteq {"nack"}
  /\ \A c \in Configs : c.get_ms => c.timeout_ms = 0

OnlyAsked(R) == CON1 \cap Requests \subseteq R

Free  == OnlyAsked({}) /\ ~host_active /\ "S" \notin STAT1
Owned == OnlyAsked({}) /\ host_active /\ "S" \in STAT1

\* The START is on its way; its event flags come before the bus is owned.
Starting ==
  /\ OnlyAsked({"SEN"}) /\ ~host_active
  /\ "S" \in STAT1 <=> "STARTE" \in STAT2

\* What the engine may rely on at each primitive: it asks for one thing at a
\* time, and only of a host that can do it.
BusPhase ==
  /\ pc = "idle" /\ pending_state = "NONE" => Free
  /\ pc = "idle" /\ pending_state # "NONE" => Owned
  /\ pc = "start_issue" => Free
  /\ pc = "start_wait" => Starting \/ Owned
  /\ pc \in {"byte_ready", "byte_host"} => Owned \/ (Starting /\ "S" \in STAT1)
  /\ pc \in {"restart_issue", "byte_issue", "byte_done", "byte_accepted", "read_issue",
             "ack_issue", "stop_issue"} => Owned
  /\ pc = "restart_wait" => OnlyAsked({"RSEN"}) /\ host_active /\ "S" \in STAT1
  /\ pc = "read_wait" =>
       /\ OnlyAsked({"RCEN"}) /\ host_active /\ "S" \in STAT1
       /\ "RBF" \in STAT1 => "RCEN" \notin CON1
  /\ pc = "ack_wait" => OnlyAsked({"ACKEN"}) /\ host_active /\ "S" \in STAT1
  /\ pc = "stop_wait" =>
       /\ OnlyAsked({"PEN"})
       /\ "PEN" \in CON1 /\ "STOPE" \in STAT2 => "S" \notin STAT1
       /\ "PEN" \notin CON1 => Free

\* Bytes under way: one to be sent only while it is waited for, one received
\* only until it is read; the last one received is answered with a NACK.
BytePhase ==
  /\ write_byte_busy => pc = "byte_done"
  /\ "RBF" \in STAT1 => pc \in {"read_wait", "ack_issue"}
  /\ pc = "ack_wait" /\ last_byte => "ACKDT" \in CON1
  /\ /\ pc = "stop_issue"
     /\ \/ fn = "read" /\ st = "OK"
        \/ fn = "stop_pending_sequence" /\ call.op \in ReadOps
     => "ACKDT" \in CON1

NoFault == ~has_collision /\ ~has_error

QuietInv == NoFault /\ BusPhase /\ BytePhase

\* No wait fails, and one that ends has seen what it waited for.
LEMMA WaitsSucceed ==
  ASSUME Undisturbed, TypeOK, NoFault
  PROVE  /\ wait_until \in {"OK", "AGAIN"}
         /\ wait_until = "OK" => done_fn
<1>1. ~timeout_enabled
  BY DEF TypeOK, DataTypeOK, Undisturbed, timeout_enabled, ZeroConfig
<1> QED
  BY <1>1 DEF NoFault, wait_until, timeout_expired

LEMMA InitQuiet == Init => QuietInv
BY DEF Init, HwInit, QuietInv, NoFault, BusPhase, BytePhase, Free, OnlyAsked, host_active,
       has_collision, has_error, write_byte_busy

\* A call begins, or is refused, on a bus it leaves as it is.
LEMMA SameBus ==
  ASSUME SInv, QuietInv, pc = "idle", UNCHANGED <<hw, pending_state>>,
         pc' \in {"idle", "start_issue", "restart_issue", "stop_issue"},
         pc' = "start_issue" => pending_state = "NONE",
         pc' \in {"restart_issue", "stop_issue"} => pending_state # "NONE",
         pc' = "stop_issue" =>
           fn' # "read" /\ (fn' = "stop_pending_sequence" => call'.op \notin ReadOps)
  PROVE  QuietInv'
<1> USE DEF hw, QuietInv
<1>1. NoFault'
  BY DEF NoFault, has_collision, has_error
<1>2. BusPhase'
  BY DEF BusPhase, Free, Owned, OnlyAsked, host_active
<1>3. BytePhase'
  BY DEF BytePhase, write_byte_busy
<1> QED
  BY <1>1, <1>2, <1>3

LEMMA RefuseQuiet ==
  ASSUME SInv, QuietInv, pc = "idle", NEW op, NEW s, Refuse(op, s)
  PROVE  QuietInv'
BY SameBus DEF Refuse, Return, statics

LEMMA BeginQuiet ==
  ASSUME SInv, QuietInv, pc = "idle", NEW c, NEW p, NEW f, Begin(c, p, f),
         \/ p = "start_issue" /\ pending_state = "NONE"
         \/ p = "restart_issue" /\ pending_state # "NONE"
         \/ /\ p = "stop_issue" /\ pending_state # "NONE"
            /\ f # "read"
            /\ f = "stop_pending_sequence" => c.op \notin ReadOps
  PROVE  QuietInv'
BY SameBus DEF Begin, statics

\* The host state machine is reset.
LEMMA ResetQuiet ==
  ASSUME QuietInv, NEW op, NEW s, Return(op, s), pending_clear,
         HwOff \/ (CON1' = {"ON"} /\ STAT1' = {} /\ STAT2' = {})
  PROVE  QuietInv'
BY DEF Return, pending_clear, HwOff, QuietInv, NoFault, BusPhase, BytePhase, Free, OnlyAsked,
       host_active, has_collision, has_error, write_byte_busy, Requests

LEMMA PublicCallQuiet == ASSUME SInv, QuietInv, PublicCall PROVE QuietInv'
<1>1. CASE \E op \in Ops : RejectArguments(op) \/ RequireInitialized(op)
  BY <1>1, RefuseQuiet DEF RejectArguments, RequireInitialized
<1>2. CASE \E c \in Transfers : Transfer(c)
  <2>1. PICK c \in Transfers : Transfer(c)
    BY <1>2
  <2>2. CASE PendingBusy(c) \/ SequenceError(c)
    BY <2>2, RefuseQuiet DEF PendingBusy, SequenceError
  <2>3. CASE RecoverStalePending(c)
    BY <2>3, BeginQuiet DEF RecoverStalePending, pending_timeout_expired
  <2>4. CASE BeginIndependent(c)
    BY <2>4, BeginQuiet DEF BeginIndependent
  <2>5. CASE BeginPending(c)
    BY <2>5, BeginQuiet DEF BeginPending, ReadOps
  <2> QED
    BY <2>1, <2>2, <2>3, <2>4, <2>5 DEF Transfer
<1>3. CASE \E cfg \in Configs : init(cfg)
  BY <1>3, ResetQuiet DEF init
<1>4. CASE RecoverStalePending(Lifecycle("deinit"))
  BY <1>4, BeginQuiet DEF RecoverStalePending, pending_timeout_expired
<1>5. CASE DeinitBusy \/ SetBusSpeedBusy
  BY <1>5, RefuseQuiet DEF DeinitBusy, SetBusSpeedBusy
<1>6. CASE Deinit
  BY <1>6, ResetQuiet DEF Deinit, ForceOff
<1>7. CASE SetBusSpeed
  BY <1>7
  DEF SetBusSpeed, Return, statics, QuietInv, NoFault, BusPhase, BytePhase, Free, OnlyAsked,
      host_active, has_collision, has_error, write_byte_busy
<1> QED
  BY <1>1, <1>2, <1>3, <1>4, <1>5, <1>6, <1>7 DEF PublicCall

LEMMA IssueQuiet == ASSUME SInv, QuietInv, Issue PROVE QuietInv'
<1> USE DEF Issue, start_issue, restart_issue, stop_issue, write_byte_issue, read_byte_issue,
            ack_issue, HwWriteTRN, Continue, Goto, QuietInv
<1>1. NoFault'
  BY DEF NoFault, has_collision, has_error, BusPhase, BytePhase, Owned, OnlyAsked, host_active,
         write_byte_busy
<1>2. BusPhase'
  BY DEF BusPhase, BytePhase, Free, Owned, Starting, OnlyAsked, host_active, Requests
<1>3. BytePhase'
  BY DEF BytePhase, write_byte_busy, last_byte
<1> QED
  BY <1>1, <1>2, <1>3

\* A wait that ends hands the next primitive the bus it needs.
LEMMA PollQuiet == ASSUME SInv, Undisturbed, QuietInv, Poll PROVE QuietInv'
<1> USE DEF QuietInv
<1>1. /\ wait_until \in {"OK", "AGAIN"}
      /\ wait_until = "OK" => done_fn
  BY WaitsSucceed DEF SInv, IInv
<1>2. CASE WaitFails
  BY <1>1, <1>2 DEF WaitFails
<1>3. CASE WaitSucceeds
  <2>1. NoFault'
    BY <1>3 DEF WaitSucceeds, hw, NoFault, has_collision, has_error
  <2>2. BusPhase'
    BY <1>1, <1>3
    DEF WaitSucceeds, NextPrimitive, Continue, Goto, Waits, hw, done_fn, start_done,
        restart_done, BusPhase, BytePhase, Free, Owned, Starting, OnlyAsked, host_active,
        write_byte_busy
  <2>3. BytePhase'
    BY <1>1, <1>3
    DEF WaitSucceeds, NextPrimitive, Continue, Goto, Waits, hw, done_fn, BytePhase,
        write_byte_busy
  <2> QED
    BY <2>1, <2>2, <2>3
<1>4. CASE ByteNacked \/ WriteNextByte \/ ReadAddressed
  BY <1>4
  DEF ByteNacked, Fail, WriteNextByte, ReadAddressed, ByteAcked, Goto, hw, NoFault, BusPhase,
      BytePhase, Owned, OnlyAsked, host_active, has_collision, has_error, write_byte_busy,
      SInv, SequenceShape, AtStop
<1>5. CASE WritePhaseDone
  BY <1>5
  DEF WritePhaseDone, ByteAcked, Return, Goto, pending_set, hw, NoFault, BusPhase, BytePhase,
      Owned, OnlyAsked, host_active, has_collision, has_error, write_byte_busy, ReadOps
<1>6. CASE ReadNextByte \/ ReadPhaseDone
  BY <1>1, <1>6
  DEF ReadNextByte, ReadPhaseDone, Goto, hw, done_fn, NoFault, BusPhase, BytePhase,
      Owned, OnlyAsked, host_active, has_collision, has_error, write_byte_busy, last_byte
<1>7. CASE \E stop \in StopOutcomes :
             QuietStop(stop) \/ StopPending(stop) \/ AbortPending(stop) \/ Recovered(stop)
  <2>1. PICK stop \in StopOutcomes :
             QuietStop(stop) \/ StopPending(stop) \/ AbortPending(stop) \/ Recovered(stop)
    BY <1>7
  <2>2. pc = "stop_wait" /\ wait_until = stop /\ UNCHANGED hw /\ pc' = "idle"
    BY <2>1
    DEF QuietStop, StopPending, AbortPending, Recovered, StopWait, Finish, Return
  <2>3. stop = "OK"
    BY <1>1, <2>2 DEF StopOutcomes
  <2>4. pending_state' = "NONE"
    BY <2>1, <2>3
    DEF QuietStop, StopPending, AbortPending, Recovered, StopWait, pending_kept,
        pending_clear, SInv, SequenceShape
  <2>5. Free
    BY <1>1, <2>2, <2>3 DEF done_fn, stop_fully_done, BusPhase
  <2> QED
    BY <2>2, <2>4, <2>5
    DEF hw, NoFault, BusPhase, BytePhase, Free, OnlyAsked, host_active, has_collision,
        has_error, write_byte_busy
<1>8. CASE \E stop \in StopOutcomes : DeinitRecovered(stop)
  BY <1>8, ResetQuiet DEF DeinitRecovered, ForceOff
<1> QED
  BY <1>2, <1>3, <1>4, <1>5, <1>6, <1>7, <1>8 DEF Poll

LEMMA HardwareQuiet == ASSUME SInv, Undisturbed, QuietInv, Hardware PROVE QuietInv'
<1> USE DEF Hardware, HwStep, HwServes, HwStartEvent, HwStartOwned, HwRestartEvent,
            HwRestartRetired, HwStopEvent, HwStopRetired, HwByteSent, HwByteReceived, HwAckSent,
            HwCollision, HwError, control, statics, QuietInv
<1>1. NoFault'
  BY DEF Undisturbed, NoFault, has_collision, has_error
<1>2. BusPhase'
  <2> USE DEF BusPhase, Free, Owned, Starting, OnlyAsked, host_active, Requests
  <2>1. CASE HwStartEvent \/ HwStartOwned
    BY <2>1
  <2>2. CASE HwRestartEvent \/ HwRestartRetired
    BY <2>2
  <2>3. CASE HwStopEvent
    BY <2>3
  <2>4. CASE HwStopRetired
    BY <2>4
  <2>5. CASE HwByteSent
    BY <2>5 DEF BytePhase, write_byte_busy
  <2>6. CASE HwByteReceived
    BY <2>6
  <2>7. CASE HwAckSent
    BY <2>7
  <2> QED
    BY <2>1, <2>2, <2>3, <2>4, <2>5, <2>6, <2>7 DEF Undisturbed
<1>3. BytePhase'
  <2>1. "RCEN" \in CON1 => pc = "read_wait"
    BY DEF SInv, IInv, TypeOK, ControlTypeOK, Pcs, Issues, Waits, BusPhase, Free, Owned, Starting,
           OnlyAsked, Requests
  <2> QED
    BY <2>1 DEF Undisturbed, BytePhase, write_byte_busy, last_byte, Requests
<1> QED
  BY <1>1, <1>2, <1>3

LEMMA NextQuiet ==
  ASSUME Undisturbed
  PROVE  (SInv /\ QuietInv) /\ [Next]_vars => (SInv /\ QuietInv)'
<1> SUFFICES ASSUME SInv, QuietInv, [Next]_vars PROVE QuietInv'
  BY NextShape
<1>1. CASE PublicCall \/ Issue \/ Poll
  BY <1>1, PublicCallQuiet, IssueQuiet, PollQuiet
<1>2. CASE Hardware
  BY <1>2, HardwareQuiet
<1>3. CASE Tick \/ UNCHANGED vars
  BY <1>3
  DEF Tick, vars, hw, control, statics, QuietInv, NoFault, BusPhase, BytePhase, Free, Owned,
      Starting, OnlyAsked, host_active, has_collision, has_error, write_byte_busy, last_byte
<1> QED
  BY <1>1, <1>2, <1>3 DEF Next, Engine

\* On an undisturbed bus every primitive the engine calls finds the bus phase it
\* needs, a single request in CON1 at most, and no fault recorded.
THEOREM QuietInvariance ==
  ASSUME Undisturbed
  PROVE  Spec => [](SInv /\ QuietInv)
<1>1. Init => SInv /\ QuietInv
  BY InitInv, InitShape, InitQuiet DEF SInv
<1> QED
  BY <1>1, NextQuiet, PTL DEF Spec

\* On an undisturbed bus start_issue asks for a START only when the bus is free:
\* whatever calls came before, their STOP has retired or they are pending.
THEOREM StartsOnIdleBus == ASSUME Undisturbed PROVE Spec => []StartOnIdleBus
<1>1. QuietInv => StartOnIdleBus
  BY DEF QuietInv, BusPhase, Free, OnlyAsked, host_active, StartOnIdleBus, HostWorking
<1> QED
  BY <1>1, QuietInvariance, PTL

\* On an undisturbed bus what g_pending_state calls pending between two calls
\* holds the bus: read_after_restart and master_stop find it as they need it.
THEOREM PendingKeepsBus == ASSUME Undisturbed PROVE Spec => []PendingHoldsBus
<1>1. QuietInv => PendingHoldsBus
  BY DEF QuietInv, BusPhase, Owned, OnlyAsked, PendingHoldsBus
<1> QED
  BY <1>1, QuietInvariance, PTL

\* On an undisturbed bus write_byte_issue writes TRN only when the host takes it:
\* the waits before it are enough even if START ends its wait by S alone.
THEOREM NeverCollides == ASSUME Undisturbed PROVE Spec => []NoWriteCollision
<1>1. QuietInv => NoWriteCollision
  BY DEF QuietInv, NoFault, has_collision, NoWriteCollision
<1> QED
  BY <1>1, QuietInvariance, PTL

\* On an undisturbed bus a completed receive makes its STOP after a NACK of the
\* last byte, with RCV read and no request open.
THEOREM ReadsEnd == ASSUME Undisturbed PROVE Spec => []ReadEndsWithNack
<1>1. QuietInv => ReadEndsWithNack
  BY DEF QuietInv, BusPhase, BytePhase, Owned, OnlyAsked, ReadEndsWithNack
<1> QED
  BY <1>1, QuietInvariance, PTL

\* On an undisturbed bus reg_set rewrites CON1 only with no request in it, which
\* the hardware could clear between the read and the write.
THEOREM RequestsAreOver == ASSUME Undisturbed PROVE Spec => []NoRequestInFlight
<1>1. QuietInv => NoRequestInFlight
  BY DEF QuietInv, BusPhase, Free, Owned, OnlyAsked, NoRequestInFlight, Issues
<1> QED
  BY <1>1, QuietInvariance, PTL

\* On an undisturbed bus read_byte_issue finds RCV empty, so that the byte its
\* wait sees is the one it has asked for.
THEOREM ReadsAreFresh == ASSUME Undisturbed PROVE Spec => []ReadsOwnBytes
<1>1. QuietInv => ReadsOwnBytes
  BY DEF QuietInv, BytePhase, ReadsOwnBytes
<1> QED
  BY <1>1, QuietInvariance, PTL
=============================================================================
