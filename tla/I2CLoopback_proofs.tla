------------------------- MODULE I2CLoopback_proofs -------------------------
(***************************************************************************)
(* Theorems about I2CLoopback, from those about its two roles.  The bus of *)
(* the loopback never overtakes the slave's ISR, because the master's      *)
(* program cannot run before it; so the slave keeps what it promises for   *)
(* such a bus, and the master's OK means what the slave has done.          *)
(***************************************************************************)
EXTENDS I2CLoopback, I2CMasterBus_proofs

\* The slave on a bus that waits for it, with what is proved of it.
Waiting == INSTANCE I2CSlave_proofs WITH
  CON1 <- slave_CON1, STAT1 <- slave_STAT1, Overtakes <- {}

\* No wait of the master ends early, the slave is served by its event interrupt
\* alone, and slave_init is called on an inactive slave.
Shared == Undisturbed /\ Dedicated = {} /\ ~Reinit

-----------------------------------------------------------------------------
(* The master in the loopback is the master on some bus.                    *)

LEMMA MasterStep == [LoopbackNext]_loopback => [Next]_vars
<1> SUFFICES ASSUME [LoopbackNext]_loopback PROVE [Next]_vars
  OBVIOUS
<1>1. CASE Wire
  BY <1>1
  DEF Wire, Program, ByteToClient, ByteToHost, AckToClient, StopToClient, HostAlone, Next,
      Hardware, HwStep, HwServes, statics, control
<1>2. CASE Master
  BY <1>2 DEF Master, Next
<1>3. CASE SlaveMain \/ SlaveIsr \/ UNCHANGED loopback
  BY <1>3 DEF SlaveMain, SlaveIsr, loopback
<1> QED
  BY <1>1, <1>2, <1>3 DEF LoopbackNext

LEMMA MasterInvariance == ASSUME Undisturbed PROVE LoopbackSpec => [](SInv /\ QuietInv)
<1>1. LoopbackInit => Init
  BY DEF LoopbackInit
<1>2. LoopbackSpec => Spec
  BY <1>1, MasterStep, PTL DEF LoopbackSpec, Spec
<1> QED
  BY <1>2, SequencesKeepShape, QuietInvariance, PTL

-----------------------------------------------------------------------------
(* The bus waits for the slave: while the host has something to do that     *)
(* reaches the client, the client's last event has been served.             *)

WireBusy ==
  \/ write_byte_busy \/ "ACKEN" \in CON1
  \/ "PEN" \in CON1 /\ "STOPE" \notin STAT2

Served == WireBusy => Slave!Settled

\* The engine asks for one thing at a time.
LEMMA OneAtATime ==
  ASSUME SInv, QuietInv
  PROVE  /\ write_byte_busy => pc = "byte_done" /\ CON1 \cap Requests = {}
         /\ "ACKEN" \in CON1 => pc = "ack_wait" /\ "PEN" \notin CON1
         /\ "PEN" \in CON1 => pc = "stop_wait" /\ "ACKEN" \notin CON1
BY DEF SInv, IInv, TypeOK, ControlTypeOK, Pcs, Issues, Waits, QuietInv, BusPhase, BytePhase,
       Free, Owned, Starting, OnlyAsked, Requests

LEMMA WireServes ==
  ASSUME SInv, QuietInv, Served, Wire
  PROVE  Served'
<1> USE DEF WireBusy, write_byte_busy
<1>1. CASE ByteToClient
  <2>1. ~WireBusy'
    BY <1>1, OneAtATime DEF ByteToClient, HwByteSent, Requests
  <2> QED
    BY <2>1 DEF Served
<1>2. CASE AckToClient
  <2>1. ~WireBusy'
    BY <1>2, OneAtATime DEF AckToClient, HwAckSent, Requests
  <2> QED
    BY <2>1 DEF Served
<1>3. CASE StopToClient
  <2>1. ~WireBusy'
    BY <1>3, OneAtATime DEF StopToClient, HwStopEvent, Requests
  <2> QED
    BY <2>1 DEF Served
<1>4. CASE ByteToHost \/ HostAlone
  <2>1. (WireBusy' => WireBusy) /\ UNCHANGED Client
    BY <1>4
    DEF ByteToHost, HostAlone, HwByteReceived, HwStartEvent, HwStartOwned, HwRestartEvent,
        HwRestartRetired, HwStopRetired
  <2> QED
    BY <2>1 DEF Served, Client, Slave!Settled
<1> QED
  BY <1>1, <1>2, <1>3, <1>4 DEF Wire

LEMMA NextServes ==
  ASSUME SInv, QuietInv, Served, [LoopbackNext]_loopback
  PROVE  Served'
<1>1. CASE Master
  BY <1>1 DEF Master, MasterMayRun, Client, Slave!Settled, Served
<1>2. CASE SlaveMain
  <2>1. ~WireBusy
    BY <1>2, OneAtATime DEF SlaveMain, WireBusy
  <2> QED
    BY <1>2, <2>1 DEF SlaveMain, vars, hw, WireBusy, write_byte_busy, Served
<1>3. CASE SlaveIsr
  <2>1. ~Slave!Settled
    BY <1>3
    DEF SlaveIsr, Slave!Interrupt, Slave!slave_irq, Slave!slave_service, Slave!poll,
        Slave!poll_next, Slave!receive, Slave!on_addr_match, Slave!on_rx_byte, Slave!on_tx_byte,
        Slave!release, Slave!on_stop, Slave!leave, Slave!Reti, Slave!Isr, Slave!Settled
  <2> QED
    BY <1>3, <2>1 DEF SlaveIsr, vars, hw, WireBusy, write_byte_busy, Served
<1>4. CASE UNCHANGED loopback
  BY <1>4 DEF loopback, vars, hw, Client, WireBusy, write_byte_busy, Slave!Settled, Served
<1> QED
  BY <1>1, <1>2, <1>3, <1>4, WireServes DEF LoopbackNext

-----------------------------------------------------------------------------
(* So the slave in the loopback is the slave on a bus that waits for it.    *)

SlaveVars == <<Client, SlaveProgram>>

LEMMA WaitingHw ==
  ASSUME Slave!Settled
  PROVE  /\ \A dir : Slave!HwAddress(dir) => Waiting!HwAddress(dir)
         /\ Slave!HwAddressOverflow => Waiting!HwAddressOverflow
         /\ Slave!HwByteIn => Waiting!HwByteIn
         /\ Slave!HwByteInOverflow => Waiting!HwByteInOverflow
         /\ Slave!HwByteOut => Waiting!HwByteOut
         /\ Slave!HwStop => Waiting!HwStop
<1> USE DEF Slave!MayHappen, Waiting!MayHappen, Slave!Settled, Waiting!Settled, Slave!Held,
            Waiting!Held, Slave!CanReceive, Waiting!CanReceive, Slave!Raise, Waiting!Raise,
            Slave!bus, Waiting!bus
<1>1. ASSUME NEW dir, Slave!HwAddress(dir) PROVE Waiting!HwAddress(dir)
  BY <1>1 DEF Slave!HwAddress, Waiting!HwAddress, Slave!Address, Waiting!Address
<1>2. Slave!HwAddressOverflow => Waiting!HwAddressOverflow
  BY DEF Slave!HwAddressOverflow, Waiting!HwAddressOverflow
<1>3. Slave!HwByteIn => Waiting!HwByteIn
  BY DEF Slave!HwByteIn, Waiting!HwByteIn, Slave!Byte, Waiting!Byte
<1>4. Slave!HwByteInOverflow => Waiting!HwByteInOverflow
  BY DEF Slave!HwByteInOverflow, Waiting!HwByteInOverflow
<1>5. Slave!HwByteOut => Waiting!HwByteOut
  BY DEF Slave!HwByteOut, Waiting!HwByteOut
<1>6. Slave!HwStop => Waiting!HwStop
  BY DEF Slave!HwStop, Waiting!HwStop
<1> QED
  BY <1>1, <1>2, <1>3, <1>4, <1>5, <1>6

LEMMA WireWaits ==
  ASSUME SInv, QuietInv, Served, Wire
  PROVE  Waiting!Bus \/ UNCHANGED SlaveVars
<1>1. UNCHANGED SlaveProgram
  BY DEF Wire
<1>2. CASE UNCHANGED Client
  BY <1>1, <1>2 DEF SlaveVars
<1>3. CASE ~UNCHANGED Client
  <2>1. Slave!Settled
    BY <1>3
    DEF Wire, ByteToClient, ByteToHost, AckToClient, StopToClient, HostAlone, HwByteSent,
        HwAckSent, HwStopEvent, Served, WireBusy, write_byte_busy
  <2>2. Slave!HwBus
    BY <1>3
    DEF Wire, ByteToClient, ByteToHost, AckToClient, StopToClient, HostAlone, Slave!HwBus,
        Direction
  <2>3. Waiting!HwBus
    BY <2>1, <2>2, WaitingHw DEF Slave!HwBus, Waiting!HwBus
  <2> QED
    BY <1>1, <2>3 DEF SlaveProgram, Waiting!Bus, Waiting!service
<1> QED
  BY <1>2, <1>3

LEMMA WaitingMain == Slave!MainThread => Waiting!MainThread
BY DEF Slave!MainThread, Slave!slave_init_configure, Slave!slave_init_state, Slave!slave_init_irq,
       Slave!slave_init_on, Slave!set_interrupt_priority, Slave!slave_deinit_mask,
       Slave!slave_deinit_off, Slave!slave_deinit_state, Slave!Configure, Slave!Main, Slave!HwOff,
       Slave!registers, Slave!bus, Slave!service, Slave!Sources,
       Waiting!MainThread, Waiting!slave_init_configure, Waiting!slave_init_state,
       Waiting!slave_init_irq, Waiting!slave_init_on, Waiting!set_interrupt_priority,
       Waiting!slave_deinit_mask, Waiting!slave_deinit_off, Waiting!slave_deinit_state,
       Waiting!Configure, Waiting!Main, Waiting!HwOff, Waiting!registers, Waiting!bus,
       Waiting!service, Waiting!Sources

LEMMA WaitingIsr == Slave!Interrupt => Waiting!Interrupt
<1>1. Slave!slave_service => Waiting!slave_service
  BY DEF Slave!slave_service, Slave!poll, Slave!poll_next, Slave!AckOfSentByte, Slave!receive,
         Slave!on_addr_match, Slave!Told, Slave!is_read, Slave!on_rx_byte, Slave!on_tx_byte,
         Slave!release, Slave!on_stop, Slave!stopped, Slave!leave, Slave!Reti, Slave!Isr,
         Slave!registers, Slave!bus,
         Waiting!slave_service, Waiting!poll, Waiting!poll_next, Waiting!AckOfSentByte,
         Waiting!receive, Waiting!on_addr_match, Waiting!Told, Waiting!is_read,
         Waiting!on_rx_byte, Waiting!on_tx_byte, Waiting!release, Waiting!on_stop,
         Waiting!stopped, Waiting!leave, Waiting!Reti, Waiting!Isr, Waiting!registers, Waiting!bus
<1>2. ASSUME NEW v, Slave!slave_irq(v) PROVE Waiting!slave_irq(v)
  BY <1>2 DEF Slave!slave_irq, Slave!Level, Slave!registers, Slave!bus,
              Waiting!slave_irq, Waiting!Level, Waiting!registers, Waiting!bus
<1> QED
  BY <1>1, <1>2 DEF Slave!Interrupt, Waiting!Interrupt, Slave!Sources, Waiting!Sources

LEMMA SlaveStep ==
  ASSUME SInv, QuietInv, Served, [LoopbackNext]_loopback
  PROVE  [Waiting!Next]_SlaveVars
<1>1. CASE Wire
  BY <1>1, WireWaits DEF Waiting!Next
<1>2. CASE SlaveMain \/ SlaveIsr
  BY <1>2, WaitingMain, WaitingIsr DEF SlaveMain, SlaveIsr, Waiting!Next
<1>3. CASE Master \/ UNCHANGED loopback
  BY <1>3 DEF Master, loopback, SlaveVars
<1> QED
  BY <1>1, <1>2, <1>3 DEF LoopbackNext

\* The bus of the loopback waits for the ISR of the slave, even one that could
\* run ahead of it (Overtakes): the slave's specification for such a bus holds.
THEOREM BusWaits == ASSUME Undisturbed PROVE LoopbackSpec => Waiting!Spec
<1>1. LoopbackInit => Served /\ Waiting!Init
  <2> SUFFICES ASSUME LoopbackInit PROVE Served /\ Waiting!Init
    OBVIOUS
  <2>1. Served
    BY DEF LoopbackInit, Init, HwInit, Served, WireBusy, write_byte_busy
  <2>2. Waiting!Init
    BY DEF LoopbackInit, Slave!Init, Slave!ClientInit, Slave!Sources, Waiting!Init,
           Waiting!ClientInit, Waiting!Sources
  <2> QED
    BY <2>1, <2>2
<1>2. (SInv /\ QuietInv) /\ Served /\ [LoopbackNext]_loopback => Served'
  BY NextServes
<1>3. (SInv /\ QuietInv) /\ Served /\ [LoopbackNext]_loopback => [Waiting!Next]_(Waiting!vars)
  BY SlaveStep
  DEF SlaveVars, Client, SlaveProgram, Waiting!vars, Waiting!client, Waiting!registers,
      Waiting!bus, Waiting!service
<1> QED
  BY <1>1, <1>2, <1>3, MasterInvariance, PTL DEF LoopbackSpec, Waiting!Spec

-----------------------------------------------------------------------------
(* What the slave promises for such a bus it promises in the loopback.      *)

LEMMA SlavePromises ==
  ASSUME Shared
  PROVE  LoopbackSpec => /\ [](Waiting!Inv) /\ [](Waiting!StopOnce)
                         /\ [](Waiting!StopBeforeNext) /\ [](Waiting!NothingForgotten)
                         /\ Waiting!TxInOrder
<1>1. /\ MaxBytes \in Nat /\ MaxBytes > 0
      /\ {} \subseteq {"start", "byte", "stop"} /\ Dedicated \subseteq {"rx", "tx"}
      /\ Stretch \subseteq BOOLEAN /\ Reinit \in BOOLEAN
      /\ Priorities \subseteq 0 .. 255 /\ Settable \subseteq Waiting!Sources
      /\ Waiting!Alone /\ Waiting!Answered
  BY SlaveAssumption DEF Shared, Waiting!Sources, Waiting!Alone, Waiting!Answered
<1>2. Waiting!Spec => /\ [](Waiting!Inv) /\ [](Waiting!StopOnce)
                      /\ [](Waiting!StopBeforeNext) /\ [](Waiting!NothingForgotten)
                      /\ Waiting!TxInOrder
  BY <1>1, Waiting!Invariance, Waiting!StopsOnce, Waiting!StopComesFirst,
     Waiting!ForgetsNothing, Waiting!TakesInOrder, PTL
<1>3. LoopbackSpec => Waiting!Spec
  BY BusWaits DEF Shared
<1> QED
  BY <1>2, <1>3, PTL

\* A master of this driver never makes the slave of this driver report a STOP
\* twice, although P stays set in STAT1 and slave_service looks at it each time.
THEOREM SlaveStopsOnce == ASSUME Shared PROVE LoopbackSpec => []SlaveStopOnce
<1>1. Waiting!StopOnce => SlaveStopOnce
  BY DEF SlaveStopOnce, Slave!StopOnce, Slave!stopped, Waiting!StopOnce, Waiting!stopped
<1> QED
  BY <1>1, SlavePromises, PTL

\* Nor does it announce a transaction before on_stop has ended the last one,
\* whatever calls the master makes and whatever bytes are refused.
THEOREM SlaveStopComesFirst == ASSUME Shared PROVE LoopbackSpec => []SlaveStopBeforeNext
<1>1. Waiting!StopBeforeNext => SlaveStopBeforeNext
  BY DEF SlaveStopBeforeNext, Slave!StopBeforeNext, Waiting!StopBeforeNext
<1> QED
  BY <1>1, SlavePromises, PTL

\* The bytes a read takes are those of on_tx_byte, in order, from the master's
\* first ACK to its NACK.
THEOREM SlaveBytesInOrder == ASSUME Shared PROVE LoopbackSpec => SlaveTxInOrder
<1>1. [phase = "read" /\ n' = n + 1 => "TBF" \in slave_STAT1 /\ TRN = n']_(Waiting!vars)
      => [phase = "read" /\ n' = n + 1 => "TBF" \in slave_STAT1 /\ TRN = n']_(Slave!vars)
  BY DEF Waiting!vars, Waiting!client, Waiting!registers, Waiting!bus, Waiting!service,
         Slave!vars, Slave!client, Slave!registers, Slave!bus, Slave!service
<1> QED
  BY <1>1, SlavePromises, PTL DEF SlaveTxInOrder, Slave!TxInOrder, Waiting!TxInOrder

\* When a call of the master returns OK the slave's application has been told
\* of every byte and of the STOP: the call polls the bus on the CPU that has
\* served the slave's interrupts first.
THEOREM OkIsTold == ASSUME Shared PROVE LoopbackSpec => OkMeansTold
<1>1. /\ Waiting!Inv /\ Waiting!NothingForgotten /\ [LoopbackNext]_loopback
      => [ReturnsOk(WriteOps \cup ReadOps \cup {"stop"}) => owed = <<>> /\ ~stop_due]_loopback
  <2> SUFFICES ASSUME Waiting!Inv, Waiting!NothingForgotten, LoopbackNext, pc # "idle", pc' = "idle"
               PROVE  owed = <<>> /\ ~stop_due
    BY DEF ReturnsOk
  <2>1. Master
    BY DEF LoopbackNext, SlaveMain, SlaveIsr, Wire, Program, control, vars
  <2>2. Slave!Settled /\ main = "idle"
    BY <2>1 DEF Master, MasterMayRun
  <2>3. CASE g_active
    BY <2>2, <2>3
    DEF Waiting!NothingForgotten, Waiting!Settled, Slave!Settled
  <2>4. CASE ~g_active
    BY <2>4 DEF Waiting!Inv, Waiting!MainInv
  <2> QED
    BY <2>3, <2>4
<1> QED
  BY <1>1, SlavePromises, PTL DEF LoopbackSpec, OkMeansTold

-----------------------------------------------------------------------------
(* How far the master and the slave are in a transfer, side by side.        *)

ReadFns == {"read", "read_after_restart_sequence"}

CountInv ==
  /\ pc \in {"idle", "start_issue", "start_wait"} => i = 0
  /\ fn = "write_no_stop_sequence" => i <= call.tx_len
  /\ pc \in {"restart_issue", "restart_wait"} => fn = "read_after_restart_sequence"
  /\ call.op \in ReadOps => call.rx_len > 0
  /\ fn \in ReadFns => call.op \in ReadOps
  /\ Reading => i < call.rx_len

\* The address was acknowledged: the client is in the transaction.  Byte i of a
\* write was taken.
ByteTaken ==
  IF fn = "write_no_stop_sequence" THEN phase = "write" /\ n = i
  ELSE phase = "read" /\ n = 0

\* A byte of a read was answered, the last one with a NACK.
AckTaken ==
  IF "ACKEN" \in CON1
    THEN phase = "read" /\ n = i /\ ("ACKDT" \in CON1 <=> last_byte)
    ELSE n = i + 1 /\ (~last_byte => phase = "read")

Progress ==
  /\ /\ fn = "write_no_stop_sequence" /\ i > 0
     /\ pc \in {"byte_ready", "byte_host", "byte_issue"} \/ (pc = "byte_done" /\ write_byte_busy)
     => phase = "write" /\ n = i - 1
  /\ pc \in {"byte_done", "byte_accepted"} /\ ~write_byte_busy /\ "NACKE" \notin STAT2 => ByteTaken
  /\ pc \in {"read_issue", "read_wait", "ack_issue"} => phase = "read" /\ n = i
  /\ pc = "ack_wait" => AckTaken
  /\ fn = "stop_pending_sequence" /\ call.op = "write" => n = call.tx_len
  /\ \/ fn = "stop_pending_sequence" /\ call.op \in ReadOps
     \/ fn = "read" /\ AtStop /\ st = "OK"
     => n = call.rx_len

TransferInv == SInv /\ QuietInv /\ CountInv /\ Progress

\* A call that ends, or begins, has transferred nothing yet.
LEMMA FreshCall ==
  ASSUME SInv, pc' \in {"idle", "start_issue", "restart_issue", "stop_issue"}, i' = 0,
         fn' \in Fns,
         pc' = "stop_issue" => fn' # "read" /\ fn' # "write_no_stop_sequence",
         fn' = "stop_pending_sequence" => call'.op = "stop",
         call'.op \in ReadOps => call'.rx_len > 0,
         fn' \in ReadFns => call'.op \in ReadOps,
         fn' = "write_no_stop_sequence" => 0 <= call'.tx_len,
         pc' = "restart_issue" => fn' = "read_after_restart_sequence"
  PROVE  CountInv' /\ Progress'
<1>1. CountInv'
  BY DEF CountInv, Reading
<1>2. Progress'
  BY DEF Progress, AtStop, ReadOps
<1> QED
  BY <1>1, <1>2

LEMMA ReturnFresh == ASSUME SInv, NEW op, NEW s, Return(op, s) PROVE CountInv' /\ Progress'
BY FreshCall DEF Return, NoCall, Fns, ReadFns, ReadOps

LEMMA BeginFresh ==
  ASSUME SInv, CountInv, pc = "idle", NEW c \in Transfers \cup {Lifecycle("deinit")},
         NEW p \in {"start_issue", "restart_issue", "stop_issue"}, NEW f \in Fns, Begin(c, p, f),
         p = "stop_issue" => f # "read" /\ f # "write_no_stop_sequence",
         f = "stop_pending_sequence" => c.op = "stop",
         f \in ReadFns => c.op \in ReadOps,
         p = "restart_issue" => f = "read_after_restart_sequence"
  PROVE  CountInv' /\ Progress'
<1>1. pc' = p /\ fn' = f /\ call' = c /\ i' = 0
  BY DEF Begin, CountInv
<1>2. c.op \in ReadOps => c.rx_len > 0
  BY DEF Transfers, Lifecycle, ReadOps
<1>3. 0 <= c.tx_len
  BY Facts, TransfersAreCalls DEF Call, Lifecycle, Assumptions
<1> QED
  BY <1>1, <1>2, <1>3, FreshCall

LEMMA PublicCallTransfers ==
  ASSUME TransferInv, PublicCall
  PROVE  CountInv' /\ Progress'
<1> USE DEF TransferInv
<1>1. CASE \E op \in Ops : RejectArguments(op) \/ RequireInitialized(op)
  BY <1>1, ReturnFresh DEF RejectArguments, RequireInitialized, Refuse
<1>2. CASE \E c \in Transfers : Transfer(c)
  <2>1. PICK c \in Transfers : Transfer(c)
    BY <1>2
  <2>2. CASE PendingBusy(c) \/ SequenceError(c)
    BY <2>2, ReturnFresh DEF PendingBusy, SequenceError, Refuse
  <2>3. CASE RecoverStalePending(c)
    BY <2>3, BeginFresh DEF RecoverStalePending, Fns, ReadFns
  <2>4. CASE BeginIndependent(c)
    BY <2>4, BeginFresh DEF BeginIndependent, Fns, ReadFns, ReadOps
  <2>5. CASE BeginPending(c)
    BY <2>5, BeginFresh DEF BeginPending, Fns, ReadFns, ReadOps
  <2> QED
    BY <2>1, <2>2, <2>3, <2>4, <2>5 DEF Transfer
<1>3. CASE \E settings \in Configs : init(settings)
  BY <1>3, ReturnFresh DEF init
<1>4. CASE RecoverStalePending(Lifecycle("deinit"))
  BY <1>4, BeginFresh DEF RecoverStalePending, Fns, ReadFns
<1>5. CASE DeinitBusy \/ SetBusSpeedBusy \/ Deinit \/ SetBusSpeed
  BY <1>5, ReturnFresh DEF DeinitBusy, SetBusSpeedBusy, Deinit, SetBusSpeed, Refuse, ForceOff
<1> QED
  BY <1>1, <1>2, <1>3, <1>4, <1>5 DEF PublicCall

LEMMA IssueTransfers ==
  ASSUME TransferInv, Issue, UNCHANGED Client
  PROVE  CountInv' /\ Progress'
<1> USE DEF TransferInv, Continue, Goto, Client
<1>1. CountInv'
  BY DEF Issue, start_issue, restart_issue, stop_issue, write_byte_issue, read_byte_issue,
         ack_issue, CountInv, Reading
<1>2. CASE write_byte_issue
  <2>1. "TRSTAT" \in STAT1'
    BY <1>2 DEF write_byte_issue, HwWriteTRN, QuietInv, BusPhase, BytePhase, Owned, OnlyAsked,
                host_active, write_byte_busy
  <2> QED
    BY <1>1, <1>2, <2>1 DEF write_byte_issue, Progress, AtStop, write_byte_busy
<1>3. CASE ack_issue
  <2>1. "ACKEN" \in CON1' /\ ("ACKDT" \in CON1' <=> last_byte)
    BY <1>3 DEF ack_issue
  <2>2. last_byte' <=> last_byte
    BY <1>3 DEF ack_issue, last_byte
  <2>3. AckTaken'
    BY <1>3, <2>1, <2>2 DEF ack_issue, Progress, AckTaken
  <2> QED
    BY <1>1, <1>3, <2>3 DEF ack_issue, Progress, AtStop
<1>4. CASE start_issue \/ restart_issue \/ stop_issue \/ read_byte_issue
  BY <1>1, <1>4
  DEF start_issue, restart_issue, stop_issue, read_byte_issue, Progress, AtStop, CountInv
<1> QED
  BY <1>1, <1>2, <1>3, <1>4 DEF Issue

LEMMA PollTransfers ==
  ASSUME TransferInv, Undisturbed, Poll, UNCHANGED Client
  PROVE  CountInv' /\ Progress'
<1> USE DEF TransferInv, Goto, Client
<1>1. /\ wait_until \in {"OK", "AGAIN"}
      /\ wait_until = "OK" => done_fn
  BY WaitsSucceed DEF SInv, IInv, QuietInv
<1>2. i \in Nat
  BY DEF SInv, IInv, TypeOK, ControlTypeOK
<1>3. CASE WaitFails
  BY <1>1, <1>3 DEF WaitFails
<1>4. CASE WaitSucceeds
  <2>1. UNCHANGED <<hw, fn, i, call, st>>
    BY <1>4 DEF WaitSucceeds, Continue
  <2>2. \/ pc = "start_wait" /\ pc' = "byte_ready"
        \/ pc = "restart_wait" /\ pc' = "byte_ready"
        \/ pc = "byte_ready" /\ pc' = "byte_host"
        \/ pc = "byte_host" /\ pc' = "byte_issue"
        \/ pc = "byte_done" /\ pc' = "byte_accepted" /\ ~write_byte_busy
        \/ pc = "read_wait" /\ pc' = "ack_issue"
    BY <1>1, <1>4 DEF WaitSucceeds, Waits, NextPrimitive, Continue, done_fn
  <2>3. CountInv'
    BY <2>1, <2>2 DEF CountInv, Reading
  <2>4. Progress'
    BY <2>1, <2>2 DEF hw, CountInv, Progress, ByteTaken, AtStop, write_byte_busy
  <2> QED
    BY <2>3, <2>4
<1>5. CASE ByteNacked
  <2>1. /\ pc' = "stop_issue" /\ i' = 0 /\ st' = "NACK" /\ call' = call
        /\ fn' \in {fn, "abort_pending_sequence"} /\ fn # "stop_pending_sequence"
    BY <1>5 DEF ByteNacked, Fail, SInv, SequenceShape, AtStop
  <2>2. call.tx_len \in Nat
    BY <1>5, CallShapeInProgress DEF ByteNacked, SInv, IInv, CallInProgress, Call
  <2>3. CountInv'
    BY <2>1, <2>2 DEF CountInv, Reading, ReadFns
  <2>4. Progress'
    BY <2>1 DEF Progress
  <2> QED
    BY <2>3, <2>4
<1>6. ASSUME ByteAcked PROVE ByteTaken
  BY <1>6 DEF ByteAcked, Progress, QuietInv, BytePhase
<1>7. CASE WriteNextByte
  <2>1. phase = "write" /\ n = i
    BY <1>6, <1>7 DEF WriteNextByte, ByteTaken
  <2>2. CountInv'
    <3>1. call.tx_len \in Nat
      BY <1>7, CallShapeInProgress DEF WriteNextByte, ByteAcked, SInv, IInv, CallInProgress, Call
    <3>2. i < call.tx_len /\ i' = i + 1 /\ fn' = fn /\ call' = call /\ pc' = "byte_ready"
      BY <1>7 DEF WriteNextByte
    <3>3. i' <= call'.tx_len
      BY <1>2, <3>1, <3>2
    <3> QED
      BY <3>2, <3>3 DEF CountInv, Reading, ReadFns
  <2>3. Progress'
    BY <1>2, <1>7, <2>1 DEF WriteNextByte, Progress
  <2> QED
    BY <2>2, <2>3
<1>8. CASE WritePhaseDone
  <2>1. n = call.tx_len
    <3>1. n = i /\ i <= call.tx_len /\ i >= call.tx_len /\ call.tx_len \in Nat
      BY <1>6, <1>8, CallShapeInProgress
      DEF WritePhaseDone, ByteTaken, ByteAcked, CountInv, SInv, IInv, CallInProgress, Call
    <3> QED
      BY <1>2, <3>1
  <2>2. CASE call.op = "write_no_stop"
    BY <1>8, <2>2, ReturnFresh DEF WritePhaseDone
  <2>3. CASE call.op = "write"
    BY <1>8, <2>1, <2>3 DEF WritePhaseDone, CountInv, Progress, Reading, ReadFns, ReadOps
  <2>4. CASE call.op = "write_read"
    BY <1>8, <2>4 DEF WritePhaseDone, CountInv, Progress, Reading, ReadFns, ReadOps, AtStop
  <2> QED
    BY <1>8, <2>2, <2>3, <2>4 DEF WritePhaseDone
<1>9. CASE ReadAddressed
  <2>1. phase = "read" /\ n = 0
    BY <1>6, <1>9 DEF ReadAddressed, ByteTaken
  <2>2. 0 < call.rx_len
    BY <1>9 DEF ReadAddressed, CountInv, ReadFns
  <2> QED
    BY <1>9, <2>1, <2>2 DEF ReadAddressed, CountInv, Progress, Reading, AtStop, ReadFns
<1>10. CASE ReadNextByte \/ ReadPhaseDone
  <2>1. /\ pc = "ack_wait" /\ n = i + 1 /\ (~last_byte => phase = "read")
        /\ i < call.rx_len /\ call.op \in ReadOps
        /\ fn \in ReadFns
    BY <1>1, <1>10
    DEF ReadNextByte, ReadPhaseDone, done_fn, Progress, AckTaken, CountInv, Reading, SInv,
        SequenceShape, ReadFns
  <2>2. call.rx_len \in Nat
    BY <2>1, CallShapeInProgress DEF SInv, IInv, CallInProgress, Call
  <2>3. CASE ReadNextByte
    BY <1>2, <2>1, <2>2, <2>3
    DEF ReadNextByte, last_byte, CountInv, Progress, Reading, AtStop, ReadFns
  <2>4. CASE ReadPhaseDone
    <3>1. n = call.rx_len
      BY <1>2, <2>1, <2>2, <2>4 DEF ReadPhaseDone, last_byte
    <3> QED
      BY <2>1, <2>4, <3>1
      DEF ReadPhaseDone, CountInv, Progress, Reading, AtStop, ReadFns, ReadOps, WriteOps
  <2> QED
    BY <1>10, <2>3, <2>4
<1>11. CASE \E stop \in StopOutcomes :
              \/ QuietStop(stop) \/ StopPending(stop) \/ AbortPending(stop)
              \/ Recovered(stop) \/ DeinitRecovered(stop)
  BY <1>11, ReturnFresh
  DEF QuietStop, StopPending, AbortPending, Recovered, DeinitRecovered, Finish, ForceOff
<1> QED
  BY <1>3, <1>4, <1>5, <1>7, <1>8, <1>9, <1>10, <1>11 DEF Poll

\* Each event on the wire moves both sides by one byte, or neither.
LEMMA WireTransfers ==
  ASSUME TransferInv, Wire
  PROVE  CountInv' /\ Progress'
<1> USE DEF TransferInv
<1>1. UNCHANGED <<pc, fn, call, i, st>>
  BY DEF Wire, Program, control
<1>2. CountInv'
  BY <1>1 DEF CountInv, Reading
<1>3. i \in Nat
  BY DEF SInv, IInv, TypeOK, ControlTypeOK
<1>4. CASE ByteToClient
  <2>1. /\ pc = "byte_done" /\ write_byte_busy
        /\ ~write_byte_busy'
    BY <1>4, OneAtATime DEF ByteToClient, HwByteSent, write_byte_busy
  <2>2. ASSUME "NACKE" \notin STAT2' PROVE ByteTaken'
    <3>1. \/ SendsAddress /\ Slave!HwAddress(Direction)
          \/ ~SendsAddress /\ phase = "write" /\ Slave!HwByteIn
      BY <1>4, <2>2 DEF ByteToClient, Acked
    <3>2. CASE SendsAddress /\ Slave!HwAddress(Direction)
      BY <1>1, <3>2 DEF Slave!HwAddress, SendsAddress, Direction, ByteTaken
    <3>3. CASE ~SendsAddress /\ phase = "write" /\ Slave!HwByteIn
      <4>1. n = i - 1 /\ fn = "write_no_stop_sequence"
        BY <1>3, <2>1, <3>3 DEF SendsAddress, Progress
      <4> QED
        BY <1>1, <1>3, <3>3, <4>1 DEF Slave!HwByteIn, ByteTaken
    <3> QED
      BY <3>1, <3>2, <3>3
  <2>3. Progress'
    BY <1>1, <2>1, <2>2 DEF Progress, AtStop, SInv, SequenceShape
  <2> QED
    BY <1>2, <2>3
<1>5. CASE AckToClient
  <2>1. /\ pc = "ack_wait" /\ "ACKEN" \in CON1 /\ "ACKEN" \notin CON1'
        /\ "ACKDT" \in CON1' <=> "ACKDT" \in CON1
    BY <1>5, OneAtATime DEF AckToClient, HwAckSent
  <2>2. phase = "read" /\ n = i /\ ("ACKDT" \in CON1 <=> last_byte)
    BY <2>1 DEF Progress, AckTaken
  <2>3. Slave!HwByteOut /\ ("ACKSTAT" \in slave_STAT1' <=> "ACKDT" \in CON1)
    BY <1>5, <2>2 DEF AckToClient
  <2>4. n' = i + 1 /\ ("ACKSTAT" \notin slave_STAT1' => phase' = "read")
    BY <2>2, <2>3 DEF Slave!HwByteOut
  <2>5. AckTaken'
    BY <1>1, <2>1, <2>2, <2>3, <2>4 DEF AckTaken, last_byte
  <2>6. Progress'
    BY <1>1, <2>1, <2>5 DEF Progress, AtStop, SInv, SequenceShape
  <2> QED
    BY <1>2, <2>6
<1>6. CASE StopToClient
  <2>1. pc = "stop_wait" /\ n' = n
    BY <1>6, OneAtATime DEF StopToClient, HwStopEvent, Slave!HwStop, Client
  <2> QED
    BY <1>1, <1>2, <2>1 DEF Progress, AtStop
<1>7. CASE ByteToHost \/ HostAlone
  <2>1. /\ UNCHANGED <<phase, n>>
        /\ write_byte_busy' <=> write_byte_busy
        /\ "NACKE" \in STAT2' <=> "NACKE" \in STAT2
        /\ "ACKEN" \in CON1' <=> "ACKEN" \in CON1
        /\ "ACKDT" \in CON1' <=> "ACKDT" \in CON1
    BY <1>7
    DEF ByteToHost, HostAlone, HwByteReceived, HwStartEvent, HwStartOwned, HwRestartEvent,
        HwRestartRetired, HwStopRetired, write_byte_busy, Client
  <2> QED
    BY <1>1, <1>2, <2>1 DEF Progress, ByteTaken, AckTaken, last_byte, AtStop
<1> QED
  BY <1>4, <1>5, <1>6, <1>7 DEF Wire

LEMMA NextTransfers ==
  ASSUME TransferInv, Undisturbed, [LoopbackNext]_loopback
  PROVE  CountInv' /\ Progress'
<1>1. CASE Master
  BY <1>1, PublicCallTransfers, IssueTransfers, PollTransfers DEF Master, Engine
<1>2. CASE Wire
  BY <1>2, WireTransfers
<1>3. CASE SlaveMain \/ SlaveIsr \/ UNCHANGED loopback
  <2>1. UNCHANGED vars /\ (pc = "idle" \/ UNCHANGED <<phase, n>>)
    BY <1>3
    DEF SlaveMain, SlaveIsr, loopback, Client, Slave!Interrupt, Slave!slave_irq,
        Slave!slave_service, Slave!poll, Slave!poll_next, Slave!receive, Slave!on_addr_match,
        Slave!on_rx_byte, Slave!on_tx_byte, Slave!release, Slave!on_stop, Slave!leave, Slave!Reti,
        Slave!Isr, Slave!bus
  <2> QED
    BY <2>1
    DEF TransferInv, vars, hw, control, CountInv, Reading, Progress, ByteTaken, AckTaken,
        last_byte, AtStop, write_byte_busy, SInv, SequenceShape
<1> QED
  BY <1>1, <1>2, <1>3 DEF LoopbackNext

\* Only a poll can return OK to a call under way.
LEMMA OnlyPollsEnd ==
  ASSUME LoopbackNext, pc # "idle", pc' = "idle"
  PROVE  Poll
<1>1. Master
  BY DEF LoopbackNext, SlaveMain, SlaveIsr, Wire, Program, control, vars
<1>2. ~PublicCall
  BY DEF PublicCall, RejectArguments, RequireInitialized, Transfer, RecoverStalePending,
         PendingBusy, BeginIndependent, SequenceError, BeginPending, init, DeinitBusy, Deinit,
         SetBusSpeedBusy, SetBusSpeed
<1>3. ~Issue
  BY DEF Issue, start_issue, restart_issue, stop_issue, write_byte_issue, read_byte_issue,
         ack_issue, Continue, Goto
<1> QED
  BY <1>1, <1>2, <1>3 DEF Master, Engine

\* What has been transferred when a poll returns OK.
LEMMA OkCounts ==
  ASSUME TransferInv, Undisturbed, Poll, pc # "idle", pc' = "idle", ret'.st = "OK"
  PROVE  /\ call.op \in {"write", "write_no_stop"} => n = call.tx_len
         /\ call.op \in ReadOps => n = call.rx_len
<1> USE DEF TransferInv, SInv, SequenceShape, ReadOps, WriteOps
<1>1. CASE WritePhaseDone
  <2>1. call.op = "write_no_stop"
    BY <1>1 DEF WritePhaseDone, Goto
  <2>2. /\ n = i /\ i <= call.tx_len /\ i >= call.tx_len
        /\ i \in Nat /\ call.tx_len \in Nat
    BY <1>1, CallShapeInProgress
    DEF WritePhaseDone, ByteTaken, ByteAcked, Progress, QuietInv, BytePhase, CountInv, IInv,
        TypeOK, ControlTypeOK, CallInProgress, Call
  <2> QED
    BY <2>1, <2>2
<1>2. ASSUME NEW stop \in StopOutcomes, QuietStop(stop)
      PROVE  fn = "read" /\ AtStop /\ st = "OK"
  BY <1>2 DEF QuietStop, StopWait, Finish, Return, AtStop
<1>3. ASSUME NEW stop \in StopOutcomes, StopPending(stop)
      PROVE  fn = "stop_pending_sequence"
  BY <1>3 DEF StopPending, StopWait
<1>4. ASSUME NEW stop \in StopOutcomes, AbortPending(stop)
      PROVE  FALSE
  BY <1>4 DEF AbortPending, StopWait, Finish, Return, AtStop
<1>5. ASSUME NEW stop \in StopOutcomes, Recovered(stop) \/ DeinitRecovered(stop)
      PROVE  FALSE
  BY <1>5 DEF Recovered, DeinitRecovered, RecoveryStatus, Finish, ForceOff, Return
<1>6. CASE \/ WaitFails \/ WaitSucceeds \/ ByteNacked \/ WriteNextByte
           \/ ReadAddressed \/ ReadNextByte \/ ReadPhaseDone
  BY <1>6
  DEF WaitFails, WaitSucceeds, NextPrimitive, Waits, ByteNacked, WriteNextByte, ReadAddressed,
      ReadNextByte, ReadPhaseDone, Fail, Continue, Goto
<1>7. CASE fn \in {"read", "stop_pending_sequence"} /\ (fn = "read" => AtStop /\ st = "OK")
  BY <1>7 DEF Progress
<1> QED
  BY <1>1, <1>2, <1>3, <1>4, <1>5, <1>6, <1>7 DEF Poll

\* OK means that the client took every byte of a write, or sent every byte of a
\* read, of this very transaction: no acknowledge is taken for another's.
THEOREM OkIsTransferred == ASSUME Undisturbed PROVE LoopbackSpec => OkMeansTransferred
<1>1. LoopbackInit => CountInv /\ Progress
  BY DEF LoopbackInit, Init, NoCall, CountInv, Progress, Reading, AtStop, ReadFns, ReadOps
<1>2. (SInv /\ QuietInv) /\ (CountInv /\ Progress) /\ [LoopbackNext]_loopback
      => (CountInv /\ Progress)'
  BY NextTransfers DEF TransferInv
<1>3. (SInv /\ QuietInv) /\ (CountInv /\ Progress) /\ [LoopbackNext]_loopback
      => [ /\ ReturnsOk({"write", "write_no_stop"}) => n = call.tx_len
           /\ ReturnsOk(ReadOps) => n = call.rx_len ]_loopback
  BY OnlyPollsEnd, OkCounts DEF TransferInv, ReturnsOk
<1> QED
  BY <1>1, <1>2, <1>3, MasterInvariance, PTL DEF LoopbackSpec, OkMeansTransferred
=============================================================================
