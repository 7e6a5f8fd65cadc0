---------------------------- MODULE I2CLoopback ----------------------------
(***************************************************************************)
(* A master of this driver and a slave of this driver on one bus, like the *)
(* I2C2-master, I2C3-slave loopback the README validates.  The steps of    *)
(* the host and of the client on the wire are one step here: a byte the    *)
(* host sends is a byte the client takes, or does not acknowledge.         *)
(*                                                                         *)
(* Both run on one CPU: the main thread makes the calls of both roles, and *)
(* does nothing while a slave interrupt is due or served.                  *)
(***************************************************************************)
EXTENDS MCI2CMaster, Sequences

CONSTANTS MaxBytes, Overtakes, Dedicated, Stretch, Reinit, Priorities, Settable

\* What I2CClient and I2CSlave assume of their constants; and the slave's
\* interrupt is not masked, so that MasterMayRun waits for what is due only.
ASSUME SlaveAssumption ==
  /\ MaxBytes \in Nat /\ MaxBytes > 0
  /\ Overtakes \subseteq {"start", "byte", "stop"} /\ Dedicated \subseteq {"rx", "tx"}
  /\ Stretch \subseteq BOOLEAN /\ Reinit \in BOOLEAN
  /\ Priorities \subseteq 1 .. 255 /\ Settable \subseteq {"event", "rx", "tx"}

ASSUME EveryTransferFits == MaxLen <= MaxBytes

VARIABLES
  slave_CON1, slave_STAT1, RCV, TRN, IFS, IEC, vector, phase, n, owed, stop_due,
  g_active, g_reading, main, isr, stat, b, preempted, prio, tx

Slave == INSTANCE I2CSlave WITH CON1 <- slave_CON1, STAT1 <- slave_STAT1

Client == <<slave_CON1, slave_STAT1, RCV, TRN, IFS, IEC, vector, phase, n,
            owed, stop_due>>
SlaveProgram == <<g_active, g_reading, main, isr, stat, b, preempted, prio, tx>>
loopback == <<vars, Client, SlaveProgram>>

Program == <<now, statics, control>>

LoopbackInit == Init /\ Slave!Init

-----------------------------------------------------------------------------
(* The wire.                                                                *)

\* What the byte in the host's TRN is: an address with its direction, or data.
SendsAddress == fn # "write_no_stop_sequence" \/ i = 0
Direction    == IF fn = "write_no_stop_sequence" THEN "write" ELSE "read"

Acked == "NACKE" \notin STAT2'

\* The host waits while the client holds SCL.
ByteToClient ==
  /\ ~Slave!Held
  /\ HwByteSent
  /\ IF "ON" \in slave_CON1 /\ (SendsAddress \/ phase = "write")
       THEN IF SendsAddress
              THEN \/ Slave!HwAddress(Direction) /\ Acked
                   \/ Slave!HwAddressOverflow /\ ~Acked
              ELSE \/ Slave!HwByteIn /\ Acked
                   \/ Slave!HwByteInOverflow /\ ~Acked
       ELSE ~Acked /\ UNCHANGED Client

\* The client learns of a byte it sent with the acknowledge.
ByteToHost == ~Slave!Held /\ HwByteReceived /\ UNCHANGED Client

AckToClient ==
  /\ ~Slave!Held
  /\ HwAckSent
  /\ IF phase = "read"
       THEN Slave!HwByteOut /\ ("ACKSTAT" \in slave_STAT1' <=> "ACKDT" \in CON1)
       ELSE UNCHANGED Client

StopToClient ==
  /\ ~Slave!Held
  /\ HwStopEvent
  /\ IF phase \in {"write", "nacked"} THEN Slave!HwStop ELSE UNCHANGED Client

\* A START reaches the client with the address that follows it.
HostAlone ==
  /\ \/ ~Slave!Held /\ (HwStartEvent \/ HwRestartEvent)
     \/ HwStartOwned \/ HwRestartRetired \/ HwStopRetired
  /\ UNCHANGED Client

Wire ==
  /\ ByteToClient \/ ByteToHost \/ AckToClient \/ StopToClient \/ HostAlone
  /\ UNCHANGED <<Program, SlaveProgram>>

-----------------------------------------------------------------------------
(* The programs.                                                            *)

MasterMayRun == Slave!Settled /\ main = "idle"

Master == MasterMayRun /\ (PublicCall \/ Engine) /\ UNCHANGED <<Client, SlaveProgram>>
SlaveMain == pc = "idle" /\ Slave!MainThread /\ UNCHANGED vars
SlaveIsr  == Slave!Interrupt /\ UNCHANGED vars

LoopbackNext == Master \/ SlaveMain \/ SlaveIsr \/ Wire

LoopbackSpec == LoopbackInit /\ [][LoopbackNext]_loopback

\* The bus and both programs go on; nobody is made to begin a call.
LoopbackFairSpec ==
  /\ LoopbackSpec
  /\ WF_loopback(Wire) /\ WF_loopback(SlaveIsr)
  /\ SF_loopback(MasterMayRun /\ Engine /\ UNCHANGED <<Client, SlaveProgram>>)
  /\ WF_loopback(SlaveMain /\ main # "idle")

-----------------------------------------------------------------------------
(* Properties of the two together.                                          *)

ReturnsOk(ops) == pc # "idle" /\ pc' = "idle" /\ ret'.st = "OK" /\ call.op \in ops

\* OK means that the client took every byte written, or sent every byte read,
\* of this very transaction.
OkMeansTransferred ==
  [][ /\ ReturnsOk({"write", "write_no_stop"}) => n = call.tx_len
      /\ ReturnsOk(ReadOps) => n = call.rx_len ]_loopback

\* The slave's application has been told all of it, the STOP included, before
\* the master's call returns.
OkMeansTold ==
  [][ ReturnsOk(WriteOps \cup ReadOps \cup {"stop"}) => owed = <<>> /\ ~stop_due ]_loopback

\* The slave keeps its promises to the application whatever calls the master
\* makes: no STOP is reported twice or not at all, and no byte of on_tx_byte is
\* lost, because no START is made before the ISR is done.
SlaveStopOnce == Slave!StopOnce
SlaveStopBeforeNext == Slave!StopBeforeNext
SlaveTxInOrder == Slave!TxInOrder

\* The master waits for the bus and the bus for the slave's ISR, never for
\* each other.
LoopbackCallsReturn == pc # "idle" ~> pc = "idle"
=============================================================================
