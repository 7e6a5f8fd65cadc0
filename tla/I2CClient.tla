----------------------------- MODULE I2CClient -----------------------------
(***************************************************************************)
(* The dsPIC33AK I2C peripheral in client mode, its interrupt flags and    *)
(* the bus master talking to it, as the slave engine of                    *)
(* src/src/dspic33ak_i2c_slave.c sees them.  None of it is repository code;*)
(* it is what the comments of that file and its use of the registers say.  *)
(* A byte is its number in the transaction; number 0 is the address.       *)
(***************************************************************************)
EXTENDS Integers, Sequences

CONSTANTS
  MaxBytes,   \* longest transaction, in bytes
  Overtakes,  \* bus events that may come before the last one is serviced
  Dedicated   \* dedicated interrupts the integration enables

ASSUME MaxBytesAssumption == MaxBytes \in Nat /\ MaxBytes > 0
ASSUME OvertakesAssumption == Overtakes \subseteq {"start", "byte", "stop"}
ASSUME DedicatedAssumption == Dedicated \subseteq {"rx", "tx"}

VARIABLES
  CON1, STAT1,  \* the bits that are 1
  RCV, TRN,     \* the number of the byte in each buffer
  IFS, IEC,     \* interrupt sources flagged, and enabled
  vector,       \* the interrupt being served, "none" outside
  phase,        \* what the bus does with this client
  n,            \* bytes moved in the transaction
  owed,         \* bus events the application has not been told of
  stop_due      \* a STOP the application has not been told of

registers == <<CON1, STAT1, RCV, TRN>>
bus       == <<phase, n>>
client    == <<registers, IFS, IEC, vector, bus, owed, stop_due>>

Sources == {"event", "rx", "tx"}
Phases  == {"free", "write", "read", "nacked"}

\* What the application is told: the direction of a transaction, or a byte.
Event  == [what: {"write", "read", "byte"}, nr: 0 .. MaxBytes]
Address(dir) == [what |-> dir, nr |-> 0]
Byte(k)      == [what |-> "byte", nr |-> k]

ClientTypeOK ==
  /\ CON1 \subseteq {"ON", "PCIE", "STREN", "SCLREL"}
  /\ STAT1 \subseteq {"RBF", "TBF", "D_A", "R_W", "P", "I2COV", "ACKSTAT"}
  /\ RCV \in 0 .. MaxBytes
  /\ TRN \in 0 .. MaxBytes + 1
  /\ IFS \subseteq Sources /\ IEC \subseteq Sources
  /\ vector \in Sources \cup {"none"}
  /\ phase \in Phases /\ n \in 0 .. MaxBytes
  /\ owed \in Seq(Event)
  /\ stop_due \in BOOLEAN

ClientInit ==
  /\ CON1 = {} /\ STAT1 = {} /\ RCV = 0 /\ TRN = 0
  /\ IFS = {} /\ IEC = {} /\ vector = "none"
  /\ phase = "free" /\ n = 0
  /\ owed = <<>> /\ stop_due = FALSE

Held    == "ON" \in CON1 /\ "SCLREL" \notin CON1
Settled == vector = "none" /\ IFS \cap IEC = {}

\* While SCL is held nothing happens on the bus.
MayHappen(kind) ==
  /\ "ON" \in CON1 /\ ~Held
  /\ Settled \/ kind \in Overtakes

\* Every client condition raises the event interrupt, some a dedicated one too.
Raise(dedicated) == IFS' = IFS \cup {"event"} \cup (Dedicated \cap dedicated)

\* A byte is taken, and acknowledged, only into an empty buffer.
CanReceive == STAT1 \cap {"RBF", "I2COV"} = {}

\* START, or a repeated one, and this client's address.  START clears P.
\* SCL is held after an address even when STREN = 0.
HwAddress(dir) ==
  /\ MayHappen("start") /\ CanReceive
  /\ phase # "read"
  /\ \E stale \in {{}, {"ACKSTAT"}} :
       STAT1' = (STAT1 \ ({"D_A", "R_W", "P"} \cup stale)) \cup {"RBF"}
                  \cup (IF dir = "read" THEN {"R_W"} ELSE {})
  /\ CON1' = CON1 \ {"SCLREL"}
  /\ RCV' = 0
  /\ Raise({"rx"})
  /\ phase' = dir /\ n' = 0
  /\ owed' = Append(owed, Address(dir))
  /\ UNCHANGED <<TRN, IEC, vector, stop_due>>

\* The address of a client whose buffer is full is not acknowledged.
HwAddressOverflow ==
  /\ MayHappen("start") /\ ~CanReceive
  /\ phase # "read"
  /\ STAT1' = (STAT1 \ {"P"}) \cup {"I2COV"}
  /\ phase' = "free" /\ n' = 0
  /\ UNCHANGED <<CON1, RCV, TRN, IFS, IEC, vector, owed, stop_due>>

HwByteIn ==
  /\ MayHappen("byte") /\ CanReceive
  /\ phase = "write" /\ n < MaxBytes
  /\ STAT1' = STAT1 \cup {"RBF", "D_A"}
  /\ CON1' = CON1 \ (IF "STREN" \in CON1 THEN {"SCLREL"} ELSE {})
  /\ RCV' = n + 1 /\ n' = n + 1
  /\ Raise({"rx"})
  /\ owed' = Append(owed, Byte(n + 1))
  /\ UNCHANGED <<TRN, IEC, vector, phase, stop_due>>

HwByteInOverflow ==
  /\ MayHappen("byte") /\ ~CanReceive
  /\ phase = "write" /\ n < MaxBytes
  /\ STAT1' = STAT1 \cup {"I2COV"}
  /\ UNCHANGED <<CON1, RCV, TRN, IFS, IEC, vector, bus, owed, stop_due>>

\* The master clocks a byte out and answers it.  After an ACK the client holds
\* SCL for the next byte; after a NACK it does not.
HwByteOut ==
  /\ MayHappen("byte")
  /\ phase = "read" /\ n < MaxBytes
  /\ n' = n + 1
  /\ \/ /\ n + 1 < MaxBytes
        /\ STAT1' = STAT1 \ {"TBF", "ACKSTAT"}
        /\ CON1' = CON1 \ {"SCLREL"}
        /\ phase' = "read"
     \/ /\ STAT1' = (STAT1 \ {"TBF"}) \cup {"ACKSTAT"}
        /\ CON1' = CON1
        /\ phase' = "nacked"
  /\ Raise({"tx"})
  /\ UNCHANGED <<RCV, TRN, IEC, vector, owed, stop_due>>

HwStop ==
  /\ MayHappen("stop")
  /\ phase \in {"write", "nacked"}
  /\ STAT1' = STAT1 \cup {"P"}
  /\ Raise({})
  /\ phase' = "free" /\ stop_due' = TRUE
  /\ UNCHANGED <<CON1, RCV, TRN, IEC, vector, n, owed>>

HwBus ==
  \/ \E dir \in {"read", "write"} : HwAddress(dir)
  \/ HwAddressOverflow \/ HwByteIn \/ HwByteInOverflow \/ HwByteOut \/ HwStop

\* Effect of software clearing ON: the client state machine is reset and the
\* transaction abandoned.  Interrupt flags keep their value.
HwOff ==
  /\ STAT1' = {}
  /\ phase' = "free" /\ n' = 0
  /\ owed' = <<>> /\ stop_due' = FALSE
=============================================================================
