------------------------------ MODULE I2CHost ------------------------------
(***************************************************************************)
(* The dsPIC33AK I2C peripheral in host mode, as the master engine of      *)
(* src/src/dspic33ak_i2c_master.c sees it: the registers CON1, STAT1 and   *)
(* STAT2 as sets of the bits that are 1, and the steps the hardware takes  *)
(* on its own.  None of it is repository code; it is what the engine's     *)
(* waits, guards and comments rely on.  A step no fairness forces may      *)
(* never happen: a target stretching SCL forever is the absence of a step. *)
(***************************************************************************)
EXTENDS Integers

CONSTANT BusFaults   \* what may go wrong on the bus in a run

BusFaultKinds == {"nack",          \* the target does not acknowledge a byte
                  "silent_nack",   \* ... and D_A is then not raised either
                  "collision",     \* another host wins arbitration (BCL)
                  "error"}         \* the module raises STAT2.ERR

ASSUME BusFaultsAssumption == BusFaults \subseteq BusFaultKinds

VARIABLES CON1, STAT1, STAT2

hw == <<CON1, STAT1, STAT2>>

\* Request bits: set by software to ask for an action, cleared by hardware.
Requests  == {"SEN", "RSEN", "PEN", "RCEN", "ACKEN"}
Con1Bits  == Requests \cup {"ACKDT", "ON"}
Stat1Bits == {"S", "D_A", "TRSTAT", "RBF", "IWCOL", "BCL"}
Stat2Bits == {"STARTE", "STOPE", "NACKE", "ERR", "HSTACT"}

HwTypeOK ==
  /\ CON1 \subseteq Con1Bits
  /\ STAT1 \subseteq Stat1Bits
  /\ STAT2 \subseteq Stat2Bits

HwInit == CON1 = {} /\ STAT1 = {} /\ STAT2 = {}

\* A START is asked for.  The event flags come first; the host owns the bus,
\* and SEN is clear, only afterwards.  A START is not made during a STOP.
HwStartEvent ==
  /\ "SEN" \in CON1 /\ "PEN" \notin CON1
  /\ "STARTE" \notin STAT2 /\ "HSTACT" \notin STAT2
  /\ STAT1' = (STAT1 \ {"D_A"}) \cup {"S"}
  /\ STAT2' = STAT2 \cup {"STARTE"}
  /\ UNCHANGED CON1

HwStartOwned ==
  /\ "SEN" \in CON1 /\ "STARTE" \in STAT2
  /\ CON1' = CON1 \ {"SEN"}
  /\ STAT2' = STAT2 \cup {"HSTACT"}
  /\ UNCHANGED STAT1

\* A repeated START needs the bus; RSEN clears after STARTE is raised.
HwRestartEvent ==
  /\ "RSEN" \in CON1 /\ "PEN" \notin CON1
  /\ "STARTE" \notin STAT2 /\ "HSTACT" \in STAT2
  /\ STAT1' = (STAT1 \ {"D_A"}) \cup {"S"}
  /\ STAT2' = STAT2 \cup {"STARTE"}
  /\ UNCHANGED CON1

HwRestartRetired ==
  /\ "RSEN" \in CON1 /\ "STARTE" \in STAT2
  /\ CON1' = CON1 \ {"RSEN"}
  /\ UNCHANGED <<STAT1, STAT2>>

\* A STOP waits for the byte or the ACK in progress.  STOPE is raised before
\* PEN clears (README, "STOP completion"); only then is the bus given up.
HwStopEvent ==
  /\ "PEN" \in CON1 /\ "STOPE" \notin STAT2
  /\ CON1 \cap {"RCEN", "ACKEN"} = {} /\ "TRSTAT" \notin STAT1
  /\ STAT1' = STAT1 \ {"S"}
  /\ STAT2' = STAT2 \cup {"STOPE"}
  /\ UNCHANGED CON1

\* A START asked for while PEN was set can be ignored: SEN may be dropped.
HwStopRetired ==
  /\ "PEN" \in CON1 /\ "STOPE" \in STAT2
  /\ CON1 \cap {"RCEN", "ACKEN"} = {} /\ "TRSTAT" \notin STAT1
  /\ \E ignored \in {{}, {"SEN"}} :
        CON1' = CON1 \ ({"PEN", "RSEN"} \cup ignored)
  /\ STAT2' = STAT2 \ {"HSTACT"}
  /\ UNCHANGED STAT1

\* The byte in TRN has been shifted out and the target has answered.
HwByteSent ==
  /\ "TRSTAT" \in STAT1
  /\ \/ /\ STAT1' = (STAT1 \ {"TRSTAT"}) \cup {"D_A"}
        /\ STAT2' = STAT2
     \/ /\ "nack" \in BusFaults
        /\ STAT1' = (STAT1 \ {"TRSTAT"}) \cup {"D_A"}
        /\ STAT2' = STAT2 \cup {"NACKE"}
     \/ /\ "silent_nack" \in BusFaults
        /\ STAT1' = STAT1 \ {"TRSTAT"}
        /\ STAT2' = STAT2 \cup {"NACKE"}
  /\ UNCHANGED CON1

HwByteReceived ==
  /\ "RCEN" \in CON1 /\ "HSTACT" \in STAT2
  /\ CON1' = CON1 \ {"RCEN"}
  /\ STAT1' = STAT1 \cup {"RBF"}
  /\ UNCHANGED STAT2

HwAckSent ==
  /\ "ACKEN" \in CON1
  /\ CON1' = CON1 \ {"ACKEN"}
  /\ UNCHANGED <<STAT1, STAT2>>

HostWorking == "HSTACT" \in STAT2 \/ CON1 \cap Requests # {}

\* Arbitration lost: the host drops what it was doing and leaves the bus.
\* Once its STOP is on the bus there is nothing left to lose.
HwCollision ==
  /\ "collision" \in BusFaults
  /\ HostWorking
  /\ "PEN" \in CON1 => "STOPE" \notin STAT2
  /\ CON1' = CON1 \ Requests
  /\ STAT1' = (STAT1 \ {"TRSTAT"}) \cup {"BCL"}
  /\ STAT2' = STAT2 \ {"HSTACT"}

HwError ==
  /\ "error" \in BusFaults
  /\ HostWorking
  /\ STAT2' = STAT2 \cup {"ERR"}
  /\ UNCHANGED <<CON1, STAT1>>

\* What the hardware does with what it is asked, and what the bus does to it.
HwServes ==
  \/ HwStartEvent \/ HwStartOwned \/ HwRestartEvent \/ HwRestartRetired
  \/ HwStopEvent \/ HwStopRetired
  \/ HwByteSent \/ HwByteReceived \/ HwAckSent

HwStep == HwServes \/ HwCollision \/ HwError

\* Effect of software clearing ON: the host state machine is reset.  The bits
\* only software clears (clear_transfer_status) keep their value.
HwOff ==
  /\ CON1' = CON1 \ (Requests \cup {"ON"})
  /\ STAT1' = STAT1 \cap {"IWCOL", "BCL"}
  /\ STAT2' = STAT2 \ {"HSTACT"}

\* Effect of software writing TRN: a transfer starts, or the write collides.
HwWriteTRN(stat1) ==
  IF "HSTACT" \in STAT2 /\ CON1 \cap Requests = {} /\ "TRSTAT" \notin stat1
    THEN stat1 \cup {"TRSTAT"}
    ELSE stat1 \cup {"IWCOL"}
=============================================================================
