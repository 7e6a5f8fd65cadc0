------------------------------ MODULE I2CSlave ------------------------------
(***************************************************************************)
(* The slave engine, src/src/dspic33ak_i2c_slave.c, for one instance with  *)
(* slave mappings.  slave_init and slave_deinit run in the main thread;    *)
(* the ISR delegates preempt it between any two of its steps, and each     *)
(* other by their priorities; the bus (I2CClient) goes on meanwhile.       *)
(*                                                                         *)
(* A callback that is NULL is one that does nothing (on_tx_byte: that      *)
(* returns 0xFF).  on_tx_byte returns the bytes 1, 2, ... of a transaction *)
(* and MaxBytes + 1 once the application has run out of them.              *)
(***************************************************************************)
EXTENDS I2CClient

CONSTANTS
  Stretch,     \* the values of clock_stretch a caller passes
  Reinit,      \* whether slave_init is called on an active slave
  Priorities,  \* the interrupt priorities a caller asks for; 0 masks
  Settable     \* interrupts whose priority the instance has a symbol for

ASSUME StretchAssumption == Stretch \subseteq BOOLEAN
ASSUME ReinitAssumption == Reinit \in BOOLEAN
ASSUME PrioritiesAssumption == Priorities \subseteq 0 .. 255
ASSUME SettableAssumption == Settable \subseteq Sources

VARIABLES
  g_active, g_reading,  \* as in the code
  main,                 \* where slave_init or slave_deinit stands
  isr,                  \* where slave_service stands
  stat, b,              \* its locals
  preempted,            \* services interrupted by this one, latest first
  prio,                 \* _I2CxIP, _I2CxRXIP, _I2CxTXIP
  tx                    \* bytes on_tx_byte has returned in this transaction

service == <<isr, stat, b, preempted, tx>>
vars    == <<client, g_active, g_reading, main, prio, service>>

MainPcs == {"idle", "init_state", "init_irq", "init_on", "deinit_off", "deinit_state"}
IsrPcs  == {"done", "poll", "receive", "address", "data", "load", "release",
            "stop", "overflow"}

Frame == [vector: Sources, isr: IsrPcs \ {"done"},
          stat: SUBSET {"RBF", "TBF", "D_A", "R_W", "P", "I2COV", "ACKSTAT"},
          b: 0 .. MaxBytes]

\* The types; a service in progress has a vector, and preempts none of a higher
\* priority; an inactive slave reads nothing.
TypeOK ==
  /\ ClientTypeOK
  /\ g_active \in BOOLEAN /\ g_reading \in BOOLEAN
  /\ main \in MainPcs /\ isr \in IsrPcs
  /\ vector = "none" <=> isr = "done"
  /\ stat \subseteq {"RBF", "TBF", "D_A", "R_W", "P", "I2COV", "ACKSTAT"}
  /\ b \in 0 .. MaxBytes /\ tx \in 0 .. MaxBytes + 1
  /\ g_reading => g_active
  /\ prio \in [Sources -> 0 .. 7]
  /\ preempted \in Seq(Frame)
  /\ preempted # <<>> => vector # "none" /\ prio[vector] > prio[Head(preempted).vector]

\* All priorities are 4 after reset.
Init ==
  /\ ClientInit
  /\ g_active = FALSE /\ g_reading = FALSE
  /\ main = "idle" /\ isr = "done"
  /\ stat = {} /\ b = 0 /\ tx = 0
  /\ preempted = <<>> /\ prio = [s \in Sources |-> 4]

-----------------------------------------------------------------------------
(* The main thread.                                                         *)

Main(from, to) ==
  /\ vector = "none"
  /\ main = from /\ main' = to
  /\ UNCHANGED <<vector, service>>

Configure(from, to) == Main(from, to) /\ UNCHANGED prio

\* Module off, CON1 and INTC written, I2COV dropped.
slave_init_configure ==
  /\ Configure("idle", "init_state")
  /\ ~g_active \/ Reinit
  /\ \E clock_stretch \in Stretch :
       CON1' = {"PCIE"} \cup (IF clock_stretch THEN {"STREN"} ELSE {})
  /\ HwOff
  /\ UNCHANGED <<RCV, TRN, IFS, IEC, g_active, g_reading>>

slave_init_state ==
  /\ Configure("init_state", "init_irq")
  /\ g_reading' = FALSE /\ g_active' = TRUE
  /\ UNCHANGED <<registers, IFS, IEC, bus, owed, stop_due>>

\* An integration that forwards the dedicated vectors enables them as well.
slave_init_irq ==
  /\ Configure("init_irq", "init_on")
  /\ IFS' = IFS \ {"event"}
  /\ IEC' = IEC \cup {"event"} \cup Dedicated
  /\ UNCHANGED <<registers, bus, owed, stop_due, g_active, g_reading>>

slave_init_on ==
  /\ Configure("init_on", "idle")
  /\ CON1' = CON1 \cup {"SCLREL", "ON"}
  /\ UNCHANGED <<STAT1, RCV, TRN, IFS, IEC, bus, owed, stop_due, g_active, g_reading>>

\* Fault injected: the interrupts are left enabled.
slave_deinit_mask_none ==
  /\ Configure("idle", "deinit_off")
  /\ UNCHANGED <<registers, IFS, IEC, bus, owed, stop_due, g_active, g_reading>>

slave_deinit_mask ==
  /\ Configure("idle", "deinit_off")
  /\ IEC' = IEC \ {"event", "rx", "tx"}
  /\ UNCHANGED <<registers, IFS, bus, owed, stop_due, g_active, g_reading>>

slave_deinit_off ==
  /\ Configure("deinit_off", "deinit_state")
  /\ CON1' = CON1 \ {"ON"}
  /\ HwOff
  /\ UNCHANGED <<RCV, TRN, IFS, IEC, g_active, g_reading>>

\* Fault injected: a read in progress is not forgotten.
slave_deinit_state_reading ==
  /\ Configure("deinit_state", "idle")
  /\ g_active' = FALSE
  /\ UNCHANGED <<registers, IFS, IEC, bus, owed, stop_due, g_reading>>

slave_deinit_state ==
  /\ Configure("deinit_state", "idle")
  /\ g_active' = FALSE /\ g_reading' = FALSE
  /\ UNCHANGED <<registers, IFS, IEC, bus, owed, stop_due>>

\* The priority of every interrupt the instance has a symbol for.  The call is
\* refused, and changes nothing, for a number that is no priority; with no symbol
\* at all it changes nothing either (ERR_UNSUPPORTED).
set_interrupt_priority ==
  /\ Main("idle", "idle")
  /\ \E p \in Priorities :
       /\ p <= 7
       /\ prio' = [s \in Sources |-> IF s \in Settable THEN p ELSE prio[s]]
  /\ UNCHANGED <<registers, IFS, IEC, bus, owed, stop_due, g_active, g_reading>>

MainThread ==
  \/ slave_init_configure \/ slave_init_state \/ slave_init_irq \/ slave_init_on
  \/ set_interrupt_priority
  \/ slave_deinit_mask \/ slave_deinit_off \/ slave_deinit_state

-----------------------------------------------------------------------------
(* The interrupt.                                                           *)

Isr(from, to) ==
  /\ vector # "none"
  /\ isr = from /\ isr' = to
  /\ UNCHANGED <<main, prio, preempted, IEC, bus, g_active>>

Level == IF vector = "none" THEN 0 ELSE prio[vector]

\* The flagged interrupt of the highest priority is taken, and may preempt; one
\* of priority 0 never is.  A delegate clears its own flag first.  An inactive slave is not serviced.
slave_irq(v) ==
  /\ v \in IFS \cap IEC /\ prio[v] > Level
  /\ \A u \in IFS \cap IEC : prio[u] <= prio[v]
  /\ IFS' = IFS \ {v}
  /\ IF g_active
       THEN /\ vector' = v /\ isr' = "poll"
            /\ preempted' = IF vector = "none" THEN <<>>
                            ELSE <<[vector |-> vector, isr |-> isr, stat |-> stat, b |-> b]>>
                                 \o preempted
       ELSE UNCHANGED <<vector, isr, preempted>>
  /\ UNCHANGED <<registers, IEC, bus, owed, stop_due, g_active, g_reading, main, prio, stat, b, tx>>

AckOfSentByte == g_reading /\ "RBF" \notin STAT1

poll_next(to) ==
  /\ Isr("poll", to)
  /\ stat' = STAT1
  /\ UNCHANGED <<registers, IFS, vector, owed, stop_due, b, tx>>

poll ==
  \/ /\ "RBF" \in STAT1
     /\ poll_next("receive") /\ UNCHANGED g_reading
  \/ /\ AckOfSentByte /\ "ACKSTAT" \notin STAT1
     /\ poll_next("load") /\ UNCHANGED g_reading
  \/ /\ AckOfSentByte /\ "ACKSTAT" \in STAT1
     /\ poll_next("stop") /\ g_reading' = FALSE
  \/ /\ "RBF" \notin STAT1 /\ ~g_reading
     /\ poll_next("stop") /\ UNCHANGED g_reading

\* Fault injected: the byte is left in RCV.
receive_unread ==
  /\ Isr("receive", IF "D_A" \notin stat THEN "address"
                    ELSE IF ~g_reading THEN "data" ELSE "release")
  /\ b' = RCV
  /\ UNCHANGED <<registers, IFS, vector, owed, stop_due, g_reading, stat, tx>>

\* Reading RCV clears RBF.  A data byte in a master read is dropped.
receive ==
  /\ Isr("receive", IF "D_A" \notin stat THEN "address"
                    ELSE IF ~g_reading THEN "data" ELSE "release")
  /\ b' = RCV
  /\ STAT1' = STAT1 \ {"RBF"}
  /\ UNCHANGED <<CON1, RCV, TRN, IFS, vector, owed, stop_due, g_reading, stat, tx>>

is_read == "R_W" \in stat

\* The application has been told the next event it is owed.
Told == owed' = IF owed = <<>> THEN owed ELSE Tail(owed)

\* Fault injected: the first byte of a read is not loaded.
on_addr_match_unloaded ==
  /\ Isr("address", "release")
  /\ g_reading' = is_read
  /\ Told
  /\ tx' = 0
  /\ UNCHANGED <<registers, IFS, vector, stop_due, stat, b>>

on_addr_match ==
  /\ Isr("address", IF is_read THEN "load" ELSE "release")
  /\ g_reading' = is_read
  /\ Told
  /\ tx' = 0
  /\ UNCHANGED <<registers, IFS, vector, stop_due, stat, b>>

on_rx_byte ==
  /\ Isr("data", "release")
  /\ Told
  /\ UNCHANGED <<registers, IFS, vector, stop_due, g_reading, stat, b, tx>>

\* next_tx_byte, written to TRN.
on_tx_byte ==
  /\ Isr("load", "release")
  /\ tx' = IF tx > MaxBytes THEN tx ELSE tx + 1
  /\ TRN' = tx'
  /\ STAT1' = STAT1 \cup {"TBF"}
  /\ UNCHANGED <<CON1, RCV, IFS, vector, owed, stop_due, g_reading, stat, b>>

\* Fault injected: SCL is released only if the caller asked for stretching.
release_if_stretched ==
  /\ Isr("release", "stop")
  /\ CON1' = CON1 \cup (IF "STREN" \in CON1 THEN {"SCLREL"} ELSE {})
  /\ UNCHANGED <<STAT1, RCV, TRN, IFS, vector, owed, stop_due, g_reading, stat, b, tx>>

release ==
  /\ Isr("release", "stop")
  /\ CON1' = CON1 \cup {"SCLREL"}
  /\ UNCHANGED <<STAT1, RCV, TRN, IFS, vector, owed, stop_due, g_reading, stat, b, tx>>

\* Fault injected: the NACK that ends a read is taken for its STOP.
stopped_or_nacked == "P" \in stat \/ ("RBF" \notin stat /\ "ACKSTAT" \in stat)

\* Fault injected: a STOP is looked for only in a master read.
stopped_while_reading == "P" \in stat /\ g_reading

stopped == "P" \in stat

on_stop ==
  /\ Isr("stop", "overflow")
  /\ IF stopped THEN g_reading' = FALSE /\ stop_due' = FALSE
                ELSE UNCHANGED <<g_reading, stop_due>>
  /\ UNCHANGED <<registers, IFS, vector, owed, stat, b, tx>>

\* The interrupt returns, to the service it has preempted if there is one.
Reti ==
  /\ vector # "none" /\ isr = "overflow"
  /\ IF preempted = <<>>
       THEN vector' = "none" /\ isr' = "done" /\ UNCHANGED <<stat, b, preempted>>
       ELSE /\ vector' = Head(preempted).vector /\ isr' = Head(preempted).isr
            /\ stat' = Head(preempted).stat /\ b' = Head(preempted).b
            /\ preempted' = Tail(preempted)
  /\ UNCHANGED <<CON1, RCV, TRN, IEC, bus, owed, stop_due, g_active, g_reading, main, prio, tx>>

\* Fault injected: the flag is cleared at the end of the service.
leave_clearing == Reti /\ STAT1' = STAT1 \ {"I2COV"} /\ IFS' = IFS \ {vector}

\* Never let a receive-overflow latch wedge the slave.
leave == Reti /\ STAT1' = STAT1 \ {"I2COV"} /\ UNCHANGED IFS

slave_service ==
  \/ poll \/ receive \/ on_addr_match \/ on_rx_byte \/ on_tx_byte
  \/ release \/ on_stop \/ leave

Interrupt == (\E v \in Sources : slave_irq(v)) \/ slave_service

Bus == HwBus /\ UNCHANGED <<g_active, g_reading, main, prio, service>>

Next == MainThread \/ Interrupt \/ Bus

Spec == Init /\ [][Next]_vars

\* A flagged interrupt is taken and its service goes on; so does the main
\* thread.  The bus master may do nothing.
FairSpec ==
  /\ Spec /\ WF_vars(Interrupt)
  /\ WF_vars(MainThread /\ main # "idle")

-----------------------------------------------------------------------------
(* Safety properties.                                                       *)

\* The application is told of addresses and received bytes in the order of the
\* bus, each exactly once (on_addr_match, on_rx_byte).
ReportsInOrder ==
  /\ isr = "address" =>
       owed # <<>> /\ Head(owed) = Address(IF is_read THEN "read" ELSE "write")
  /\ isr = "data" => owed # <<>> /\ Head(owed) = Byte(b)

\* The master takes the bytes of on_tx_byte in order, none skipped, repeated
\* or made up.
TxInOrder ==
  [][ phase = "read" /\ n' = n + 1 => "TBF" \in STAT1 /\ TRN = n' ]_vars

\* on_tx_byte is asked for a byte only while a master is reading one.
TxWhileRead == isr = "load" => "ON" \in CON1 /\ phase = "read"

\* on_stop is called once for a STOP.
StopOnce == isr = "stop" /\ stopped => stop_due

\* on_stop is called before the next transaction is announced.  Whether it is
\* depends on the START that may overtake the ISR: see I2CLoopback.
StopBeforeNext == isr = "address" => ~stop_due

\* When no interrupt is pending or served, nothing is left to tell, no byte is
\* left unread, SCL is not held and no overflow blocks reception: a flag is
\* never cleared for an event that was not serviced.
NothingForgotten ==
  Settled /\ g_active /\ main = "idle"
  => /\ owed = <<>> /\ ~stop_due
     /\ ~Held
     /\ STAT1 \cap {"RBF", "I2COV"} = {}

-----------------------------------------------------------------------------
(* Liveness.                                                                *)

\* SCL is always released.
SclReleased == Held ~> ~Held
=============================================================================
