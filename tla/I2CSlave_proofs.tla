--------------------------- MODULE I2CSlave_proofs ---------------------------
(***************************************************************************)
(* Theorems about I2CSlave.  Type correctness holds however the slave is   *)
(* integrated; what the application is told, and when, is proved for the   *)
(* event interrupt alone, a master that waits for the slave to have        *)
(* answered before it addresses it again, and no slave_init of an active   *)
(* slave.  That no STOP is reported twice needs a master that waits with   *)
(* everything.                                                             *)
(***************************************************************************)
EXTENDS I2CSlave, SequenceTheorems, TLAPS

LEMMA Facts ==
  /\ MaxBytes \in Nat /\ MaxBytes > 0
  /\ Overtakes \subseteq {"start", "byte", "stop"} /\ Dedicated \subseteq {"rx", "tx"}
  /\ Stretch \subseteq BOOLEAN /\ Priorities \subseteq 0 .. 255
BY MaxBytesAssumption, OvertakesAssumption, DedicatedAssumption, StretchAssumption,
   PrioritiesAssumption

-----------------------------------------------------------------------------
(* Type correctness.  A service that returns to the one it has preempted    *)
(* must find one of a lower priority below: the stack is sorted.            *)

Stacked ==
  \A k \in 1 .. Len(preempted) - 1 :
    prio[preempted[k].vector] > prio[preempted[k + 1].vector]

TypeInv == TypeOK /\ Stacked /\ (vector # "none" => g_active)

LEMMA InitTypes == Init => TypeInv
<1> SUFFICES ASSUME Init PROVE TypeInv
  OBVIOUS
<1> USE Facts DEF Init, ClientInit
<1>1. owed \in Seq(Event) /\ preempted \in Seq(Frame) /\ Len(preempted) = 0
  BY EmptySeq
<1>2. 0 \in 0 .. MaxBytes /\ 0 \in 0 .. MaxBytes + 1
  OBVIOUS
<1>3. ClientTypeOK
  BY <1>1, <1>2 DEF ClientTypeOK, Sources, Phases
<1>4. prio \in [Sources -> 0 .. 7]
  OBVIOUS
<1>5. main \in MainPcs /\ isr \in IsrPcs
  BY DEF MainPcs, IsrPcs
<1>6. TypeOK
  BY <1>1, <1>2, <1>3, <1>4, <1>5 DEF TypeOK
<1> QED
  BY <1>1, <1>6 DEF TypeInv, Stacked

\* The bus moves the registers and nothing of the slave's.
LEMMA BusTypes == ASSUME TypeInv, Bus PROVE TypeInv'
<1> USE Facts DEF TypeInv, TypeOK, Bus, service
<1>1. ClientTypeOK'
  <2> USE DEF ClientTypeOK, Phases, Sources, bus, Raise
  <2>1. ASSUME NEW dir \in {"read", "write"}, HwAddress(dir) PROVE ClientTypeOK'
    <3>1. Address(dir) \in Event
      BY DEF Address, Event
    <3>2. owed' \in Seq(Event)
      BY <2>1, <3>1, AppendProperties DEF HwAddress
    <3>3. STAT1' \subseteq {"RBF", "TBF", "D_A", "R_W", "P", "I2COV", "ACKSTAT"}
      BY <2>1 DEF HwAddress
    <3> QED
      BY <2>1, <3>2, <3>3 DEF HwAddress
  <2>2. ASSUME HwByteIn PROVE ClientTypeOK'
    <3>1. n + 1 \in 0 .. MaxBytes
      BY <2>2 DEF HwByteIn
    <3>2. Byte(n + 1) \in Event
      BY <3>1 DEF Byte, Event
    <3>3. owed' \in Seq(Event)
      BY <2>2, <3>2, AppendProperties DEF HwByteIn
    <3> QED
      BY <2>2, <3>1, <3>3 DEF HwByteIn
  <2>3. ASSUME HwByteOut PROVE ClientTypeOK'
    <3>1. n' \in 0 .. MaxBytes
      BY <2>3 DEF HwByteOut
    <3>2. CON1' \subseteq CON1 /\ STAT1' \subseteq STAT1 \cup {"ACKSTAT"} /\ phase' \in Phases
      BY <2>3 DEF HwByteOut
    <3>3. IFS' \subseteq IFS \cup {"event"} \cup Dedicated
      BY <2>3 DEF HwByteOut
    <3>4. UNCHANGED <<RCV, TRN, IEC, vector, owed, stop_due>>
      BY <2>3 DEF HwByteOut
    <3> QED
      BY <3>1, <3>2, <3>3, <3>4
  <2>4. CASE HwAddressOverflow
    BY <2>4 DEF HwAddressOverflow
  <2>6. CASE HwByteInOverflow
    BY <2>6 DEF HwByteInOverflow
  <2>5. CASE HwStop
    BY <2>5 DEF HwStop
  <2> QED
    BY <2>1, <2>2, <2>3, <2>4, <2>5, <2>6 DEF HwBus
<1>2. UNCHANGED <<vector, g_active, g_reading, main, prio, service>>
  BY DEF HwBus, HwAddress, HwAddressOverflow, HwByteIn, HwByteInOverflow, HwByteOut, HwStop
<1>3. Stacked' /\ (vector' # "none" => g_active')
  BY <1>2 DEF Stacked
<1> QED
  BY <1>1, <1>2, <1>3

\* The main thread moves only while no service runs.
LEMMA MainTypes == ASSUME TypeInv, MainThread PROVE TypeInv'
<1> USE Facts DEF TypeInv, TypeOK, service
<1>1. vector = "none" /\ preempted = <<>> /\ UNCHANGED <<vector, service>>
  BY DEF MainThread, slave_init_configure, slave_init_state, slave_init_irq, slave_init_on,
         set_interrupt_priority, slave_deinit_mask, slave_deinit_off, slave_deinit_state,
         Configure, Main
<1>2. main' \in MainPcs /\ prio' \in [Sources -> 0 .. 7]
  BY DEF MainThread, slave_init_configure, slave_init_state, slave_init_irq, slave_init_on,
         set_interrupt_priority, slave_deinit_mask, slave_deinit_off, slave_deinit_state,
         Configure, Main, MainPcs
<1>3. g_active' \in BOOLEAN /\ g_reading' \in BOOLEAN /\ (g_reading' => g_active')
  <2>1. CASE slave_init_state
    BY <2>1 DEF slave_init_state
  <2>2. CASE slave_deinit_state
    BY <2>2 DEF slave_deinit_state
  <2>3. CASE UNCHANGED <<g_active, g_reading>>
    BY <2>3
  <2> QED
    BY <2>1, <2>2, <2>3
       DEF MainThread, slave_init_configure, slave_init_irq, slave_init_on,
           set_interrupt_priority, slave_deinit_mask, slave_deinit_off
<1>4. ClientTypeOK'
  <2> USE DEF ClientTypeOK, Configure, Main
  <2>1. CASE slave_init_configure \/ slave_deinit_off
    <3>1. owed' \in Seq(Event)
      BY <2>1, EmptySeq DEF slave_init_configure, slave_deinit_off, HwOff
    <3>2. CON1' \subseteq {"ON", "PCIE", "STREN", "SCLREL"}
      BY <2>1 DEF slave_init_configure, slave_deinit_off
    <3>3. STAT1' = {} /\ phase' = "free" /\ n' = 0 /\ stop_due' = FALSE
          /\ UNCHANGED <<RCV, TRN, IFS, IEC, vector>>
      BY <2>1, <1>1 DEF slave_init_configure, slave_deinit_off, HwOff
    <3>4. n' \in 0 .. MaxBytes
      BY <3>3
    <3> QED
      BY <3>1, <3>2, <3>3, <3>4 DEF Phases
  <2>2. CASE slave_init_irq \/ slave_deinit_mask \/ slave_init_on
    BY <2>2, <1>1 DEF slave_init_irq, slave_deinit_mask, slave_init_on, registers, bus, Sources
  <2>3. CASE slave_init_state \/ set_interrupt_priority \/ slave_deinit_state
    BY <2>3, <1>1 DEF slave_init_state, set_interrupt_priority, slave_deinit_state, registers, bus
  <2> QED
    BY <2>1, <2>2, <2>3 DEF MainThread
<1>5. Stacked'
  BY <1>1, EmptySeq DEF Stacked
<1> QED
  BY <1>1, <1>2, <1>3, <1>4, <1>5

\* A taken interrupt pushes a service of a lower priority.
LEMMA IrqTypes == ASSUME TypeInv, NEW v \in Sources, slave_irq(v) PROVE TypeInv'
<1> USE DEF TypeInv, TypeOK, ClientTypeOK
<1>1. CASE ~g_active \/ vector = "none"
  <2>1. preempted = <<>> /\ preempted' = <<>>
    BY <1>1 DEF slave_irq
  <2> QED
    BY <1>1, <2>1, EmptySeq DEF slave_irq, registers, bus, Sources, IsrPcs, Stacked
<1>2. CASE g_active /\ vector # "none"
  <2> DEFINE frame == [vector |-> vector, isr |-> isr, stat |-> stat, b |-> b]
  <2>1. frame \in Frame
    BY <1>2 DEF Frame, Sources
  <2>2. preempted' = <<frame>> \o preempted /\ vector' = v /\ isr' = "poll"
    BY <1>2 DEF slave_irq
  <2>3. UNCHANGED <<registers, IEC, bus, owed, stop_due, g_active, g_reading, main, prio, stat, b, tx>>
        /\ IFS' \subseteq IFS
    BY DEF slave_irq
  <2> HIDE DEF frame
  <2>4. <<frame>> \in Seq(Frame) /\ Len(<<frame>>) = 1 /\ <<frame>>[1] = frame
    BY <2>1
  <2>5. /\ preempted' \in Seq(Frame) /\ Len(preempted') = 1 + Len(preempted)
        /\ Len(preempted) \in Nat /\ preempted' # <<>>
        /\ preempted'[1] = frame
        /\ \A k \in 1 .. Len(preempted) : preempted'[k + 1] = preempted[k]
    <3>1. preempted' \in Seq(Frame) /\ Len(preempted') = 1 + Len(preempted)
          /\ \A k \in 1 .. 1 + Len(preempted) :
               preempted'[k] = IF k <= 1 THEN <<frame>>[k] ELSE preempted[k - 1]
      BY <2>2, <2>4, ConcatProperties
    <3>2. Len(preempted) \in Nat
      BY LenProperties
    <3> QED
      BY <3>1, <3>2, <2>4, EmptySeq
  <2>6. Head(preempted') = frame
    BY <2>5
  <2>7. prio[v] > prio[frame.vector] /\ frame.vector = vector
    BY <1>2 DEF slave_irq, Level, frame
  <2>8. Stacked'
    <3> SUFFICES ASSUME NEW k \in 1 .. Len(preempted)
                 PROVE prio[preempted'[k].vector] > prio[preempted'[k + 1].vector]
      BY <2>3, <2>5 DEF Stacked
    <3>1. CASE k = 1
      <4>1. preempted # <<>> /\ Head(preempted) = preempted[1]
        BY <3>1, <2>5, EmptySeq
      <4> QED
        BY <3>1, <4>1, <2>5, <2>7
    <3>2. CASE k > 1
      <4>1. k - 1 \in 1 .. Len(preempted) - 1 /\ k - 1 + 1 = k
        BY <3>2, <2>5
      <4>2. prio[preempted[k - 1].vector] > prio[preempted[k].vector]
        BY <4>1 DEF Stacked
      <4>3. preempted'[k] = preempted[k - 1] /\ preempted'[k + 1] = preempted[k]
        <5>1. preempted'[k + 1] = preempted[k]
          BY <2>5
        <5>2. k - 1 \in 1 .. Len(preempted)
          BY <4>1, <2>5
        <5>3. preempted'[k - 1 + 1] = preempted[k - 1]
          BY <5>2, <2>5
        <5> QED
          BY <4>1, <5>1, <5>3
      <4> QED
        BY <4>2, <4>3
    <3> QED
      BY <3>1, <3>2
  <2>9. isr' \in IsrPcs /\ vector' # "none"
    BY <2>2 DEF IsrPcs, Sources
  <2>10. ClientTypeOK'
    BY <2>2, <2>3 DEF registers, bus
  <2>11. preempted' # <<>> => prio'[vector'] > prio'[Head(preempted').vector]
    BY <2>2, <2>3, <2>6, <2>7
  <2> QED
    BY <1>2, <2>2, <2>3, <2>5, <2>8, <2>9, <2>10, <2>11
<1> QED
  BY <1>1, <1>2

\* A return finds the service it has preempted, if there is one.
LEMMA LeaveTypes == ASSUME TypeInv, leave PROVE TypeInv'
<1> USE DEF TypeInv, TypeOK, ClientTypeOK, leave, Reti
<1>1. CASE preempted = <<>>
  BY <1>1, EmptySeq DEF bus, IsrPcs, Stacked
<1>2. CASE preempted # <<>>
  <2>1. /\ Head(preempted) \in Frame /\ Tail(preempted) \in Seq(Frame)
        /\ Len(Tail(preempted)) = Len(preempted) - 1
        /\ \A k \in 1 .. Len(Tail(preempted)) : Tail(preempted)[k] = preempted[k + 1]
        /\ Len(preempted) \in Nat \ {0}
        /\ Head(preempted) = preempted[1]
    BY <1>2, HeadTailProperties, EmptySeq
  <2>2. Tail(preempted) # <<>> =>
          Head(Tail(preempted)) = preempted[2] /\ Len(preempted) > 1
    BY <2>1, EmptySeq
  <2>3. /\ vector' = Head(preempted).vector /\ isr' = Head(preempted).isr
        /\ stat' = Head(preempted).stat /\ b' = Head(preempted).b
        /\ preempted' = Tail(preempted)
        /\ UNCHANGED <<CON1, RCV, TRN, IFS, IEC, bus, owed, stop_due, g_active, g_reading, main, prio, tx>>
        /\ STAT1' \subseteq STAT1
    BY <1>2
  <2>4. Stacked'
    <3> SUFFICES ASSUME NEW k \in 1 .. Len(preempted) - 2
                 PROVE prio[Tail(preempted)[k].vector] > prio[Tail(preempted)[k + 1].vector]
      BY <2>1, <2>3 DEF Stacked
    <3>1. prio[preempted[k + 1].vector] > prio[preempted[k + 1 + 1].vector]
      BY <2>1 DEF Stacked
    <3> QED
      BY <3>1, <2>1
  <2>5. preempted' # <<>> => prio'[vector'] > prio'[Head(preempted').vector]
    BY <2>1, <2>2, <2>3 DEF Stacked
  <2>6. ClientTypeOK'
    BY <2>1, <2>3 DEF bus, Frame
  <2>7. vector' \in Sources /\ isr' \in IsrPcs \ {"done"} /\ b' \in 0 .. MaxBytes
        /\ stat' \subseteq {"RBF", "TBF", "D_A", "R_W", "P", "I2COV", "ACKSTAT"}
    BY <2>1, <2>3 DEF Frame
  <2>8. vector # "none" /\ vector' # "none"
    BY <2>7 DEF Sources
  <2> QED
    BY <2>1, <2>3, <2>4, <2>5, <2>6, <2>7, <2>8
<1> QED
  BY <1>1, <1>2

\* Any other step of a service stays in it.
LEMMA ServiceTypes ==
  ASSUME TypeInv,
         poll \/ receive \/ on_addr_match \/ on_rx_byte \/ on_tx_byte \/ release \/ on_stop
  PROVE  TypeInv'
<1> USE Facts DEF TypeInv, TypeOK, ClientTypeOK, Isr
<1>1. vector # "none" /\ UNCHANGED <<vector, preempted, prio, main, g_active, IEC, bus>>
  BY DEF poll, poll_next, receive, on_addr_match, on_rx_byte, on_tx_byte, release, on_stop
<1>2. isr' \in IsrPcs \ {"done"}
  BY DEF poll, poll_next, receive, on_addr_match, on_rx_byte, on_tx_byte, release, on_stop, IsrPcs
<1>3. Stacked'
  BY <1>1 DEF Stacked
<1>4. /\ CON1' \subseteq {"ON", "PCIE", "STREN", "SCLREL"}
      /\ STAT1' \subseteq {"RBF", "TBF", "D_A", "R_W", "P", "I2COV", "ACKSTAT"}
      /\ stat' \subseteq {"RBF", "TBF", "D_A", "R_W", "P", "I2COV", "ACKSTAT"}
      /\ UNCHANGED <<RCV, IFS>>
  BY DEF poll, poll_next, receive, on_addr_match, on_rx_byte, on_tx_byte, release, on_stop,
         registers
<1>8. g_reading' \in BOOLEAN
  <2>1. g_reading' = g_reading \/ g_reading' = FALSE \/ g_reading' = is_read
    BY DEF poll, receive, on_addr_match, on_rx_byte, on_tx_byte, release, on_stop
  <2>2. is_read \in BOOLEAN
    BY DEF is_read
  <2> QED
    BY <2>1, <2>2
<1>9. stop_due' \in BOOLEAN
  <2>1. stop_due' = stop_due \/ stop_due' = FALSE
    BY DEF poll, poll_next, receive, on_addr_match, on_rx_byte, on_tx_byte, release, on_stop
  <2> QED
    BY <2>1
<1>5. b' \in 0 .. MaxBytes /\ tx' \in 0 .. MaxBytes + 1 /\ TRN' \in 0 .. MaxBytes + 1
  <2>1. b' \in {b, RCV}
    BY DEF poll, poll_next, receive, on_addr_match, on_rx_byte, on_tx_byte, release, on_stop
  <2>2. TRN' \in {TRN, tx'}
    BY DEF poll, poll_next, receive, on_addr_match, on_rx_byte, on_tx_byte, release, on_stop,
           registers
  <2>3. tx' = tx \/ tx' = 0 \/ (tx <= MaxBytes /\ tx' = tx + 1)
    BY DEF poll, poll_next, receive, on_addr_match, on_rx_byte, on_tx_byte, release, on_stop
  <2> QED
    BY <2>1, <2>2, <2>3
<1>6. owed' \in Seq(Event)
  <2>1. owed' = owed \/ owed' = IF owed = <<>> THEN owed ELSE Tail(owed)
    BY DEF poll, poll_next, receive, on_addr_match, on_rx_byte, on_tx_byte, release, on_stop, Told
  <2>2. owed \in Seq(Event) /\ (owed # <<>> => Tail(owed) \in Seq(Event))
    BY HeadTailProperties
  <2> QED
    BY <2>1, <2>2
<1>7. ClientTypeOK'
  BY <1>1, <1>4, <1>5, <1>6, <1>9 DEF bus
<1> QED
  BY <1>1, <1>2, <1>3, <1>4, <1>5, <1>7, <1>8

LEMMA NextTypes == ASSUME TypeInv, [Next]_vars PROVE TypeInv'
<1>1. CASE UNCHANGED vars
  BY <1>1 DEF vars, client, registers, bus, service, TypeInv, TypeOK, ClientTypeOK, Stacked
<1>2. CASE Next
  BY <1>2, BusTypes, MainTypes, IrqTypes, LeaveTypes, ServiceTypes
     DEF Next, Interrupt, slave_service
<1> QED
  BY <1>1, <1>2

LEMMA TypeInvariance == Spec => []TypeInv
BY InitTypes, NextTypes, PTL DEF Spec

\* However the vectors are forwarded, whatever the priorities and whatever
\* overtakes the ISR: a service that ends returns to the one it preempted, with
\* that one's locals, the services are nested by priority, and an instance that
\* is not active reads nothing (g_reading of slave_service and slave_deinit).
THEOREM TypeCorrect == Spec => []TypeOK
<1>1. TypeInv => TypeOK
  BY DEF TypeInv
<1> QED
  BY <1>1, TypeInvariance, PTL

-----------------------------------------------------------------------------
Alone == Dedicated = {} /\ ~Reinit /\ "start" \notin Overtakes

\* What the main thread has done so far.  ISRs run on an idle, active slave.
MainInv ==
  /\ IFS \subseteq {"event"} /\ preempted = <<>>
  /\ vector # "none" => vector = "event" /\ main = "idle" /\ g_active
  /\ IEC = IF main = "init_on" \/ (main = "idle" /\ g_active) THEN {"event"} ELSE {}
  /\ "ON" \in CON1 <=> g_active /\ main \in {"idle", "deinit_off"}
  /\ main \in {"init_irq", "init_on"} => g_active
  /\ main = "init_state" => ~g_active
  /\ main \in {"init_irq", "init_on"} => ~g_reading
  /\ main = "init_on" => "event" \notin IFS
  /\ "ON" \notin CON1 =>
       STAT1 = {} /\ phase = "free" /\ owed = <<>> /\ ~stop_due

Live == main = "idle" /\ g_active

Flagged == "event" \in IFS

\* The event a byte in RCV is, and the one the service is about to report.
Buffered == IF "D_A" \in STAT1 THEN Byte(RCV)
            ELSE Address(IF "R_W" \in STAT1 THEN "read" ELSE "write")
Current  == IF isr = "data" THEN Byte(b) ELSE Address(IF is_read THEN "read" ELSE "write")

\* The application is owed what the service is about to report, and then what
\* is in RCV.  A byte in RCV has a service coming that will take it.
OwedInv ==
  /\ owed = IF isr \in {"address", "data"}
              THEN IF "RBF" \in STAT1 THEN <<Current, Buffered>> ELSE <<Current>>
              ELSE IF "RBF" \in STAT1 THEN <<Buffered>> ELSE <<>>
  /\ "RBF" \in STAT1 => Flagged \/ isr \in {"poll", "receive"}
  /\ isr = "receive" =>
       /\ "RBF" \in STAT1
       /\ "D_A" \in stat <=> "D_A" \in STAT1
       /\ "R_W" \in stat <=> "R_W" \in STAT1
  /\ "RBF" \in STAT1 /\ "D_A" \in STAT1 => ~g_reading

\* The address of this client has not been reported yet, and holds the bus.
AddressPending == ("RBF" \in STAT1 /\ "D_A" \notin STAT1) \/ isr = "address"

AddressInv ==
  /\ AddressPending =>
       /\ Held /\ ~stop_due /\ n = 0
       /\ phase = IF (IF isr = "address" THEN is_read ELSE "R_W" \in STAT1) THEN "read" ELSE "write"
  /\ isr = "address" => "RBF" \notin STAT1
  /\ AddressPending => isr \in {"done", "poll", "receive", "address"}

\* A master read, from its address to its NACK.
ReadInv ==
  /\ phase = "read" =>
       /\ "P" \notin STAT1 /\ (isr \notin {"done", "poll"} => "P" \notin stat)
       /\ isr # "data"
       /\ AddressPending \/ g_reading
       /\ ~AddressPending /\ (Flagged \/ isr = "poll") => "ACKSTAT" \notin STAT1
       /\ isr \in {"poll", "receive", "address", "load", "release"} => Held /\ ~Flagged
       /\ Flagged => Held
       /\ ~AddressPending /\ (Flagged \/ isr \in {"poll", "load"}) => tx = n
  /\ phase = "read" /\ isr = "release" => "TBF" \in STAT1 /\ TRN = n + 1
  /\ phase = "read" /\ (isr = "release" \/ ~Held) => tx = n + 1
  /\ isr = "load" => phase = "read"
  /\ g_reading /\ phase # "read" =>
       /\ "ACKSTAT" \in STAT1 /\ "RBF" \notin STAT1 /\ phase # "write"
       /\ Flagged \/ isr = "poll"

\* A STOP has a service coming that will see it.
StopInv ==
  stop_due =>
    /\ "P" \in STAT1
    /\ Flagged \/ isr = "poll" \/ (isr \in {"receive", "address", "data", "load", "release", "stop"} /\ "P" \in stat)

\* SCL is held only while a service is coming that will release it.
HoldInv ==
  /\ Held =>
       \/ "RBF" \in STAT1
       \/ phase = "read" /\ (Flagged \/ isr = "poll")
       \/ isr \in {"address", "data", "load", "release"}
  /\ "I2COV" \in STAT1 => Flagged \/ vector # "none"

LiveInv == Live => OwedInv /\ AddressInv /\ ReadInv /\ StopInv /\ HoldInv

\* Whatever the main thread does meanwhile, the byte the master takes is there.
TxReady == phase = "read" /\ ~Held => "TBF" \in STAT1 /\ TRN = n + 1

-----------------------------------------------------------------------------
(* The invariant holds at first, and every step keeps it.                   *)

Inv == TypeInv /\ MainInv /\ LiveInv /\ TxReady

\* owed has at most two events.
LEMMA ShortSequences ==
  /\ \A x : Append(<<>>, x) = <<x>> /\ <<x>> # <<>> /\ Head(<<x>>) = x /\ Tail(<<x>>) = <<>>
  /\ \A x, y : /\ Append(<<x>>, y) = <<x, y>> /\ <<x, y>> # <<>>
               /\ Head(<<x, y>>) = x /\ Tail(<<x, y>>) = <<y>>
<1>1. ASSUME NEW x
      PROVE  Append(<<>>, x) = <<x>> /\ <<x>> # <<>> /\ Head(<<x>>) = x /\ Tail(<<x>>) = <<>>
  <2>1. <<>> \in Seq({x}) /\ <<x>> \in Seq({x}) /\ Len(<<x>>) = 1 /\ <<x>>[1] = x
    BY EmptySeq
  <2>2. Append(<<>>, x) = <<x>>
    BY <2>1, AppendIsConcat, ConcatEmptySeq
  <2>3. <<x>> # <<>> /\ Head(<<x>>) = x
    BY <2>1, EmptySeq
  <2>4. Tail(<<x>>) = <<>>
    BY <2>1, <2>3, HeadTailProperties, EmptySeq
  <2> QED
    BY <2>2, <2>3, <2>4
<1>2. ASSUME NEW x, NEW y
      PROVE  /\ Append(<<x>>, y) = <<x, y>> /\ <<x, y>> # <<>>
             /\ Head(<<x, y>>) = x /\ Tail(<<x, y>>) = <<y>>
  <2> DEFINE S == {x, y}
  <2>1. <<x>> \in Seq(S) /\ <<x, y>> \in Seq(S) /\ <<y>> \in Seq(S)
        /\ Len(<<x>>) = 1 /\ Len(<<x, y>>) = 2 /\ Len(<<y>>) = 1
        /\ <<x>>[1] = x /\ <<x, y>>[1] = x /\ <<x, y>>[2] = y /\ <<y>>[1] = y
    OBVIOUS
  <2>2. Append(<<x>>, y) = <<x, y>>
    <3>1. /\ Append(<<x>>, y) \in Seq(S) /\ Len(Append(<<x>>, y)) = 2
          /\ Append(<<x>>, y)[1] = x /\ Append(<<x>>, y)[2] = y
      BY <2>1, AppendProperties
    <3>2. Len(Append(<<x>>, y)) = Len(<<x, y>>)
          /\ \A i \in 1 .. 2 : Append(<<x>>, y)[i] = <<x, y>>[i]
      BY <3>1, <2>1
    <3> HIDE DEF S
    <3> QED
      BY <3>1, <3>2, <2>1, SeqEqual
  <2>3. <<x, y>> # <<>> /\ Head(<<x, y>>) = x
    BY <2>1, EmptySeq
  <2>4. Tail(<<x, y>>) = <<y>>
    <3>1. /\ Tail(<<x, y>>) \in Seq(S) /\ Len(Tail(<<x, y>>)) = 1
          /\ Tail(<<x, y>>)[1] = y
      BY <2>1, <2>3, HeadTailProperties
    <3> QED
      BY <3>1, <2>1, SeqEqual
  <2> QED
    BY <2>2, <2>3, <2>4
<1> QED
  BY <1>1, <1>2

LEMMA InitInv == Init => Inv
<1> SUFFICES ASSUME Init PROVE Inv
  OBVIOUS
<1>1. TypeInv
  BY InitTypes
<1>2. MainInv
  BY DEF Init, ClientInit, MainInv
<1>3. LiveInv /\ TxReady
  BY DEF Init, ClientInit, LiveInv, Live, TxReady
<1> QED
  BY <1>1, <1>2, <1>3 DEF Inv

\* slave_init and slave_deinit run while no service does, and a slave that has
\* just been switched on owes the application nothing.
LEMMA MainKeeps == ASSUME Alone, Inv, MainThread PROVE MainInv' /\ LiveInv' /\ TxReady'
<1> USE Facts DEF Alone, Inv
<1>1. vector = "none" /\ isr = "done" /\ preempted = <<>> /\ UNCHANGED <<vector, service>>
  BY DEF MainThread, slave_init_configure, slave_init_state, slave_init_irq, slave_init_on,
         set_interrupt_priority, slave_deinit_mask, slave_deinit_off, slave_deinit_state,
         Configure, Main, TypeInv, TypeOK
<1>2. MainInv'
  <2> USE <1>1 DEF MainInv, Configure, Main, service, HwOff, registers, bus
  <2>1. CASE slave_init_configure \/ slave_deinit_off
    <3>1. "ON" \notin CON1' /\ STAT1' = {} /\ phase' = "free" /\ owed' = <<>> /\ ~stop_due'
          /\ UNCHANGED <<IFS, IEC, g_active, g_reading>>
      BY <2>1 DEF slave_init_configure, slave_deinit_off
    <3>2. \/ main = "idle" /\ main' = "init_state" /\ ~g_active
          \/ main = "deinit_off" /\ main' = "deinit_state"
      BY <2>1 DEF slave_init_configure, slave_deinit_off
    <3> QED
      BY <3>1, <3>2
  <2>2. CASE slave_init_state \/ slave_deinit_state
    <3>1. UNCHANGED <<CON1, STAT1, IFS, IEC, phase, owed, stop_due>>
      BY <2>2 DEF slave_init_state, slave_deinit_state
    <3>2. \/ main = "init_state" /\ main' = "init_irq" /\ g_active' /\ ~g_reading'
          \/ main = "deinit_state" /\ main' = "idle" /\ ~g_active'
      BY <2>2 DEF slave_init_state, slave_deinit_state
    <3> QED
      BY <3>1, <3>2
  <2>3. CASE slave_init_irq
    BY <2>3 DEF slave_init_irq
  <2>4. CASE slave_init_on
    BY <2>4 DEF slave_init_on
  <2>5. CASE slave_deinit_mask
    <3>1. IEC' = {}
      BY <2>5 DEF slave_deinit_mask
    <3> QED
      BY <2>5, <3>1 DEF slave_deinit_mask
  <2>6. CASE set_interrupt_priority
    <3>1. UNCHANGED <<registers, IFS, IEC, bus, owed, stop_due, g_active, g_reading, main>>
      BY <2>6 DEF set_interrupt_priority
    <3> QED
      BY <3>1
  <2> QED
    BY <2>1, <2>2, <2>3, <2>4, <2>5, <2>6 DEF MainThread
<1>3. LiveInv'
  <2>1. CASE slave_init_on
    <3>1. ~g_reading /\ STAT1 = {} /\ phase = "free" /\ owed = <<>> /\ ~stop_due
      BY <2>1 DEF slave_init_on, Configure, Main, MainInv
    <3>2. UNCHANGED <<g_reading, STAT1, phase, owed, stop_due>> /\ "SCLREL" \in CON1'
          /\ vector' = "none" /\ isr' = "done"
      BY <2>1, <1>1 DEF slave_init_on, bus, service
    <3>3. OwedInv' /\ AddressInv' /\ StopInv'
      BY <3>1, <3>2 DEF OwedInv, AddressInv, AddressPending, StopInv
    <3>4. ReadInv' /\ HoldInv'
      BY <3>1, <3>2 DEF ReadInv, HoldInv, Held
    <3> QED
      BY <3>3, <3>4 DEF LiveInv
  <2>2. CASE set_interrupt_priority
    BY <2>2, <1>1
       DEF set_interrupt_priority, Main, service, registers, bus, LiveInv, Live, OwedInv, AddressInv,
           ReadInv, StopInv, HoldInv, AddressPending, Flagged, Buffered, Current, Held, is_read
  <2>3. CASE ~(slave_init_on \/ set_interrupt_priority)
    BY <2>3 DEF MainThread, slave_init_configure, slave_init_state, slave_init_irq,
         slave_deinit_mask, slave_deinit_off, slave_deinit_state, Configure, Main, LiveInv, Live
  <2> QED
    BY <2>1, <2>2, <2>3
<1>4. TxReady'
  BY DEF TxReady, Held, MainThread, slave_init_configure, slave_init_state, slave_init_irq,
         slave_init_on, set_interrupt_priority, slave_deinit_mask, slave_deinit_off,
         slave_deinit_state, Configure, Main, HwOff, registers, bus, MainInv
<1> QED
  BY <1>2, <1>3, <1>4

\* A service runs on an active slave that the main thread leaves alone.
LEMMA Serving ==
  ASSUME Inv, vector # "none"
  PROVE  /\ vector = "event" /\ Live /\ "ON" \in CON1 /\ preempted = <<>>
         /\ OwedInv /\ AddressInv /\ ReadInv /\ StopInv /\ HoldInv
BY DEF Inv, MainInv, LiveInv, Live

LEMMA IrqKeeps ==
  ASSUME Alone, Inv, NEW v \in Sources, slave_irq(v)
  PROVE  MainInv' /\ LiveInv' /\ TxReady'
<1>1. v = "event" /\ "event" \in IFS /\ IEC = {"event"}
  BY DEF slave_irq, Inv, MainInv
<1>2. vector = "none" /\ isr = "done"
  BY <1>1 DEF slave_irq, Inv, TypeInv, TypeOK, MainInv, Level, Sources
<1>3. main = "idle" /\ g_active /\ Live
  BY <1>1 DEF Inv, MainInv, Live
<1>4. /\ vector' = "event" /\ isr' = "poll" /\ preempted' = <<>>
      /\ IFS' = IFS \ {"event"}
      /\ UNCHANGED <<CON1, STAT1, RCV, TRN, IEC, phase, n, owed, stop_due, g_active, g_reading,
                     main, stat, b, tx>>
  BY <1>1, <1>2, <1>3 DEF slave_irq, registers, bus
<1>5. "event" \notin IFS' /\ IFS' = {}
  BY <1>4 DEF Inv, MainInv
<1>6. MainInv'
  BY <1>3, <1>4, <1>5 DEF Inv, MainInv
<1>7. TxReady'
  BY <1>4 DEF Inv, TxReady, Held
<1>8. OwedInv /\ AddressInv /\ ReadInv /\ StopInv /\ HoldInv
  BY <1>3 DEF Inv, LiveInv
<1>9. OwedInv'
  BY <1>2, <1>4, <1>8 DEF OwedInv, Flagged, Buffered
<1>10. AddressInv' /\ StopInv'
  BY <1>2, <1>4, <1>8 DEF AddressInv, AddressPending, StopInv, Held, Flagged
<1>11. ReadInv'
  BY <1>1, <1>2, <1>4, <1>5, <1>8 DEF ReadInv, AddressPending, Held, Flagged
<1>12. HoldInv'
  BY <1>1, <1>2, <1>4, <1>8 DEF HoldInv, Held, Flagged
<1> QED
  BY <1>6, <1>7, <1>9, <1>10, <1>11, <1>12 DEF LiveInv

\* What the main thread has done stays as it is in a service that goes on.
LEMMA ServingMain ==
  ASSUME Inv, vector # "none", UNCHANGED <<vector, main, g_active, IEC, preempted>>,
         IFS' = IFS, "ON" \in CON1'
  PROVE  MainInv'
BY Serving DEF Inv, MainInv

LEMMA PollKeeps == ASSUME Alone, Inv, poll PROVE MainInv' /\ LiveInv' /\ TxReady'
<1> USE DEF poll, poll_next, Isr, AckOfSentByte
<1>1. vector # "none" /\ isr = "poll" /\ isr' \in {"receive", "load", "stop"} /\ stat' = STAT1
      /\ UNCHANGED <<CON1, STAT1, RCV, TRN, IFS, IEC, vector, phase, n, owed, stop_due,
                     g_active, main, preempted, b, tx>>
  BY DEF registers, bus
<1>2. /\ vector = "event" /\ Live /\ "ON" \in CON1 /\ preempted = <<>>
      /\ OwedInv /\ AddressInv /\ ReadInv /\ StopInv /\ HoldInv
  BY <1>1, Serving
<1>3. MainInv' /\ TxReady'
  BY <1>1, <1>2, ServingMain DEF Inv, TxReady, Held
<1>4. OwedInv'
  BY <1>1, <1>2 DEF OwedInv, Flagged, Buffered
<1>5. AddressInv' /\ StopInv'
  BY <1>1, <1>2 DEF AddressInv, AddressPending, StopInv, Held, Flagged
<1>6. HoldInv'
  BY <1>1, <1>2 DEF HoldInv, ReadInv, AddressPending, Held, Flagged
<1>7. ReadInv'
  BY <1>1, <1>2 DEF ReadInv, AddressInv, AddressPending, Held, Flagged
<1> QED
  BY <1>3, <1>4, <1>5, <1>6, <1>7 DEF LiveInv

\* Reading RCV takes what was in it out of STAT1; it is what is reported next.
LEMMA ReceiveKeeps == ASSUME Alone, Inv, receive PROVE MainInv' /\ LiveInv' /\ TxReady'
<1> USE DEF receive, Isr
<1>1. /\ vector # "none" /\ isr = "receive" /\ b' = RCV /\ STAT1' = STAT1 \ {"RBF"}
      /\ UNCHANGED <<CON1, RCV, TRN, IFS, IEC, vector, phase, n, owed, stop_due,
                     g_active, g_reading, main, preempted, stat, tx>>
  BY DEF bus
<1>2. /\ vector = "event" /\ Live /\ "ON" \in CON1 /\ preempted = <<>>
      /\ OwedInv /\ AddressInv /\ ReadInv /\ StopInv /\ HoldInv
  BY <1>1, Serving
<1>3. \/ isr' = "address" /\ "D_A" \notin stat
      \/ isr' = "data" /\ "D_A" \in stat /\ ~g_reading
      \/ isr' = "release" /\ "D_A" \in stat /\ g_reading
  OBVIOUS
<1>4. isr' # "release"
  BY <1>1, <1>2, <1>3 DEF OwedInv
<1>5. MainInv' /\ TxReady'
  BY <1>1, <1>2, ServingMain DEF Inv, TxReady, Held
<1>6. OwedInv'
  BY <1>1, <1>2, <1>3, <1>4 DEF OwedInv, Flagged, Buffered, Current, is_read
<1>7. AddressInv' /\ StopInv'
  BY <1>1, <1>2, <1>3, <1>4 DEF OwedInv, AddressInv, AddressPending, StopInv, Held, Flagged, is_read
<1>8. HoldInv'
  BY <1>1, <1>2, <1>3, <1>4 DEF HoldInv, Held, Flagged
<1>9. ReadInv'
  BY <1>1, <1>2, <1>3, <1>4 DEF OwedInv, ReadInv, AddressInv, AddressPending, Held, Flagged
<1> QED
  BY <1>5, <1>6, <1>7, <1>8, <1>9 DEF LiveInv

\* The event reported is the one the application is owed.
LEMMA OnAddrMatchKeeps ==
  ASSUME Alone, Inv, on_addr_match PROVE MainInv' /\ LiveInv' /\ TxReady'
<1> USE DEF on_addr_match, Isr
<1>1. /\ vector # "none" /\ isr = "address" /\ tx' = 0 /\ g_reading' = is_read
      /\ UNCHANGED <<CON1, STAT1, RCV, TRN, IFS, IEC, vector, phase, n, stop_due,
                     g_active, main, preempted, stat, b>>
  BY DEF registers, bus
<1>2. /\ vector = "event" /\ Live /\ "ON" \in CON1 /\ preempted = <<>>
      /\ OwedInv /\ AddressInv /\ ReadInv /\ StopInv /\ HoldInv
  BY <1>1, Serving
<1>3. \/ isr' = "load" /\ is_read
      \/ isr' = "release" /\ ~is_read
  OBVIOUS
<1>4. "RBF" \notin STAT1 /\ Held /\ n = 0 /\ ~stop_due
      /\ phase = (IF is_read THEN "read" ELSE "write")
  BY <1>1, <1>2 DEF AddressInv, AddressPending
<1>5. owed = <<Current>> /\ owed' = <<>>
  BY <1>1, <1>2, <1>4, ShortSequences DEF OwedInv, Told
<1>6. MainInv' /\ TxReady'
  BY <1>1, <1>2, ServingMain DEF Inv, TxReady, Held
<1>7. OwedInv'
  BY <1>1, <1>3, <1>4, <1>5 DEF OwedInv
<1>8. AddressInv' /\ StopInv'
  BY <1>1, <1>3, <1>4 DEF AddressInv, AddressPending, StopInv, Held
<1>9. HoldInv'
  BY <1>1, <1>2, <1>3 DEF HoldInv, Held, Flagged
<1>10. ReadInv'
  BY <1>1, <1>2, <1>3, <1>4 DEF ReadInv, AddressPending, Held, Flagged
<1> QED
  BY <1>6, <1>7, <1>8, <1>9, <1>10 DEF LiveInv

LEMMA OnRxByteKeeps == ASSUME Alone, Inv, on_rx_byte PROVE MainInv' /\ LiveInv' /\ TxReady'
<1> USE DEF on_rx_byte, Isr
<1>1. /\ vector # "none" /\ isr = "data" /\ isr' = "release"
      /\ UNCHANGED <<CON1, STAT1, RCV, TRN, IFS, IEC, vector, phase, n, stop_due,
                     g_active, g_reading, main, preempted, stat, b, tx>>
  BY DEF registers, bus
<1>2. /\ vector = "event" /\ Live /\ "ON" \in CON1 /\ preempted = <<>>
      /\ OwedInv /\ AddressInv /\ ReadInv /\ StopInv /\ HoldInv
  BY <1>1, Serving
<1>3. phase # "read"
  BY <1>1, <1>2 DEF ReadInv
<1>4. owed' = IF "RBF" \in STAT1 THEN <<Buffered>> ELSE <<>>
  BY <1>1, <1>2, ShortSequences DEF OwedInv, Told
<1>5. MainInv' /\ TxReady'
  BY <1>1, <1>2, <1>3, ServingMain DEF Inv, TxReady, Held
<1>6. OwedInv'
  BY <1>1, <1>2, <1>4 DEF OwedInv, Flagged, Buffered
<1>7. AddressInv' /\ StopInv'
  BY <1>1, <1>2 DEF AddressInv, AddressPending, StopInv, Held, Flagged
<1>8. HoldInv'
  BY <1>1, <1>2 DEF HoldInv, Held, Flagged
<1>9. ReadInv'
  BY <1>1, <1>2, <1>3 DEF ReadInv, Flagged
<1> QED
  BY <1>5, <1>6, <1>7, <1>8, <1>9 DEF LiveInv

\* The byte loaded is the next one the master has not taken.
LEMMA OnTxByteKeeps == ASSUME Alone, Inv, on_tx_byte PROVE MainInv' /\ LiveInv' /\ TxReady'
<1> USE DEF on_tx_byte, Isr
<1>1. /\ vector # "none" /\ isr = "load" /\ isr' = "release"
      /\ TRN' = tx' /\ STAT1' = STAT1 \cup {"TBF"}
      /\ UNCHANGED <<CON1, RCV, IFS, IEC, vector, phase, n, owed, stop_due,
                     g_active, g_reading, main, preempted, stat, b>>
  BY DEF bus
<1>2. /\ vector = "event" /\ Live /\ "ON" \in CON1 /\ preempted = <<>>
      /\ OwedInv /\ AddressInv /\ ReadInv /\ StopInv /\ HoldInv
  BY <1>1, Serving
<1>3. phase = "read" /\ Held /\ ~Flagged
  BY <1>1, <1>2 DEF ReadInv
<1>4. tx' = n' + 1
  <2>1. ~AddressPending
    BY <1>1, <1>2, <1>3 DEF AddressPending, OwedInv
  <2>2. tx = n /\ n \in 0 .. MaxBytes
    BY <1>1, <1>2, <1>3, <2>1 DEF ReadInv, Inv, TypeInv, TypeOK, ClientTypeOK
  <2> QED
    BY <1>1, <2>2, Facts
<1>5. MainInv' /\ TxReady'
  BY <1>1, <1>2, <1>4, ServingMain DEF Inv, TxReady, Held
<1>6. OwedInv'
  BY <1>1, <1>2 DEF OwedInv, Flagged, Buffered
<1>7. AddressInv' /\ StopInv'
  BY <1>1, <1>2 DEF AddressInv, AddressPending, StopInv, Held, Flagged
<1>8. HoldInv'
  BY <1>1, <1>2 DEF HoldInv, Held, Flagged
<1>9. ReadInv'
  BY <1>1, <1>2, <1>3, <1>4 DEF ReadInv, AddressPending, Held, Flagged
<1> QED
  BY <1>5, <1>6, <1>7, <1>8, <1>9 DEF LiveInv

\* SCL is released only when the byte a reading master takes next is loaded.
LEMMA ReleaseKeeps == ASSUME Alone, Inv, release PROVE MainInv' /\ LiveInv' /\ TxReady'
<1> USE DEF release, Isr
<1>1. /\ vector # "none" /\ isr = "release" /\ isr' = "stop"
      /\ CON1' = CON1 \cup {"SCLREL"}
      /\ UNCHANGED <<STAT1, RCV, TRN, IFS, IEC, vector, phase, n, owed, stop_due,
                     g_active, g_reading, main, preempted, stat, b, tx>>
  BY DEF bus
<1>2. /\ vector = "event" /\ Live /\ "ON" \in CON1 /\ preempted = <<>>
      /\ OwedInv /\ AddressInv /\ ReadInv /\ StopInv /\ HoldInv
  BY <1>1, Serving
<1>3. ~Held' /\ "ON" \in CON1'
  BY <1>1, <1>2 DEF Held
<1>4. ~AddressPending
  BY <1>1, <1>2 DEF AddressInv
<1>5. MainInv' /\ TxReady'
  BY <1>1, <1>2, <1>3, ServingMain DEF Inv, TxReady, ReadInv
<1>6. OwedInv'
  BY <1>1, <1>2 DEF OwedInv, Flagged, Buffered
<1>7. AddressInv' /\ StopInv'
  BY <1>1, <1>2, <1>4 DEF AddressInv, AddressPending, StopInv, Held, Flagged
<1>8. HoldInv'
  BY <1>1, <1>2, <1>3 DEF HoldInv, Flagged
<1>9. ReadInv'
  BY <1>1, <1>2, <1>3, <1>4 DEF ReadInv, AddressPending, Flagged
<1> QED
  BY <1>5, <1>6, <1>7, <1>8, <1>9 DEF LiveInv

LEMMA OnStopKeeps == ASSUME Alone, Inv, on_stop PROVE MainInv' /\ LiveInv' /\ TxReady'
<1> USE DEF on_stop, Isr
<1>1. /\ vector # "none" /\ isr = "stop" /\ isr' = "overflow"
      /\ UNCHANGED <<CON1, STAT1, RCV, TRN, IFS, IEC, vector, phase, n, owed,
                     g_active, main, preempted, stat, b, tx>>
  BY DEF registers, bus
<1>2. /\ vector = "event" /\ Live /\ "ON" \in CON1 /\ preempted = <<>>
      /\ OwedInv /\ AddressInv /\ ReadInv /\ StopInv /\ HoldInv
  BY <1>1, Serving
<1>3. \/ stopped /\ ~g_reading' /\ ~stop_due'
      \/ ~stopped /\ UNCHANGED <<g_reading, stop_due>>
  OBVIOUS
<1>4. MainInv' /\ TxReady'
  BY <1>1, <1>2, ServingMain DEF Inv, TxReady, Held
<1>5. OwedInv'
  BY <1>1, <1>2, <1>3 DEF OwedInv, Flagged, Buffered
<1>6. AddressInv' /\ StopInv'
  BY <1>1, <1>2, <1>3 DEF AddressInv, AddressPending, StopInv, Held, Flagged, stopped
<1>7. HoldInv'
  BY <1>1, <1>2 DEF HoldInv, Held, Flagged
<1>8. ReadInv'
  BY <1>1, <1>2, <1>3 DEF ReadInv, AddressPending, Held, Flagged, stopped
<1> QED
  BY <1>4, <1>5, <1>6, <1>7, <1>8 DEF LiveInv

LEMMA LeaveKeeps == ASSUME Alone, Inv, leave PROVE MainInv' /\ LiveInv' /\ TxReady'
<1> USE DEF leave, Reti
<1>1. vector # "none" /\ isr = "overflow"
  OBVIOUS
<1>2. /\ vector = "event" /\ Live /\ "ON" \in CON1 /\ preempted = <<>>
      /\ OwedInv /\ AddressInv /\ ReadInv /\ StopInv /\ HoldInv
  BY <1>1, Serving
<1>3. /\ vector' = "none" /\ isr' = "done" /\ STAT1' = STAT1 \ {"I2COV"}
      /\ UNCHANGED <<CON1, RCV, TRN, IFS, IEC, phase, n, owed, stop_due,
                     g_active, g_reading, main, preempted, stat, b, tx>>
  BY <1>2 DEF bus
<1>4. MainInv' /\ TxReady'
  BY <1>2, <1>3 DEF Inv, MainInv, TxReady, Held
<1>5. OwedInv'
  BY <1>1, <1>2, <1>3 DEF OwedInv, Flagged, Buffered
<1>6. AddressInv' /\ StopInv'
  BY <1>1, <1>2, <1>3 DEF AddressInv, AddressPending, StopInv, Held, Flagged
<1>7. HoldInv'
  BY <1>1, <1>2, <1>3 DEF HoldInv, Held, Flagged
<1>8. ReadInv'
  BY <1>1, <1>2, <1>3 DEF ReadInv, AddressPending, Held, Flagged
<1> QED
  BY <1>4, <1>5, <1>6, <1>7, <1>8 DEF LiveInv

\* The bus finds the slave on; while it is live the invariant speaks of it.
LEMMA OnBus ==
  ASSUME Alone, Inv, NEW kind, MayHappen(kind)
  PROVE  /\ "ON" \in CON1 /\ ~Held /\ g_active /\ main \in {"idle", "deinit_off"}
         /\ main = "deinit_off" => vector = "none"
         /\ Live => OwedInv /\ AddressInv /\ ReadInv /\ StopInv /\ HoldInv
         /\ ~Live => main = "deinit_off"
         /\ kind = "start" /\ Live => isr = "done" /\ ~Flagged
BY DEF MayHappen, Inv, MainInv, LiveInv, Live, Alone, Settled, Flagged, TypeInv, TypeOK

\* A step of the bus changes nothing the main thread has set up.
LEMMA BusMain ==
  ASSUME Inv, g_active, main \in {"idle", "deinit_off"}, "ON" \in CON1,
         "ON" \in CON1', IFS' \subseteq {"event"},
         UNCHANGED <<vector, main, g_active, g_reading, IEC, preempted>>
  PROVE  MainInv'
BY DEF Inv, MainInv

\* An address comes only after the slave has answered all that went before.
LEMMA AddressKeeps ==
  ASSUME Alone, Inv, NEW dir \in {"read", "write"}, HwAddress(dir),
         UNCHANGED <<g_active, g_reading, main, prio, service>>
  PROVE  MainInv' /\ LiveInv' /\ TxReady'
<1> USE DEF service
<1>1. MayHappen("start")
  BY DEF HwAddress
<1>2. /\ "RBF" \notin STAT1 /\ "RBF" \in STAT1' /\ "D_A" \notin STAT1' /\ "P" \notin STAT1'
      /\ "I2COV" \notin STAT1'
      /\ "R_W" \in STAT1' <=> dir = "read"
  BY DEF HwAddress, CanReceive
<1>3. /\ CON1' = CON1 \ {"SCLREL"}
      /\ IFS' = IFS \cup {"event"}
      /\ phase # "read" /\ phase' = dir /\ n' = 0
      /\ owed' = Append(owed, Address(dir))
      /\ UNCHANGED <<IEC, vector, stop_due, isr, stat, b, preempted, tx>>
  BY DEF HwAddress, Raise, Alone
<1>4. Held'
  BY <1>1, <1>3, OnBus DEF Held
<1>5. MainInv' /\ TxReady'
  BY <1>1, <1>3, <1>4, OnBus, BusMain DEF TxReady, Held, Inv, MainInv
<1>6. SUFFICES ASSUME Live PROVE LiveInv'
  BY <1>3, <1>5 DEF LiveInv, Live
<1>7. /\ "ON" \in CON1 /\ isr = "done" /\ ~Flagged
      /\ OwedInv /\ AddressInv /\ ReadInv /\ StopInv /\ HoldInv
  BY <1>1, <1>6, OnBus
<1>8. ~stop_due /\ ~g_reading
  BY <1>3, <1>7 DEF StopInv, ReadInv
<1>9. OwedInv'
  <2>1. owed = <<>> /\ Buffered' = Address(dir)
    BY <1>2, <1>7 DEF OwedInv, Buffered
  <2>2. owed' = <<Address(dir)>>
    BY <1>3, <2>1, ShortSequences
  <2> QED
    BY <1>2, <1>3, <1>7, <2>1, <2>2 DEF OwedInv, Flagged
<1>10. AddressInv' /\ StopInv'
  BY <1>2, <1>3, <1>4, <1>7, <1>8 DEF AddressInv, AddressPending, StopInv
<1>11. HoldInv'
  BY <1>2, <1>3 DEF HoldInv, Flagged
<1>12. ReadInv'
  BY <1>2, <1>3, <1>4, <1>7, <1>8 DEF ReadInv, AddressPending, Flagged
<1> QED
  BY <1>9, <1>10, <1>11, <1>12 DEF LiveInv

LEMMA AddressOverflowKeeps ==
  ASSUME Alone, Inv, HwAddressOverflow,
         UNCHANGED <<g_active, g_reading, main, prio, service>>
  PROVE  MainInv' /\ LiveInv' /\ TxReady'
<1> USE DEF service
<1>1. MayHappen("start") /\ ("RBF" \in STAT1 \/ "I2COV" \in STAT1)
  BY DEF HwAddressOverflow, CanReceive
<1>2. MayHappen("start") /\ phase' = "free"
      /\ STAT1' = (STAT1 \ {"P"}) \cup {"I2COV"}
      /\ UNCHANGED <<CON1, RCV, TRN, IFS, IEC, vector, owed, stop_due, isr, stat, b, preempted, tx>>
  BY DEF HwAddressOverflow
<1>3. ~Live
  BY <1>1, <1>2, OnBus DEF OwedInv, HoldInv, Inv, TypeInv, TypeOK, HwAddressOverflow, CanReceive
<1>4. MainInv' /\ TxReady'
  BY <1>2, OnBus, BusMain DEF TxReady, Inv, MainInv
<1>5. LiveInv'
  BY <1>2, <1>3 DEF LiveInv, Live
<1> QED
  BY <1>4, <1>5

\* A byte may overtake the service of the last one, if SCL is not held.
LEMMA ByteInKeeps ==
  ASSUME Alone, Inv, HwByteIn,
         UNCHANGED <<g_active, g_reading, main, prio, service>>
  PROVE  MainInv' /\ LiveInv' /\ TxReady'
<1> USE DEF service
<1>1. MayHappen("byte") /\ phase = "write"
  BY DEF HwByteIn
<1>2. /\ "RBF" \notin STAT1 /\ STAT1' = STAT1 \cup {"RBF", "D_A"}
      /\ "ON" \in CON1 => "ON" \in CON1'
      /\ IFS' = IFS \cup {"event"}
      /\ RCV' = n + 1
      /\ owed' = Append(owed, Byte(n + 1))
      /\ UNCHANGED <<TRN, IEC, vector, phase, stop_due, isr, stat, b, preempted, tx>>
  BY DEF HwByteIn, CanReceive, Raise, Alone
<1>3. MainInv' /\ TxReady'
  BY <1>1, <1>2, OnBus, BusMain DEF TxReady, Inv, MainInv
<1>4. SUFFICES ASSUME Live PROVE LiveInv'
  BY <1>2, <1>3 DEF LiveInv, Live
<1>5. ~Held /\ "ON" \in CON1 /\ OwedInv /\ AddressInv /\ ReadInv /\ StopInv /\ HoldInv
  BY <1>1, <1>4, OnBus
<1>6. isr # "address" /\ isr # "receive" /\ ~g_reading
  BY <1>1, <1>2, <1>5 DEF AddressInv, AddressPending, ReadInv, OwedInv
<1>7. OwedInv'
  <2>1. Buffered' = Byte(n + 1) /\ (isr = "data" => Current' = Byte(b) /\ Current = Byte(b))
    BY <1>2 DEF Buffered, Current
  <2>2. owed' = IF isr = "data" THEN <<Byte(b), Byte(n + 1)>> ELSE <<Byte(n + 1)>>
    BY <1>2, <1>5, <1>6, <2>1, ShortSequences DEF OwedInv
  <2> QED
    BY <1>2, <1>5, <1>6, <2>1, <2>2 DEF OwedInv, Flagged
<1>8. AddressInv' /\ StopInv'
  BY <1>2, <1>5, <1>6 DEF AddressInv, AddressPending, StopInv, Flagged
<1>9. HoldInv'
  BY <1>2 DEF HoldInv, Flagged
<1>10. ReadInv'
  BY <1>1, <1>2, <1>5, <1>6 DEF ReadInv, AddressPending, Flagged
<1> QED
  BY <1>7, <1>8, <1>9, <1>10 DEF LiveInv

LEMMA ByteInOverflowKeeps ==
  ASSUME Alone, Inv, HwByteInOverflow,
         UNCHANGED <<g_active, g_reading, main, prio, service>>
  PROVE  MainInv' /\ LiveInv' /\ TxReady'
<1> USE DEF service
<1>1. /\ MayHappen("byte") /\ phase = "write" /\ STAT1 \cap {"RBF", "I2COV"} # {}
      /\ STAT1' = STAT1 \cup {"I2COV"}
      /\ UNCHANGED <<CON1, RCV, TRN, IFS, IEC, vector, phase, n, owed, stop_due,
                     isr, stat, b, preempted, tx>>
  BY DEF HwByteInOverflow, CanReceive, bus
<1>2. MainInv' /\ TxReady'
  BY <1>1, OnBus, BusMain DEF TxReady, Inv, MainInv
<1>3. SUFFICES ASSUME Live PROVE LiveInv'
  BY <1>1, <1>2 DEF LiveInv, Live
<1>4. ~Held /\ "ON" \in CON1 /\ OwedInv /\ AddressInv /\ ReadInv /\ StopInv /\ HoldInv
  BY <1>1, <1>3, OnBus
<1>5. OwedInv'
  BY <1>1, <1>4 DEF OwedInv, Flagged, Buffered, Current, is_read
<1>6. AddressInv' /\ StopInv'
  BY <1>1, <1>4 DEF AddressInv, AddressPending, StopInv, Held, Flagged, is_read
<1>7. HoldInv'
  <2>1. Flagged \/ vector # "none"
    BY <1>1, <1>4 DEF HoldInv, OwedInv, Flagged, Inv, TypeInv, TypeOK
  <2> QED
    BY <1>1, <1>4, <2>1 DEF HoldInv, Held, Flagged
<1>8. ReadInv'
  BY <1>1, <1>4 DEF ReadInv, AddressPending, Held, Flagged
<1> QED
  BY <1>5, <1>6, <1>7, <1>8 DEF LiveInv

\* The master takes a byte only when it has been loaded and SCL released.
LEMMA ByteOutKeeps ==
  ASSUME Alone, Inv, HwByteOut,
         UNCHANGED <<g_active, g_reading, main, prio, service>>
  PROVE  MainInv' /\ LiveInv' /\ TxReady'
<1> USE DEF service
<1>1. /\ MayHappen("byte") /\ phase = "read" /\ n' = n + 1
      /\ "TBF" \notin STAT1'
      /\ \A bit \in {"RBF", "D_A", "R_W", "P", "I2COV"} : bit \in STAT1' <=> bit \in STAT1
      /\ IFS' = IFS \cup {"event"}
      /\ UNCHANGED <<RCV, TRN, IEC, vector, owed, stop_due, isr, stat, b, preempted, tx>>
  BY DEF HwByteOut, Raise, Alone
<1>2. \/ phase' = "read" /\ "ACKSTAT" \notin STAT1' /\ CON1' = CON1 \ {"SCLREL"}
      \/ phase' = "nacked" /\ "ACKSTAT" \in STAT1' /\ CON1' = CON1
  BY DEF HwByteOut
<1>3. "ON" \in CON1' /\ ~Held /\ (phase' = "read" => Held')
  BY <1>1, <1>2, OnBus DEF Held
<1>4. MainInv' /\ TxReady'
  BY <1>1, <1>3, OnBus, BusMain DEF TxReady, Inv, MainInv
<1>5. SUFFICES ASSUME Live PROVE LiveInv'
  BY <1>1, <1>4 DEF LiveInv, Live
<1>6. "ON" \in CON1 /\ OwedInv /\ AddressInv /\ ReadInv /\ StopInv /\ HoldInv
  BY <1>1, <1>5, OnBus
<1>7. ~AddressPending /\ g_reading /\ ~Flagged /\ "RBF" \notin STAT1
      /\ isr \in {"done", "stop", "overflow"}
  <2>1. ~AddressPending /\ g_reading /\ ~Flagged
        /\ isr \notin {"poll", "receive", "address", "load", "release", "data"}
    BY <1>1, <1>3, <1>6 DEF AddressInv, ReadInv
  <2>2. "RBF" \notin STAT1
    BY <1>6, <2>1 DEF OwedInv
  <2> QED
    BY <2>1, <2>2 DEF Inv, TypeInv, TypeOK, IsrPcs
<1>8. tx' = n'
  BY <1>1, <1>3, <1>6 DEF ReadInv
<1>9. OwedInv'
  BY <1>1, <1>6, <1>7 DEF OwedInv, Flagged
<1>10. AddressInv' /\ StopInv'
  BY <1>1, <1>6, <1>7 DEF AddressInv, AddressPending, StopInv, Flagged
<1>11. HoldInv'
  BY <1>1, <1>2, <1>3, <1>6 DEF HoldInv, Held, Flagged
<1>12. ReadInv'
  BY <1>1, <1>2, <1>3, <1>6, <1>7, <1>8 DEF ReadInv, AddressPending, Flagged
<1> QED
  BY <1>9, <1>10, <1>11, <1>12 DEF LiveInv

LEMMA StopKeeps ==
  ASSUME Alone, Inv, HwStop,
         UNCHANGED <<g_active, g_reading, main, prio, service>>
  PROVE  MainInv' /\ LiveInv' /\ TxReady'
<1> USE DEF service
<1>1. /\ MayHappen("stop") /\ phase \in {"write", "nacked"} /\ phase' = "free"
      /\ STAT1' = STAT1 \cup {"P"} /\ stop_due'
      /\ IFS' = IFS \cup {"event"}
      /\ UNCHANGED <<CON1, RCV, TRN, IEC, vector, n, owed, isr, stat, b, preempted, tx>>
  BY DEF HwStop, Raise
<1>2. MainInv' /\ TxReady'
  BY <1>1, OnBus, BusMain DEF TxReady, Inv, MainInv
<1>3. SUFFICES ASSUME Live PROVE LiveInv'
  BY <1>1, <1>2 DEF LiveInv, Live
<1>4. ~Held /\ "ON" \in CON1 /\ OwedInv /\ AddressInv /\ ReadInv /\ StopInv /\ HoldInv
  BY <1>1, <1>3, OnBus
<1>5. ~AddressPending
  BY <1>4 DEF AddressInv
<1>6. OwedInv'
  BY <1>1, <1>4, <1>5 DEF OwedInv, Flagged, Buffered, Current, AddressPending
<1>7. AddressInv' /\ StopInv'
  BY <1>1, <1>4, <1>5 DEF AddressInv, AddressPending, StopInv, Flagged
<1>8. HoldInv'
  BY <1>1, <1>4 DEF HoldInv, Held, Flagged
<1>9. ReadInv'
  BY <1>1, <1>4, <1>5 DEF ReadInv, AddressPending, Flagged
<1> QED
  BY <1>6, <1>7, <1>8, <1>9 DEF LiveInv

LEMMA NextKeeps == ASSUME Alone, Inv, [Next]_vars PROVE Inv'
<1>1. TypeInv'
  BY NextTypes DEF Inv
<1>2. MainInv' /\ LiveInv' /\ TxReady'
  <2>1. CASE UNCHANGED vars
    BY <2>1 DEF vars, client, registers, bus, service, Inv, MainInv, LiveInv, Live, TxReady, OwedInv,
        AddressInv, ReadInv, StopInv, HoldInv, AddressPending, Flagged, Buffered, Current, Held, is_read
  <2>2. CASE MainThread
    BY <2>2, MainKeeps
  <2>3. CASE Interrupt
    BY <2>3, IrqKeeps, PollKeeps, ReceiveKeeps, OnAddrMatchKeeps, OnRxByteKeeps, OnTxByteKeeps,
       ReleaseKeeps, OnStopKeeps, LeaveKeeps
       DEF Interrupt, slave_service
  <2>4. CASE Bus
    BY <2>4, AddressKeeps, AddressOverflowKeeps, ByteInKeeps, ByteInOverflowKeeps, ByteOutKeeps,
       StopKeeps
       DEF Bus, HwBus
  <2> QED
    BY <2>1, <2>2, <2>3, <2>4 DEF Next
<1> QED
  BY <1>1, <1>2 DEF Inv

LEMMA Invariance == ASSUME Alone PROVE Spec => []Inv
<1>1. Init => Inv
  BY InitInv
<1>2. Inv /\ [Next]_vars => Inv'
  BY NextKeeps
<1> QED
  BY <1>1, <1>2, PTL DEF Spec

-----------------------------------------------------------------------------
(* What the application may rely on.                                        *)

\* on_addr_match and on_rx_byte are called for the events of the bus in their
\* order, each exactly once, although a byte may arrive while the service of
\* the last one is still running (slave_service).
THEOREM InOrder == ASSUME Alone PROVE Spec => []ReportsInOrder
<1>1. Inv => ReportsInOrder
  BY Serving, ShortSequences DEF Inv, TypeInv, TypeOK, ReportsInOrder, OwedInv, Current
<1> QED
  BY <1>1, Invariance, PTL

\* on_tx_byte is called only while a master reads from this client.
THEOREM LoadsOnlyForReads == ASSUME Alone PROVE Spec => []TxWhileRead
<1>1. Inv => TxWhileRead
  BY Serving DEF Inv, TypeInv, TypeOK, TxWhileRead, ReadInv
<1> QED
  BY <1>1, Invariance, PTL

\* Where no START overtakes the ISR, on_stop is called before the next
\* on_addr_match.  This rests on Alone: it is for callers that can show, as
\* I2CLoopback_proofs does of a master on the same CPU, that no START does.
LEMMA StopComesFirst == ASSUME Alone PROVE Spec => []StopBeforeNext
<1>1. Inv => StopBeforeNext
  BY Serving DEF Inv, TypeInv, TypeOK, StopBeforeNext, AddressInv, AddressPending
<1> QED
  BY <1>1, Invariance, PTL

\* With no interrupt due or served, all that happened on the bus was reported,
\* SCL is released and reception is open: clearing the flag before the service
\* (the ISR delegates), and not after it, loses no event.
THEOREM ForgetsNothing == ASSUME Alone PROVE Spec => []NothingForgotten
<1>1. Inv => NothingForgotten
  <2> SUFFICES ASSUME Inv, Settled, g_active, main = "idle"
               PROVE  owed = <<>> /\ ~stop_due /\ ~Held /\ STAT1 \cap {"RBF", "I2COV"} = {}
    BY DEF NothingForgotten
  <2>1. vector = "none" /\ isr = "done" /\ ~Flagged
    BY DEF Settled, Flagged, Inv, MainInv, TypeInv, TypeOK
  <2>2. OwedInv /\ AddressInv /\ ReadInv /\ StopInv /\ HoldInv
    BY DEF Inv, LiveInv, Live
  <2> QED
    BY <2>1, <2>2 DEF OwedInv, StopInv, HoldInv
<1> QED
  BY <1>1, Invariance, PTL

\* A byte the master takes is the next one on_tx_byte has returned: none is
\* skipped, repeated or made up, however the steps of slave_service, the bus
\* and slave_deinit interleave.
THEOREM TakesInOrder == ASSUME Alone PROVE Spec => TxInOrder
<1>1. Inv /\ [Next]_vars => [phase = "read" /\ n' = n + 1 => "TBF" \in STAT1 /\ TRN = n']_vars
  <2> SUFFICES ASSUME Inv, Next, phase = "read", n' = n + 1
               PROVE  "TBF" \in STAT1 /\ TRN = n'
    OBVIOUS
  <2>1. n \in Nat
    BY Facts DEF Inv, TypeInv, TypeOK, ClientTypeOK
  <2>2. ASSUME UNCHANGED n PROVE FALSE
    BY <2>1, <2>2
  <2>3. CASE MainThread
    BY <2>1, <2>2, <2>3
       DEF MainThread, slave_init_configure, slave_init_state, slave_init_irq, slave_init_on,
           set_interrupt_priority, slave_deinit_mask, slave_deinit_off, slave_deinit_state, HwOff, bus
  <2>4. CASE Interrupt
    BY <2>2, <2>4
       DEF Interrupt, slave_irq, slave_service, poll, poll_next, receive, on_addr_match, on_rx_byte,
           on_tx_byte, release, on_stop, leave, Reti, Isr, bus
  <2>5. CASE Bus
    <3>1. HwByteOut
      BY <2>1, <2>2, <2>5
         DEF Bus, HwBus, HwAddress, HwAddressOverflow, HwByteIn, HwByteInOverflow, HwStop, bus
    <3>2. ~Held
      BY <3>1 DEF HwByteOut, MayHappen
    <3> QED
      BY <3>2 DEF Inv, TxReady
  <2> QED
    BY <2>3, <2>4, <2>5 DEF Next
<1> QED
  BY <1>1, Invariance, PTL DEF TxInOrder, Spec

-----------------------------------------------------------------------------
(* A master that asks for nothing while the slave has not answered, like    *)
(* one whose program shares the slave's CPU.  P stays set after a STOP, but *)
(* no service begins that could see it again before a START has cleared it. *)

Answered == Alone /\ Overtakes = {}

OnceInv ==
  /\ vector # "none" => ~Flagged
  /\ phase # "free" => "P" \notin STAT1
  /\ Live =>
       /\ "P" \in STAT1 /\ (Flagged \/ isr = "poll") => stop_due
       /\ "P" \in stat /\ isr \notin {"done", "poll", "overflow"} => stop_due

LEMMA BusOnce ==
  ASSUME Answered, Inv, OnceInv, Bus
  PROVE  OnceInv'
<1> USE DEF Answered, OnceInv, Bus, service
<1>1. PICK kind \in {"start", "byte", "stop"} : MayHappen(kind)
  BY DEF HwBus, HwAddress, HwAddressOverflow, HwByteIn, HwByteInOverflow, HwByteOut, HwStop
<1>2. vector = "none" /\ isr = "done" /\ IFS \cap IEC = {}
  BY <1>1 DEF MayHappen, Settled, Inv, TypeInv, TypeOK
<1>3. Live => "event" \notin IFS /\ OwedInv /\ HoldInv
  BY <1>2 DEF Inv, MainInv, LiveInv, Live
<1>4. UNCHANGED <<vector, isr, stat, main, g_active>>
  BY DEF HwBus, HwAddress, HwAddressOverflow, HwByteIn, HwByteInOverflow, HwByteOut, HwStop
<1>5. CASE \E dir \in {"read", "write"} : HwAddress(dir)
  BY <1>2, <1>4, <1>5 DEF HwAddress
<1>6. CASE HwAddressOverflow
  BY <1>2, <1>3, <1>4, <1>6 DEF HwAddressOverflow, OwedInv, HoldInv, CanReceive, Flagged, Live
<1>7. CASE HwByteIn \/ HwByteInOverflow \/ HwByteOut
  BY <1>2, <1>4, <1>7 DEF HwByteIn, HwByteInOverflow, HwByteOut, bus
<1>8. CASE HwStop
  BY <1>2, <1>4, <1>8 DEF HwStop
<1> QED
  BY <1>5, <1>6, <1>7, <1>8 DEF HwBus

LEMMA MainOnce == ASSUME Answered, Inv, OnceInv, MainThread PROVE OnceInv'
<1>1. vector = "none" /\ isr = "done" /\ UNCHANGED <<vector, isr, stat>>
  BY DEF MainThread, slave_init_configure, slave_init_state, slave_init_irq, slave_init_on,
         set_interrupt_priority, slave_deinit_mask, slave_deinit_off, slave_deinit_state,
         Configure, Main, service, Inv, TypeInv, TypeOK
<1>2. \/ STAT1' = {} /\ phase' = "free"
      \/ UNCHANGED <<STAT1, phase>>
  BY DEF MainThread, slave_init_configure, slave_init_state, slave_init_irq, slave_init_on,
         set_interrupt_priority, slave_deinit_mask, slave_deinit_off, slave_deinit_state,
         HwOff, registers, bus
<1>3. Live' => STAT1' = {} \/ (Live /\ UNCHANGED <<STAT1, IFS, stop_due>>)
  BY DEF MainThread, slave_init_configure, slave_init_state, slave_init_irq, slave_init_on,
         set_interrupt_priority, slave_deinit_mask, slave_deinit_off, slave_deinit_state,
         Configure, Main, HwOff, registers, Live, Inv, MainInv
<1> QED
  BY <1>1, <1>2, <1>3 DEF OnceInv, Flagged

LEMMA InterruptOnce == ASSUME Answered, Inv, OnceInv, Interrupt PROVE OnceInv'
<1>1. UNCHANGED <<phase, main, g_active>>
  BY DEF Interrupt, slave_service, slave_irq, poll, poll_next, receive, on_addr_match, on_rx_byte,
         on_tx_byte, release, on_stop, leave, Reti, Isr, bus
<1>2. CASE \E v \in Sources : slave_irq(v)
  <2>1. PICK v \in Sources : slave_irq(v)
    BY <1>2
  <2>2. v = "event" /\ "event" \in IFS /\ g_active /\ main = "idle"
    BY <2>1 DEF slave_irq, Inv, MainInv
  <2> QED
    BY <1>1, <2>1, <2>2 DEF slave_irq, OnceInv, Flagged, Live, registers, Sources
<1>3. CASE slave_service
  <2> USE DEF OnceInv, Flagged, Live
  <2>1. vector # "none" /\ "event" \notin IFS
    <3>1. vector # "none"
      BY <1>3 DEF slave_service, poll, poll_next, receive, on_addr_match, on_rx_byte, on_tx_byte,
           release, on_stop, leave, Reti, Isr
    <3> QED
      BY <3>1
  <2>2. Live /\ preempted = <<>>
    BY <2>1, Serving
  <2>3. CASE poll \/ on_addr_match \/ on_rx_byte \/ release
    BY <1>1, <2>1, <2>2, <2>3 DEF poll, poll_next, on_addr_match, on_rx_byte, release, Isr, registers
  <2>4. CASE receive \/ on_tx_byte
    <3>1. /\ isr \in {"receive", "load"} /\ isr' # "poll"
          /\ "P" \in STAT1' <=> "P" \in STAT1
          /\ UNCHANGED <<vector, IFS, stat, stop_due>>
      BY <2>4 DEF receive, on_tx_byte, Isr
    <3> QED
      BY <1>1, <2>1, <2>2, <3>1
  <2>5. CASE on_stop \/ leave
    BY <1>1, <2>1, <2>2, <2>5 DEF on_stop, leave, Reti, Isr, registers, stopped
  <2> QED
    BY <1>3, <2>3, <2>4, <2>5 DEF slave_service
<1> QED
  BY <1>2, <1>3 DEF Interrupt

LEMMA NextOnce == ASSUME Answered, Inv, OnceInv, [Next]_vars PROVE OnceInv'
<1>1. CASE UNCHANGED vars
  BY <1>1 DEF vars, client, registers, bus, service, OnceInv, Live, Flagged
<1> QED
  BY <1>1, BusOnce, MainOnce, InterruptOnce DEF Next

\* on_stop is called once for a STOP: the second call, which the extra pass of
\* slave_service may make, takes a bus event overtaking the ISR.
THEOREM StopsOnce == ASSUME Answered PROVE Spec => []StopOnce
<1>1. Init => OnceInv
  BY DEF Init, ClientInit, OnceInv, Live
<1>2. Inv /\ OnceInv /\ [Next]_vars => OnceInv'
  BY NextOnce
<1>3. Inv /\ OnceInv => StopOnce
  BY Serving DEF Inv, TypeInv, TypeOK, OnceInv, StopOnce, stopped
<1>4. Spec => []Inv
  BY Invariance DEF Answered
<1> QED
  BY <1>1, <1>2, <1>3, <1>4, PTL DEF Spec
=============================================================================
