------------------------ MODULE I2CInterrupts_proofs ------------------------
(***************************************************************************)
(* Theorems about I2CInterrupts, for every set of slaves and whether or    *)
(* not the build makes a read-modify-write atomic.                         *)
(***************************************************************************)
EXTENDS I2CInterrupts, TLAPS

MainSteps == {"clear", "enable_load", "enable", "on", "disable"}

\* The main thread is in a step of slave_init or slave_deinit of an instance.
MainIn(steps) == thread["main"] # Idle /\ thread["main"].at \in steps

\* IEC2 is written by the main thread alone, so the word it has read is still
\* IEC2 when it writes it back; and it tells the instances that are enabled.
IEC2Inv ==
  /\ thread["main"] = Idle => IEC2 = g_active
  /\ MainIn(MainSteps) => thread["main"].inst \in g_active
  /\ MainIn({"clear", "enable_load", "enable"}) =>
       IEC2 = g_active \ {thread["main"].inst}
  /\ MainIn({"on", "disable"}) => IEC2 = g_active
  /\ MainIn({"enable", "disable"}) => thread["main"].word = IEC2

Inv ==
  /\ thread \in [{"main", "isr"} -> {Idle} \cup At(MainSteps \cup {"service"})]
  /\ TypeOK
  /\ IEC2Inv

LEMMA InitInv == Init => Inv
BY DEF Init, Inv, TypeOK, IEC2Inv, MainIn

\* The steps that leave main, IEC2 and the active slaves alone.
LEMMA MainKept ==
  ASSUME Inv, UNCHANGED <<IEC2, g_active>>, thread'["main"] = thread["main"]
  PROVE  IEC2Inv'
BY DEF Inv, IEC2Inv, MainIn

LEMMA NextInv == Inv /\ [Next]_vars => Inv'
<1> SUFFICES ASSUME Inv, [Next]_vars PROVE Inv'
  OBVIOUS
<1> USE DEF Inv, TypeOK, At, Idle, MainSteps, Goto, End, Step, Read
<1>1. ASSUME NEW i \in Slaves, slave_init(i) PROVE Inv'
  BY <1>1 DEF slave_init, IEC2Inv, MainIn
<1>2. ASSUME NEW i \in Slaves, slave_init_clear(i) PROVE Inv'
  BY <1>2 DEF slave_init_clear, IEC2Inv, MainIn
<1>3. ASSUME NEW i \in Slaves, slave_init_enable_load(i) PROVE Inv'
  BY <1>3 DEF slave_init_enable_load, IEC2Inv, MainIn
<1>4. ASSUME NEW i \in Slaves, slave_init_enable(i) PROVE Inv'
  BY <1>4 DEF slave_init_enable, IEC2Inv, MainIn
<1>5. ASSUME NEW i \in Slaves, slave_init_on(i) PROVE Inv'
  BY <1>5 DEF slave_init_on, IEC2Inv, MainIn
<1>6. ASSUME NEW i \in Slaves, slave_deinit(i) PROVE Inv'
  BY <1>6 DEF slave_deinit, IEC2Inv, MainIn
<1>7. ASSUME NEW i \in Slaves, slave_deinit_disable(i) PROVE Inv'
  BY <1>7 DEF slave_deinit_disable, IEC2Inv, MainIn
<1>8. ASSUME NEW i \in Slaves, event_irq(i) PROVE Inv'
  BY <1>8, MainKept DEF event_irq
<1>9. ASSUME NEW i \in Slaves, event_irq_clear(i) PROVE Inv'
  BY <1>9, MainKept DEF event_irq_clear
<1>10. ASSUME NEW i \in Slaves, event_irq_service(i) PROVE Inv'
  BY <1>10, MainKept DEF event_irq_service
<1>11. ASSUME NEW i \in Slaves, HwEvent(i) PROVE Inv'
  BY <1>11, MainKept DEF HwEvent
<1>12. CASE UNCHANGED vars
  BY <1>12, MainKept DEF vars
<1> QED
  BY <1>1, <1>2, <1>3, <1>4, <1>5, <1>6, <1>7, <1>8, <1>9, <1>10, <1>11, <1>12 DEF Next

LEMMA Invariance == Spec => []Inv
BY InitInv, NextInv, PTL DEF Spec

\* Words and threads keep their types, and no interrupt is enabled that an
\* inactive instance would have to serve.
THEOREM TypeCorrect == Spec => []TypeOK
<1>1. Inv => TypeOK
  BY DEF Inv
<1> QED
  BY <1>1, Invariance, PTL

\* Between main-thread calls exactly the active slaves have their interrupt
\* enabled: no slave_init or slave_deinit undoes another one's write of IEC2.
THEOREM EnabledExactly == Spec => []EnabledWhileActive
<1>1. Inv => EnabledWhileActive
  BY DEF Inv, IEC2Inv, EnabledWhileActive
<1> QED
  BY <1>1, Invariance, PTL

-----------------------------------------------------------------------------
(* What the run flag_lost refutes for a read-modify-write in three          *)
(* instructions holds for one instruction, and this is all it takes.        *)

EventInv ==
  /\ unserved \subseteq g_active
  /\ MainIn({"clear"}) => thread["main"].inst \notin unserved
  /\ thread["isr"] # Idle => thread["isr"].inst \in g_active
  /\ FlaggedUntilServed

LEMMA InitEvents == Init => EventInv
BY DEF Init, EventInv, MainIn, FlaggedUntilServed

LEMMA NextEvents ==
  ASSUME Atomic
  PROVE  (Inv /\ EventInv) /\ [Next]_vars => (Inv /\ EventInv)'
<1> SUFFICES ASSUME Inv, EventInv, [Next]_vars PROVE EventInv'
  BY NextInv
<1> USE DEF EventInv, FlaggedUntilServed, MainIn, Inv, TypeOK, At, Idle, MainSteps, Goto, End,
            Step, Read
<1>1. ASSUME NEW i \in Slaves,
             slave_init(i) \/ slave_init_clear(i) \/ slave_init_enable_load(i)
               \/ slave_init_enable(i) \/ slave_init_on(i)
      PROVE  EventInv'
  BY <1>1 DEF slave_init, slave_init_clear, slave_init_enable_load, slave_init_enable,
              slave_init_on
<1>2. ASSUME NEW i \in Slaves, slave_deinit(i) \/ slave_deinit_disable(i) PROVE EventInv'
  BY <1>2 DEF slave_deinit, slave_deinit_disable
<1>3. ASSUME NEW i \in Slaves, event_irq(i) \/ event_irq_clear(i) \/ event_irq_service(i)
      PROVE  EventInv'
  BY <1>3 DEF event_irq, event_irq_clear, event_irq_service
<1>4. ASSUME NEW i \in Slaves, HwEvent(i) PROVE EventInv'
  BY <1>4 DEF HwEvent, On
<1>5. CASE UNCHANGED vars
  BY <1>5 DEF vars
<1> QED
  BY <1>1, <1>2, <1>3, <1>4, <1>5 DEF Next

\* If a build makes reg_irq_clear one atomic read-modify-write, the flag of an
\* event not served is never lost: the divergence flag_lost shows is the width
\* of that window and nothing else.
THEOREM AtomicLosesNoFlag == ASSUME Atomic PROVE Spec => []FlaggedUntilServed
<1>1. Init => Inv /\ EventInv
  BY InitInv, InitEvents
<1>2. Inv /\ EventInv => FlaggedUntilServed
  BY DEF EventInv
<1> QED
  BY <1>1, <1>2, NextEvents, PTL DEF Spec
=============================================================================
