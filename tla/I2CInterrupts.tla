--------------------------- MODULE I2CInterrupts ---------------------------
(***************************************************************************)
(* The interrupt words IFS2 and IEC2, which the instances share.  Each     *)
(* helper of dspic33ak_i2c_reg.h reads such a word, changes the bit of its *)
(* own instance and writes the word back; hardware raises flags, and ISRs  *)
(* preempt the main thread, in between.  Only the event interrupts are     *)
(* modelled, all of one priority, so that an ISR preempts only the main    *)
(* thread.  What an ISR serves is I2CSlave's.                              *)
(***************************************************************************)

CONSTANTS
  Slaves,  \* the instances that become slaves
  Atomic   \* the build makes a read-modify-write one instruction

ASSUME AtomicAssumption == Atomic \in BOOLEAN

VARIABLES
  IFS2, IEC2,  \* instances whose event bit is 1
  g_active,    \* instances that are active slaves
  unserved,    \* instances with a bus event slave_service has not seen
  thread       \* of "main" and "isr": its step, instance and the word it read

vars == <<IFS2, IEC2, g_active, unserved, thread>>

Idle == [at |-> "idle"]

At(steps) == [at: steps, inst: Slaves, word: SUBSET Slaves]

\* The types; an interrupt is enabled only for an instance that serves it.
TypeOK ==
  /\ IFS2 \subseteq Slaves /\ IEC2 \subseteq Slaves
  /\ g_active \subseteq Slaves /\ unserved \subseteq Slaves
  /\ thread["main"] \in {Idle} \cup At({"clear", "enable_load", "enable", "on", "disable"})
  /\ thread["isr"] \in {Idle} \cup At({"clear", "service"})
  /\ IEC2 \subseteq g_active

Init ==
  /\ IFS2 = {} /\ IEC2 = {} /\ g_active = {} /\ unserved = {}
  /\ thread = [t \in {"main", "isr"} |-> Idle]

\* Thread t goes on to a step, having read a word.  The ISR runs to its end.
Goto(t, step, i, word) ==
  /\ t = "main" => thread["isr"] = Idle
  /\ thread' = [thread EXCEPT ![t] = [at |-> step, inst |-> i, word |-> word]]

End(t) ==
  /\ t = "main" => thread["isr"] = Idle
  /\ thread' = [thread EXCEPT ![t] = Idle]

Step(t, step, i) ==
  thread[t] # Idle /\ thread[t].at = step /\ thread[t].inst = i

\* The word a read-modify-write by thread t modifies.
Read(t, word) == IF Atomic THEN word ELSE thread[t].word

-----------------------------------------------------------------------------
(* slave_init and slave_deinit, in the main thread.                         *)

\* ... up to the read of IFS2 in reg_irq_clear.
slave_init(i) ==
  /\ thread["main"] = Idle /\ i \notin g_active
  /\ g_active' = g_active \cup {i}
  /\ Goto("main", "clear", i, IFS2)
  /\ UNCHANGED <<IFS2, IEC2, unserved>>

\* reg_irq_clear writes back what it read.
slave_init_clear(i) ==
  /\ Step("main", "clear", i)
  /\ IFS2' = Read("main", IFS2) \ {i}
  /\ Goto("main", "enable_load", i, {})
  /\ UNCHANGED <<IEC2, g_active, unserved>>

slave_init_enable_load(i) ==
  /\ Step("main", "enable_load", i)
  /\ Goto("main", "enable", i, IEC2)
  /\ UNCHANGED <<IFS2, IEC2, g_active, unserved>>

\* Fault injected: the word is overwritten instead of modified.
slave_init_enable_only(i) ==
  /\ Step("main", "enable", i)
  /\ IEC2' = {i}
  /\ Goto("main", "on", i, {})
  /\ UNCHANGED <<IFS2, g_active, unserved>>

slave_init_enable(i) ==
  /\ Step("main", "enable", i)
  /\ IEC2' = Read("main", IEC2) \cup {i}
  /\ Goto("main", "on", i, {})
  /\ UNCHANGED <<IFS2, g_active, unserved>>

slave_init_on(i) ==
  /\ Step("main", "on", i)
  /\ End("main")
  /\ UNCHANGED <<IFS2, IEC2, g_active, unserved>>

\* Fault injected: the slave is inactive before its interrupt is masked.
slave_deinit_inactive(i) ==
  /\ thread["main"] = Idle /\ i \in g_active
  /\ g_active' = g_active \ {i}
  /\ Goto("main", "disable", i, IEC2)
  /\ UNCHANGED <<IFS2, IEC2, unserved>>

\* Up to the read of IEC2 in reg_irq_disable.
slave_deinit(i) ==
  /\ thread["main"] = Idle /\ i \in g_active
  /\ Goto("main", "disable", i, IEC2)
  /\ UNCHANGED <<IFS2, IEC2, g_active, unserved>>

\* reg_irq_disable writes back; the module is turned off.
slave_deinit_disable(i) ==
  /\ Step("main", "disable", i)
  /\ IEC2' = Read("main", IEC2) \ {i}
  /\ g_active' = g_active \ {i}
  /\ unserved' = unserved \ {i}
  /\ End("main")
  /\ UNCHANGED IFS2

-----------------------------------------------------------------------------
(* The ISR delegates, and the hardware.                                     *)

\* Up to the read of IFS2 in reg_irq_clear.
event_irq(i) ==
  /\ thread["isr"] = Idle /\ i \in IFS2 \cap IEC2
  /\ Goto("isr", "clear", i, IFS2)
  /\ UNCHANGED <<IFS2, IEC2, g_active, unserved>>

event_irq_clear(i) ==
  /\ Step("isr", "clear", i)
  /\ IFS2' = Read("isr", IFS2) \ {i}
  /\ Goto("isr", "service", i, {})
  /\ UNCHANGED <<IEC2, g_active, unserved>>

event_irq_service(i) ==
  /\ Step("isr", "service", i)
  /\ unserved' = IF i \in g_active THEN unserved \ {i} ELSE unserved
  /\ End("isr")
  /\ UNCHANGED <<IFS2, IEC2, g_active>>

On(i) == i \in g_active /\ ~(thread["main"] # Idle /\ thread["main"].inst = i)

\* The bus addresses, or moves a byte of, a slave that is on.
HwEvent(i) ==
  /\ On(i)
  /\ IFS2' = IFS2 \cup {i} /\ unserved' = unserved \cup {i}
  /\ UNCHANGED <<IEC2, g_active, thread>>

Next ==
  \E i \in Slaves :
    \/ slave_init(i) \/ slave_init_clear(i)
    \/ slave_init_enable_load(i) \/ slave_init_enable(i) \/ slave_init_on(i)
    \/ slave_deinit(i) \/ slave_deinit_disable(i)
    \/ event_irq(i) \/ event_irq_clear(i) \/ event_irq_service(i)
    \/ HwEvent(i)

Spec == Init /\ [][Next]_vars

-----------------------------------------------------------------------------
(* Safety properties.                                                       *)

\* Between the calls of the main thread the event interrupt of an instance is
\* enabled exactly while it is an active slave, whatever the others do.
EnabledWhileActive == thread["main"] = Idle => IEC2 = g_active

\* "a new event raised while servicing [...] keeps its flag set and re-enters
\* rather than being cleared away": an event not served has its flag set, or is
\* about to be served.
FlaggedUntilServed ==
  \A i \in unserved :
    \/ i \in IFS2
    \/ thread["isr"] # Idle /\ thread["isr"].inst = i
=============================================================================
