------------------------ MODULE I2CLifecycle_proofs ------------------------
(* Theorems about I2CLifecycle, for every device and set of instances.      *)
EXTENDS I2CLifecycle, TLAPS

\* Exactly the valid instances with a symbol are resolved.
LEMMA Resolved ==
  ASSUME NEW i \in Instances
  PROVE  /\ get_regs(i) \in {"OK", "INVALID_ARG", "NOT_PRESENT"}
         /\ get_regs(i) = "OK" <=> inst_is_valid(i) /\ i \in Defined
BY InstancesAssumption DEF get_regs, get_device, inst_is_valid, INST_COUNT

\* A call that is refused changes only what it returns.
LEMMA RefuseType ==
  ASSUME TypeOK, NEW i \in Instances,
         NEW call \in {"init", "deinit", "transfer", "slave_init", "slave_deinit"},
         \/ RejectArguments(call, i) \/ Unresolved(call, i) \/ NotInitialized(call, i)
         \/ NotMapped(call, i) \/ Refuse(call, i, "BUSY")
  PROVE  TypeOK'
BY Resolved, InstancesAssumption
DEF TypeOK, RejectArguments, Unresolved, NotInitialized, NotMapped, Refuse, Returns

\* A call that gives instance i a role or takes it away keeps the types.
LEMMA RoleType ==
  ASSUME TypeOK, NEW i \in Instances, get_regs(i) = "OK",
         NEW role \in {"none", "master", "slave"}, set_role(i, role),
         NEW mode \in {"off", "host", "client"}, con1' = [con1 EXCEPT ![i] = mode],
         host' = [host EXCEPT ![i] = "idle"],
         NEW call \in {"init", "deinit", "slave_init", "slave_deinit"},
         NEW st \in {"OK", "BUS"}, Returns(call, i, st),
         NEW b \in BOOLEAN, NEW c \in BOOLEAN, NEW d \in BOOLEAN, NEW e \in BOOLEAN,
         g_initialized' \in {g_initialized, [g_initialized EXCEPT ![i] = b]},
         g_active' \in {g_active, [g_active EXCEPT ![i] = c]},
         iec' \in {iec, [iec EXCEPT ![i] = d]},
         pending' \in {pending, [pending EXCEPT ![i] = e]}
  PROVE  TypeOK'
BY Resolved, InstancesAssumption DEF TypeOK, Returns, set_role

\* The types are invariant, whatever callers do: every variable keeps its type,
\* and no instance the device does not have is ever given a role.
THEOREM LifecycleTypes == Spec => []TypeOK
<1>1. Init => TypeOK
  BY DEF Init, TypeOK
<1>2. TypeOK /\ [Next]_vars => TypeOK'
  <2> SUFFICES ASSUME TypeOK, [Next]_vars PROVE TypeOK'
    OBVIOUS
  <2>1. ASSUME NEW i \in Instances, init(i) PROVE TypeOK'
    BY <2>1, RefuseType, RoleType DEF init
  <2>2. ASSUME NEW i \in Instances, deinit(i) PROVE TypeOK'
    BY <2>2, RefuseType, RoleType DEF deinit, DeinitDone, SwitchOff
  <2>3. ASSUME NEW i \in Instances, transfer(i) PROVE TypeOK'
    BY <2>3, InstancesAssumption, RefuseType DEF transfer, TypeOK, Returns
  <2>4. ASSUME NEW i \in Instances, slave_init(i) PROVE TypeOK'
    BY <2>4, RefuseType, RoleType DEF slave_init
  <2>5. ASSUME NEW i \in Instances, slave_deinit(i) PROVE TypeOK'
    BY <2>5, RefuseType, RoleType DEF slave_deinit
  <2>6. CASE UNCHANGED vars
    BY <2>6 DEF vars, TypeOK
  <2>. QED
    BY <2>1, <2>2, <2>3, <2>4, <2>5, <2>6 DEF Next
<1>. QED
  BY <1>1, <1>2, PTL DEF Spec

\* What a step changes of the records: none of them, or the role of one instance
\* with the module and the engines that go with it.
SetsMaster(i) ==
  /\ inst_is_valid(i)
  /\ g_role' = [g_role EXCEPT ![i] = "master"]
  /\ con1' = [con1 EXCEPT ![i] = "host"]
  /\ g_initialized' = [g_initialized EXCEPT ![i] = TRUE]
  /\ pending' = [pending EXCEPT ![i] = FALSE]
  /\ UNCHANGED <<g_active, iec>>

DropsMaster(i) ==
  /\ g_initialized[i]
  /\ g_role' = [g_role EXCEPT ![i] = "none"]
  /\ con1' = [con1 EXCEPT ![i] = "off"]
  /\ g_initialized' = [g_initialized EXCEPT ![i] = FALSE]
  /\ pending' = [pending EXCEPT ![i] = FALSE]
  /\ UNCHANGED <<g_active, iec>>

Transfers(i) ==
  /\ g_initialized[i]
  /\ \E open \in BOOLEAN : pending' = [pending EXCEPT ![i] = open]
  /\ UNCHANGED <<g_role, con1, g_initialized, g_active, iec>>

SetsSlave(i) ==
  /\ inst_is_valid(i)
  /\ g_role' = [g_role EXCEPT ![i] = "slave"]
  /\ con1' = [con1 EXCEPT ![i] = "client"]
  /\ g_active' = [g_active EXCEPT ![i] = TRUE]
  /\ iec' = [iec EXCEPT ![i] = TRUE]
  /\ UNCHANGED <<g_initialized, pending>>

DropsSlave(i) ==
  /\ inst_is_valid(i)
  /\ g_role' = [g_role EXCEPT ![i] = "none"]
  /\ con1' = [con1 EXCEPT ![i] = "off"]
  /\ g_active' = [g_active EXCEPT ![i] = FALSE]
  /\ iec' = [iec EXCEPT ![i] = FALSE]
  /\ UNCHANGED <<g_initialized, pending>>

KeepsRecords == UNCHANGED <<g_role, con1, g_initialized, g_active, iec, pending>>

\* Each call keeps all records or makes the one change that is its own.
LEMMA CallChanges ==
  ASSUME NEW i \in Instances
  PROVE  /\ init(i) => KeepsRecords \/ (SetsMaster(i) /\ ret'.call = "init" /\ ret'.inst = i)
         /\ deinit(i) => KeepsRecords \/ (DropsMaster(i) /\ ret'.call = "deinit" /\ ret'.inst = i)
         /\ transfer(i) => KeepsRecords \/ (Transfers(i) /\ ret'.call = "transfer" /\ ret'.inst = i)
         /\ slave_init(i) =>
              KeepsRecords \/ (SetsSlave(i) /\ ret'.call = "slave_init" /\ ret'.inst = i)
         /\ slave_deinit(i) =>
              KeepsRecords \/ (DropsSlave(i) /\ ret'.call = "slave_deinit" /\ ret'.inst = i)
<1>1. init(i) => KeepsRecords \/ (SetsMaster(i) /\ ret'.call = "init" /\ ret'.inst = i)
  BY DEF init, RejectArguments, Unresolved, Refuse, Returns, KeepsRecords, SetsMaster, set_role
<1>2. deinit(i) => KeepsRecords \/ (DropsMaster(i) /\ ret'.call = "deinit" /\ ret'.inst = i)
  BY DEF deinit, Unresolved, NotInitialized, Refuse, Returns, KeepsRecords, DeinitDone, SwitchOff,
         DropsMaster, set_role
<1>3. transfer(i) => KeepsRecords \/ (Transfers(i) /\ ret'.call = "transfer" /\ ret'.inst = i)
  BY DEF transfer, RejectArguments, Unresolved, NotInitialized, Refuse, Returns, KeepsRecords,
         Transfers
<1>4. slave_init(i) => KeepsRecords \/ (SetsSlave(i) /\ ret'.call = "slave_init" /\ ret'.inst = i)
  BY DEF slave_init, RejectArguments, Unresolved, NotMapped, Refuse, Returns, KeepsRecords,
         SetsSlave, set_role
<1>5. slave_deinit(i) =>
        KeepsRecords \/ (DropsSlave(i) /\ ret'.call = "slave_deinit" /\ ret'.inst = i)
  BY DEF slave_deinit, Unresolved, NotMapped, Refuse, Returns, KeepsRecords, DropsSlave, set_role
<1>. QED
  BY <1>1, <1>2, <1>3, <1>4, <1>5

\* The same for a step of the whole.
LEMMA StepChanges ==
  ASSUME [Next]_vars
  PROVE  \/ KeepsRecords
         \/ \E i \in Instances :
              /\ ret'.inst = i
              /\ \/ ret'.call = "init" /\ SetsMaster(i)
                 \/ ret'.call = "deinit" /\ DropsMaster(i)
                 \/ ret'.call = "transfer" /\ Transfers(i)
                 \/ ret'.call = "slave_init" /\ SetsSlave(i)
                 \/ ret'.call = "slave_deinit" /\ DropsSlave(i)
<1>1. CASE UNCHANGED vars
  BY <1>1 DEF vars, KeepsRecords
<1>2. CASE Next
  BY <1>2, CallChanges DEF Next
<1>. QED
  BY <1>1, <1>2

\* However callers mix the roles of an instance, the role it reports is what its
\* module is, and the engine of that role is running.
THEOREM RoleIsModule == Spec => []RoleTellsModule
<1>1. Init => RoleTellsModule
  BY DEF Init, RoleTellsModule
<1>2. TypeOK /\ RoleTellsModule /\ [Next]_vars => RoleTellsModule'
  <2> SUFFICES ASSUME TypeOK, RoleTellsModule, [Next]_vars PROVE RoleTellsModule'
    OBVIOUS
  <2>1. CASE KeepsRecords
    BY <2>1 DEF KeepsRecords, RoleTellsModule
  <2>2. ASSUME NEW i \in Instances, SetsMaster(i) PROVE RoleTellsModule'
    BY <2>2 DEF SetsMaster, RoleTellsModule, TypeOK
  <2>3. ASSUME NEW i \in Instances, DropsMaster(i) PROVE RoleTellsModule'
    BY <2>3 DEF DropsMaster, RoleTellsModule, TypeOK
  <2>4. ASSUME NEW i \in Instances, Transfers(i) PROVE RoleTellsModule'
    BY <2>4 DEF Transfers, RoleTellsModule, TypeOK
  <2>5. ASSUME NEW i \in Instances, SetsSlave(i) PROVE RoleTellsModule'
    BY <2>5 DEF SetsSlave, RoleTellsModule, TypeOK
  <2>6. ASSUME NEW i \in Instances, DropsSlave(i) PROVE RoleTellsModule'
    BY <2>6 DEF DropsSlave, RoleTellsModule, TypeOK
  <2>. QED
    BY <2>1, <2>2, <2>3, <2>4, <2>5, <2>6, StepChanges
<1>. QED
  BY <1>1, <1>2, LifecycleTypes, PTL DEF Spec

\* The records of an instance agree until a call for the other role is made on
\* that instance, on every device.
THEOREM RolesKeepAgreeing == Spec => RolesAgree
<1>1. Init => \A i \in Instances : RecordsAgree(i)
  BY DEF Init, RecordsAgree
<1>2. TypeOK /\ [Next]_vars
        => [\A i \in Instances : RecordsAgree(i) => RecordsAgree(i)' \/ Mixes(i)]_vars
  <2> SUFFICES ASSUME TypeOK, [Next]_vars, NEW k \in Instances, RecordsAgree(k), ~Mixes(k)
               PROVE  RecordsAgree(k)'
    OBVIOUS
  <2>1. CASE KeepsRecords
    BY <2>1 DEF KeepsRecords, RecordsAgree
  <2>2. ASSUME NEW i \in Instances, i # k,
               \/ SetsMaster(i) \/ DropsMaster(i) \/ Transfers(i) \/ SetsSlave(i) \/ DropsSlave(i)
        PROVE  RecordsAgree(k)'
    BY <2>2 DEF SetsMaster, DropsMaster, Transfers, SetsSlave, DropsSlave, RecordsAgree, TypeOK
  <2>3. CASE ret'.inst = k /\ ret'.call = "init" /\ SetsMaster(k)
    BY <2>3 DEF SetsMaster, RecordsAgree, TypeOK, Mixes, RoleOf, get_role
  <2>4. CASE ret'.inst = k /\ ret'.call = "deinit" /\ DropsMaster(k)
    BY <2>4 DEF DropsMaster, RecordsAgree, TypeOK
  <2>5. CASE Transfers(k)
    BY <2>5 DEF Transfers, RecordsAgree
  <2>6. CASE ret'.inst = k /\ ret'.call = "slave_init" /\ SetsSlave(k)
    BY <2>6 DEF SetsSlave, RecordsAgree, TypeOK, Mixes, RoleOf, get_role
  <2>7. CASE ret'.inst = k /\ ret'.call = "slave_deinit" /\ DropsSlave(k)
    BY <2>7 DEF DropsSlave, RecordsAgree, TypeOK, Mixes, RoleOf, get_role
  <2>. QED
    BY <2>1, <2>2, <2>3, <2>4, <2>5, <2>6, <2>7, StepChanges
<1>. QED
  BY <1>1, <1>2, LifecycleTypes, PTL DEF Spec, RolesAgree

\* After slave_deinit no slave engine is running, the module is off and idle.
SlaveIsDown ==
  ret.call = "slave_deinit" /\ ret.st = "OK" =>
    /\ g_role[ret.inst] = "none" /\ ~g_active[ret.inst] /\ ~iec[ret.inst]
    /\ con1[ret.inst] = "off" /\ host[ret.inst] = "idle"
    /\ get_regs(ret.inst) = "OK"

\* However roles were mixed and whatever failed before, slave_deinit and then
\* deinit leave an instance with no engine running and its module off.
THEOREM TeardownWorks == Spec => TeardownRestores
<1>1. Init => SlaveIsDown
  BY DEF Init, SlaveIsDown
<1>2. TypeOK /\ SlaveIsDown /\ [Next]_vars => SlaveIsDown'
  <2> SUFFICES ASSUME TypeOK, SlaveIsDown, [Next]_vars PROVE SlaveIsDown'
    OBVIOUS
  <2>1. ASSUME NEW i \in Instances, slave_deinit(i) PROVE SlaveIsDown'
    BY <2>1 DEF slave_deinit, Unresolved, NotMapped, Refuse, Returns, set_role, SlaveIsDown, TypeOK,
                get_regs, get_device
  <2>2. ASSUME NEW i \in Instances, init(i) \/ deinit(i) \/ transfer(i) \/ slave_init(i)
        PROVE  ret'.call # "slave_deinit"
    BY <2>2 DEF init, deinit, transfer, slave_init, RejectArguments, Unresolved, NotInitialized,
                NotMapped, Refuse, Returns, DeinitDone, SwitchOff
  <2>3. CASE UNCHANGED vars
    BY <2>3 DEF vars, SlaveIsDown, get_regs, get_device
  <2>. QED
    BY <2>1, <2>2, <2>3 DEF Next, SlaveIsDown
<1>3. /\ TypeOK /\ RoleTellsModule /\ SlaveIsDown /\ [Next]_vars
      => [\A i \in Instances :
            /\ ret = [call |-> "slave_deinit", inst |-> i, st |-> "OK"]
            /\ ret'.call = "deinit" /\ ret'.inst = i
            => RecordsAgree(i)' /\ g_role'[i] = "none" /\ ~pending'[i]]_vars
  <2> SUFFICES ASSUME TypeOK, RoleTellsModule, SlaveIsDown, Next, NEW i \in Instances,
                      ret = [call |-> "slave_deinit", inst |-> i, st |-> "OK"],
                      ret'.call = "deinit", ret'.inst = i
               PROVE  RecordsAgree(i)' /\ g_role'[i] = "none" /\ ~pending'[i]
    BY DEF vars
  <2>1. deinit(i)
    <3>1. PICK k \in Instances :
            init(k) \/ deinit(k) \/ transfer(k) \/ slave_init(k) \/ slave_deinit(k)
      BY DEF Next
    <3>. QED
      BY <3>1 DEF init, deinit, transfer, slave_init, slave_deinit, RejectArguments, Unresolved,
                  NotInitialized, NotMapped, Refuse, Returns, DeinitDone, SwitchOff
  <2>2. /\ get_regs(i) = "OK" /\ g_role[i] = "none" /\ ~g_active[i] /\ ~iec[i]
        /\ con1[i] = "off" /\ host[i] = "idle"
    BY DEF SlaveIsDown
  <2>3. CASE ~g_initialized[i]
    BY <2>1, <2>2, <2>3
    DEF deinit, Unresolved, NotInitialized, Refuse, RecordsAgree, RoleTellsModule
  <2>4. CASE g_initialized[i]
    BY <2>1, <2>2, <2>4
    DEF deinit, Unresolved, NotInitialized, DeinitDone, SwitchOff, set_role, RecordsAgree, TypeOK
  <2>. QED
    BY <2>3, <2>4
<1>. QED
  BY <1>1, <1>2, <1>3, LifecycleTypes, RoleIsModule, PTL DEF Spec, TeardownRestores
=============================================================================
