---------------------------- MODULE I2CLifecycle ----------------------------
(***************************************************************************)
(* Which role an instance has, as four places keep it: g_role of the       *)
(* common layer, g_initialized of the master engine, g_active of the slave *)
(* engine, and the peripheral itself.  The lifecycle calls of both roles   *)
(* are atomic here; what happens inside them, and the bus, belong to       *)
(* I2CMaster and I2CSlave.                                                 *)
(***************************************************************************)
EXTENDS Integers

CONSTANTS
  Instances,    \* the instance numbers callers pass
  Defined       \* those with an I2CxCON1 symbol on the device

ASSUME InstancesAssumption == Instances \subseteq Nat
ASSUME DefinedAssumption == Defined \subseteq 0 .. 3

\* 0 .. 3 are DSPIC33AK_I2C_INST_1 .. INST_4.
INST_COUNT == 4

VARIABLES
  g_role, g_initialized, g_active,  \* as in the code
  pending,  \* g_pending_state is not PENDING_NONE
  con1,  \* what CON1 makes of the module: "off", a "host" or a "client"
  host,  \* what the idle check of deinit sees: "idle" or "working"
  iec,   \* the event interrupt is enabled
  ret    \* the last call and its status; BUS is any failure of the bus

vars == <<g_role, g_initialized, g_active, pending, con1, host, iec, ret>>

inst_is_valid(i) == i < INST_COUNT

TypeOK ==
  /\ g_role \in [Instances -> {"none", "master", "slave"}]
  /\ g_initialized \in [Instances -> BOOLEAN]
  /\ g_active \in [Instances -> BOOLEAN]
  /\ pending \in [Instances -> BOOLEAN]
  /\ con1 \in [Instances -> {"off", "host", "client"}]
  /\ host \in [Instances -> {"idle", "working"}]
  /\ iec \in [Instances -> BOOLEAN]
  /\ ret \in [call: {"none", "init", "deinit", "transfer", "slave_init", "slave_deinit"},
              inst: Nat,
              st: {"OK", "INVALID_ARG", "NOT_PRESENT", "NOT_INITIALIZED", "BUSY", "BUS"}]
  \* Only an instance the device has is ever given a role.
  /\ \A i \in Instances : con1[i] # "off" => i \in Defined

Init ==
  /\ g_role = [i \in Instances |-> "none"]
  /\ g_initialized = [i \in Instances |-> FALSE]
  /\ g_active = [i \in Instances |-> FALSE]
  /\ pending = [i \in Instances |-> FALSE]
  /\ con1 = [i \in Instances |-> "off"]
  /\ host = [i \in Instances |-> "idle"]
  /\ iec = [i \in Instances |-> FALSE]
  /\ ret = [call |-> "none", inst |-> 0, st |-> "OK"]

-----------------------------------------------------------------------------
(* The device table and the queries.                                        *)

get_device(i) == inst_is_valid(i) /\ i \in Defined

\* Fault injected: an instance the device does not have is resolved.
get_regs_absent(i) == IF inst_is_valid(i) THEN "OK" ELSE "INVALID_ARG"

get_regs(i) ==
  IF ~inst_is_valid(i) THEN "INVALID_ARG"
  ELSE IF ~get_device(i) THEN "NOT_PRESENT" ELSE "OK"

\* INST_4 has no slave registers and no interrupt descriptors.
slave_mapped(i) == i # 3

get_role(i) == IF inst_is_valid(i) THEN g_role[i] ELSE "none"

is_initialized(i) == get_role(i) # "none"

set_role(i, role) == inst_is_valid(i) /\ g_role' = [g_role EXCEPT ![i] = role]

-----------------------------------------------------------------------------
(* Calls.  Any call may be made on any instance, whatever its role.           *)

Returns(call, i, st) == ret' = [call |-> call, inst |-> i, st |-> st]

Refuse(call, i, st) ==
  /\ Returns(call, i, st)
  /\ UNCHANGED <<g_role, g_initialized, g_active, pending, con1, host, iec>>

\* A null configuration or buffer, a rate of zero, an address out of range.
RejectArguments(call, i) == Refuse(call, i, "INVALID_ARG")

Unresolved(call, i) == get_regs(i) # "OK" /\ Refuse(call, i, get_regs(i))

init(i) ==
  \/ RejectArguments("init", i)
  \/ Unresolved("init", i)
  \/ /\ get_regs(i) = "OK"
     /\ g_initialized' = [g_initialized EXCEPT ![i] = TRUE]
     /\ pending' = [pending EXCEPT ![i] = FALSE]
     /\ set_role(i, "master")
     /\ con1' = [con1 EXCEPT ![i] = "host"]
     /\ host' = [host EXCEPT ![i] = "idle"]
     /\ Returns("init", i, "OK")
     /\ UNCHANGED <<g_active, iec>>

\* Fault injected: the master engine asks for the role, not for its own state.
NotInitialized_by_role(call, i) ==
  get_regs(i) = "OK" /\ get_role(i) # "master" /\ Refuse(call, i, "NOT_INITIALIZED")

NotInitialized(call, i) ==
  get_regs(i) = "OK" /\ ~g_initialized[i] /\ Refuse(call, i, "NOT_INITIALIZED")

\* Both ways out of a deinit that is not refused.
SwitchOff(i, st) ==
  /\ g_initialized' = [g_initialized EXCEPT ![i] = FALSE]
  /\ pending' = [pending EXCEPT ![i] = FALSE]
  /\ con1' = [con1 EXCEPT ![i] = "off"]
  /\ host' = [host EXCEPT ![i] = "idle"]
  /\ Returns("deinit", i, st)
  /\ UNCHANGED <<g_active, iec>>

\* Fault injected: the query still says master after deinit.
DeinitDone_role_kept(i, st) == SwitchOff(i, st) /\ UNCHANGED g_role

\* Fault injected: deinit drops the role only if it is its own.
DeinitDone_own_role(i, st) ==
  /\ SwitchOff(i, st)
  /\ IF get_role(i) = "master" THEN set_role(i, "none") ELSE UNCHANGED g_role

DeinitDone(i, st) == SwitchOff(i, st) /\ set_role(i, "none")

\* The idle check is for what is not pending; a pending transaction that has
\* expired is recovered first, with a status of its own.
deinit(i) ==
  \/ Unresolved("deinit", i)
  \/ NotInitialized("deinit", i)
  \/ /\ get_regs(i) = "OK" /\ g_initialized[i]
     /\ ~pending[i] /\ host[i] = "working"
     /\ Refuse("deinit", i, "BUSY")
  \/ /\ get_regs(i) = "OK" /\ g_initialized[i]
     /\ pending[i] \/ host[i] = "idle"
     /\ \E st \in {"OK", "BUS"} :
          /\ st = "BUS" => pending[i]
          /\ DeinitDone(i, st)

\* What a master call leaves pending and on the bus, and whether it succeeds; a
\* module that is off never even makes the START.
transfer(i) ==
  \/ RejectArguments("transfer", i)
  \/ Unresolved("transfer", i)
  \/ NotInitialized("transfer", i)
  \/ /\ get_regs(i) = "OK" /\ g_initialized[i]
     /\ \E left \in {"idle", "working"}, open \in BOOLEAN, st \in {"OK", "BUS"} :
          /\ con1[i] = "off" =>
               /\ st = "BUS" /\ open = pending[i]
               /\ left = "working" \/ (pending[i] /\ left = host[i])
          /\ host' = [host EXCEPT ![i] = left]
          /\ pending' = [pending EXCEPT ![i] = open]
          /\ Returns("transfer", i, st)
     /\ UNCHANGED <<g_role, g_initialized, g_active, con1, iec>>

NotMapped(call, i) ==
  get_regs(i) = "OK" /\ ~slave_mapped(i) /\ Refuse(call, i, "NOT_PRESENT")

slave_init(i) ==
  \/ RejectArguments("slave_init", i)
  \/ Unresolved("slave_init", i)
  \/ NotMapped("slave_init", i)
  \/ /\ get_regs(i) = "OK" /\ slave_mapped(i)
     /\ g_active' = [g_active EXCEPT ![i] = TRUE]
     /\ set_role(i, "slave")
     /\ con1' = [con1 EXCEPT ![i] = "client"]
     /\ host' = [host EXCEPT ![i] = "idle"]
     /\ iec' = [iec EXCEPT ![i] = TRUE]
     /\ Returns("slave_init", i, "OK")
     /\ UNCHANGED <<g_initialized, pending>>

slave_deinit(i) ==
  \/ Unresolved("slave_deinit", i)
  \/ NotMapped("slave_deinit", i)
  \/ /\ get_regs(i) = "OK" /\ slave_mapped(i)
     /\ g_active' = [g_active EXCEPT ![i] = FALSE]
     /\ set_role(i, "none")
     /\ con1' = [con1 EXCEPT ![i] = "off"]
     /\ host' = [host EXCEPT ![i] = "idle"]
     /\ iec' = [iec EXCEPT ![i] = FALSE]
     /\ Returns("slave_deinit", i, "OK")
     /\ UNCHANGED <<g_initialized, pending>>

Next ==
  \E i \in Instances :
    init(i) \/ deinit(i) \/ transfer(i) \/ slave_init(i) \/ slave_deinit(i)

Spec == Init /\ [][Next]_vars

-----------------------------------------------------------------------------
(* Safety properties.                                                       *)

RoleOf(call) == IF call \in {"init", "deinit", "transfer"} THEN "master" ELSE "slave"

\* The step is a call for one role on an instance that has the other.
Mixes(i) == ret'.inst = i /\ get_role(i) \notin {RoleOf(ret'.call), "none"}

\* The records of one instance agree: what is_initialized says, what the
\* engines accept calls and interrupts for, and what the module is.
RecordsAgree(i) ==
  /\ g_initialized[i] <=> g_role[i] = "master"
  /\ g_active[i] <=> g_role[i] = "slave"
  /\ iec[i] <=> g_role[i] = "slave"
  /\ con1[i] = CASE g_role[i] = "none"   -> "off"
                 [] g_role[i] = "master" -> "host"
                 [] g_role[i] = "slave"  -> "client"

\* The records of an instance agree at first, and nothing but a call for the
\* other role on that very instance makes them disagree: neither a refused call,
\* nor a failed transfer, nor what is done to other instances (set_role, and the
\* order of the guards of the lifecycle calls).
RolesAgree ==
  /\ \A i \in Instances : RecordsAgree(i)
  /\ [][\A i \in Instances : RecordsAgree(i) => RecordsAgree(i)' \/ Mixes(i)]_vars

\* However roles are mixed, the role an instance reports is what its module is,
\* the engine of that role is running, the event interrupt is enabled for a
\* running slave engine and no other, and only a running master engine has
\* something pending.  What mixing leaves behind is the other engine (set_role).
RoleTellsModule ==
  \A i \in Instances :
    /\ con1[i] = CASE g_role[i] = "none"   -> "off"
                   [] g_role[i] = "master" -> "host"
                   [] g_role[i] = "slave"  -> "client"
    /\ g_role[i] = "master" => g_initialized[i]
    /\ g_role[i] = "slave" => g_active[i]
    /\ iec[i] <=> g_active[i]
    /\ pending[i] => g_initialized[i]

\* slave_deinit and then deinit of an instance is a way out of every mixture of
\* roles, pending transactions and failed transfers: it leaves no engine
\* running and the module off (the guards of deinit).
TeardownRestores ==
  [][\A i \in Instances :
       /\ ret = [call |-> "slave_deinit", inst |-> i, st |-> "OK"]
       /\ ret'.call = "deinit" /\ ret'.inst = i
       => RecordsAgree(i)' /\ g_role'[i] = "none" /\ ~pending'[i]]_vars

-----------------------------------------------------------------------------
(* What comments of the code say, and the model refutes.                   *)

\* "Deinitialize the selected I2C instance (master or slave)": deinit does not
\* call an instance with a role not initialized.
DeinitEitherRole ==
  ret.call = "deinit" /\ ret.st = "NOT_INITIALIZED" => ~is_initialized(ret.inst)

\* "the common dspic33ak_i2c_is_initialized() reports the truth for either
\* role": no engine accepts work for an instance it says has no role.
QueryTruthful ==
  \A i \in Instances : g_initialized[i] \/ g_active[i] => is_initialized(i)
=============================================================================
