# Specifications of the dsPIC33AK I2C HAL

TLA+ specifications, model-checking configurations and machine-checked proofs
for the I2C driver in `src/src`.  The driver offers a blocking master engine
and an interrupt-driven slave engine for up to four instances of the dsPIC33AK
I2C peripheral.  The first part of this file is an inventory of the driver; the
second describes what is modelled, checked and proved; the last is what is left
to do.

## 1. The system

### 1.1 Components

| Component | Code | State | Operations |
|---|---|---|---|
| Master engine | `dspic33ak_i2c_master.c/.h` | per instance: `g_initialized`, `g_get_ms`, `g_timeout_ms`, `g_pending_timeout_ms`, `g_pending_state`, `g_pending_start_ms` | `init`, `deinit`, `set_bus_speed`; `write`, `read`, `write_read`; `master_write_no_stop`, `master_read_after_restart`, `master_stop` |
| Low-level primitives | `ll_*` in `dspic33ak_i2c_master.c/.h` | none | issue a request, ask whether it is done: the steps of the blocking calls, offered to applications as well |
| Host peripheral | outside the repository; its bits in `dspic33ak_i2c_reg.h` | `CON1`, `STAT1`, `STAT2`, `TRN`, `RCV` | START, repeated START, STOP, byte, acknowledge, arbitration loss, error |
| Slave engine | `dspic33ak_i2c_slave.c/.h` | per instance: `g_cfg` (callbacks), `g_active`, `g_reading` | `slave_init`, `slave_deinit`, `slave_is_active`; the ISR delegates `slave_event_irq`, `slave_rx_irq`, `slave_tx_irq`, all of which run `slave_service` |
| Client peripheral | outside the repository; its bits in `dspic33ak_i2c_reg.h` | `CON1`, `STAT1`, `TRN`, `RCV`, interrupt flags | own address, bytes in and out, STOP, clock stretching, receive overflow |
| Roles and presence | `dspic33ak_i2c_common.c/.h`, `dspic33ak_i2c.h` | `g_role` per instance | `set_role`, `get_role`, `is_initialized`, `is_present`, `get_regs` |
| Baud rate | `calc_brg` in `dspic33ak_i2c_common.c` | none | `calc_brg` |
| Tick arithmetic | `timeout_*`, `pending_*` in `dspic33ak_i2c_master.c` | none of its own | start tick, elapsed time, expiry |
| Device mapping | `dspic33ak_i2c_device.c/.h` | constant table | instance to registers and interrupt bits |
| Register helpers | `dspic33ak_i2c_reg.h` | none | set, clear, write and test bits; interrupt flag and enable bits |
| Interrupt helper API | `irq_enable`, `irq_disable`, `irq_clear` in the master | none | stubs returning `ERR_UNSUPPORTED` |

### 1.2 Interactions

* The application calls the master engine from its main thread.  Every call
  blocks until it is finished.  There is no lock: one call at a time is the
  caller's obligation.
* The engine asks the peripheral for an action by setting a request bit in
  `CON1` (or writing `TRN`) and polls `CON1`, `STAT1`, `STAT2` in `wait_until`
  until the hardware has answered, a fault bit is set, or `get_ms` says that
  `timeout_ms` have passed.
* `g_pending_state` is the memory between calls: `write_no_stop` leaves the bus
  held and the transaction pending; only `read_after_restart`, `master_stop`,
  the recovery of an expired transaction, `init` or `deinit` end it.
* The slave engine runs in the interrupt of an instance, calls the
  application's callbacks there, and shares `g_cfg`, `g_active` and `CON1` with
  `slave_init` and `slave_deinit` in the main thread.
* Both engines write the role of the instance; each keeps its own idea of
  whether it is initialized.

### 1.3 What is hard

* Order of hardware events: `STOPE` before `PEN` clears, `S` set before the
  host owns the bus, `STARTE` and `S` left over from an earlier START.
* Failure of the cleanup after a failure: the STOP issued because a transfer
  failed can itself time out, collide or raise an error.
* Stale latches: `BCL`, `IWCOL`, `ERR` are cleared by the next START only;
  `RBF` by reading `RCV` only.
* A wait that times out leaves its request bit set: the hardware may still
  perform it, during a later call.
* A tick that wraps, timeouts that can be disabled one without the other.
* In the slave: interrupts that come early, late, merged or twice, and a
  reconfiguration while they are enabled.
* Read-modify-write of words the hardware or an interrupt also writes.

### 1.4 What makes each component correct

* **Master engine.** A START never goes into an open transaction; a status
  returned to the caller agrees with what is pending and with the bus; a
  pending transaction ends only by a completed STOP or a reset; the request
  sequence is one the peripheral accepts; every call returns.
* **Slave engine.** Each received byte is given to `on_rx_byte` once and in
  order, each address to `on_addr_match`, each transaction to one `on_stop`;
  each byte asked of `on_tx_byte` is transmitted; SCL is always released; no
  callback runs after `slave_deinit`.
* **Roles.** The role, the state of both engines and the peripheral agree while
  each role is left by its own call; after any other sequence the role is still
  what the module is, and there is a way back.
* **Baud rate.** The divider is the one whose bit time is the nearest, in 32 bits.
* **Tick arithmetic.** Expiry depends on the time elapsed and not on where the
  tick stands, while less than a full period has passed.
* **Register helpers.** No bit changed by another party is lost or set again.

`PROJECT.json` lists the hazards line by line with the properties that cover
them, and what those properties leave open.

## 2. What is modelled

| Module | Models |
|---|---|
| `I2CHost` | The peripheral in host mode: its registers as sets of bits, one action per hardware event, the faults of the bus, and the effects of the two software writes the hardware reacts to at once (`ON` cleared, `TRN` written). |
| `I2CMaster` | The master engine of one present instance over `I2CHost`, with its safety and liveness properties. |
| `I2CSession` | The abstract specification of the master API: calls and statuses without the bus. |
| `I2CMasterSession` | The refinement mapping from `I2CMaster` to `I2CSession`. |
| `I2CClient` | The peripheral in client mode, its interrupt flags and the bus master that talks to it. |
| `I2CSlave` | The slave engine of one instance over `I2CClient`: main thread, nested interrupts, callbacks. |
| `I2CLoopback` | A master and a slave of this driver on one bus and one CPU: `I2CMaster` and `I2CSlave` composed, with their hardware joined to one wire. |
| `I2CLifecycle` | The role of every instance, as the common layer, both engines and the peripheral record it. |
| `I2CInterrupts` | The shared interrupt words `IFS2` and `IEC2`, with the read and the write-back of every helper as two steps. |
| `I2CTimer`, `I2CBrg` | The pending timeout over a tick that wraps; the divider of `calc_brg` in integers of a given width. |
| `I2CMaster_proofs`, `I2CMasterSession_proofs`, `I2CMasterBus_proofs` | Theorems about the master engine: its own state; the refinement; the bus.  Each extends the one before. |
| `I2CSlave_proofs`, `I2CLoopback_proofs` | Theorems about the slave, and about both roles on one bus. |
| `I2CInterrupts_proofs`, `I2CLifecycle_proofs`, `I2CArithmetic_proofs` | Theorems about the interrupt words, the roles, and the two computations. |
| `MCI2CMaster`, `MCArithmetic` | Definitions for model checking; `MCArithmetic` runs `I2CTimer` and `I2CBrg` next to each other. |

### 2.1 The peripheral (`I2CHost`)

A register is the set of the names of its bits that are 1, restricted to the
bits the engine reads or writes.  The hardware is not part of the repository;
what the model assumes comes from the engine's waits and comments and from the
"STOP completion" section of `src/README.md`:

* START and repeated START raise `STARTE` and `S` first; the request bit clears
  later (`HwStartEvent`/`HwStartOwned`, `HwRestartEvent`/`HwRestartRetired`).
* STOP raises `STOPE` before `PEN` clears, and the host is active until then.
  A START asked for in between may be dropped.
* A written byte sets `TRSTAT` until it was answered; an unacknowledged byte
  sets `NACKE`, with or without `D_A`.
* `D_A` is cleared by a START and set by a byte.
* Writing `TRN` on a bus that is not the host's or is busy sets `IWCOL`.
* Losing arbitration (`BCL`) makes the host drop all requests and the bus.
* Switching the module off resets the host state machine and the status bits
  the hardware owns.

No step of the hardware has to happen, unless a run says so: a target that
stretches SCL for ever is the absence of steps.  Data bytes, the receive
overflow and the contents of `TRN`/`RCV` are not represented.

### 2.2 The engine (`I2CMaster`)

| Variable | Code |
|---|---|
| `initialized`, `pending_state`, `pending_start_ms` | `g_initialized`, `g_pending_state`, `g_pending_start_ms` |
| `config` | `g_get_ms` (is there one), `g_timeout_ms`, `g_pending_timeout_ms` |
| `now` | what `get_ms` returns: a `uint32_t`, counted modulo `Wrap` |
| `pc` | the primitive about to run: an issue (`start_issue` ...) or a wait (`start_wait` ...); `idle` between calls |
| `fn` | which sequence function is on the stack, hence what follows a STOP |
| `call` | the public call in progress with `tx_len` and `rx_len` |
| `i`, `st`, `start_ms` | the locals: byte counter, first error, start of the wait |
| `ret` | the last public call and its status; blank while a call runs |

A public call starts with an action for each of its guards: `RejectArguments`,
`RequireInitialized`, `RecoverStalePending`, `PendingBusy`, `SequenceError`,
`DeinitBusy`, `SetBusSpeedBusy`.  Past them (`BeginIndependent`,
`BeginPending`) each step is one low-level issue or one decisive poll of
`wait_until`, and the hardware and the tick run in between.  After a poll,
`Fail` is the error return of a sequence with its cleanup STOP;
`WriteNextByte`, `WritePhaseDone`, `ReadAddressed`, `ReadNextByte` and
`ReadPhaseDone` are its loops; `QuietStop`, `StopPending`, `AbortPending`,
`Recovered` and `DeinitRecovered` are what the five callers of `stop_quiet`
make of its result.

Abstractions, and why they lose nothing the properties speak about:

* *A poll is atomic.*  A pass of the loop reads the bits of `done_fn`, then the
  collision bits, `ERR`, and the tick.  While the engine waits, no bit goes back
  and forth: a collision that also ends the awaited phase is seen by the reads
  that follow, and a phase that ends, or a fault that is raised, after its bit
  was read might as well have come after the whole pass, since it commutes with
  the tick.  Passes that decide nothing are not steps.
* *An issue is atomic.*  It is a few register accesses in a row.  What the
  hardware may do between the read and the write-back of a read-modify-write of
  `CON1` matters only if a request is set meanwhile; `NoRequestInFlight` says
  that none is.
* *The repeated `require_initialized` of the primitives is left out.*  It can
  only fail when the instance is not initialized or not present, which
  `EngineRunsInitialized` excludes during a call.
* *`check_nack` and `check_bus_fault` after the waits* test bits the wait has
  tested already; the test of the acknowledge after a byte is `ByteNacked`.
* *Configuration values* are `get_ms` and the two limits; the frequencies, the
  address and the buffers are not represented.  `fcy_hz == 0`, null pointers,
  empty reads and invalid instances are the one action `RejectArguments`.
* *A tick nobody can read* (no `get_ms`) is left out.
* *The role* recorded in `g_role` is written at the same place as `initialized`
  and is in `I2CLifecycle`.

Operators named with a fault, such as `stop_fully_done_by_STOPE`, are not used
by the specification: each is a definition of the engine with one plausible bug,
and each property is shown to notice one of them.

### 2.3 The contract of the master (`I2CSession`)

Five variables: is the instance initialized, is a no-STOP write pending, which
call is in progress, does that call only recover an expired write, and the last
status.  Actions are whole calls, or the points inside one where the pending
state changes.  `I2CMasterSession` maps `pending` to `pending_state # "NONE"`,
`op` to `call.op` and `recovering` to `fn`; `KeepsSession` states that every
behaviour of `I2CMaster` is one of the session: the bus and its failures can
change which status is returned, but no status says more than is true.

### 2.4 The slave (`I2CClient`, `I2CSlave`)

| Variable | Code |
|---|---|
| `g_active`, `g_reading` | as in the code |
| `main` | where `slave_init` or `slave_deinit` stands between its register accesses |
| `isr`, `stat`, `b` | where `slave_service` stands, and its locals |
| `vector`, `preempted`, `prio` | the delegate that runs, those it has interrupted, `_I2CxIP` and its likes |
| `tx` | how many bytes `on_tx_byte` has returned in this transaction |
| `IFS`, `IEC`, `CON1`, `STAT1`, `RCV`, `TRN` | registers, as sets of bits or numbers of bytes |
| `phase`, `n` | the bus's view of the transaction |
| `owed`, `stop_due` | what happened on the bus and was not reported yet; history, read by properties only |

`slave_service` is cut into a step per register access or callback: `poll`
(reads `STAT1` and decides), `receive`, `on_addr_match`, `on_rx_byte`,
`on_tx_byte`, `release`, `on_stop`, `leave`.  Between two of them the bus may go
on as far as SCL allows, a delegate of a higher priority may run, and outside
interrupts `slave_init` and `slave_deinit` advance by a step.

Abstractions:

* Entering the ISR and clearing its own flag is one step: what is raised before
  the clearing is cleared, as in the code, and nothing else happens in between.
* Flags of one bus event are raised together; the flagged interrupt of the
  highest priority is taken first, any of them where priorities are equal.
* `set_interrupt_priority` refuses what is no priority, and priority 0 masks an
  interrupt.  No run sets 0: an event of a masked slave stays flagged and SCL
  held for as long as the application leaves it masked.  The statuses of the
  call are not modelled; those of its refusals go with no change of state.
* The master's START and the address that follows it are one event of the
  client, and a transaction with another device is not represented; nor are its
  STOPs, which some parts report as well.
* `ACKSTAT` after an address is either kept or cleared: the code does not rely
  on either, and the hardware is not specified here.
* `Overtakes` names the events the bus may bring before the last one was
  served.  With clock stretching an address or a byte is followed by nothing
  until `SCLREL` is set; STOPs and, without stretching, bytes are not held back.
* NULL callbacks are callbacks that do nothing.  A byte is its number.  `g_cfg`
  is not state: which application's callback is called, and an ISR that sees a
  structure half copied by a second `slave_init`, are not represented.
* The delegates do not look at the slave registers of the device table; they
  are forwarded for initialised slaves only.

### 2.5 Both on one bus (`I2CLoopback`)

The host's step and the client's step on the wire are one step: a byte the host
sends is received or refused by the client, the host's acknowledge of a read is
what the client sees in `ACKSTAT`, and a held SCL stops the host.  Both programs
share a CPU, so that the master polls only while no slave interrupt is due.  It
is the loop the README of the repository validates with two instances.

### 2.6 Roles, words and numbers

`I2CLifecycle` has the lifecycle calls of both roles as atomic steps for any set
of instance numbers, of which some are invalid, absent or without slave
registers.  Any call may be made on any instance, whatever its role: `pending` is
what `g_pending_state` keeps over a change of roles, `host` what the idle check
of `deinit` sees, and a transfer may leave both in any state.  `I2CInterrupts`
has two instances as slaves; its helpers read a word in one step and write it in
another, and hardware and the ISR run in between (`Atomic` is a build whose
compiler makes one instruction of it).  `I2CTimer` keeps the true age of the
pending transaction next to the ticks the code compares.  `I2CBrg` computes in
integers of `Size` values what the code computes in those of 2^32, with the sum
in integers of `Size * Size` values.

## 3. What is checked

### 3.1 Properties

Safety, on a bus that may do anything:

* `TypeOK`: types, and the byte counter within the lengths of the call.
* `OkReleasesBus`: a transfer that ends with STOP and reports OK leaves nothing
  pending, no request open and the host inactive.
* `DiagnosisAfterCleanStop`: `read_after_restart` reports a NACK only after its
  STOP has retired; otherwise it reports what happened to the STOP.
* `DeinitFreesPending`: `deinit` leaves nothing pending, and the module is off
  unless it refused.
* `EngineRunsInitialized`: the peripheral is driven only when initialized and on.
* `PendingBlocksNewTransfer`: no START while a transaction is pending.
* `StopBeforeClear`: a pending transaction ends by a retired STOP or a reset.
* `LostArbitrationNeedsReset`: a pending transaction that lost arbitration is
  ended by `init` or `deinit` and nothing else.  The engine is built so; the
  property documents it, and `RecoveryClears` below shows what it contradicts.

* `KeepsSession`: refinement of the contract.

Safety, on a bus that answers in the end: `StartOnIdleBus`, `PendingHoldsBus`,
`NoWriteCollision`, `ReadEndsWithNack`, `NoRequestInFlight`, `ReadsOwnBytes` say
that the requests come in an order the peripheral accepts and that nothing of one
call is left for the next, also over a sequence of calls.

Liveness: `CallsReturn`, with a transfer timeout and a bus that may never
answer, and without one on a bus that answers.

The slave:

* `ReportsInOrder`: addresses and bytes are reported once, in the order of the bus.
* `TxInOrder`: the master gets the bytes of `on_tx_byte`, none skipped, repeated
  or made up.
* `TxWhileRead`: `on_tx_byte` is called only while a master reads - also after a
  `slave_deinit` in the middle of a read and with a flag left over for the next
  `slave_init`.
* `NothingForgotten`: when no interrupt is due, nothing on the bus was left
  unreported, SCL is free and reception is not blocked.
* `SclReleased`: SCL is always released in the end.

Both together: `OkMeansTransferred` and `OkMeansTold` relate the status of the
master's call to what the slave took, sent and told its application;
`SlaveStopOnce` and `SlaveStopBeforeNext` (a STOP is reported once, and before
the next transaction) and `SlaveTxInOrder` are the slave's promises here, where
its constants let everything overtake the ISR and only the master keeps it from
happening; `LoopbackCallsReturn` says that neither waits for the other for
ever.

The roles, with callers that may mix them up:

* `RolesAgree`: what `is_initialized` says, what both engines accept, the module
  and its interrupt agree until a call for the other role is made on that very
  instance.
* `RoleTellsModule`: even then the role is what the module is, its engine runs,
  and the interrupt is enabled for an active slave only; what mixing leaves
  behind is the other engine.
* `TeardownRestores`: `slave_deinit` and then `deinit` is a way out of every
  mixture, also of one with a write pending or a transfer that has failed.

The rest: `EnabledWhileActive` (interrupt words), `ExpiryIsExact`, and
`NearestDivider`, which is what the comment of `calc_brg` claims: the nearest
*divider*.  The bit rate is its reciprocal, and there another divider may be
nearer: for `fcy_hz` 29 and `bus_hz` 10 the code's divider 1 gives 14.5, and 2
gives 7.25.

### 3.2 Runs

| Run | Configuration | Bounds | Shows |
|---|---|---|---|
| `stuck_bus` | `MCStuckBus.cfg` | both limits 1, `Wrap` 3, lengths 0..1, all faults | the eight safety properties and the refinement; 1.2 million states |
| `cooperative` | `MCCooperative.cfg` | no clock, lengths 0..3, NACKs | the six sequencing properties and `CallsReturn`; 2674 states |
| `calls_return` | `MCCallsReturn.cfg` | timeout 1, `Wrap` 2, lengths 0..1, NACK, silent NACK, collision | `CallsReturn` |
| `slave_events` | `MCSlaveEvents.cfg` | transactions of 0..3 bytes, bytes and STOPs that overtake, with and without stretching, the event interrupt alone | six properties of the slave, one of them liveness; 24346 states |
| `loopback` | `MCLoopback.cfg` | lengths 0..2, no clock, the slave may NACK or be off | six properties of master and slave together; 229405 states |
| `lifecycle` | `MCLifecycle.cfg` | an ordinary instance, one the device lacks, one without slave registers, an invalid number; any call on each of them | `RoleTellsModule`, `RolesAgree`, `TeardownRestores`; 2507 states |
| `interrupts` | `MCInterrupts.cfg` | two slaves, interruptible read-modify-writes | `EnabledWhileActive` |
| `arithmetic` | `MCArithmetic.cfg` | tick of 5, ages to 11; `Size` 8, all rates below it | `ExpiryIsExact`, `NearestDivider` |
| `start_after_stop`, `recovery_clears` | `MCStartAfterStop.cfg`, `MCRecoveryClears.cfg` | timeouts 1, `Wrap` 2, lengths 0..1 | see 3.4 |
| `slave_extra_pass` | `MCSlaveExtraPass.cfg` | 2 bytes, event and RX interrupt, nothing overtakes | see 3.4 |
| `flag_lost` | `MCFlagLost.cfg` | two slaves | see 3.4 |

Why these bounds are enough.  A call visits the same primitives for every byte:
length 0, 1 and, where the difference between a first, a middle and a last byte
counts, 3 are all the cases of its loops; the same holds for `slave_service`,
whose only memory between bytes is `g_reading`.  A limit of one tick separates
"expired" from "not yet"; `Wrap` 3 gives an expired, a fresh and a wrapped tick,
`Wrap` 2 a tick that wraps within every wait.  Two instances are the least that
share a word, and a third would be one more of the second kind.  With `Size` 8
the sum of the rates exceeds the size, the divider rounds up and down, and
reaches zero; ages to 11 are more than two wraps of 5.  The number of calls and
transactions is not bounded: the state space is the closure under every
sequence of them, so failures of several calls in a row are included.  Deadlock
is checked in every run.

What the loopback run adds to the slave run: the races of 3.4 - a STOP that
overtakes the ISR, a START that overtakes a STOP - cannot happen when the master
runs on the CPU of the slave and waits for its interrupts.  A loopback test
between two instances of one device can therefore not exhibit them.

### 3.3 Fairness

* `SF_vars(Engine)`: a blocking call runs on the CPU, and a pass of the polling
  loop takes far less than a tick.  Strong fairness says that a decision that
  is available again and again (the elapsed time is over the limit in some, but
  with a small `Wrap` not in all, states) is taken.  With the 32-bit tick of the
  code the window in which a limit is exceeded lasts for days.
* `WF_vars(Tick)`: time passes.
* The hardware has no fairness in `Spec` and `FairSpec`.  `ServedSpec`, used by
  the cooperative run, adds weak fairness of the hardware's own steps: the
  target answers.
* `FairSpec` of the slave: a flagged and enabled interrupt is taken and its
  service goes on (`WF` of `Interrupt`); a lifecycle call that has begun goes on.
  The bus master and the application need not do anything.
* `LoopbackFairSpec`: weak fairness of the wire and of the interrupt; strong
  fairness of the master's steps, which slave interrupts preempt again and again.

### 3.4 Disagreements between the code and its comments

Four are runs in which TLC finds the statement violated:

| Run | Statement | What the code does |
|---|---|---|
| `start_after_stop` | "callers never start a new transfer on a bus whose STOP has not yet retired" (`dspic33ak_i2c_master.c:1309-1311`) | The error paths that discard the status of `stop_quiet` leave nothing pending; after a STOP that timed out the next call sets `SEN` while `PEN` is set. |
| `recovery_clears` | recovery issues STOP and clears the pending state (`README.md:222-224`) | A latched `BCL`, `ERR` or `IWCOL` fails the wait of the STOP although the STOP has retired. |
| `slave_extra_pass` | "if more than one flag is raised for the same byte the extra pass is a harmless no-op" (`dspic33ak_i2c_slave.c:16-17`) | In a master read the extra pass of the address finds `RBF` clear, takes it for the acknowledge of a sent byte, and overwrites `TRN` with another byte of `on_tx_byte`. |
| `flag_lost` | a new event "keeps its flag set and re-enters rather than being cleared away" (`dspic33ak_i2c_slave.c:220-223`) | The helper of one instance writes `IFS2` back without the flag another instance has raised since the read. |

The models contain more of them.  Each is a property of the module named, with
the constants that make TLC find it violated, where they differ from those of
the run given:

| Property | Constants | What the code does |
|---|---|---|
| `RestartAfterStopRetired` (`I2CMaster`) | those of `start_after_stop` | After a failed STOP, `read_after_restart` accepts the pending transaction and sets `RSEN` while `PEN` is set (`dspic33ak_i2c_master.c:1114-1116` says that the next call is rejected). |
| `TimeoutMeansRecovered` (`I2CMaster`) | `Configs <- BothLimits` | `ERR_TIMEOUT` is also the status of a recovery whose own STOP timed out (`:1018-1020`). |
| `DeinitForcesOff` (`I2CMaster`) | those of `start_after_stop` | With nothing pending and the host still working, `deinit` returns `ERR_BUSY` (`README.md:385` says that it forces the peripheral off). |
| `DeinitReturns` (`I2CMaster`) | `Configs <- PendingLimit`, `FairSpec` | With a pending limit and no transfer limit, `deinit` waits for the recovery STOP for ever (`:188-191`). |
| `ReadsOwnBytes` (`I2CMaster`) | those of `start_after_stop` | A byte that arrives after its read has timed out is the first byte of the next read (`README.md:339-340` calls back-to-back transactions safe). |
| `StopOnce` (`I2CSlave`) | `Overtakes = {"stop"}`, `Dedicated = {}` | `P` stays set: a STOP between the clearing of the flag and the read of `STAT1` is reported twice (`dspic33ak_i2c_slave.c:223-224` calls a spurious re-entry harmless). |
| `StopBeforeNext` (`I2CSlave`) | `Overtakes = {"start"}`, `Dedicated = {}` | A START clears `P` before the STOP was seen, and `on_stop` is not called. |
| `TxWhileRead` (`I2CSlave`) | `Reinit = TRUE`, `Dedicated = {}` | `slave_init` on an active slave resets `STAT1` under `g_reading`, with the interrupt enabled: `on_tx_byte` is called without a read. |
| `ReportsInOrder` (`I2CSlave`) | `Overtakes = {"byte"}`, `MaxBytes = 3`, `Stretch = {TRUE, FALSE}`, `Priorities = {2}`, `Settable = {"event"}` | On instances whose RX priority `set_interrupt_priority` does not reach, one delegate preempts another between `STAT1` and `RCV`, and the byte is reported twice (`dspic33ak_i2c_slave.c:14-15` calls the routine re-entrant-safe). |
| `DeinitEitherRole` (`I2CLifecycle`) | those of `lifecycle` | `deinit` refuses an active slave as not initialized (`dspic33ak_i2c.h:54`: "master or slave"). |
| `QueryTruthful` (`I2CLifecycle`) | those of `lifecycle` | After `slave_deinit` of a master, `is_initialized` says no and the master engine accepts every call (`dspic33ak_i2c_common.h:34-37`). |

The slave properties are compared with `slave_extra_pass`.

## 4. What is proved

Every invariant and action property that a passing run checks is also a theorem,
for every value of the constants the model has; what is left to TLC is in 4.6.

The assumptions on constants are those of the modules: `Wrap` and `MaxLen` are
positive numbers, configurations are records with limits below `Wrap`, bus
faults are of the four kinds; `MaxBytes` is positive, and the priorities asked
for are bytes - in the loopback none of them 0;
instances are numbers, and a device defines some of the four; `Size` is at least
2.  A theorem that needs more says so with `ASSUME`, by one of these names:

| Name | Says | Why not without |
|---|---|---|
| `Undisturbed` (`I2CMasterBus_proofs`) | targets may refuse bytes but no other fault occurs, and no configuration limits a wait | After a wait that ended early its request is still open; `start_after_stop` and 3.4 show what follows. |
| `Alone` (`I2CSlave_proofs`) | the event interrupt alone runs the service, `slave_init` is called on an inactive slave, and no START overtakes the ISR | `slave_extra_pass` and 3.4. |
| `Answered` (`I2CSlave_proofs`) | `Alone`, and nothing else overtakes the ISR | A STOP that does is reported twice (3.4). |
| `Shared` (`I2CLoopback_proofs`) | `Undisturbed`, with the first two parts of `Alone`; nothing is assumed of `Overtakes` | as above |
| `Atomic` (`I2CInterrupts`) | a read-modify-write is one instruction | `flag_lost` |

Each is what the run that checks the same property assumes as well.

### 4.1 The master engine, its own state (`I2CMaster_proofs`)

| Theorem | States |
|---|---|
| `Invariance` | `Spec => []IInv` |
| `TypeCorrect` | `Spec => []TypeOK` |
| `RunsInitialized` | `Spec => []EngineRunsInitialized` |
| `DeinitFrees` | `Spec => []DeinitFreesPending` |
| `PendingBlocks` | `Spec => PendingBlocksNewTransfer` |
| `PendingEndsByStop` | `Spec => StopBeforeClear` |
| `LostArbitration` | `Spec => LostArbitrationNeedsReset` |

The inductive invariant `IInv` is the conjunction of

* `TypeOK`;
* `CallShape`: which operation can be in progress in which function, that a
  call in progress has not returned, and that the byte counter is within the
  lengths of that operation - without it nothing bounds the counter, and the
  continuation after a STOP could belong to another call;
* `LifecycleInv`: a call in progress, and every pending transaction, belongs to
  an initialized module that is on - the fact the dropped checks rely on, and
  the hardware's steps must be shown to respect it (`HwFrame`);
* `StartNotPending`: nothing is pending when a START is about to be issued - the
  guard was checked one step earlier, and the state read then must still hold;
* `DeinitFreesPending`.

The action properties follow from `IInv` and one lemma per group of actions:
which steps touch `CON1.SEN` and `pending_state` at all, that pending ends only
in the four functions that check the STOP (`PendingEnds`), and that every wait
fails while `BCL` is set.

### 4.2 The contract of the master (`I2CMasterSession_proofs`)

| Theorem | States |
|---|---|
| `SequencesKeepShape` | `Spec => []SInv` |
| `ImplementsSession` | `Spec => KeepsSession` |

`SInv` adds `SequenceShape` to `IInv`: for each sequence function, the calls that
may run it, whether a write is pending, and whether it has failed.  In the C
code the call graph guarantees this; the flat `pc` and `fn` have to remember it,
and without it a step of the engine could map to a status the session does not
allow there.  The refinement has one lemma per group of steps: the guards of
the public calls, the issues (which all stutter), the end of the write phase,
the end by a STOP, the end of a recovery.

### 4.3 The master and the bus (`I2CMasterBus_proofs`)

| Theorem | States | Assumes |
|---|---|---|
| `OkReleases` | `Spec => []OkReleasesBus` | nothing |
| `DiagnosisIsSafe` | `Spec => []DiagnosisAfterCleanStop` | nothing |
| `QuietInvariance` | `Spec => [](SInv /\ QuietInv)` | `Undisturbed` |
| `StartsOnIdleBus` | `Spec => []StartOnIdleBus` | `Undisturbed` |
| `PendingKeepsBus` | `Spec => []PendingHoldsBus` | `Undisturbed` |
| `NeverCollides` | `Spec => []NoWriteCollision` | `Undisturbed` |
| `ReadsEnd` | `Spec => []ReadEndsWithNack` | `Undisturbed` |
| `RequestsAreOver` | `Spec => []NoRequestInFlight` | `Undisturbed` |
| `ReadsAreFresh` | `Spec => []ReadsOwnBytes` | `Undisturbed` |

The first two hold on a bus that may fail and time out anywhere.  The difficulty
is `SEN`: the wait for START may end by an `S` left over, so the request may
outlive it and the host may take the bus again later.  `NoStartLeft` says that
this cannot be so past the first byte, because that byte would have collided;
`StopProgress` follows the STOP of such a sequence bit by bit, up to the wait
that sees it retired.

For the others `QuietInv` says what each primitive finds: `BusPhase`, which
single request may be open and who holds the bus, for each `pc`; `BytePhase`,
where a byte is under way; and that no fault is recorded.

### 4.4 The slave (`I2CSlave_proofs`)

| Theorem | States | Assumes |
|---|---|---|
| `TypeCorrect` | `Spec => []TypeOK` | nothing |
| `InOrder` | `Spec => []ReportsInOrder` | `Alone` |
| `LoadsOnlyForReads` | `Spec => []TxWhileRead` | `Alone` |
| `ForgetsNothing` | `Spec => []NothingForgotten` | `Alone` |
| `TakesInOrder` | `Spec => TxInOrder` | `Alone` |
| `StopsOnce` | `Spec => []StopOnce` | `Answered` |

`TypeCorrect` is for every integration, nested delegates included: the services
on the stack are of strictly increasing priority, which bounds the stack and
gives each return its locals.

The other theorems share one inductive invariant, `Inv`: the types, what the
main thread has done so far (`MainInv`), and for a live slave (`LiveInv`)

* `OwedInv`: the application is owed exactly what the service is about to report
  and what is in `RCV`, and a byte in `RCV` has a service coming for it;
* `AddressInv`: an address not yet reported holds the bus;
* `ReadInv`: during a master read, where `slave_service`, `g_reading`, SCL and
  the count of bytes can stand relative to each other;
* `StopInv`: a STOP not yet reported has a service coming that sees `P`;
* `HoldInv`: SCL is held, and reception blocked, only while a service is coming
  that will release it.

The lemma `StopComesFirst` derives `StopBeforeNext` from it.  It is no result
about the slave: `Alone` rules out the START that would break it, and its use is
in 4.5, where that START is shown not to come.

`Inv` goes with `TxReady`, which holds on an inactive slave, too: `slave_deinit`
in the middle of a read leaves the byte the master is taking.  `StopsOnce` adds
`OnceInv`: no service that could see `P` again begins before a START clears it.

### 4.5 Both on one bus (`I2CLoopback_proofs`)

| Theorem | States | Assumes |
|---|---|---|
| `BusWaits` | `LoopbackSpec => Waiting!Spec` | `Undisturbed` |
| `SlaveStopsOnce` | `LoopbackSpec => []SlaveStopOnce` | `Shared` |
| `SlaveStopComesFirst` | `LoopbackSpec => []SlaveStopBeforeNext` | `Shared` |
| `SlaveBytesInOrder` | `LoopbackSpec => SlaveTxInOrder` | `Shared` |
| `OkIsTold` | `LoopbackSpec => OkMeansTold` | `Shared` |
| `OkIsTransferred` | `LoopbackSpec => OkMeansTransferred` | `Undisturbed` |

The composition is proved from its parts.  Each of its steps is a step of
`I2CMaster` or leaves it alone (`MasterStep`), so `SInv` and `QuietInv` hold in
it.  From `QuietInv` the master has asked for one thing at most, and it asks for
it only when the slave is settled; so `Served` is invariant - while the bus has
something for the slave to do, its last event has been served - and every step
of the composition is, for the slave, a step of `I2CSlave` with `Overtakes = {}`
or none.  That is `BusWaits`: `Waiting` is `I2CSlave_proofs` instantiated with
`Overtakes <- {}`, and its theorems become those of the composition, whatever
`Overtakes` is there.

`OkIsTransferred` needs both sides at once.  `Progress` relates the master's
byte counter to the slave's at each primitive - a byte being sent, one just
acknowledged, one received, its acknowledge under way - and `CountInv` bounds
the counter by the lengths of the call.

### 4.6 Roles, words, numbers, and what is only model-checked

| Theorem | States | Assumes |
|---|---|---|
| `LifecycleTypes` | `Spec => []TypeOK` of `I2CLifecycle` | nothing |
| `RoleIsModule` | `Spec => []RoleTellsModule` | nothing |
| `RolesKeepAgreeing` | `Spec => RolesAgree` | nothing |
| `TeardownWorks` | `Spec => TeardownRestores` | nothing |
| `TypeCorrect` | `Spec => []TypeOK` of `I2CInterrupts` | nothing |
| `EnabledExactly` | `Spec => []EnabledWhileActive` | nothing |
| `AtomicLosesNoFlag` | `Spec => []FlaggedUntilServed` | `Atomic` |
| `TimerTypes` | `Spec => []TypeOK` of `I2CTimer` | nothing |
| `Expiry` | `Spec => []ExpiryIsExact` | nothing |
| `Dividers` | `Brg!Spec => []NearestDivider` | nothing |

Of the records of an instance each lifecycle call changes all or none
(`StepChanges`); `RoleTellsModule` is inductive over these changes, and
`RolesAgree` looks at each of them on an instance that agrees.  `TeardownRestores`
needs to know what `slave_deinit` has just done (`SlaveIsDown`): the idle check,
by which `deinit` may refuse, finds a module that is off.  `EnabledWhileActive` rests on
`IEC2Inv`: the main thread alone writes `IEC2`, so the word it has read is still
the word when it writes it back, for any number of instances.  `IFS2` has other
writers; `AtomicLosesNoFlag` shows that a window between read and write-back is
all that `flag_lost` needs.

`ExpiryIsExact` rests on `AgeInv`: until the age exceeds the wrap it is the
difference of the ticks, plus the wrap if the tick is behind the start.  Three
lemmas on remainders translate that into the code's subtraction, so that the
induction itself is linear.  `NearestDivider` rests on the facts that the sum
fits the wider integers (`RoundedDivider`), that a quotient leaves less than a
divisor, and that two different multiples of a number are that number apart.

Only model-checked: liveness - `CallsReturn`, `SclReleased` and
`LoopbackCallsReturn` - which, with its fairness and ENABLED, is out of the
prover's reach, and the four statements that a run refutes.  There are no
recursive definitions, so nothing is left out for needing induction over data.

## 5. What is not modelled

* The low-level `ll_*` calls as calls of an application of their own: they are
  the steps of the blocking calls, and the repository presents them as building
  blocks for a caller that sequences them itself and takes the responsibility.
* The interrupt helper calls `irq_enable`, `irq_disable` and `irq_clear`: stubs.
* Register addresses of the device table, `LBRG`, `HBRG`, `CON2`, `BITO`, `ADD`
  and `MSK`, beyond the value of the divider: constants no property depends on.
* The hardware beyond what the code relies on: 10-bit addresses, general calls,
  SMBus functions, receive overflow of the host, other devices on the bus of a
  slave, several masters other than as a lost arbitration.
* Calls of one instance from several threads, and master calls from an ISR: the
  API leaves the exclusion to the caller.
* More than one instance as master, whose state is one array element per
  instance, and a master and a slave on different CPUs: seen from the slave, such
  a master is the bus of `slave_events`.

## 6. What is left to do

1. The slave with its dedicated RX and TX interrupts at one priority, where no
   delegate preempts another: which promises survive the extra pass of
   `slave_extra_pass`, as theorems with their own hypothesis in place of `Alone`.
2. The master after a wait that has ended early: how long a request left open can
   outlive its call, as an invariant on a bus that may time out.
