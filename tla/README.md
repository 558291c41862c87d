# Verification of the PPA firmware

The PPA (primary protected application) is the EL3 firmware of the ARMv8 QorIQ
and Layerscape SoCs.  It starts the secondary cores, answers SMC calls (PSCI,
SiP and architecture services) and stays resident as the secure monitor.  This
directory holds TLA+ models of its protocols, the TLC runs that check them and
the TLAPS proofs about them.  Paths below are relative to `src/ppa/`.

## 1. Inventory

| component | state it keeps | operations | interacts with |
|---|---|---|---|
| `psci/` | none of its own | CPU_ON, CPU_OFF, CPU_SUSPEND, AFFINITY_INFO, SYSTEM_OFF, SYSTEM_RESET, PSCI_VERSION, PSCI_FEATURES | per-core data areas, SoC port, monitor |
| `common/runtime_data.s` | one data area per core (state, SPSR, context id, start address, abort flag, SCTLR, SCR, HCR ...), task flags, memory banks, stacks | `_getCoreData`, `_setCoreData`, task flag accessors, initialisation | everybody; no lock anywhere |
| `common/utils.s` | OCRAM task state | core masks, cluster counts, `_prep_ocram_init` (a worker core clears OCRAM, then waits to be turned on) | runtime data, PSCI |
| `monitor/` | saved registers on the stack | reset entry of a secondary core, `_mon_core_restart`, SMC32 and SMC64 routers, `exit_boot_svcs` | PSCI, SoC port, drivers |
| `soc-*/soc.s` | BRR, COREBCR, RETREQCR, RCPM, EPU, GIC registers | release, restart, phases 1 and 2 of CPU_OFF, entry and exit of every suspend state, reset | hardware |
| `armv8/` | system registers | EL3/EL2/EL1 initialisation, SPSR construction, caches, GIC, interconnect | monitor |
| `soc-*/bootmain.64.s`, `common/ppa_main.c` | boot flags | start of the monitor, OCRAM task on a worker core, hand-over | runtime data, drivers |
| `drivers/fsl_sec` | job ring indices, driver state, RNG state handle, heap of `common/alloc.c` | bring-up; enqueue, poll, flush and shut down a job ring; RNG; key blob | SEC hardware, SMC routers |
| `drivers/hash_drbg` | one DRBG instance (V, C, reseed counter) | instantiate, reseed, generate; SHA-256, derivation function | entropy source, SMC routers |
| `drivers/sfp` | fuses, mirror registers, error code in a scratch register | `provision_fuses`, once a boot | hardware RNG, reset |
| `drivers/sd` | card state, bus width, clock, DMA buffer | identification, mode switches, block reads | card, timer |
| `drivers/i2c` | controller state machine | read a range of an EEPROM | SPD EEPROMs |
| `drivers/ddr` | options, address map, register values of each controller | from the SPD of the DIMMs to initialised memory; LS1012: calibration of a soldered DRAM | I2C, controllers, boards' `ddr_init.c` |
| `drivers/tzc` | regions and gates of the TZC-400 | set-up of LS1046 and others | every access to DRAM |
| `cmm/`, `spd/` | CPU contexts of both worlds, vectors of the trusted OS | `spd_init` per core, world switches | monitor, trusted OS |
| `drivers/uart`, `timer`, `lib` | device registers | text, time, byte loops | drivers |

What is hard here:

* **Concurrency without locks.**  `psci.h` declares lock macros, but no handler
  uses them.  CPU_ON of one core reads and writes the data area of another that
  may be shutting down, suspended, waiting in wfi or starting.
* **The shutdown window.**  A shutdown takes long, so CPU_ON may ask for an
  abort: a flag that the dying core looks at twice, and a watch of 100 polls.
* **Wake-up by interrupt.**  A core in CORE_OFF waits in wfi for SGI 15, and
  decides by its state whether the wake-up was meant for it.
* **Counting.**  CPU_OFF must not take the last core down, and a cluster or
  system suspend must find all the other cores off; both count states that
  change while they count.
* **Failures half way.**  The DDR may refuse self refresh at the very end of a
  system power-down.
* **Timeouts.**  Polls of the SEC job ring give up, and the answer comes later.
  The SD, I2C and DDR drivers poll hardware that may be late at every poll, and
  the next step of the driver runs on hardware that is still at the last one.
* **Failures in the middle of a sequence.**  A fuse is burnt and the read-back
  fails, one DIMM answers and its neighbour does not, a card refuses a mode
  switch half way: what was done stays done.
* **Boundaries.**  Densities, timings and latencies of DDR4 at the edges of
  their register fields, padding of SHA-256 at 55 and 64 bytes, the reseed
  interval, the last entropy delay.
* **Shared variables of the dispatcher.**  One entry point description and one
  pointer to the vectors of the trusted OS for all cores.

What makes each component correct: PSCI keeps the state of a core truthful,
loses no request, starts a core with the parameters of one request, never takes
the last core down and hands back SCR_EL3 and the MMU as they were; the job ring
pairs every answer with its own request; the DRBG never serves more requests
from a seed than its interval and no number from an unseeded V; each world keeps
its registers; fuses are written once; DDR timings cover what the DIMMs ask for
and the map only holds memory that exists; an SD read returns what the card
holds or fails; the TZC leaves the secure window to the secure world.

## 2. Modules

| module | models |
|---|---|
| `Psci` | CPU_ON, CPU_OFF, CPU_SUSPEND and AFFINITY_INFO (`psci/psci.s`), the handlers of the SoC port they call (`soc-ls1043/soc.s`, the port with every feature), the ways back to the normal world (`monitor/monitor.s`, `armv8/aarch64.s`), the OCRAM worker's wait (`common/utils.s`) |
| `PsciPower` | the abstract life cycle of a core: off, pending, on, suspended |
| `MCPsci` | the feature sets the runs use |
| `PsciProofs` | type correctness of `Psci`; proof that routing and MMU are restored |
| `PsciHonest` | proofs that a core's state tells where the core is, that one caller marks only cores that are held, and that `Psci` then implements `PsciPower` |
| `PsciEntry` | proof that a core enters with the parameters of one request |
| `JobRing` | the SEC job ring (`drivers/fsl_sec/src/sec_jr_driver.c`, `sec_hw_specific.c`), `run_descriptor_jr`, `_get_RNG` and the key blob above it (`fsl_sec.c`, `rng.c`, `hw_key_blob.c`), and the engine as the code uses it |
| `JobQueue` | what a job ring promises: a bounded FIFO queue of jobs and outcomes |
| `JobRingProofs` | type correctness of `JobRing`; for one calling core, proofs that indices and engine agree, that the ring implements `JobQueue`, and that a call that finds the ring empty is answered by its own job |
| `SecBoot` | `sec_init`: reset of the ring, TrustZone bit, the search for an entropy delay (`fsl_sec.c`, `rng.c`, `sec_hw_specific.c`) |
| `SecMemory` | the allocator that never frees and the job descriptors built in its blocks (`common/alloc.c`, `jobdesc.c`, `hw_key_blob.c`) |
| `HashDrbg` | the DRBG instance shared by all cores (`drivers/hash_drbg/src/hash_drbg.c`, `prng.c`) |
| `HashDrbgProofs` | proofs that numbers are seeded, the error state is transient, and lone calls do not wear out a seed; proofs about `Sha256` |
| `Sha256` | buffering, padding, `hash_df`, `byte_add`, hex conversion (`sha256.c`, `hash_drbg.c`) |
| `Sfp` | fuse provisioning (`drivers/sfp/src/sfp.c`) |
| `Spd` | the dispatcher of the trusted OS (`spd/src`, `cmm/src`) |
| `SdMmc` | SD and MMC cards (`drivers/sd/sd_mmc.c`) |
| `I2c` | SPD bytes over I2C (`drivers/i2c/i2c.c`) |
| `DdrTiming` | DDR4 register values as operators (`drivers/ddr/nxp-ddr/regs.c`, `utility.c`) |
| `DdrConfig` | from SPD to options and address map (`spd_ddr.c`, `dimm.c`, `opts.c`, `addr.c`, boards) |
| `DdrInit` | programming and starting the controllers (`ddr.c`, `ddrc.c`) |
| `Mmdc` | the DDR3 controller of the LS1012 (`drivers/ddr/fsl-mmdc`) |
| `Tzc` | regions and gates of the TZC-400 (`drivers/tzc/src/tzc400.c`, `soc-ls1046/soc_tzasc.h`) |
| `SecurityProofs` | proofs about `Sfp`, `Spd`, `SecBoot` and `SecMemory` |
| `BusProofs` | proofs about `I2c` and `SdMmc` |
| `MemoryProofs` | proofs about `Tzc`, `Mmdc` and `DdrInit` |
| `MCDrivers` | the inputs of the driver modules, and their composition for TLC |
| `MCSdMmc` | the inputs of the run `switch_refused` |

`DdrInit` extends `DdrConfig`, which extends `DdrTiming`; the others share no
state.  No PSCI handler submits a job and no driver asks for the state of a
core.  Where one driver's answer is another's input (SPD bytes, random bytes),
the second takes every answer the first can give.

### How `Psci` corresponds to the code

Every core is a process.  EL3 runs with its exceptions masked, so a core is at
one place of one handler, `pc[c]`, until it leaves EL3.  An action makes at
most one access to shared data: a load or a store of a field of a data area, of
BRR, or of the GIC.  These accesses bypass the caches (`dc ivac` before a load,
`dc cvac` and `dsb` after a store), which is why interleaving them sequentially
is faithful.  What is private to a core between two such accesses is part of
the action of the access before or after it.

* `coreState`, `abortFlag`, `param`, `savedScr` are CORE_STATE_DATA,
  ABORT_FLAG_DATA, the triple SPSR_EL3_DATA / START_ADDR_DATA / CNTXT_ID_DATA,
  and SCR_EL3_DATA of each data area.
* `sgi`, `brr`, `evt` are the pending SGI 15, the BRR bits and the event
  registers of the cores that wait in wfe.
* `frame` holds the registers a handler keeps across accesses (target mask,
  arguments, loop counters, the ELR/SPSR/x0 being built), `scr` the routing
  bits of SCR_EL3, `kept` whether SCTLR_EL1/2 are still those of the normal
  world, and `out` how the last step left EL3.

The arguments of a call are one member of `Args`: the properties only ask which
call a saved field comes from.  `Features` are the SOC_* flags of a port's
`soc.h`, so the ports differ by a constant.  CPUECTLR, LINK_REG, DAIF, SCTLR
and HCR of the data area are written and read by a core together with a field
that is modelled, and are represented by it.

Each operation is a chain of actions in the order of the code: `CpuOnCall`,
`OnCheck` (the refusals), `OnSpsr`, `OnStart`, `OnCntxt` (the parameters, stored
before the target is claimed), `OnReread`, then one of `ClaimReset`, `ClaimOff`,
`ClaimWfe` and its kick (`Release`, `Restart`, `Sev`), or `OnAbort` and
`OnWatch`.  `CpuOffCall`, `OffCount` (one load per step), `OffState`, `OffPend`
(OFF_PENDING and phase 1), `OffPhase1`, `OffPhase2` (the two looks at the abort
flag), `AbortClr`, `AbortPend`, or `OffEnter`, `OffSgi`, the wfi loop `OffWake`,
`OffSpuriousWake`, `OffHit`, `OffWoke`.  A started core goes through `ExitStart`,
`ExitRelease`, `ExitSpsr`, `ExitCntxt`, which read its data area one field after
the other.  `SuspendCall` to `SusX0` are CPU_SUSPEND at the three levels.

### How `JobRing` corresponds to the code

Every core is a process here too, and one action does one access to what cores
or engine share: the driver takes no lock, so the ring, `pidx`, `cidx`,
`g_driver_state` and the static buffer of random bytes are globals that any two
SMC calls may interleave on.  `call[c]` is what a call keeps on its stack.

* `SecInit` is `sec_init` down to the reset of the ring: it succeeds, or fails
  and leaves `job_ring` NULL (`handle`).  `SecRelease`, `Flush`, `Shutdown` are
  `sec_release`, a round of `flush_job_rings`, and the reset that ends it.
* `EnqCheck`, `EnqWrite`, `EnqTell`, `EnqStep` are `enq_jr_desc`: the tests, the
  slot, the register that tells the engine, the producer index.
* `DeqCheck` and `Poll` are `dequeue_jr` and the head of `hw_poll_job_ring`;
  `EntryNull`, `EntryError`, `EntryOk` one pass of its loop; `PollAgain` the
  end of a round; `JobFails` and `JobSucceeds` what `run_descriptor_jr` answers.
* `GetRng`, `RngCheck`, `Instantiate`, `RngReady`, `CopyRng` are `_get_RNG` and
  the calls of `rng.c`, `Instantiate` with the loop over entropy delays;
  `GetKey` and `CopyKey` are `get_hw_unq_key_blob_hw`.
* `HwNext` runs the next job the engine was told of, `HwRingError` raises JRINT.

A descriptor is the kind of its job and its core.  A buffer is blank, fresh
(written by a job and not handed out) or handed.  The masks of the indices are
written for any size (`SEC_CIRCULAR_COUNTER`, `Ahead`), and agree with the code's
for a power of two.  Nothing in the sources calls `sec_release`: it is modelled
as the interface offers it, by a core that is alone.

### How the driver modules correspond to the code

The drivers run on the boot core, except the DRBG and the dispatcher, which
every core enters.  A module has one action per function or per stretch of a
function between two points where something else can happen: the hardware that
is waited for, another core, a failure that is tested.  Definitions keep the
names of the functions and of the fields they set.

* `SecBoot`: `secBoot` is the place in `sec_init` and what it keeps.  The engine has a threshold
  (`needs`): an RNG instantiates at entropy delays from there on.  A job that is
  given up may still end later, in a later round of the search; the ring may
  hold jobs of an earlier boot stage when it is reset.
* `SecMemory`: `heap` and `secBlocks` are the allocator; each call of `rng.c` or
  `hw_key_blob.c` allocates as the code does, reuses the static descriptor where
  it does, and builds it word by word.  `Read` decodes the words the way the
  engine does.
* `HashDrbg`: `instance` is the one DRBG of the `glob` section, `drbgPc[c]` and
  `call[c]` the place and the stack of core c.  A value of V is named by its seed
  and the updates since.  `alone` is a history variable: no two calls have
  overlapped.  `served` and `generated` are histories as well.  A seed is the number
  of its draw, not its bytes: `get_entropy` takes the bytes from a counter of 8 bits
  (`entropy.c:57-59`), which come again after 256 of them, and the model does not say so.
* `Sha256`: `sha` is the context with the blocks it was applied to in place of H;
  `hash_df`, `byte_add` and the hex conversions are functions on bytes.
* `Sfp`: `fuses` outlives a boot and `mirror` does not.  `fuse_hdr` is the script
  that the boot finds, one check and write per field in the order of
  `provision_fuses`, the burn last; `scratch4` is the error a boot leaves behind.
  A boot may end between any two steps, and a burn in the middle of its fields
  (`SfpCuts`) or of one field's bits (`CutShort`).
* `Spd`: `core_context[c]` is the context of each world, `el1[c]` what is in the
  EL1 registers, `sp_ep_info` and `sp_vectors` the two variables all cores share.
  `worldRegs[c]` is a history: what each world left in its registers.  `spd_init` runs
  once on a core.  `SpdCoreOff` and `_mon_core_restart` are CPU_OFF and the way back,
  during which both contexts stay in place (`psci.s:1130`, `monitor.s:435-534`);
  `NoLoadable` is a boot without an image (`ppa_main.c:176`).
* `SdMmc`: an action is one command and its response.  `sdCard` is the card
  (sort, state, mode, the refusal it has to report), `sdHost` the controller with the clock of the bus.  A DMA read samples two
  registers one after the other while the controller goes on.
* `I2c`: an action ends where the driver waits for the controller; `eeprom` says
  which page is selected and whether the device drives the bus.
* `DdrTiming`, `DdrConfig`: pure operators.  A register is the record of its
  fields, with the widths of the fields.
* `DdrInit`: `ddrTodo` is the list of register writes that `ddrc_set_regs` has
  still to do, `ddrHw[c]` each controller.  `HwDataInit` and `HwModeSent` are the
  controller's own steps, so each poll may find it late.
* `Mmdc`: one write per action; `mmdcMr` are the mode registers of the DRAM,
  `mmdcBusy` what the controller is doing.
* `Tzc`: `tzcRegion` and `gate` are the device; pages of 2 MB are the unit.

### Fairness

`FairSpec` has `WF_vars(Step(c))` for each core: a core inside EL3 keeps
executing, as nothing preempts it.  A wait (`OffWake`, `TaskWake`) is a step
only when its event is there.  The OS is not obliged to call, a wfi is not
obliged to end spuriously and a suspend is not obliged to be interrupted.

`JobRing!FairSpec` has `WF_vars(Step(c))` for the same reason and `WF_vars(HwNext)`:
the engine runs what it was told of, after any delay.  `CallsReturn` does not
need the second: polls are bounded.  `ReleaseEnds` does: `flush_job_rings` has no
bound.

`DdrFair` and `SdFair` say that the boot core, which has nothing else to do, keeps
running the driver.  The SD controller promises nothing, as every wait of the
driver is bounded by a timer.  A DDR controller must send the mode register
commands it was given (`HwModeSent`): `ddrc_set_regs` waits for that without
bound (`ddrc.c:142-154`).  Its data initialisation need not end.

## 3. Runs

| run | instance | checks |
|---|---|---|
| `smp_boot` | 3 cores, CORE_RELEASE only, core 0 calls CPU_ON, two requests | `EntryIsOneRequest`, `PendingCoreRuns` |
| `hotplug` | 2 cores that turn each other on and themselves off, one an OCRAM worker at first, a misaligned request, no suspends | `RoutingRestored`, `CallsReturn`, `AbortTakesEffect`, `SleeperIsWoken` |
| `suspend` | every feature: core 0 calls CPU_ON, two cores turn themselves off and suspend, a third is fused off, a DDR that may fail | `TypeOK`, `StateIsHonest`, `PendingIsNotRunning`, `PowerIsLegal` (refinement of `PsciPower`) |
| `lost_wakeup` | violation of `NoLostWakeup` | finding 1 |
| `final_core` | violation of `FinalCoreStays` | finding 2 |
| `failed_power_down` | violation of `RoutingRestored` | finding 3 |
| `job_ring` | 1 core, 3 slots, 2 polls, 2 entropy delays, random numbers and keys, every fault | `TypeOK`, `RingIsCounted`, `LoneAnswerIsFresh`, `RingIsQueue` (refinement of `JobQueue`), `CallsReturn`, `ReleaseEnds` |
| `late_answer` | violation of `KeyIsProduced`, no fault, one poll | finding 4 |
| `shared_buffer` | 2 cores, violation of `NumberIsNew` | finding 5 |
| `drivers` | one driver at a time, inputs below | the table below |
| `secondary_entry` | 3 cores, violation of `EntersThroughVector` | finding 6 |
| `switch_refused` | an MMC card that refuses high speed, violation of `ClockFitsCard` | finding 7 |

In `drivers` the variable `driver` chooses one driver at the start and only that
one moves, so the states of the run are those of the drivers side by side
(about 370 000), not their product.

| driver | inputs | checks |
|---|---|---|
| `Tzc` | identified or not, 1 or 3 filters, too few regions, too few address bits; gates that follow late | `SecureWindow`: no gate is open while half of the list is written, and behind it only the trusted OS memory is closed to the normal world |
| `Mmdc` | waits that end late, twice, or never | `CalibrationMode`: each calibration finds the DRAM in the mode it measures, accesses find it in normal mode |
| `Ddr*` | 8 boards, up to 4 slots filled with 5 kinds of DIMM in legal and illegal mixes, 1600 to 2133 MT/s, controllers that are late at each poll, a BIST that fails or hangs | `MemoryIsBacked`, `TimingsCovered`, `ModesAgree`, `BoundsAreRestored`, `SuccessIsInitialised`, `InitUsesFinalSettings`, `DdrEnds` |
| `I2c` | 2 pages of 3 bytes; silence, lost arbitration, a busy bus at every wait | `SpdIsWhole`: without a failure every byte is read once and the bus is left free |
| `SecMemory` | heaps that run out early, late and not at all, 5 calls | `DescriptorsHoldTogether`: no two blocks overlap, and a reused descriptor decodes into whole commands |
| `SecBoot` | thresholds at, between and beyond the delays, handles and jobs left by an earlier stage, one late job | `SecIsReady` |
| `Sfp` | 7 scripts over 3 boots, 8 random keys, every write and burn may fail, a burn may stop half way | `FusesSettle`, `OtpmkIsCodeWord` |
| `Spd` | one secondary besides the boot core, 2 calls of each, one CPU_OFF and restart, with and without an image | `WorldsStayApart` |
| `SdMmc` | 5 kinds of card, with and without DMA, every command may fail or time out | `ReadIsRight`, `ClockFitsStatus`, `SdEnds` |
| `HashDrbg` | 2 cores, 5 calls of which 3 may overlap, interval 2 | `NumbersAreSeeded`, `ErrorIsTransient`, `SeedIsUsedUp` |
| `Sha256` | messages of up to 130 bytes in pieces of 1, 4, 55 and 64; sums of 3 bytes | `BlocksAreFips`, `HelpersAreExact` |

Bounds of the PSCI runs.  Two cores are enough for one caller against one
target; `smp_boot` has a third for a second target, `suspend` one that is fused off,
for a refusal and for a count that passes it.  Two members of `Args` tell an old request from a new one.
`PSCI_ABORT_CNT` is 1 or 2 in place of 100: the watch either sees an effect or
runs out, and 2 also takes the way round.  No counter is otherwise bounded:
calls repeat for ever.

Bounds of the ring.  It has 3 slots in place of 64: the least size at which a
ring can hold a job that was given up, another one, and be full; indices wrap,
jobs pile up to the last slot, and the theorems of section 4 cover every size.
Two polls give up or go round once, two entropy delays fail for good or try
again.  The engine fails jobs, returns entries without descriptor, raises ring
errors and refuses resets in any combination and order.

Bounds of the drivers.  A poll that is repeated finds nothing that its first
round could not find, so `MmdcRounds`, `SdPolls` and `SEC_TIMEOUT` are 1 or 2.
`RESEED_MAX_SHORT` is 2: an interval of one could not be off by one.  `DrbgCalls`
gives a core three seeds in a row.  `MaxMessage` passes the padding boundary of
55 bytes and the block boundary of 64 twice.  Three boots let a script follow
another one and be found again.  Boards, rates and DIMMs are those of the
sources; timings are those of real DDR4-2400 parts.

Callers.  `PendingIsNotRunning`, `PowerIsLegal` and `EntryIsOneRequest` are claims
about one core issuing CPU_ON, the last one besides about ports without CPU_OFF
and without power-down suspends (section 4 says why).  With two callers
on one target the code mixes their parameters and may mark a core that already
runs, as the parameters are stored before the claim (`psci/psci.s:757-826`) and
the state is not tested again under a lock.

`CHECK_DEADLOCK FALSE` in the driver runs: a driver that is through, a boot that
panics and a core that has used up its calls really stop.

Findings (PROJECT.json quotes the code and the comments):

1. **Lost wake-up.**  `_soc_core_entr_off` stores CORE_OFF before it clears
   pending SGIs.  A CPU_ON in between marks the core and sends an SGI that is
   then discarded: CPU_ON has answered success, later calls answer ON_PENDING,
   and the core sleeps until an unrelated wake-up.
2. **The final core.**  Two cores that call CPU_OFF together count each other.
3. **A failed system power-down** returns to its caller with IRQs routed to EL3
   and the MMU off.
4. **The late answer.**  `run_descriptor_jr` takes any job that ends for its own.
   After one call has given up, the next one answers success at once with a
   key buffer that no job has written.  `LoneAnswerIsFresh` is what does hold.
5. **The shared buffer.**  Two cores that ask for random numbers together use
   one static buffer and are handed the same number; the `memset` that should
   clear it has its arguments swapped.
6. **The shared entry point.**  Two secondaries that are started together write
   the entry point of the trusted OS into one variable, and one of them enters
   at the address that the other has just put there.
7. **The refused switch.**  The loop that waits for the result of the switch to high
   speed asks for the status again while it shows SWITCH_ERROR, and the last status
   decides (`sd_mmc.c:381-398`).  A card that reports the refusal once is clocked at
   52 MHz in its default mode.  `ClockFitsStatus` is what does hold: the clock fits
   every card that has cleared no refusal when the driver read it.

### Observations

Facts about the code met while modelling, which the models follow and the
properties take into account.  None is the subject of a run.

* **TZC.**  `set_gate_keeper` waits without bound (`tzc400.c:153`).  A controller
  that is not identified, has too few regions or too few address bits makes
  boot hang.  The TZC-380 set-up of the LS1043 is never called.
* **MMDC.**  `set_wait_for_bits_clear` counts its timeout and never leaves the
  loop (`fsl_mmdc.c:55`).
* **SEC.**  `free()` does nothing, so every key call uses up four more blocks, and
  `init_job_ring` does not look at what `alloc()` answers
  (`sec_jr_driver.c:64-73`).  `configure_jr` starts the ring before its TrustZone
  bit is set.  `rng.c:60-66` tests state handle 0 in both branches and never
  finds handle 1.  An instantiation that ends late makes later rounds fail, and
  `sec_init` answers -1 with a usable RNG; `ppa_main.c:162` ignores the answer.
  The delay 12800 is the end of the search and is never tried.
* **DDR.**  `regs.c:902` reads outside `wr_table` for a write recovery of less than 10
  clocks, which is that of 1200 MT/s and below; no run has such a rate and the theorems
  leave them out.  `init_ddr_sdram` overwrites the result of one controller with that of
  the next (`ddr.c:510`), so `SuccessIsInitialised` is about the last one; the
  caller ignores a failure.  A DIMM that is only in slot 1 leaves nothing
  mapped (`opts.c:302`, `addr.c:157`).  Boards panic at rank counts without a row
  in their table, and the fallback to the highest rate reads the terminator
  (`ddr_init.c:94-98`).  Outside the rates of the boards: WRREC is 0 at 1733,
  1700 and 2000 (`regs.c:254`), EXT_REFREC overflows for 16 Gb at 2133, the CL
  and CWL tables lack values, PAR_LAT is 0 in one register and 5 in the other
  above 2400.  The CAS latency is tAA over the period in whole ps (`regs.c:1424`),
  which may be half a ps too long, while the other DIMM times use the rate; the
  times of the DIMMs leave room for it.  A BIST that times out is no error.
* **SD.**  Loops end at `>=` the limit and the test behind them asks for `>`, so an
  end at the exact tick counts as success (`sd_mmc.c:965-970`).  CMD13 with
  R1_ERROR answers 0 (`sd_mmc.c:750`).  The wait for a DMA read ends as well when the
  data line goes idle between the samples of its two registers (`sd_mmc.c:553-565`),
  and then the read succeeds although its transfer has not ended: `ReadIsRight` is
  about reads whose transfers were all seen to end (`sdRead.unseen`).
* **SFP.**  The answer of `get_rand_bytes_hw` is ignored (`sfp.c:233`, `262`).  A
  *_MIN script that is found on the next boot ors a second key over the first:
  `OtpmkIsCodeWord` excludes that, and a key that a burn left half way (`keySpoilt`).  The wait for PROGFB has
  no bound (`sfp.c:436`).
* **DRBG.**  V is copied (`hash_drbg.c:614`), the block compared with `comp` (625)
  and V moved on (486) without a lock: two cores that ask together can copy the
  same V, both pass the continuous test and both be handed the same block.
* **I2C.**  `i2c_write` returns without a stop when the start fails, and `read_spd`
  ignores a page selection that fails (`dimm.c:83`, `86`): `SpdIsWhole` is about
  transfers that did not fail.
* **SPD.**  Without an image `spd_init` is skipped on the boot core
  (`ppa_main.c:176-177`) and its TPIDR_EL3 stays unset; a call of that core for a
  trusted OS reads its context through it all the same (`sp_main.c:193-201`).  The
  model has no such call.
* **PSCI and boot.**  AFFINITY_INFO of a cluster computes a state and answers 0
  (`psci.s:1009`).  A core chooses the EL it initialises from the SPSR of its
  last call (`monitor.s:448`).  Boot polls the done flag of the OCRAM worker
  without bound (`soc-ls1043/soc.s:1796`).

## 4. Proofs

The theorems hold for every value of the constants.  `Psci`'s are about every
number of cores and clusters, every feature set and any arguments, from the
three named assumptions of `Psci`: a system of whole clusters, core 0 the boot
core and not fused off, and nonzero arguments.

* `PsciProofs!TypeCorrect` (`Spec => []TypeOK`) has one lemma per handler and a step
  per action.  The only arithmetic is in `ClusterRange`: the cores a cluster
  request counts exist.
* `PsciProofs!Restored` (`Spec => []RoutingRestored` unless the DDR fails) needs to
  know what every handler has done to SCR_EL3 and SCTLR at every place, and that
  the SCR_EL3 a caller saves for its target is one nothing was done to: `Routed`.
  A step of one core never disturbs that of another (`Reroutes`).
* `PsciHonest!Honest` (`Spec => []StateIsHonest`, any set of callers) needs a
  strengthening, `HonestInv`.  A core leaves reset when its bit in BRR is set, and
  its state must be CORE_PENDING by then: `ReleasedIsMarked` says so for the bits
  that are set and for those about to be.  A system power-down that fails must
  not find CORE_STANDBY: `StandbyIsStandby`.  The proof rests on one observation,
  `Honestly(c)`: a step of core c moves only core c, and the one state it can
  store for another core is CORE_PENDING, which says nothing of the place.
  `HonestStep` shows that such a step preserves `HonestInv`; one lemma per handler
  shows that every action is such a step.
* `PsciHonest!Unmarked` (`Spec => []PendingIsNotRunning` for one caller of CPU_ON)
  rests on `Honest`.  CPU_ON marks its target without looking again, so the
  invariant says that a target seen off, in reset or in wfe still is when it is
  claimed (`SeenIsStillSo`): it does not leave such a state by itself, and nobody
  else is inside CPU_ON (`CallersCall`).

* `PsciHonest!Refines` (`Spec => PowerIsLegal`, one caller of CPU_ON and no task
  cores) rests on `Unmarked`: the place of a core fixes its state in `PsciPower`
  (`StateByPlace`), and a step stores at most one state, which is a move of the life
  cycle from the place it is stored at (`MovesOne`, `StepMoves`).  A task core can
  store CORE_WFE over a mark (`utils.s:802`), so the theorem excludes it; the run
  `suspend` checks the refinement on a port without them.
* `PsciEntry!EntryOfOneRequest` (`EntryIsOneRequest`, one caller of CPU_ON on a port
  without CPU_OFF and without power-down suspends) rests on the invariant of
  `Unmarked`.  The parameters of a request are three stores before the claim and
  three loads by the woken core.  `StoredSoFar` and `LoadedSoFar` say which of them
  have happened at each place of the caller and of the target, and that nobody
  stores in between.  Both conditions are needed, as TLC shows on small
  instances: the abort flag of a CPU_ON that has returned can turn a core that
  calls CPU_OFF round while the next call is between its stores, and a core that
  suspends with power-down stores its own resume address in the same fields.

`JobRingProofs!TypeCorrect` (`Spec => []TypeOK`) holds for every size of the ring
and any number of cores.  It needs one more fact, `Bounded`: the engine never
holds more jobs than its ring has slots, although cores that race on the ring
can tell it of a slot twice; the engine refuses, and an index never leaves the
ring.

`RingCounted`, `RingQueues` and `LoneAnswer` of `JobRingProofs` are about one calling core:
what they say is false for two, which race on `pidx`.  Sizes, polls, rounds, the
services called and the faults are arbitrary.

* `RingCounted`: the indices and the counts move at different times, so
  `Counted` states where each must be when the other has moved (`Step1`: the
  engine was told and `pidx` has not moved yet).  `Room` makes it inductive: the
  test for a full ring is still true when the job is counted, and the loop over
  finished jobs never passes the jobs that are done.
* `RingQueues` (`Spec => RingIsQueue`, the refinement of `JobQueue`) rests on it.  By
  `Counted` the slot the driver writes is outside those the engine has still to
  run; `Occupied` adds that a ring that is not in use holds nothing, so that
  resets change no queue, and that the slot holds a job when the engine is told
  of it.  `IsAppend` and `IsTail` turn ranges of slots into sequences.
* `LoneAnswer` rests on `RingCounted`.  `Written`: a slot keeps its job until the call
  ends.  `Lone`: the job of a call that found the ring empty stays the only one,
  so the slot the engine runs next, the slot whose outcome is read and the slot
  of the call are one.  `Serving`: the job is of the kind its call waits for.

The drivers:

* `SecurityProofs!FusesAreWrittenOnce` (`FusesSettle`, any scripts, keys, failures, cut
  burns and boots).  Every field is guarded by a look at the mirror, and the fuses change
  in the last step of a boot: `SettleInv` carries from the reset to the burn that a
  blown field is in the mirror as it is in the fuses (`MirrorAgrees`) and that the
  device was found without write protection (`NotProtected`).
* `SecurityProofs!KeyIsCodeWord` (`OtpmkIsCodeWord`, any 256 bits of the generator, any scripts,
  failures and boots): inverting a bit flips the parity and the binary digits of
  its number in the exclusive or (`OnesToggle`, `ToggleCounts`), so inverting the bit
  that the exclusive or names clears all its digits, and bit 0 then repairs the
  parity.  `KeyInv` carries to the burn that the mirror holds a code word that
  contains what is in the fuses.  As the property does, it leaves out the boots
  after a `*_MIN` script met a key with more than the minimal bits or a burn ended
  within the key (`keySpoilt`).
* `SecurityProofs!RegistersStayApart` (`WorldsStayApart`, any cores, calls and CPU_OFFs):
  `WorldsInv` says where the registers of the world that does not run are, on a core
  that sleeps too, and `BootInv` that no secondary starts before the boot core is
  through and has told its vectors, if there is an image.
* `SecurityProofs!OneByOneEntersThroughVector`: with `SpdOneByOne`, the normal world
  waits for a core before it starts the next one, and the shared entry point is
  that of the core that uses it.  Run `secondary_entry` shows what happens else.
* `SecurityProofs!EngineIsReady` (`SecIsReady`, any engine, any late answers): the delays
  tried are a prefix of the 24 (`DelaysInOrder`), and the handle is instantiated by
  the first one that is enough unless a job was given up (`HandleFollows`), whose
  late answer the loop takes for that of a later job (`JobsCounted`).
* `SecurityProofs!DescriptorsAreWhole` (`DescriptorsHoldTogether`, any heap and any number
  of calls): the blocks lie one behind the other below `heap.start` (`HeapFollows`),
  a call and the static pointers hold blocks of the sizes they asked for
  (`JobFollows`, `PointersFollow`), and a descriptor begins with the words of one of
  the three jobs (`DescriptorsFollow`), whatever its memory had before.  That a
  pointer is not to the descriptor itself follows from the sizes: blocks that lie
  apart and have different sizes are at different places.
* `HashDrbgProofs!EveryNumberIsSeeded` (`NumbersAreSeeded`) and `ErrorEnds`
  (`ErrorIsTransient`), any number of cores without a lock: V is seeded before the
  instance says so and never returns to zeros, so a core that has once seen
  INSTANTIATED copies a seeded V whatever the others do (`VSeeded`, `CopySeeded`).
* `HashDrbgProofs!SeedsAreUsedUp` (`SeedIsUsedUp`), any interval: until two calls
  overlap, at most one core is inside and what it has done so far tells how the
  counter of the instance stands to the requests its seed has served (`LoneCount`);
  no seed to come is one that was drawn (`LoneInstance`).
* `HashDrbgProofs!BlocksFips` (`BlocksAreFips`, any message below 2^28 bytes in pieces of
  any lengths): `ShaInv` says that the context holds the message byte for byte, in
  the blocks that were transformed and in the front of its buffer (`Holding`), and
  after `sha256_finalize` what FIPS 180-4 asks for (`Padded`).  `Stored` is the lemma
  both rest on: `Store` appends its bytes to the stream that the context holds,
  whatever the buffer held behind them.
* `HashDrbgProofs!HelpersExact` (`HelpersAreExact`, any bytes): `HexUndone`, `DfFills` and
  `SumIsModular` take the conversions, `hash_df` and the carries of `byte_add` one by
  one.  It assumes `MaxMessage <= 255 * 32`: `hash_df` refuses what is longer, and the
  property compares it with the message's length.  The sums are of arrays of three
  bytes with one, two or three others, those that `ShaNext` adds.
* `MemoryProofs!WindowIsSecure` (`SecureWindow`, any filters, regions, address bits and
  gates): regions are written in order while all gates are shut (`GatesFollow`,
  `ListFollows`), and `ListIsWindow` shows what the complete list decides.
  `EveryPageIsSecure` states it for all 32768 pages, where TLC has the edges.
* `MemoryProofs!CalibratesInMode` (`CalibrationMode`, any patience): `MmdcInv` says for each
  of the 22 steps what the mode registers are, and that an operation is under way
  only while its own step waits for it.
* `MemoryProofs!MemoryIsInitialised` and `SettingsBeforeInit` (`SuccessIsInitialised`,
  `InitUsesFinalSettings`; any boards, DIMMs and rates): `DdrInv` follows the list of
  register writes (`PlanFollows`, `CommandsFollow`), what each place of `ddrc_set_regs`
  knows of the controller (`InitFollows`), and its bounds (`BoundsFollow`).  A controller
  initialises only once it is enabled, which is the last write of the list.
* `MemoryProofs!AddressMapIsBacked` (`MemoryIsBacked`) and `BoundsComeBack`
  (`BoundsAreRestored`; any boards, errata and DIMMs): `LayoutInv` carries what the
  SPDs, the options and the address map settle to the end of boot.  `Placed` says
  of each controller that its map has none, one, two or four ranks of one kind of
  DIMM (`MapsRanks`), and of two controllers that they lie side by side or share
  one range (`SideBySide`, `Shared`).  `MapsAlone` and `MapsTogether` show that the
  registers computed for such a controller are backed, `AddressesLaid` that
  `assign_intlv_addr` and `assign_non_intlv_addr` place them so, and
  `ComputeIsLaid` that the number of fields adds up to the size of a DIMM, which
  is where `DimmAssumption` is needed: sizes are powers of two (`Powers`).  A test of
  an interleaved controller halves its range, which is then as large as its own
  memory (`TestedIsBacked`).
* `MemoryProofs!BothAreTold` (`ModesAgree`; any boards and any DIMMs that are `Expressed`):
  `TimesInv` carries from `parse_spd` to the end that the times are those of the DIMM
  and that no option overrides a latency (`LeftToDimm`), so that the registers are
  `compute_ddrc_regs` of both (`ComputedFor`).  `RegistersTell` lists what the
  registers hold; `RecoveryAgrees` and `CasAgrees` put fields, extension fields
  and tables together; `ClocksLast` is the rounding of `picos_to_mclk`.  `Expressed`
  asks for a rate in `AgreedRates`, a CAS latency that MR0 has a code for and a column
  delay of at most 11 clocks.  The rates are those from 1201 to 2402 MT/s less 1601 to 1733 on
  a bus of 64 bits and 1867 to 2000 on a narrower one: there a write recovery of 13
  or 15 clocks does not fit its extension field (`regs.c:254`), and below 1201 MT/s one
  of less than 10 clocks is read from outside its table (`regs.c:902`), of which the
  model says nothing.  No board has
  them, and every setup of the run `drivers` is `Expressed`.
* `MemoryProofs!TimesAreCovered` (`TimingsCovered`; any boards and any DIMMs that are
  `Coverable`) rests on the same `TimesInv`.  `RegistersTime` lists the fields,
  `FieldsShow` puts them together with their extension fields, `LatencyIsEnough` is
  about the CAS latency and `TimeoutCovers` about the wait for D_INIT, for which
  `LayoutInv` gives the size of the memory.  `Coverable` adds to `Expressible` that the
  fields have room for the times (31 clocks of tRP and tRCD, 63 of tRAS and tFAW,
  15 of tRRD, 519 of tRFC) and that a rank has 512 MB or more: below that the
  rounding of the wait to 10 ms can outweigh its factor of two.  It also asks
  `LatencyLasts`.  The CAS latency is computed from the period in whole ps
  (`regs.c`), all other times from the rate; where the period is rounded up, as at
  1866 and 2133 MT/s, the halves of a ps of up to 24 clocks add up, and the latency
  must have as much to spare.  Every setup of the run `drivers` is `Coverable`.
* `BusProofs!SpdReadWhole` (`SpdIsWhole`, any page length): `TransferFollows` is what the
  driver, the controller and the EEPROM have in common at each wait of a transfer.
* `BusProofs!EveryReadIsRight` (`ReadIsRight`, any cards and polls): an earlier DMA
  transfer that was not seen to end may still move data, so `ReadFollows` says
  which blocks are in the buffer and which one is on its way.  A card answers a
  read by block or by byte as `CapacityKnown` says.
* `BusProofs!ClockIsLegal` (`ClockFitsStatus`, any cards and polls): the bus is fast only
  if the card is in its high-speed mode or has cleared a refusal that the driver read
  (`SpeedFollows`, `BusClock`), through every command that is lost, with its response
  or before it reached the card.  Without the second condition it is false, as the
  run `switch_refused` shows.

Assumptions.  Besides those of `Psci`, each module names what its constants must be:
`SdAssumption`, `SecBootAssumption`, `SecMemoryAssumption`, `DdrAssumption` and so on type the
inputs.  `DdrAssumption` says that a board has a controller, one or two slots for
each (`CONFIG_SYS_DIMM_SLOTS_PER_CTLR`) and a data rate above one.  `DimmAssumption`
says that an SPD whose checksums are right tells the truth: it names as many
rows, columns and banks as its capacity asks for, a width of 16, 32 or 64 bits, and
a rank of 64 MB or more.  The code computes the capacity from one set of fields
and the address bits from another and compares them nowhere.  `ShaAssumption` says that a message is shorter than 2^31
bits, so that the upper half of its length is zero, and that bytes are bytes.  TLC
evaluates them in the run `drivers`.

Only model-checked is liveness, which is out of the prover's reach: `PendingCoreRuns`,
`CallsReturn`, `AbortTakesEffect`, `SleeperIsWoken`, `ReleaseEnds`, `DdrEnds`, `SdEnds`.

Recursive functions.  The library's theorems on well-founded relations that take no
operator (`WFMin`, `NatLessThanWellFounded`) can be cited, and `LeastNatural` takes from
them that a set of numbers has a least element.  Without induction over an operator,
a fact about every place of a recursive function is proved by the least place where
it fails, as in the search for a delay and for a block.  `RecursionExists` is the
existence theorem: a function with `v[0] = b` and `v[i] = F[v[i - 1], i]` exists, whatever
F is.  What `ValueOf` and `Filling` compute follows from it (`ValueSteps`,
`FillingSteps`); blocks laid one behind the other have a closed form (`Flattened`).

## 5. Not modelled

* PSCI: SYSTEM_OFF and SYSTEM_RESET do not return; PSCI_VERSION and PSCI_FEATURES
  read constants.  The handlers of the ports other than the LS1043 are modelled
  as far as they follow the same steps, with the feature flags of each port.
* Exception levels and AArch32 entry, caches, errata, page tables and the
  register sequences of clocks and device disables have no interaction that the
  properties could tell apart.
* Job ring and SEC: interrupt mode and coalescing, which `sec_init` does not
  select, the registers of TRNG, ICID and RTIC, and the memory that a call writes
  through a NULL `job_ring`.  `JobRing` does not have the allocations and
  `SecMemory` not the interleavings: two cores that ask for keys together and
  share the static pointer to the descriptor (`hw_key_blob.c:110`) are in neither.
* DRBG: the compression function of SHA-256; `hash_drbg_uninstantiate`,
  `get_rand_bits` and `bytes_to_bits`, which nothing calls.
* DDR: deep sleep, `ddrc_disable`, printing, the SHMOO code, and `dpddr_init`,
  which nothing calls: `init_ddr_sdram` for a third controller on its own.
* SD: `emmc_init`, which nothing calls: `sd_mmc_init` told to look for an eMMC first.  I2C:
  `i2c_probe_chip`, which nothing calls.  SFP: `prog_gpio_povdd`, which is empty.
* TZC: the TZC-380 of the LS1043 and `mark_ocram_secure`, a straight list of writes.
* UART, timer, debug text, `relocate`, CRC and byte loops: sequential, without
  state that survives a call.

## 6. Plan

Done: `Psci` with `PsciPower`, `JobRing` with `JobQueue`, the drivers of
`MCDrivers`, and the theorems of section 4.

1. `Boot`: the OCRAM task, the worker's flags and the shared start address,
   composed with CPU_ON.
2. `Smc`: routing of SMC32 and SMC64 calls, `exit_boot_svcs` from several cores.
3. `Ls1046Power`: retention and release registers shared by cores.
4. `RuntimeLayout`: the regions `_getBaseAddrNS` hands out, checked against the
   layout of `runtime_data.h`.
