-------------------------------- MODULE Psci --------------------------------
(***************************************************************************)
(* The PSCI services of the secure monitor (psci/psci.s) together with the *)
(* core power handlers they call in the SoC port (soc-ls1043/soc.s) and    *)
(* the two ways back to the normal world (monitor/monitor.s).              *)
(*                                                                         *)
(* Every core is a sequential process: EL3 code runs with its exceptions   *)
(* masked, so pc[c] is the place of core c in the handler it executes, or  *)
(* "os" when it executes the normal world.  The cores share the data areas *)
(* of runtime_data.s.  No handler takes a lock: the macros Acquire_Lock_01 *)
(* and Release_Lock_01 of psci.h are never used.  An action therefore does *)
(* at most one access to the shared area.  Those accesses go to memory     *)
(* (dc ivac before a load, dc cvac and dsb after a store), so they are     *)
(* interleaved sequentially.                                               *)
(*                                                                         *)
(* The arguments of one CPU_ON or CPU_SUSPEND call (entry point, context   *)
(* id, the caller's SPSR/SCR/SCTLR/HCR) are one member of Args: what the   *)
(* properties tell apart is which call a saved field comes from.           *)
(***************************************************************************)
EXTENDS Integers, FiniteSets

CONSTANTS
  CPU_MAX_COUNT,    \* number of cores, core 0 is the boot core
  CPU_PER_CLUSTER,  \* cores of one cluster
  CLUSTER_COUNT,
  PSCI_ABORT_CNT,   \* polls of CPU_ON for the effect of an abort request
  Features,         \* the SOC_* flags the SoC port sets to 1 (soc.h)
  Disabled,         \* cores fused off in COREDISR
  TaskCores,        \* cores parked by _prep_ocram_init after the OCRAM task
  Callers,          \* cores from which the OS calls CPU_ON
  Args,             \* identities of the arguments of a call
  Misaligned,       \* the Args whose start address is not 32-bit aligned
  HwFaults          \* hardware failures that may occur: {} or {"DDR_SLEEP"}

Core == 0 .. CPU_MAX_COUNT - 1

StandbyKind == {"CORE_STANDBY", "CLUSTER_STANDBY", "SYSTEM_STANDBY"}
PwrDownKind == {"CORE_PWR_DWN", "CLUSTER_PWR_DWN", "SYSTEM_PWR_DWN"}
ClusterKind == {"CLUSTER_STANDBY", "CLUSTER_PWR_DWN"}
SystemKind  == {"SYSTEM_STANDBY", "SYSTEM_PWR_DWN"}
SuspendKind == StandbyKind \cup PwrDownKind
Feature     == SuspendKind \cup {"CORE_RELEASE", "CORE_RESTART", "CORE_OFF"}

ASSUME CountAssumption ==
  /\ CPU_PER_CLUSTER \in Nat \ {0}
  /\ CLUSTER_COUNT \in Nat \ {0}
  /\ CPU_MAX_COUNT = CLUSTER_COUNT * CPU_PER_CLUSTER
  /\ CPU_MAX_COUNT \in Nat \ {0}
  /\ PSCI_ABORT_CNT \in Nat \ {0}

ASSUME SocAssumption ==
  /\ Features \subseteq Feature
  /\ Disabled \subseteq Core \ {0}
  /\ TaskCores \subseteq Core \ ({0} \cup Disabled)
  /\ Callers \subseteq Core
  /\ HwFaults \subseteq {"DDR_SLEEP"}

ASSUME ArgsAssumption ==
  /\ Args \subseteq Nat \ {0}
  /\ Misaligned \subseteq Args

-----------------------------------------------------------------------------
(* Core states, return codes and answers of AFFINITY_INFO (psci.h).        *)

CORE_IN_RESET     == 0
CORE_DISABLED     == 1
CORE_OFF          == 2
CORE_STANDBY      == 3
CORE_PWR_DOWN     == 4
CORE_WFE          == 6
CORE_OFF_PENDING  == 9
CORE_WORKING_INIT == 10
CORE_OFF_MAX      == 15
CORE_ON_MIN       == 16
CORE_PENDING      == 16
CORE_RELEASED     == 17

State == {CORE_IN_RESET, CORE_DISABLED, CORE_OFF, CORE_STANDBY, CORE_PWR_DOWN,
          CORE_WFE, CORE_OFF_PENDING, CORE_WORKING_INIT, CORE_PENDING,
          CORE_RELEASED}

PSCI_SUCCESS       == 0
PSCI_NOT_SUPPORTED == -1
PSCI_INVALID_PARMS == -2
PSCI_DENIED        == -3
PSCI_ALREADY_ON    == -4
PSCI_ON_PENDING    == -5
PSCI_NOT_PRESENT   == -7
PSCI_DISABLED      == -8

AFFINITY_LEVEL_ON   == 0
AFFINITY_LEVEL_OFF  == 1
AFFINITY_LEVEL_PEND == 2

Status == {PSCI_NOT_SUPPORTED, PSCI_INVALID_PARMS, PSCI_DENIED,
           PSCI_ALREADY_ON, PSCI_ON_PENDING, PSCI_NOT_PRESENT, PSCI_DISABLED,
           AFFINITY_LEVEL_ON, AFFINITY_LEVEL_OFF, AFFINITY_LEVEL_PEND}

-----------------------------------------------------------------------------
(* Places in the handlers.                                                 *)

OnLabel  == {"on_check", "on_spsr", "on_start", "on_cntxt", "on_reread",
             "on_abort", "on_watch", "claim_reset", "claim_off", "claim_wfe",
             "release", "restart", "sev"}
OffLabel == {"off_count", "off_state", "off_pend", "off_phase1", "off_phase2",
             "abort_clr", "abort_pend", "off_enter", "off_sgi", "off_wfi",
             "off_hit", "off_woke"}
ExitLabel == {"exit_start", "exit_release", "exit_spsr", "exit_cntxt"}
SusLabel == {"sus_count", "sus_cntxt", "sus_start", "sus_state", "sus_wfi",
             "sus_release", "sus_failed", "sus_elr", "sus_x0"}
TaskLabel == {"task_check", "task_set", "task_wfe"}

Label == {"os", "reset"} \cup OnLabel \cup OffLabel \cup ExitLabel
           \cup SusLabel \cup TaskLabel

VARIABLES
  coreState,  \* CORE_STATE_DATA of each core's data area
  abortFlag,  \* ABORT_FLAG_DATA
  param,      \* SPSR_EL3_DATA, START_ADDR_DATA, CNTXT_ID_DATA
  savedScr,   \* SCR_EL3_DATA
  sgi,        \* SGI 15 is pending at the core (GICD)
  brr,        \* cores released from reset (DCFG_BRR)
  evt,        \* parked task cores whose event register is set
  pc,         \* place in the handler
  frame,      \* registers a handler keeps: target, arguments, counters, ELR/SPSR
  scr,        \* routing bits set in SCR_EL3
  kept,       \* SCTLR_EL1/2 are as the normal world set them since it was entered
  out         \* how the last step left EL3, if it did

dataVars == <<coreState, abortFlag, param, savedScr>>
hwVars   == <<sgi, brr, evt>>
cpuVars  == <<scr, kept>>
vars     == <<dataVars, hwVars, pc, frame, cpuVars, out>>

NoArg   == 0
ArgData == Args \cup {NoArg}
Param   == [spsr : ArgData, start : ArgData, cntxt : ArgData]
NoParam == [spsr |-> NoArg, start |-> NoArg, cntxt |-> NoArg]
Frame   == [tgt : Core, arg : ArgData, kind : SuspendKind \cup {"none"},
            idx : Core, cnt : Nat, at : Param]
NoFrame == [tgt |-> 0, arg |-> NoArg, kind |-> "none", idx |-> 0, cnt |-> 0,
            at |-> NoParam]

\* A call returns to its caller with a status in x0, or the core enters the
\* normal world at the place its data area names.
Out   == [ev : {"none", "return", "entry"}, core : Core, val : Status, at : Param]
NoOut == [ev |-> "none", core |-> 0, val |-> PSCI_SUCCESS, at |-> NoParam]

TypeOK ==
  /\ coreState \in [Core -> State]
  /\ abortFlag \in [Core -> {0, 1}]
  /\ param \in [Core -> Param]
  /\ savedScr \in [Core -> SUBSET {"IRQ", "FIQ"}]
  /\ sgi \in [Core -> BOOLEAN]
  /\ brr \subseteq Core
  /\ evt \subseteq Core
  /\ pc \in [Core -> Label]
  /\ frame \in [Core -> Frame]
  /\ scr \in [Core -> SUBSET {"IRQ", "FIQ"}]
  /\ kept \in [Core -> BOOLEAN]
  /\ out \in Out

\* _initialize_psci: the boot core runs the OS, the others wait in reset, are
\* fused off, or have finished the OCRAM task and poll their state.
Init ==
  /\ coreState = [c \in Core |-> CASE c = 0             -> CORE_RELEASED
                                   [] c \in Disabled    -> CORE_DISABLED
                                   [] c \in TaskCores   -> CORE_WORKING_INIT
                                   [] OTHER             -> CORE_IN_RESET]
  /\ abortFlag = [c \in Core |-> 0]
  /\ param = [c \in Core |-> NoParam]
  /\ savedScr = [c \in Core |-> {}]
  /\ sgi = [c \in Core |-> FALSE]
  /\ brr = TaskCores
  /\ evt = {}
  /\ pc = [c \in Core |-> CASE c = 0           -> "os"
                            [] c \in TaskCores -> "task_check"
                            [] OTHER           -> "reset"]
  /\ frame = [c \in Core |-> NoFrame]
  /\ scr = [c \in Core |-> {}]
  /\ kept = [c \in Core |-> TRUE]
  /\ out = NoOut

-----------------------------------------------------------------------------
(* Steps of a handler.                                                     *)

Goto(c, l) ==
  /\ pc' = [pc EXCEPT ![c] = l]
  /\ out' = NoOut

\* _smc_exit with a status code in x0.
Return(c, v) ==
  /\ pc' = [pc EXCEPT ![c] = "os"]
  /\ frame' = [frame EXCEPT ![c] = NoFrame]
  /\ out' = [ev |-> "return", core |-> c, val |-> v, at |-> NoParam]

\* eret to the place built from the core's data area: a new start of the normal
\* world, with its MMU off by contract.
Enter(c, at) ==
  /\ pc' = [pc EXCEPT ![c] = "os"]
  /\ kept' = [kept EXCEPT ![c] = TRUE]
  /\ frame' = [frame EXCEPT ![c] = NoFrame]
  /\ out' = [ev |-> "entry", core |-> c, val |-> PSCI_SUCCESS, at |-> at]

SetState(c, s) == coreState' = [coreState EXCEPT ![c] = s]

IsOn(s) == s > CORE_OFF_MAX

-----------------------------------------------------------------------------
(* CPU_ON                                                                  *)

\* Mutant: the mpidr is not checked.
CpuOnCallMutant(c, t, a) ==
  /\ c \in Callers
  /\ pc[c] = "os"
  /\ frame' = [frame EXCEPT ![c].tgt = t, ![c].arg = a]
  /\ Goto(c, "on_check")
  /\ UNCHANGED <<dataVars, hwVars, cpuVars>>

\* A target of CPU_MAX_COUNT stands for an mpidr that names no core.
CpuOnCall(c, t, a) ==
  /\ c \in Callers
  /\ pc[c] = "os"
  /\ \/ /\ t \notin Core \/ a \in Misaligned
        /\ Return(c, PSCI_INVALID_PARMS)
     \/ /\ t \in Disabled
        /\ a \notin Misaligned
        /\ Return(c, PSCI_DISABLED)
     \/ /\ t \in Core \ Disabled
        /\ a \notin Misaligned
        /\ frame' = [frame EXCEPT ![c].tgt = t, ![c].arg = a]
        /\ Goto(c, "on_check")
  /\ UNCHANGED <<dataVars, hwVars, cpuVars>>

\* The states in which CPU_ON answers at once.
RefusalOf(s) == CASE s = CORE_DISABLED -> PSCI_DISABLED
                  [] s = CORE_PENDING  -> PSCI_ON_PENDING
                  [] s = CORE_RELEASED -> PSCI_ALREADY_ON

\* Mutant: a pending target is not refused.
OnCheckMutant(c) ==
  /\ pc[c] = "on_check"
  /\ LET s == coreState[frame[c].tgt]
     IN  \/ s = CORE_RELEASED /\ Return(c, PSCI_ALREADY_ON)
         \/ s # CORE_RELEASED /\ Goto(c, "on_spsr") /\ UNCHANGED frame
  /\ UNCHANGED <<dataVars, hwVars, cpuVars>>

OnCheck(c) ==
  /\ pc[c] = "on_check"
  /\ LET s == coreState[frame[c].tgt]
     IN  \/ /\ s \in {CORE_DISABLED, CORE_PENDING, CORE_RELEASED}
            /\ Return(c, RefusalOf(s))
         \/ /\ s \notin {CORE_DISABLED, CORE_PENDING, CORE_RELEASED}
            /\ Goto(c, "on_spsr")
            /\ UNCHANGED frame
  /\ UNCHANGED <<dataVars, hwVars, cpuVars>>

\* SPSR_EL3_DATA and SCR_EL3_DATA.
OnSpsr(c) ==
  /\ pc[c] = "on_spsr"
  /\ param' = [param EXCEPT ![frame[c].tgt].spsr = frame[c].arg]
  /\ savedScr' = [savedScr EXCEPT ![frame[c].tgt] = scr[c]]
  /\ Goto(c, "on_start")
  /\ UNCHANGED <<coreState, abortFlag, hwVars, frame, cpuVars>>

OnStart(c) ==
  /\ pc[c] = "on_start"
  /\ param' = [param EXCEPT ![frame[c].tgt].start = frame[c].arg]
  /\ Goto(c, "on_cntxt")
  /\ UNCHANGED <<coreState, abortFlag, savedScr, hwVars, frame, cpuVars>>

\* SCTLR_DATA and HCR_EL2_DATA follow the context id, then BOOTLOCPTR.
OnCntxt(c) ==
  /\ pc[c] = "on_cntxt"
  /\ param' = [param EXCEPT ![frame[c].tgt].cntxt = frame[c].arg]
  /\ Goto(c, "on_reread")
  /\ UNCHANGED <<coreState, abortFlag, savedScr, hwVars, frame, cpuVars>>

\* The state is read again.  The comparison with CORE_OFF_PENDING has no
\* branch: every other state falls through to the abort request.
OnReread(c) ==
  /\ pc[c] = "on_reread"
  /\ LET s == coreState[frame[c].tgt]
     IN  \/ s = CORE_WFE      /\ Goto(c, "claim_wfe")
         \/ s = CORE_IN_RESET /\ Goto(c, "claim_reset")
         \/ s = CORE_OFF      /\ Goto(c, "claim_off")
         \/ /\ s \notin {CORE_WFE, CORE_IN_RESET, CORE_OFF}
            /\ Goto(c, "on_abort")
  /\ UNCHANGED <<dataVars, hwVars, frame, cpuVars>>

OnAbort(c) ==
  /\ pc[c] = "on_abort"
  /\ abortFlag' = [abortFlag EXCEPT ![frame[c].tgt] = 1]
  /\ frame' = [frame EXCEPT ![c].cnt = PSCI_ABORT_CNT]
  /\ Goto(c, "on_watch")
  /\ UNCHANGED <<coreState, param, savedScr, hwVars, cpuVars>>

\* Mutant: the loop counter is not decremented.
OnWatchForeverMutant(c) ==
  /\ pc[c] = "on_watch"
  /\ LET s == coreState[frame[c].tgt]
     IN  \/ s = CORE_OFF /\ Goto(c, "claim_off") /\ UNCHANGED frame
         \/ s = CORE_PENDING /\ Return(c, PSCI_SUCCESS)
         \/ s \notin {CORE_OFF, CORE_PENDING} /\ Goto(c, "on_watch") /\ UNCHANGED frame
  /\ UNCHANGED <<dataVars, hwVars, cpuVars>>

\* Mutant: the target is claimed when the watch runs out.
OnWatchClaimMutant(c) ==
  /\ pc[c] = "on_watch"
  /\ \/ coreState[frame[c].tgt] = CORE_PENDING /\ Return(c, PSCI_SUCCESS)
     \/ coreState[frame[c].tgt] # CORE_PENDING /\ Goto(c, "claim_off") /\ UNCHANGED frame
  /\ UNCHANGED <<dataVars, hwVars, cpuVars>>

OnWatch(c) ==
  /\ pc[c] = "on_watch"
  /\ LET s == coreState[frame[c].tgt]
     IN  \/ /\ s = CORE_OFF
            /\ Goto(c, "claim_off")
            /\ UNCHANGED frame
         \/ s = CORE_PENDING /\ Return(c, PSCI_SUCCESS)
         \/ /\ s \notin {CORE_OFF, CORE_PENDING}
            /\ frame[c].cnt > 1
            /\ frame' = [frame EXCEPT ![c].cnt = @ - 1]
            /\ Goto(c, "on_watch")
         \/ /\ s \notin {CORE_OFF, CORE_PENDING}
            /\ frame[c].cnt = 1
            /\ Return(c, PSCI_SUCCESS)
  /\ UNCHANGED <<dataVars, hwVars, cpuVars>>

\* core_in_reset, core_is_off and core_in_wfe mark the target before they kick
\* it; the first two need the support of the SoC port, which every port has for
\* the states its cores can be in.
Claim(c, from, feature, kick) ==
  /\ pc[c] = from
  /\ IF feature \subseteq Features
     THEN /\ SetState(frame[c].tgt, CORE_PENDING)
          /\ Goto(c, kick)
          /\ UNCHANGED frame
     ELSE /\ Return(c, PSCI_NOT_SUPPORTED)
          /\ UNCHANGED coreState
  /\ UNCHANGED <<abortFlag, param, savedScr, hwVars, cpuVars>>

ClaimReset(c) == Claim(c, "claim_reset", {"CORE_RELEASE"}, "release")
ClaimOff(c)   == Claim(c, "claim_off", {"CORE_RESTART"}, "restart")
ClaimWfe(c)   == Claim(c, "claim_wfe", {}, "sev")

\* sev wakes the cores that wait in wfe or are about to.
Waiting == {c \in Core : pc[c] \in TaskLabel}

\* Mutant: the mask of the caller is released.
ReleaseMutant(c) ==
  /\ pc[c] = "release"
  /\ brr' = brr \cup {c}
  /\ evt' = evt \cup Waiting
  /\ Return(c, PSCI_SUCCESS)
  /\ UNCHANGED <<dataVars, sgi, cpuVars>>

\* _soc_core_release
Release(c) ==
  /\ pc[c] = "release"
  /\ brr' = brr \cup {frame[c].tgt}
  /\ evt' = evt \cup Waiting
  /\ Return(c, PSCI_SUCCESS)
  /\ UNCHANGED <<dataVars, sgi, cpuVars>>

\* Mutant: the SGI goes to the caller.
RestartMutant(c) ==
  /\ pc[c] = "restart"
  /\ sgi' = [sgi EXCEPT ![c] = TRUE]
  /\ Return(c, PSCI_SUCCESS)
  /\ UNCHANGED <<dataVars, brr, evt, cpuVars>>

\* _soc_core_restart
Restart(c) ==
  /\ pc[c] = "restart"
  /\ sgi' = [sgi EXCEPT ![frame[c].tgt] = TRUE]
  /\ Return(c, PSCI_SUCCESS)
  /\ UNCHANGED <<dataVars, brr, evt, cpuVars>>

Sev(c) ==
  /\ pc[c] = "sev"
  /\ evt' = evt \cup Waiting
  /\ Return(c, PSCI_SUCCESS)
  /\ UNCHANGED <<dataVars, sgi, brr, cpuVars>>

-----------------------------------------------------------------------------
(* CPU_OFF                                                                 *)

\* Mutant: phase 1 of the shutdown comes before the checks.
CpuOffCallMutant(c) ==
  /\ pc[c] = "os"
  /\ "CORE_OFF" \in Features
  /\ scr' = [scr EXCEPT ![c] = @ \cup {"FIQ"}]
  /\ Goto(c, "off_count")
  /\ UNCHANGED <<dataVars, hwVars, frame, kept>>

CpuOffCall(c) ==
  /\ pc[c] = "os"
  /\ \/ /\ "CORE_OFF" \notin Features
        /\ Return(c, PSCI_NOT_SUPPORTED)
     \/ /\ "CORE_OFF" \in Features
        /\ Goto(c, "off_count")
        /\ UNCHANGED frame
  /\ UNCHANGED <<dataVars, hwVars, cpuVars>>

\* One load of a loop that counts the running cores.
Counted(c) ==
  IF IsOn(coreState[frame[c].idx]) THEN frame[c].cnt + 1 ELSE frame[c].cnt

CountStep(c) ==
  frame' = [frame EXCEPT ![c].idx = @ + 1, ![c].cnt = Counted(c)]

\* coreOnCount; only a count of exactly one is refused.
OffCount(c) ==
  /\ pc[c] = "off_count"
  /\ \/ /\ frame[c].idx < CPU_MAX_COUNT - 1
        /\ CountStep(c)
        /\ Goto(c, "off_count")
     \/ /\ frame[c].idx = CPU_MAX_COUNT - 1
        /\ Counted(c) = 1
        /\ Return(c, PSCI_DENIED)
     \/ /\ frame[c].idx = CPU_MAX_COUNT - 1
        /\ Counted(c) # 1
        /\ frame' = [frame EXCEPT ![c] = NoFrame]
        /\ Goto(c, "off_state")
  /\ UNCHANGED <<dataVars, hwVars, cpuVars>>

\* Only a core that is on or pending can be turned off: a core that runs this
\* always is.
OffState(c) ==
  /\ pc[c] = "off_state"
  /\ IF coreState[c] < CORE_ON_MIN
     THEN Return(c, PSCI_DENIED)
     ELSE Goto(c, "off_pend") /\ UNCHANGED frame
  /\ UNCHANGED <<dataVars, hwVars, cpuVars>>

\* Mutant: the core says CORE_OFF when it begins to shut down.
OffPendMutant(c) ==
  /\ pc[c] = "off_pend"
  /\ SetState(c, CORE_OFF)
  /\ scr' = [scr EXCEPT ![c] = @ \cup {"FIQ"}]
  /\ kept' = [kept EXCEPT ![c] = FALSE]
  /\ Goto(c, "off_phase1")
  /\ UNCHANGED <<abortFlag, param, savedScr, hwVars, frame>>

\* The store of CORE_OFF_PENDING and _soc_core_phase1_off.
OffPend(c) ==
  /\ pc[c] = "off_pend"
  /\ SetState(c, CORE_OFF_PENDING)
  /\ scr' = [scr EXCEPT ![c] = @ \cup {"FIQ"}]
  /\ kept' = [kept EXCEPT ![c] = FALSE]
  /\ Goto(c, "off_phase1")
  /\ UNCHANGED <<abortFlag, param, savedScr, hwVars, frame>>

\* The two looks at the abort flag, before and after _soc_core_phase2_off.
AbortCheck(c, from, next) ==
  /\ pc[c] = from
  /\ \/ abortFlag[c] = 1 /\ Goto(c, "abort_clr")
     \/ abortFlag[c] = 0 /\ Goto(c, next)
  /\ UNCHANGED <<dataVars, hwVars, frame, cpuVars>>

\* Mutant: no second look at the flag.
OffPhase2Mutant(c) ==
  /\ pc[c] = "off_phase2"
  /\ Goto(c, "off_enter")
  /\ UNCHANGED <<dataVars, hwVars, frame, cpuVars>>

OffPhase1(c) == AbortCheck(c, "off_phase1", "off_phase2")
OffPhase2(c) == AbortCheck(c, "off_phase2", "off_enter")

\* psci_processAbort; the cleanup of the phases clears SCR_EL3[FIQ].
AbortClr(c) ==
  /\ pc[c] = "abort_clr"
  /\ abortFlag' = [abortFlag EXCEPT ![c] = 0]
  /\ Goto(c, "abort_pend")
  /\ UNCHANGED <<coreState, param, savedScr, hwVars, frame, cpuVars>>

AbortPend(c) ==
  /\ pc[c] = "abort_pend"
  /\ SetState(c, CORE_PENDING)
  /\ scr' = [scr EXCEPT ![c] = @ \ {"FIQ"}]
  /\ Goto(c, "exit_start")
  /\ UNCHANGED <<abortFlag, param, savedScr, hwVars, frame, kept>>

\* _soc_core_entr_off: the state is stored before pending SGIs are cleared.
OffEnter(c) ==
  /\ pc[c] = "off_enter"
  /\ SetState(c, CORE_OFF)
  /\ Goto(c, "off_sgi")
  /\ UNCHANGED <<abortFlag, param, savedScr, hwVars, frame, cpuVars>>

OffSgi(c) ==
  /\ pc[c] = "off_sgi"
  /\ sgi' = [sgi EXCEPT ![c] = FALSE]
  /\ Goto(c, "off_wfi")
  /\ UNCHANGED <<dataVars, brr, evt, frame, cpuVars>>

OffWake(c) ==
  /\ pc[c] = "off_wfi"
  /\ sgi[c]
  /\ Goto(c, "off_hit")
  /\ UNCHANGED <<dataVars, hwVars, frame, cpuVars>>

\* wfi may complete for other reasons.
OffSpuriousWake(c) ==
  /\ pc[c] = "off_wfi"
  /\ ~sgi[c]
  /\ Goto(c, "off_hit")
  /\ UNCHANGED <<dataVars, hwVars, frame, cpuVars>>

OffHit(c) ==
  /\ pc[c] = "off_hit"
  /\ sgi' = [sgi EXCEPT ![c] = FALSE]
  /\ Goto(c, "off_woke")
  /\ UNCHANGED <<dataVars, brr, evt, frame, cpuVars>>

\* Mutant: any wake-up ends the sleep.
OffWokeMutant(c) ==
  /\ pc[c] = "off_woke"
  /\ scr' = [scr EXCEPT ![c] = @ \ {"FIQ"}]
  /\ Goto(c, "exit_start")
  /\ UNCHANGED <<dataVars, hwVars, frame, kept>>

\* The core stays in the loop until it is marked; then _soc_core_exit_off and
\* the cleanup of both phases.
OffWoke(c) ==
  /\ pc[c] = "off_woke"
  /\ \/ /\ coreState[c] = CORE_PENDING
        /\ scr' = [scr EXCEPT ![c] = @ \ {"FIQ"}]
        /\ Goto(c, "exit_start")
     \/ /\ coreState[c] # CORE_PENDING
        /\ Goto(c, "off_wfi")
        /\ UNCHANGED scr
  /\ UNCHANGED <<dataVars, hwVars, frame, kept>>

-----------------------------------------------------------------------------
(* The way out of EL3 for a core that starts or restarts                   *)

\* A secondary core leaves reset; _secondary_core_init.
SecondaryReset(c) ==
  /\ pc[c] = "reset"
  /\ c \in brr
  /\ Goto(c, "exit_start")
  /\ UNCHANGED <<dataVars, hwVars, frame, cpuVars>>

\* The initialisation of EL3, EL2 and EL1, then START_ADDR into ELR_EL3.
ExitStart(c) ==
  /\ pc[c] = "exit_start"
  /\ scr' = [scr EXCEPT ![c] = savedScr[c]]
  /\ frame' = [frame EXCEPT ![c].at.start = param[c].start]
  /\ Goto(c, "exit_release")
  /\ UNCHANGED <<dataVars, hwVars, kept>>

\* Mutant: the core does not store its state.
ExitReleaseMutant(c) ==
  /\ pc[c] = "exit_release"
  /\ Goto(c, "exit_spsr")
  /\ UNCHANGED <<dataVars, hwVars, frame, cpuVars>>

ExitRelease(c) ==
  /\ pc[c] = "exit_release"
  /\ SetState(c, CORE_RELEASED)
  /\ Goto(c, "exit_spsr")
  /\ UNCHANGED <<abortFlag, param, savedScr, hwVars, frame, cpuVars>>

\* _set_spsr_4_startup
ExitSpsr(c) ==
  /\ pc[c] = "exit_spsr"
  /\ frame' = [frame EXCEPT ![c].at.spsr = param[c].spsr]
  /\ Goto(c, "exit_cntxt")
  /\ UNCHANGED <<dataVars, hwVars, cpuVars>>

ExitCntxt(c) ==
  /\ pc[c] = "exit_cntxt"
  /\ Enter(c, [frame[c].at EXCEPT !.cntxt = param[c].cntxt])
  /\ UNCHANGED <<dataVars, hwVars, scr>>

-----------------------------------------------------------------------------
(* A core that initialised OCRAM (_prep_ocram_init)                        *)

TaskCheck(c) ==
  /\ pc[c] = "task_check"
  /\ \/ coreState[c] = CORE_PENDING /\ Goto(c, "exit_start")
     \/ coreState[c] # CORE_PENDING /\ Goto(c, "task_set")
  /\ UNCHANGED <<dataVars, hwVars, frame, cpuVars>>

TaskSet(c) ==
  /\ pc[c] = "task_set"
  /\ SetState(c, CORE_WFE)
  /\ Goto(c, "task_wfe")
  /\ UNCHANGED <<abortFlag, param, savedScr, hwVars, frame, cpuVars>>

TaskWake(c) ==
  /\ pc[c] = "task_wfe"
  /\ c \in evt
  /\ evt' = evt \ {c}
  /\ Goto(c, "task_check")
  /\ UNCHANGED <<dataVars, sgi, brr, frame, cpuVars>>

\* wfe may complete for other reasons.
TaskSpuriousWake(c) ==
  /\ pc[c] = "task_wfe"
  /\ c \notin evt
  /\ Goto(c, "task_check")
  /\ UNCHANGED <<dataVars, hwVars, frame, cpuVars>>

-----------------------------------------------------------------------------
(* CPU_SUSPEND                                                             *)

\* The range of cores that a request of kind k counts.
FirstOf(c, k) ==
  IF k \in ClusterKind THEN (c \div CPU_PER_CLUSTER) * CPU_PER_CLUSTER ELSE 0

LastOf(c, k) ==
  IF k \in ClusterKind THEN FirstOf(c, k) + CPU_PER_CLUSTER - 1
                       ELSE CPU_MAX_COUNT - 1

\* A standby does not look at the entry point and context id.
SusArg(k, a) == IF k \in PwrDownKind THEN a ELSE NoArg

\* Behind the count: the SoC port must support the state.
SusProceed(c, k) ==
  \/ k \notin Features /\ Return(c, PSCI_NOT_SUPPORTED)
  \/ /\ k \in Features
     /\ Goto(c, IF k \in StandbyKind THEN "sus_state" ELSE "sus_cntxt")

SuspendCall(c, k, a) ==
  /\ pc[c] = "os"
  /\ \/ /\ k \notin SuspendKind   \* a malformed power state
        /\ Return(c, PSCI_INVALID_PARMS)
     \/ /\ k \in SuspendKind \ (ClusterKind \cup SystemKind)
        /\ SusProceed(c, k)
        /\ k \in Features =>
             frame' = [frame EXCEPT ![c].arg = SusArg(k, a), ![c].kind = k]
     \/ /\ k \in ClusterKind \cup SystemKind
        /\ frame' = [frame EXCEPT ![c].arg = SusArg(k, a), ![c].kind = k,
                                  ![c].idx = FirstOf(c, k)]
        /\ Goto(c, "sus_count")
  /\ UNCHANGED <<dataVars, hwVars, cpuVars>>

\* _core_on_cnt_clstr and core_on_cnt_sys
SusCount(c) ==
  /\ pc[c] = "sus_count"
  /\ LET k    == frame[c].kind
         last == LastOf(c, k)
     IN  \/ /\ frame[c].idx < last
            /\ CountStep(c)
            /\ Goto(c, "sus_count")
         \/ /\ frame[c].idx >= last
            /\ Counted(c) > 1
            /\ Return(c, PSCI_INVALID_PARMS)
         \/ /\ frame[c].idx >= last
            /\ Counted(c) <= 1
            /\ SusProceed(c, k)
            /\ k \in Features =>
                 frame' = [frame EXCEPT ![c].idx = 0, ![c].cnt = 0]
  /\ UNCHANGED <<dataVars, hwVars, cpuVars>>

SusCntxt(c) ==
  /\ pc[c] = "sus_cntxt"
  /\ param' = [param EXCEPT ![c].cntxt = frame[c].arg]
  /\ Goto(c, "sus_start")
  /\ UNCHANGED <<coreState, abortFlag, savedScr, hwVars, frame, cpuVars>>

SusStart(c) ==
  /\ pc[c] = "sus_start"
  /\ param' = [param EXCEPT ![c].start = frame[c].arg]
  /\ Goto(c, "sus_state")
  /\ UNCHANGED <<coreState, abortFlag, savedScr, hwVars, frame, cpuVars>>

\* The state is stored, then the SoC port routes IRQs to EL3, turns the MMU off
\* for a power-down and executes wfi.
SusState(c) ==
  /\ pc[c] = "sus_state"
  /\ SetState(c, IF frame[c].kind \in StandbyKind THEN CORE_STANDBY
                                                  ELSE CORE_PWR_DOWN)
  /\ scr' = [scr EXCEPT ![c] = @ \cup {"IRQ"}]
  /\ kept' = [kept EXCEPT ![c] = @ /\ frame[c].kind \in StandbyKind]
  /\ Goto(c, "sus_wfi")
  /\ UNCHANGED <<abortFlag, param, savedScr, hwVars, frame>>

\* An interrupt ends the wfi; _soc_*_exit_stdby and _soc_*_exit_pwrdn.
SusWake(c) ==
  /\ pc[c] = "sus_wfi"
  /\ scr' = [scr EXCEPT ![c] = @ \ {"IRQ"}]
  /\ Goto(c, "sus_release")
  /\ UNCHANGED <<dataVars, hwVars, frame, kept>>

\* final_pwrdown gives up on the DDR self refresh: no exit handler runs.
SusDdrFails(c) ==
  /\ pc[c] = "sus_wfi"
  /\ frame[c].kind = "SYSTEM_PWR_DWN"
  /\ "DDR_SLEEP" \in HwFaults
  /\ Goto(c, "sus_failed")
  /\ UNCHANGED <<dataVars, hwVars, frame, cpuVars>>

SusFailed(c) ==
  /\ pc[c] = "sus_failed"
  /\ SetState(c, CORE_RELEASED)
  /\ Return(c, PSCI_INVALID_PARMS)
  /\ UNCHANGED <<abortFlag, param, savedScr, hwVars, cpuVars>>

\* Mutant: only a power-down stores CORE_RELEASED.
SusReleaseMutant(c) ==
  /\ pc[c] = "sus_release"
  /\ \/ frame[c].kind \in StandbyKind /\ Return(c, PSCI_SUCCESS) /\ UNCHANGED coreState
     \/ /\ frame[c].kind \in PwrDownKind
        /\ SetState(c, CORE_RELEASED)
        /\ Goto(c, "sus_elr")
        /\ UNCHANGED frame
  /\ UNCHANGED <<abortFlag, param, savedScr, hwVars, cpuVars>>

SusRelease(c) ==
  /\ pc[c] = "sus_release"
  /\ SetState(c, CORE_RELEASED)
  /\ \/ /\ frame[c].kind \in StandbyKind
        /\ Return(c, PSCI_SUCCESS)
     \/ /\ frame[c].kind \in PwrDownKind
        /\ Goto(c, "sus_elr")
        /\ UNCHANGED frame
  /\ UNCHANGED <<abortFlag, param, savedScr, hwVars, cpuVars>>

\* ELR_EL3 from START_ADDR; SPSR_EL3 is still that of the call.
SusElr(c) ==
  /\ pc[c] = "sus_elr"
  /\ frame' = [frame EXCEPT ![c].at = [@ EXCEPT !.start = param[c].start,
                                                !.spsr = frame[c].arg]]
  /\ Goto(c, "sus_x0")
  /\ UNCHANGED <<dataVars, hwVars, cpuVars>>

SusX0(c) ==
  /\ pc[c] = "sus_x0"
  /\ Enter(c, [frame[c].at EXCEPT !.cntxt = param[c].cntxt])
  /\ UNCHANGED <<dataVars, hwVars, scr>>

-----------------------------------------------------------------------------
(* AFFINITY_INFO reads and changes nothing.                                *)

\* Level 0.
AffinityInfo(t) ==
  CASE t \notin Core                   -> PSCI_NOT_PRESENT
    [] coreState[t] = CORE_DISABLED    -> PSCI_DISABLED
    [] coreState[t] = CORE_PENDING     -> AFFINITY_LEVEL_PEND
    [] coreState[t] = CORE_RELEASED    -> AFFINITY_LEVEL_ON
    [] OTHER                           -> AFFINITY_LEVEL_OFF

ClusterCores(k) == {d \in Core : d \div CPU_PER_CLUSTER = k}

\* _get_cluster_state; its PENDING comparison is never made.
ClusterState(k) ==
  IF \E d \in ClusterCores(k) : coreState[d] = CORE_RELEASED
  THEN AFFINITY_LEVEL_ON ELSE AFFINITY_LEVEL_OFF

\* Level 1: the branch to psci_success replaces the state in x0.
ClusterInfo(k) ==
  IF k < CLUSTER_COUNT THEN PSCI_SUCCESS ELSE PSCI_NOT_PRESENT

-----------------------------------------------------------------------------
(* Step: what core c does inside EL3 when nothing stops it.  Wake: what the *)
(* surroundings decide.  Call: what the OS asks for.                       *)

OnStep(c) ==
  \/ OnCheck(c) \/ OnSpsr(c) \/ OnStart(c) \/ OnCntxt(c) \/ OnReread(c)
  \/ OnAbort(c) \/ OnWatch(c) \/ ClaimReset(c) \/ ClaimOff(c) \/ ClaimWfe(c)
  \/ Release(c) \/ Restart(c) \/ Sev(c)

OffStep(c) ==
  \/ OffCount(c) \/ OffState(c) \/ OffPend(c) \/ OffPhase1(c) \/ OffPhase2(c)
  \/ AbortClr(c) \/ AbortPend(c) \/ OffEnter(c) \/ OffSgi(c) \/ OffWake(c)
  \/ OffHit(c) \/ OffWoke(c)

ExitStep(c) ==
  \/ SecondaryReset(c) \/ ExitStart(c) \/ ExitRelease(c) \/ ExitSpsr(c)
  \/ ExitCntxt(c)

TaskStep(c) == TaskCheck(c) \/ TaskSet(c) \/ TaskWake(c)

SusStep(c) ==
  \/ SusCount(c) \/ SusCntxt(c) \/ SusStart(c) \/ SusState(c) \/ SusFailed(c)
  \/ SusRelease(c) \/ SusElr(c) \/ SusX0(c)

Step(c) == OnStep(c) \/ OffStep(c) \/ ExitStep(c) \/ TaskStep(c) \/ SusStep(c)

Wake(c) == OffSpuriousWake(c) \/ TaskSpuriousWake(c) \/ SusWake(c) \/ SusDdrFails(c)

Call(c) ==
  \/ \E t \in 0 .. CPU_MAX_COUNT, a \in Args : CpuOnCall(c, t, a)
  \/ CpuOffCall(c)
  \/ \E k \in SuspendKind \cup {"invalid"}, a \in Args : SuspendCall(c, k, a)

Next == \E c \in Core : Step(c) \/ Wake(c) \/ Call(c)

Spec == Init /\ [][Next]_vars

\* A core runs its handler to the end on its own; nothing obliges the OS to
\* call, an interrupt to end a suspend, or a wait to end without its event.
FairSpec == Spec /\ \A c \in Core : WF_vars(Step(c))

-----------------------------------------------------------------------------
(* Properties                                                              *)

Asleep == {"off_sgi", "off_wfi", "off_hit", "off_woke"}

\* Where a core can be while its data area holds state s.  A request of another
\* core marks it CORE_PENDING wherever it is.
PlacesOf(s) ==
  CASE s \in {CORE_IN_RESET, CORE_DISABLED} -> {"reset"}
    [] s = CORE_OFF          -> Asleep
    [] s = CORE_STANDBY      -> {"sus_wfi", "sus_release"}
    [] s = CORE_PWR_DOWN     -> {"sus_wfi", "sus_release", "sus_failed"}
    [] s = CORE_WFE          -> {"task_wfe", "task_check", "task_set"}
    [] s = CORE_WORKING_INIT -> {"task_check", "task_set"}
    [] s = CORE_OFF_PENDING  -> {"off_phase1", "off_phase2", "abort_clr",
                                 "abort_pend", "off_enter"}
    [] s = CORE_RELEASED     -> {"os", "off_count", "off_state", "off_pend",
                                 "sus_count", "sus_cntxt", "sus_start",
                                 "sus_state", "sus_elr", "sus_x0", "exit_spsr",
                                 "exit_cntxt"} \cup OnLabel
    [] s = CORE_PENDING      -> Label

\* The state of a core tells where the core really is, so AFFINITY_INFO never
\* answers OFF for a core that runs the normal world and a core that is counted
\* off is off, however the requests of all the cores interleave.
StateIsHonest == \A c \in Core : pc[c] \in PlacesOf(coreState[c])

\* The life cycle a core's state stands for.
PowerOf(s) == CASE s = CORE_RELEASED                  -> "on"
                [] s = CORE_PENDING                   -> "pending"
                [] s \in {CORE_STANDBY, CORE_PWR_DOWN} -> "suspended"
                [] OTHER                              -> "off"

Power == INSTANCE PsciPower WITH power <- [c \in Core |-> PowerOf(coreState[c])]

\* With one core issuing CPU_ON, every core goes through the life cycle of
\* PsciPower: it is turned on only when off, starts only when turned on, and
\* loses no request on the way (psci.s, CPU_ON against CPU_OFF).
PowerIsLegal == Power!Spec

\* With one core issuing CPU_ON, a core is marked CORE_PENDING only while it is
\* held or on its way out of EL3: a request never marks a core that runs the
\* normal world or is half way through another call.
PendingIsNotRunning ==
  \A c \in Core : coreState[c] = CORE_PENDING =>
    pc[c] \in Asleep \cup TaskLabel \cup {"reset", "exit_start", "exit_release"}

\* A core enters the normal world with the entry point, context id and
\* execution state of one and the same request, never a mix of two.
EntryIsOneRequest ==
  out.ev = "entry" =>
    /\ out.at.start # NoArg
    /\ out.at.start = out.at.spsr
    /\ out.at.start = out.at.cntxt

\* The normal world never runs with IRQs or FIQs routed to EL3, or with an MMU
\* that the handler of its own call turned off.
RoutingRestored == \A c \in Core : pc[c] = "os" => scr[c] = {} /\ kept[c]

\* A sleeping core marked CORE_PENDING can still be woken: SGI 15 is pending at
\* it, or the core that marked it has yet to send it, or it is awake.
NoLostWakeup ==
  \A c \in Core : coreState[c] = CORE_PENDING /\ pc[c] = "off_wfi" =>
    \/ sgi[c]
    \/ \E d \in Core : pc[d] = "restart" /\ frame[d].tgt = c

\* CPU_OFF never takes the final core down: there is always a core that is on,
\* or suspended, or on its way.
FinalCoreStays ==
  \E c \in Core : coreState[c] \notin {CORE_IN_RESET, CORE_DISABLED, CORE_OFF,
                                       CORE_WFE, CORE_WORKING_INIT}

\* CPU_ON always returns: the watch for the effect of an abort request ends.
CallsReturn == \A c \in Core : pc[c] \in OnLabel ~> pc[c] = "os"

\* A core marked CORE_PENDING by CPU_ON reaches the normal world.
PendingCoreRuns ==
  \A c \in Core : coreState[c] = CORE_PENDING ~> pc[c] = "os"

\* An abort request that is set before the second look at the flag turns the
\* shutdown round: the core comes back to the normal world without a wake-up.
AbortTakesEffect ==
  \A c \in Core :
    abortFlag[c] = 1 /\ pc[c] \in {"off_phase1", "off_phase2"} ~> pc[c] = "os"

\* A core that sleeps in wfi when CPU_ON marks it wakes and runs, even if the
\* wfi ends early or the mark overtakes the SGI.
SleeperIsWoken ==
  \A c \in Core :
    /\ pc[c] = "off_wfi"
    /\ coreState[c] = CORE_PENDING
    /\ \E d \in Core : pc[d] = "restart" /\ frame[d].tgt = c
    ~> pc[c] = "os"

=============================================================================
