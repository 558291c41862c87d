-------------------------------- MODULE Spd --------------------------------
(***************************************************************************)
(* The dispatcher of the trusted OS, spd/src and cmm/src: spd_init() on    *)
(* the boot core, when an image is loaded, and once on every secondary out *)
(* of reset, the context switch of a call from the normal world into the   *)
(* trusted OS and back, and the refusal while no trusted OS has registered.*)
(* A core that turned itself off sleeps at EL3 with its contexts and comes *)
(* back through _mon_core_restart, without spd_init().                     *)
(*                                                                         *)
(* Every core has its own contexts; sp_ep_info_list[0] and                 *)
(* trstd_os_vectors_list[0] are one for all cores and have no lock, so the *)
(* steps of spd_init() that touch them are actions of their own.  The EL1  *)
(* system registers are one value, which the world that runs may change.   *)
(***************************************************************************)
EXTENDS Integers, FiniteSets

CONSTANTS
  SpdCores,     \* cores besides the boot core, which is 0
  SpdCalls,     \* bound: calls into the trusted OS, by each core
  SpdOffs,      \* bound: times that a core turns itself off
  SpdOneByOne   \* whether the normal world waits for a core before it starts the next

ASSUME SpdAssumption ==
  /\ SpdCores \subseteq Nat \ {0} /\ IsFiniteSet(SpdCores)
  /\ SpdCalls \in Nat /\ SpdOffs \in Nat /\ SpdOneByOne \in BOOLEAN

VARIABLES
  loadable,      \* whether the boot loader loaded an image of a trusted OS
  sp_ep_info,    \* pc of the shared entry point information
  sp_vectors,    \* trstd_os_vectors_list[0] holds the vectors of the trusted OS
  spdPc,         \* where each core is
  el1,           \* the EL1 system registers of each core
  core_context,  \* the two saved contexts of each core
  worldRegs,     \* history: the EL1 registers as each world of each core left them
  spdCalls,      \* calls made by each core
  spdOffs        \* times that a core has turned itself off

spdVars == <<loadable, sp_ep_info, sp_vectors, spdPc, el1, core_context, worldRegs,
             spdCalls, spdOffs>>

AllSpdCores == SpdCores \cup {0}
Worlds == {"secure", "normal"}
ResetRegs == <<"none", 0>>
SMC_UNIMPLEMENTED == -1

SpdInit ==
  /\ loadable \in BOOLEAN
  /\ sp_ep_info = "none"
  /\ sp_vectors = FALSE
  /\ spdPc = [c \in AllSpdCores |-> "reset"]
  /\ el1 = [c \in AllSpdCores |-> ResetRegs]
  /\ core_context = [c \in AllSpdCores |-> [w \in Worlds |-> [el1 |-> ResetRegs, elr |-> "none", x0 |-> 0]]]
  /\ worldRegs = [c \in AllSpdCores |-> [w \in Worlds |-> ResetRegs]]
  /\ spdCalls = [c \in AllSpdCores |-> 0]
  /\ spdOffs = 0

SpdGoto(c, next) == spdPc' = [spdPc EXCEPT ![c] = next]

-----------------------------------------------------------------------------
(* Contexts: context_mgmt.c.                                               *)

\* Mutant: the registers are not saved.
SavedMutant(c, world) == core_context[c]

\* cm_el1_sysregs_context_save() on entry to smc_trstd_os_handler().
Saved(c, world) == [core_context[c] EXCEPT ![world].el1 = el1[c]]

\* cm_el1_sysregs_context_restore() and cm_set_next_eret_ctx(): the world that runs next.
Restore(c, contexts, world) == el1' = [el1 EXCEPT ![c] = contexts[world].el1]
SetContexts(c, contexts) == core_context' = [core_context EXCEPT ![c] = contexts]

\* cm_init_context(): everything is cleared and the entry point is taken from the shared structure.
Initialised(c) == [core_context[c] EXCEPT !["secure"] = [el1 |-> ResetRegs, elr |-> sp_ep_info, x0 |-> 0]]

-----------------------------------------------------------------------------
(* spd_init().                                                             *)

Starting(c) == spdPc[c] \in {"setup", "enter", "init", "booted"}

\* _ppa_main() without an image: the boot core goes to the normal world, and has no contexts.
NoLoadable ==
  /\ spdPc[0] = "reset" /\ ~loadable
  /\ SpdGoto(0, "normal")
  /\ UNCHANGED <<loadable, sp_ep_info, sp_vectors, el1, core_context, worldRegs, spdCalls, spdOffs>>

\* The entry point: the image for the boot core, all ones for a secondary that a running core starts.
spd_init(c) ==
  /\ spdPc[c] = "reset"
  /\ IF c = 0 THEN loadable
     ELSE /\ \E d \in AllSpdCores \ {c} : spdPc[d] \in {"normal", "secure"}
          /\ SpdOneByOne => \A d \in SpdCores : ~Starting(d)
  /\ sp_ep_info' = IF c = 0 THEN "image" ELSE "ones"
  /\ SpdGoto(c, "setup")
  /\ UNCHANGED <<loadable, sp_vectors, el1, core_context, worldRegs, spdCalls, spdOffs>>

\* sp_setup_n_init(): a secondary goes through the vectors, or leaves without them.
sp_setup_n_init(c) ==
  /\ spdPc[c] = "setup"
  /\ IF c # 0 /\ ~sp_vectors THEN SpdGoto(c, "booted") /\ UNCHANGED sp_ep_info
     ELSE /\ SpdGoto(c, "enter")
          /\ sp_ep_info' = IF c = 0 THEN sp_ep_info ELSE "cpu_on_entry"
  /\ UNCHANGED <<loadable, sp_vectors, el1, core_context, worldRegs, spdCalls, spdOffs>>

\* cm_init_context() and secure_el1os_enter_sp().
secure_el1os_enter_sp(c) ==
  /\ spdPc[c] = "enter"
  /\ SetContexts(c, Initialised(c))
  /\ Restore(c, Initialised(c), "secure")
  /\ worldRegs' = [worldRegs EXCEPT ![c]["secure"] = ResetRegs]
  /\ SpdGoto(c, "init")
  /\ UNCHANGED <<loadable, sp_ep_info, sp_vectors, spdCalls, spdOffs>>

\* The trusted OS says that it is ready: RETURN_ENTRY_DONE registers its vectors, RETURN_ON_DONE does not.
EntryDone(c) ==
  /\ spdPc[c] = "init"
  /\ SetContexts(c, Saved(c, "secure"))
  /\ sp_vectors' = (sp_vectors \/ c = 0)
  /\ SpdGoto(c, "booted")
  /\ UNCHANGED <<loadable, sp_ep_info, el1, worldRegs, spdCalls, spdOffs>>

\* The rest of spd_init(): the context of the normal world is cleared and becomes the running one.
EnterNormalWorld(c) ==
  /\ spdPc[c] = "booted"
  /\ LET contexts == [core_context[c] EXCEPT !["normal"] = [el1 |-> ResetRegs, elr |-> "none", x0 |-> 0]]
     IN  SetContexts(c, contexts) /\ Restore(c, contexts, "normal")
  /\ worldRegs' = [worldRegs EXCEPT ![c]["normal"] = ResetRegs]
  /\ SpdGoto(c, "normal")
  /\ UNCHANGED <<loadable, sp_ep_info, sp_vectors, spdCalls, spdOffs>>

-----------------------------------------------------------------------------
(* Calls.                                                                  *)

\* The world that runs changes its EL1 registers, with every call to other values.
WriteRegs(c) ==
  /\ spdPc[c] \in {"normal", "secure", "init"}
  /\ LET world == IF spdPc[c] = "normal" THEN "normal" ELSE "secure"
     IN  /\ el1[c] # <<world, spdCalls[c]>>
         /\ el1' = [el1 EXCEPT ![c] = <<world, spdCalls[c]>>]
         /\ worldRegs' = [worldRegs EXCEPT ![c][world] = <<world, spdCalls[c]>>]
  /\ UNCHANGED <<loadable, sp_ep_info, sp_vectors, spdPc, core_context, spdCalls, spdOffs>>

\* smc_trstd_os_handler() for the normal world: refused without vectors, else on to a vector.  The boot
\* core of a boot without an image makes no call: nothing has set its TPIDR_EL3.
smc_trstd_os_handler(c) ==
  /\ spdPc[c] = "normal" /\ (c = 0 => loadable)
  /\ spdCalls[c] < SpdCalls
  /\ spdCalls' = [spdCalls EXCEPT ![c] = @ + 1]
  /\ IF ~sp_vectors
     THEN /\ SetContexts(c, [Saved(c, "normal") EXCEPT !["normal"].x0 = SMC_UNIMPLEMENTED])
          /\ UNCHANGED <<el1, spdPc>>
     ELSE \E entry \in {"fast_smc_entry", "yield_smc_entry"} :
            LET contexts == [Saved(c, "normal") EXCEPT !["secure"].elr = entry]
            IN  /\ SetContexts(c, contexts)
                /\ Restore(c, contexts, "secure")
                /\ SpdGoto(c, "secure")
  /\ UNCHANGED <<loadable, sp_ep_info, sp_vectors, worldRegs, spdOffs>>

\* RETURN_CALL_DONE: the answer goes to the registers of the normal world.
CallDone(c) ==
  /\ spdPc[c] = "secure"
  /\ LET contexts == [Saved(c, "secure") EXCEPT !["normal"].x0 = spdCalls[c]]
     IN  SetContexts(c, contexts) /\ Restore(c, contexts, "normal")
  /\ SpdGoto(c, "normal")
  /\ UNCHANGED <<loadable, sp_ep_info, sp_vectors, worldRegs, spdCalls, spdOffs>>

-----------------------------------------------------------------------------
(* CPU_OFF and the way back, psci.s and monitor.s.                         *)

\* CPU_OFF of a core that is not the last one: SCTLR_EL1 loses its MMU and cache bits and the core sleeps
\* in EL3.  The trusted OS is not told, and both contexts stay.
SpdCoreOff(c) ==
  /\ spdPc[c] = "normal"
  /\ spdOffs < SpdOffs
  /\ spdOffs' = spdOffs + 1
  /\ \E d \in AllSpdCores \ {c} : spdPc[d] \notin {"reset", "off"}
  /\ el1' = [el1 EXCEPT ![c] = <<"off", spdCalls[c]>>]
  /\ SpdGoto(c, "off")
  /\ UNCHANGED <<loadable, sp_ep_info, sp_vectors, core_context, worldRegs, spdCalls>>

\* _mon_core_restart, after the CPU_ON of another core: straight to the normal world.  SCTLR_EL1 is
\* written anew for a caller in EL1, and no EL1 register for one in EL2.
_mon_core_restart(c) ==
  /\ spdPc[c] = "off"
  /\ \E d \in AllSpdCores \ {c} : spdPc[d] = "normal"
  /\ \E regs \in {el1[c], <<"restart", spdCalls[c]>>} :
       /\ el1' = [el1 EXCEPT ![c] = regs]
       /\ worldRegs' = [worldRegs EXCEPT ![c]["normal"] = regs]
  /\ SpdGoto(c, "normal")
  /\ UNCHANGED <<loadable, sp_ep_info, sp_vectors, core_context, spdCalls, spdOffs>>

-----------------------------------------------------------------------------
SpdNext ==
  \/ NoLoadable
  \/ \E c \in AllSpdCores :
       \/ spd_init(c) \/ sp_setup_n_init(c) \/ secure_el1os_enter_sp(c) \/ EntryDone(c) \/ EnterNormalWorld(c)
       \/ WriteRegs(c) \/ smc_trstd_os_handler(c) \/ CallDone(c) \/ SpdCoreOff(c) \/ _mon_core_restart(c)

SpdSpec == SpdInit /\ [][SpdNext]_spdVars

-----------------------------------------------------------------------------
\* Each world finds its EL1 registers as it left them, on every core: the trusted OS also after its core
\* was turned off and on again behind its back.  The normal world has the answer to its last call.
WorldsStayApart ==
  \A c \in AllSpdCores :
    /\ spdPc[c] = "normal" =>
         /\ el1[c] = worldRegs[c]["normal"]
         /\ spdCalls[c] > 0 =>
              core_context[c]["normal"].x0 = IF loadable THEN spdCalls[c] ELSE SMC_UNIMPLEMENTED
    /\ spdPc[c] \in {"init", "secure"} => el1[c] = worldRegs[c]["secure"]

\* A core enters the trusted OS where it must: the boot core at the image, a secondary at the vector
\* that the trusted OS registered during the start of the boot core.
EntersThroughVector ==
  \A c \in AllSpdCores :
    spdPc[c] = "init" => core_context[c]["secure"].elr = IF c = 0 THEN "image" ELSE "cpu_on_entry"
=============================================================================
