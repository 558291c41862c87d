----------------------------- MODULE PsciHonest -----------------------------
(***************************************************************************)
(* The state in a core's data area tells where the core is: the proof of   *)
(* StateIsHonest for every number of cores, every SoC port and every set   *)
(* of calling cores.                                                       *)
(*                                                                         *)
(* StateIsHonest alone is not inductive.  A core leaves reset only when    *)
(* its bit in BRR is set, and nothing in StateIsHonest says that it is     *)
(* marked by then; a power-down that fails must not have stored            *)
(* CORE_STANDBY.  HonestInv adds both facts.                               *)
(*                                                                         *)
(* From it follows what one caller of CPU_ON gives: Unmarked, the proof of *)
(* PendingIsNotRunning, and Refines, the proof that Psci implements        *)
(* PsciPower.                                                              *)
(***************************************************************************)
EXTENDS PsciProofs

\* A core that is released from reset, or about to be, is marked.
ReleasedIsMarked ==
  /\ \A c \in brr : pc[c] = "reset" => coreState[c] = CORE_PENDING
  /\ \A c \in Core :
       pc[c] = "release" /\ pc[frame[c].tgt] = "reset" =>
         coreState[frame[c].tgt] = CORE_PENDING

\* CORE_STANDBY is stored by a standby request.
StandbyIsStandby ==
  \A c \in Core : coreState[c] = CORE_STANDBY => frame[c].kind \in StandbyKind

HonestInv == TypeOK /\ StateIsHonest /\ ReleasedIsMarked /\ StandbyIsStandby

-----------------------------------------------------------------------------
(* Which states a place allows.                                            *)

\* Places at which a core holds CORE_RELEASED unless another core marked it.
Running == {"os", "off_count", "off_state", "off_pend", "sus_count",
            "sus_cntxt", "sus_start", "sus_state", "sus_elr", "sus_x0",
            "exit_spsr", "exit_cntxt"} \cup OnLabel

Closing == {"off_phase1", "off_phase2", "abort_clr", "abort_pend", "off_enter"}

\* PlacesOf, state by state.
LEMMA PlacesByState ==
  /\ PlacesOf(CORE_IN_RESET) = {"reset"}
  /\ PlacesOf(CORE_DISABLED) = {"reset"}
  /\ PlacesOf(CORE_OFF) = Asleep
  /\ PlacesOf(CORE_STANDBY) = {"sus_wfi", "sus_release"}
  /\ PlacesOf(CORE_PWR_DOWN) = {"sus_wfi", "sus_release", "sus_failed"}
  /\ PlacesOf(CORE_WFE) = {"task_wfe", "task_check", "task_set"}
  /\ PlacesOf(CORE_WORKING_INIT) = {"task_check", "task_set"}
  /\ PlacesOf(CORE_OFF_PENDING) = Closing
  /\ PlacesOf(CORE_RELEASED) = Running
  /\ PlacesOf(CORE_PENDING) = Label
BY DEF PlacesOf, Closing, Running, CORE_IN_RESET, CORE_DISABLED, CORE_OFF, CORE_STANDBY,
  CORE_PWR_DOWN, CORE_WFE, CORE_OFF_PENDING, CORE_WORKING_INIT,
  CORE_PENDING, CORE_RELEASED

LEMMA RunningPlaces ==
  ASSUME NEW l \in Running, NEW s \in State
  PROVE  l \in PlacesOf(s) <=> s \in {CORE_RELEASED, CORE_PENDING}
BY PlacesByState
DEF Running, OnLabel, Asleep, Closing, Label, OffLabel, ExitLabel, SusLabel,
  TaskLabel, State, CORE_IN_RESET, CORE_DISABLED, CORE_OFF, CORE_STANDBY,
  CORE_PWR_DOWN, CORE_WFE, CORE_OFF_PENDING, CORE_WORKING_INIT,
  CORE_PENDING, CORE_RELEASED

LEMMA AsleepPlaces ==
  ASSUME NEW l \in Asleep, NEW s \in State
  PROVE  l \in PlacesOf(s) <=> s \in {CORE_OFF, CORE_PENDING}
BY PlacesByState
DEF Running, OnLabel, Asleep, Closing, Label, OffLabel, ExitLabel, SusLabel,
  TaskLabel, State, CORE_IN_RESET, CORE_DISABLED, CORE_OFF, CORE_STANDBY,
  CORE_PWR_DOWN, CORE_WFE, CORE_OFF_PENDING, CORE_WORKING_INIT,
  CORE_PENDING, CORE_RELEASED

LEMMA ClosingPlaces ==
  ASSUME NEW l \in Closing, NEW s \in State
  PROVE  l \in PlacesOf(s) <=> s \in {CORE_OFF_PENDING, CORE_PENDING}
BY PlacesByState
DEF Running, OnLabel, Asleep, Closing, Label, OffLabel, ExitLabel, SusLabel,
  TaskLabel, State, CORE_IN_RESET, CORE_DISABLED, CORE_OFF, CORE_STANDBY,
  CORE_PWR_DOWN, CORE_WFE, CORE_OFF_PENDING, CORE_WORKING_INIT,
  CORE_PENDING, CORE_RELEASED

LEMMA ExitPlaces ==
  ASSUME NEW l \in {"exit_start", "exit_release"}, NEW s \in State
  PROVE  l \in PlacesOf(s) <=> s = CORE_PENDING
BY PlacesByState
DEF Running, OnLabel, Asleep, Closing, Label, OffLabel, ExitLabel, SusLabel,
  TaskLabel, State, CORE_IN_RESET, CORE_DISABLED, CORE_OFF, CORE_STANDBY,
  CORE_PWR_DOWN, CORE_WFE, CORE_OFF_PENDING, CORE_WORKING_INIT,
  CORE_PENDING, CORE_RELEASED

LEMMA TaskPlaces ==
  ASSUME NEW s \in State
  PROVE  /\ "task_wfe" \in PlacesOf(s) <=> s \in {CORE_WFE, CORE_PENDING}
         /\ \A l \in {"task_check", "task_set"} :
              l \in PlacesOf(s) <=>
                s \in {CORE_WFE, CORE_WORKING_INIT, CORE_PENDING}
BY PlacesByState
DEF Running, OnLabel, Asleep, Closing, Label, OffLabel, ExitLabel, SusLabel,
  TaskLabel, State, CORE_IN_RESET, CORE_DISABLED, CORE_OFF, CORE_STANDBY,
  CORE_PWR_DOWN, CORE_WFE, CORE_OFF_PENDING, CORE_WORKING_INIT,
  CORE_PENDING, CORE_RELEASED

LEMMA SuspendPlaces ==
  ASSUME NEW s \in State
  PROVE  /\ \A l \in {"sus_wfi", "sus_release"} :
              l \in PlacesOf(s) <=>
                s \in {CORE_STANDBY, CORE_PWR_DOWN, CORE_PENDING}
         /\ "sus_failed" \in PlacesOf(s) <=> s \in {CORE_PWR_DOWN, CORE_PENDING}
BY PlacesByState
DEF Running, OnLabel, Asleep, Closing, Label, OffLabel, ExitLabel, SusLabel,
  TaskLabel, State, CORE_IN_RESET, CORE_DISABLED, CORE_OFF, CORE_STANDBY,
  CORE_PWR_DOWN, CORE_WFE, CORE_OFF_PENDING, CORE_WORKING_INIT,
  CORE_PENDING, CORE_RELEASED

LEMMA ResetPlace ==
  ASSUME NEW s \in State
  PROVE  "reset" \in PlacesOf(s) <=>
           s \in {CORE_IN_RESET, CORE_DISABLED, CORE_PENDING}
BY PlacesByState
DEF Running, OnLabel, Asleep, Closing, Label, OffLabel, ExitLabel, SusLabel,
  TaskLabel, State, CORE_IN_RESET, CORE_DISABLED, CORE_OFF, CORE_STANDBY,
  CORE_PWR_DOWN, CORE_WFE, CORE_OFF_PENDING, CORE_WORKING_INIT,
  CORE_PENDING, CORE_RELEASED

LEMMA DistinctStates ==
  /\ CORE_RELEASED # CORE_STANDBY
  /\ CORE_PENDING # CORE_STANDBY
  /\ CORE_OFF # CORE_STANDBY
  /\ CORE_OFF_PENDING # CORE_STANDBY
  /\ CORE_WFE # CORE_STANDBY
  /\ CORE_PWR_DOWN # CORE_STANDBY
BY DEF CORE_IN_RESET, CORE_DISABLED, CORE_OFF, CORE_STANDBY,
  CORE_PWR_DOWN, CORE_WFE, CORE_OFF_PENDING, CORE_WORKING_INIT,
  CORE_PENDING, CORE_RELEASED

-----------------------------------------------------------------------------
(* A step of core c moves only core c; to the state of another core it can *)
(* only store CORE_PENDING.                                                *)

Honestly(c) ==
  /\ \A d \in Core \ {c} :
       /\ pc'[d] = pc[d]
       /\ frame'[d] = frame[d]
       /\ coreState'[d] \in {coreState[d], CORE_PENDING}
  /\ pc'[c] # "reset"
  /\ pc'[c] \in PlacesOf(coreState'[c])
  /\ coreState'[c] = CORE_STANDBY => frame'[c].kind \in StandbyKind
  /\ pc'[c] = "release" => coreState'[frame'[c].tgt] = CORE_PENDING
  /\ \A d \in brr' : d \in brr \/ (pc[d] = "reset" => coreState[d] = CORE_PENDING)

LEMMA HonestStep ==
  ASSUME HonestInv, TypeOK', NEW c \in Core, Honestly(c)
  PROVE  HonestInv'
<1> USE DEF HonestInv
<1>1. StateIsHonest'
  <2>1. SUFFICES ASSUME NEW d \in Core PROVE pc'[d] \in PlacesOf(coreState'[d])
    BY DEF StateIsHonest
  <2>2. CASE d = c
    BY <2>2 DEF Honestly
  <2>3. CASE d # c
    BY <2>3, PlacesByState DEF Honestly, StateIsHonest, TypeOK
  <2>4. QED  BY <2>2, <2>3
<1>2. (\A d \in brr : pc[d] = "reset" => coreState[d] = CORE_PENDING)'
  <2>1. SUFFICES ASSUME NEW d \in brr', pc'[d] = "reset"
                 PROVE  coreState'[d] = CORE_PENDING
    OBVIOUS
  <2>2. d \in Core /\ d # c
    BY <2>1 DEF TypeOK, Honestly
  <2>3. coreState[d] = CORE_PENDING
    BY <2>1, <2>2 DEF Honestly, ReleasedIsMarked
  <2>4. QED  BY <2>2, <2>3 DEF Honestly
<1>3. (\A d \in Core : pc[d] = "release" /\ pc[frame[d].tgt] = "reset" =>
         coreState[frame[d].tgt] = CORE_PENDING)'
  <2>1. SUFFICES ASSUME NEW d \in Core, pc'[d] = "release",
                        pc'[frame'[d].tgt] = "reset"
                 PROVE  coreState'[frame'[d].tgt] = CORE_PENDING
    OBVIOUS
  <2>2. CASE d = c
    BY <2>1, <2>2 DEF Honestly
  <2>3. CASE d # c
    <3>1. pc[d] = "release" /\ frame'[d] = frame[d]
      BY <2>1, <2>3 DEF Honestly
    <3>2. frame[d].tgt \in Core /\ frame[d].tgt # c
      BY <2>1, <3>1, Fields DEF Honestly, TypeOK
    <3>3. coreState[frame[d].tgt] = CORE_PENDING
      BY <2>1, <3>1, <3>2 DEF Honestly, ReleasedIsMarked
    <3>4. QED  BY <3>1, <3>2, <3>3 DEF Honestly
  <2>4. QED  BY <2>2, <2>3
<1>4. StandbyIsStandby'
  <2>1. SUFFICES ASSUME NEW d \in Core, coreState'[d] = CORE_STANDBY
                 PROVE  frame'[d].kind \in StandbyKind
    BY DEF StandbyIsStandby
  <2>2. CASE d = c
    BY <2>1, <2>2 DEF Honestly
  <2>3. CASE d # c
    BY <2>1, <2>3, DistinctStates DEF Honestly, StandbyIsStandby
  <2>4. QED  BY <2>2, <2>3
<1>5. QED  BY <1>1, <1>2, <1>3, <1>4 DEF ReleasedIsMarked

-----------------------------------------------------------------------------
(* The steps, one by one.                                                  *)

LEMMA OnStepHonest ==
  ASSUME HonestInv, NEW c \in Core, OnStep(c)
  PROVE  Honestly(c)
<1> USE DEF dataVars, hwVars, cpuVars
<1>0. /\ TypeOK
      /\ pc[c] \in PlacesOf(coreState[c])
      /\ coreState[c] \in State
      /\ coreState[c] = CORE_STANDBY => frame[c].kind \in StandbyKind
      /\ frame[c].tgt \in Core
  BY Fields DEF HonestInv, StateIsHonest, StandbyIsStandby, TypeOK
<1>1. CASE OnCheck(c)
  BY <1>0, <1>1, RunningPlaces, DistinctStates, States
  DEF OnCheck, Goto, Return, OnLabel, Running, Honestly, TypeOK
<1>2. CASE OnSpsr(c)
  BY <1>0, <1>2, RunningPlaces, DistinctStates, States
  DEF OnSpsr, Goto, OnLabel, Running, Honestly, TypeOK
<1>3. CASE OnStart(c)
  BY <1>0, <1>3, RunningPlaces, DistinctStates, States
  DEF OnStart, Goto, OnLabel, Running, Honestly, TypeOK
<1>4. CASE OnCntxt(c)
  BY <1>0, <1>4, RunningPlaces, DistinctStates, States
  DEF OnCntxt, Goto, OnLabel, Running, Honestly, TypeOK
<1>5. CASE OnReread(c)
  BY <1>0, <1>5, RunningPlaces, DistinctStates, States
  DEF OnReread, Goto, OnLabel, Running, Honestly, TypeOK
<1>6. CASE OnAbort(c)
  BY <1>0, <1>6, RunningPlaces, DistinctStates, States
  DEF OnAbort, Goto, OnLabel, Running, Honestly, TypeOK
<1>7. CASE OnWatch(c)
  BY <1>0, <1>7, RunningPlaces, DistinctStates, States
  DEF OnWatch, Goto, Return, OnLabel, Running, Honestly, TypeOK
<1>8. CASE ClaimReset(c)
  BY <1>0, <1>8, RunningPlaces, DistinctStates, States
  DEF ClaimReset, Claim, Goto, Return, SetState, OnLabel, Running, Honestly, TypeOK
<1>9. CASE ClaimOff(c)
  BY <1>0, <1>9, RunningPlaces, DistinctStates, States
  DEF ClaimOff, Claim, Goto, Return, SetState, OnLabel, Running, Honestly, TypeOK
<1>10. CASE ClaimWfe(c)
  BY <1>0, <1>10, RunningPlaces, DistinctStates, States
  DEF ClaimWfe, Claim, Goto, Return, SetState, OnLabel, Running, Honestly, TypeOK
<1>11. CASE Release(c)
  BY <1>0, <1>11, RunningPlaces, DistinctStates, States
  DEF Release, Return, HonestInv, ReleasedIsMarked, OnLabel, Running, Honestly, TypeOK
<1>12. CASE Restart(c)
  BY <1>0, <1>12, RunningPlaces, DistinctStates, States
  DEF Restart, Return, OnLabel, Running, Honestly, TypeOK
<1>13. CASE Sev(c)
  BY <1>0, <1>13, RunningPlaces, DistinctStates, States
  DEF Sev, Return, OnLabel, Running, Honestly, TypeOK
<1>14. QED
  BY <1>1, <1>2, <1>3, <1>4, <1>5, <1>6, <1>7, <1>8, <1>9, <1>10, <1>11,
     <1>12, <1>13 DEF OnStep

LEMMA OffStepHonest ==
  ASSUME HonestInv, NEW c \in Core, OffStep(c)
  PROVE  Honestly(c)
<1> USE DEF dataVars, hwVars, cpuVars
<1>0. /\ TypeOK
      /\ pc[c] \in PlacesOf(coreState[c])
      /\ coreState[c] \in State
      /\ coreState[c] = CORE_STANDBY => frame[c].kind \in StandbyKind
      /\ frame[c].tgt \in Core
  BY Fields DEF HonestInv, StateIsHonest, StandbyIsStandby, TypeOK
<1>1. CASE OffCount(c)
  BY <1>0, <1>1, RunningPlaces, DistinctStates, States
  DEF OffCount, Goto, Return, CountStep, OnLabel, Running, Honestly, TypeOK
<1>2. CASE OffState(c)
  BY <1>0, <1>2, RunningPlaces, DistinctStates, States
  DEF OffState, Goto, Return, OnLabel, Running, Honestly, TypeOK
<1>3. CASE OffPend(c)
  BY <1>0, <1>3, RunningPlaces, ClosingPlaces, DistinctStates, States
  DEF OffPend, Goto, SetState, Closing, OnLabel, Running, Honestly, TypeOK
<1>4. CASE OffPhase1(c)
  BY <1>0, <1>4, ClosingPlaces, DistinctStates, States
  DEF OffPhase1, AbortCheck, Goto, Closing, Honestly, TypeOK
<1>5. CASE OffPhase2(c)
  BY <1>0, <1>5, ClosingPlaces, DistinctStates, States
  DEF OffPhase2, AbortCheck, Goto, Closing, Honestly, TypeOK
<1>6. CASE AbortClr(c)
  BY <1>0, <1>6, ClosingPlaces, DistinctStates, States
  DEF AbortClr, Goto, Closing, Honestly, TypeOK
<1>7. CASE AbortPend(c)
  BY <1>0, <1>7, ClosingPlaces, ExitPlaces, DistinctStates, States
  DEF AbortPend, Goto, SetState, Closing, Honestly, TypeOK
<1>8. CASE OffEnter(c)
  BY <1>0, <1>8, ClosingPlaces, AsleepPlaces, DistinctStates, States
  DEF OffEnter, Goto, SetState, Asleep, Closing, Honestly, TypeOK
<1>9. CASE OffSgi(c)
  BY <1>0, <1>9, AsleepPlaces, DistinctStates, States
  DEF OffSgi, Goto, Asleep, Honestly, TypeOK
<1>10. CASE OffWake(c)
  BY <1>0, <1>10, AsleepPlaces, DistinctStates, States
  DEF OffWake, Goto, Asleep, Honestly, TypeOK
<1>11. CASE OffHit(c)
  BY <1>0, <1>11, AsleepPlaces, DistinctStates, States
  DEF OffHit, Goto, Asleep, Honestly, TypeOK
<1>12. CASE OffWoke(c)
  BY <1>0, <1>12, AsleepPlaces, ExitPlaces, DistinctStates, States
  DEF OffWoke, Goto, Asleep, Honestly, TypeOK
<1>13. QED
  BY <1>1, <1>2, <1>3, <1>4, <1>5, <1>6, <1>7, <1>8, <1>9, <1>10, <1>11,
     <1>12 DEF OffStep

LEMMA ExitStepHonest ==
  ASSUME HonestInv, NEW c \in Core, ExitStep(c)
  PROVE  Honestly(c)
<1> USE DEF dataVars, hwVars, cpuVars
<1>0. /\ TypeOK
      /\ pc[c] \in PlacesOf(coreState[c])
      /\ coreState[c] \in State
      /\ coreState[c] = CORE_STANDBY => frame[c].kind \in StandbyKind
      /\ frame[c].tgt \in Core
  BY Fields DEF HonestInv, StateIsHonest, StandbyIsStandby, TypeOK
<1>1. CASE SecondaryReset(c)
  BY <1>0, <1>1, ExitPlaces, DistinctStates, States
  DEF SecondaryReset, Goto, HonestInv, ReleasedIsMarked, Honestly, TypeOK
<1>2. CASE ExitStart(c)
  BY <1>0, <1>2, ExitPlaces, DistinctStates, States
  DEF ExitStart, Goto, Honestly, TypeOK
<1>3. CASE ExitRelease(c)
  BY <1>0, <1>3, ExitPlaces, RunningPlaces, DistinctStates, States
  DEF ExitRelease, Goto, SetState, OnLabel, Running, Honestly, TypeOK
<1>4. CASE ExitSpsr(c)
  BY <1>0, <1>4, RunningPlaces, DistinctStates, States
  DEF ExitSpsr, Goto, OnLabel, Running, Honestly, TypeOK
<1>5. CASE ExitCntxt(c)
  BY <1>0, <1>5, RunningPlaces, DistinctStates, States
  DEF ExitCntxt, Enter, OnLabel, Running, Honestly, TypeOK
<1>6. QED
  BY <1>1, <1>2, <1>3, <1>4, <1>5 DEF ExitStep

LEMMA TaskStepHonest ==
  ASSUME HonestInv, NEW c \in Core, TaskStep(c)
  PROVE  Honestly(c)
<1> USE DEF dataVars, hwVars, cpuVars
<1>0. /\ TypeOK
      /\ pc[c] \in PlacesOf(coreState[c])
      /\ coreState[c] \in State
      /\ coreState[c] = CORE_STANDBY => frame[c].kind \in StandbyKind
      /\ frame[c].tgt \in Core
  BY Fields DEF HonestInv, StateIsHonest, StandbyIsStandby, TypeOK
<1>1. CASE TaskCheck(c)
  BY <1>0, <1>1, TaskPlaces, ExitPlaces, DistinctStates, States
  DEF TaskCheck, Goto, Honestly, TypeOK
<1>2. CASE TaskSet(c)
  BY <1>0, <1>2, TaskPlaces, DistinctStates, States
  DEF TaskSet, Goto, SetState, Honestly, TypeOK
<1>3. CASE TaskWake(c)
  BY <1>0, <1>3, TaskPlaces, DistinctStates, States
  DEF TaskWake, Goto, Honestly, TypeOK
<1>4. QED
  BY <1>1, <1>2, <1>3 DEF TaskStep

LEMMA SusStepHonest ==
  ASSUME HonestInv, NEW c \in Core, SusStep(c)
  PROVE  Honestly(c)
<1> USE DEF dataVars, hwVars, cpuVars
<1>0. /\ TypeOK
      /\ pc[c] \in PlacesOf(coreState[c])
      /\ coreState[c] \in State
      /\ coreState[c] = CORE_STANDBY => frame[c].kind \in StandbyKind
      /\ frame[c].tgt \in Core
  BY Fields DEF HonestInv, StateIsHonest, StandbyIsStandby, TypeOK
<1>1. CASE SusCount(c)
  BY <1>0, <1>1, RunningPlaces, DistinctStates, States
  DEF SusCount, Goto, Return, CountStep, SusProceed, OnLabel, Running, Honestly, TypeOK
<1>2. CASE SusCntxt(c)
  BY <1>0, <1>2, RunningPlaces, DistinctStates, States
  DEF SusCntxt, Goto, OnLabel, Running, Honestly, TypeOK
<1>3. CASE SusStart(c)
  BY <1>0, <1>3, RunningPlaces, DistinctStates, States
  DEF SusStart, Goto, OnLabel, Running, Honestly, TypeOK
<1>4. CASE SusState(c)
  BY <1>0, <1>4, RunningPlaces, SuspendPlaces, DistinctStates, States
  DEF SusState, Goto, SetState, OnLabel, Running, Honestly, TypeOK
<1>5. CASE SusFailed(c)
  BY <1>0, <1>5, RunningPlaces, DistinctStates, States
  DEF SusFailed, Return, SetState, OnLabel, Running, Honestly, TypeOK
<1>6. CASE SusRelease(c)
  BY <1>0, <1>6, RunningPlaces, DistinctStates, States
  DEF SusRelease, Goto, Return, SetState, OnLabel, Running, Honestly, TypeOK
<1>7. CASE SusElr(c)
  BY <1>0, <1>7, RunningPlaces, DistinctStates, States
  DEF SusElr, Goto, OnLabel, Running, Honestly, TypeOK
<1>8. CASE SusX0(c)
  BY <1>0, <1>8, RunningPlaces, DistinctStates, States
  DEF SusX0, Enter, OnLabel, Running, Honestly, TypeOK
<1>9. QED
  BY <1>1, <1>2, <1>3, <1>4, <1>5, <1>6, <1>7, <1>8 DEF SusStep

LEMMA WakeHonest ==
  ASSUME HonestInv, NEW c \in Core, Wake(c)
  PROVE  Honestly(c)
<1> USE DEF dataVars, hwVars, cpuVars
<1>0. /\ TypeOK
      /\ pc[c] \in PlacesOf(coreState[c])
      /\ coreState[c] \in State
      /\ coreState[c] = CORE_STANDBY => frame[c].kind \in StandbyKind
      /\ frame[c].tgt \in Core
  BY Fields DEF HonestInv, StateIsHonest, StandbyIsStandby, TypeOK
<1>1. CASE OffSpuriousWake(c)
  BY <1>0, <1>1, AsleepPlaces, DistinctStates, States
  DEF OffSpuriousWake, Goto, Asleep, Honestly, TypeOK
<1>2. CASE TaskSpuriousWake(c)
  BY <1>0, <1>2, TaskPlaces, DistinctStates, States
  DEF TaskSpuriousWake, Goto, Honestly, TypeOK
<1>3. CASE SusWake(c)
  BY <1>0, <1>3, SuspendPlaces, DistinctStates, States
  DEF SusWake, Goto, Honestly, TypeOK
<1>4. CASE SusDdrFails(c)
  BY <1>0, <1>4, SuspendPlaces, DistinctStates, States
  DEF SusDdrFails, Goto, StandbyKind, Honestly, TypeOK
<1>5. QED
  BY <1>1, <1>2, <1>3, <1>4 DEF Wake

LEMMA CallHonest ==
  ASSUME HonestInv, NEW c \in Core, Call(c)
  PROVE  Honestly(c)
<1> USE DEF dataVars, hwVars, cpuVars
<1>0. /\ TypeOK
      /\ pc[c] \in PlacesOf(coreState[c])
      /\ coreState[c] \in State
      /\ coreState[c] = CORE_STANDBY => frame[c].kind \in StandbyKind
  BY DEF HonestInv, StateIsHonest, StandbyIsStandby, TypeOK
<1>1. ASSUME NEW t \in 0 .. CPU_MAX_COUNT, NEW a \in Args, CpuOnCall(c, t, a)
      PROVE  Honestly(c)
  BY <1>0, <1>1, RunningPlaces, DistinctStates
  DEF CpuOnCall, Goto, Return, Running, OnLabel, Honestly, TypeOK
<1>2. CASE CpuOffCall(c)
  BY <1>0, <1>2, RunningPlaces, DistinctStates
  DEF CpuOffCall, Goto, Return, Running, OnLabel, Honestly, TypeOK
<1>3. ASSUME NEW k \in SuspendKind \cup {"invalid"}, NEW a \in Args,
             SuspendCall(c, k, a)
      PROVE  Honestly(c)
  BY <1>0, <1>3, RunningPlaces, DistinctStates
  DEF SuspendCall, SusProceed, Goto, Return, Running, OnLabel, Honestly, TypeOK
<1>4. QED
  BY <1>1, <1>2, <1>3 DEF Call

-----------------------------------------------------------------------------

LEMMA HonestInit == Init => HonestInv
<1> SUFFICES ASSUME Init PROVE HonestInv
  OBVIOUS
<1>1. TypeOK
  BY InitTypes
<1>2. StateIsHonest
  <2>1. SUFFICES ASSUME NEW c \in Core PROVE pc[c] \in PlacesOf(coreState[c])
    BY DEF StateIsHonest
  <2>2. CASE c = 0
    BY <2>2, SocAssumption, States, RunningPlaces DEF Init, Running
  <2>3. CASE c \in Disabled
    BY <2>3, SocAssumption, States, ResetPlace DEF Init
  <2>4. CASE c \in TaskCores
    BY <2>4, SocAssumption, States, TaskPlaces DEF Init
  <2>5. CASE c \notin {0} \cup Disabled \cup TaskCores
    BY <2>5, States, ResetPlace DEF Init
  <2>6. QED  BY <2>2, <2>3, <2>4, <2>5
<1>3. ReleasedIsMarked
  BY SocAssumption DEF Init, ReleasedIsMarked
<1>4. StandbyIsStandby
  BY DEF Init, StandbyIsStandby, CORE_RELEASED, CORE_DISABLED,
         CORE_WORKING_INIT, CORE_IN_RESET, CORE_STANDBY
<1>5. QED  BY <1>1, <1>2, <1>3, <1>4 DEF HonestInv

LEMMA HonestNext ==
  ASSUME HonestInv, [Next]_vars
  PROVE  HonestInv'
<1>1. TypeOK'
  BY NextTypes DEF HonestInv
<1>2. ASSUME NEW c \in Core, Step(c) \/ Wake(c) \/ Call(c)
      PROVE  HonestInv'
  <2>1. Honestly(c)
    BY <1>2, OnStepHonest, OffStepHonest, ExitStepHonest, TaskStepHonest,
       SusStepHonest, WakeHonest, CallHonest
    DEF Step
  <2>2. QED  BY <1>1, <2>1, HonestStep
<1>3. CASE UNCHANGED vars
  BY <1>3 DEF vars, dataVars, hwVars, cpuVars, HonestInv, TypeOK, StateIsHonest,
              ReleasedIsMarked, StandbyIsStandby
<1>4. QED  BY <1>2, <1>3 DEF Next

\* However the calls of all the cores interleave, and whatever cores issue
\* CPU_ON, the state in a core's data area tells where the core is: a core that
\* runs the normal world never reads as off, in reset or suspended, and one
\* that reads CORE_OFF is behind its last store before the wfi (psci.s and
\* _soc_core_entr_off).
THEOREM Honest == Spec => []StateIsHonest
<1>1. Init => HonestInv
  BY HonestInit
<1>2. HonestInv /\ [Next]_vars => HonestInv'
  BY HonestNext
<1>3. HonestInv => StateIsHonest
  BY DEF HonestInv
<1>4. QED
  BY <1>1, <1>2, <1>3, PTL DEF Spec

-----------------------------------------------------------------------------
(* PendingIsNotRunning with one core that calls CPU_ON.  It needs two more *)
(* facts: only a caller is inside CPU_ON, and a target that was seen off,  *)
(* in reset or in wfe is still so when it is claimed - nobody else could   *)
(* have claimed it meanwhile, and the target itself does not leave such a  *)
(* state.  Two callers that see the same core off may both claim it, and  *)
(* the second one then marks a core that has already started.              *)

\* Where a core is that was marked and has not started yet.
Held == Asleep \cup TaskLabel \cup {"reset", "exit_start", "exit_release"}

Claimable == {CORE_OFF, CORE_IN_RESET, CORE_WFE}
ClaimLabel == {"claim_off", "claim_reset", "claim_wfe"}

CallersCall == \A c \in Core : pc[c] \in OnLabel => c \in Callers

SeenIsStillSo ==
  \A c \in Core :
    /\ pc[c] = "claim_off" => coreState[frame[c].tgt] = CORE_OFF
    /\ pc[c] = "claim_reset" => coreState[frame[c].tgt] = CORE_IN_RESET
    /\ pc[c] = "claim_wfe" => coreState[frame[c].tgt] = CORE_WFE

OneCallerInv ==
  HonestInv /\ PendingIsNotRunning /\ CallersCall /\ SeenIsStillSo

\* The places of a core that can be claimed, of one that is held, and of one
\* inside CPU_ON do not overlap.
LEMMA ClaimablePlaces ==
  ASSUME NEW s \in Claimable
  PROVE  /\ s \in State /\ s # CORE_PENDING
         /\ PlacesOf(s) \subseteq Asleep \cup TaskLabel \cup {"reset"}
BY PlacesByState DEF Claimable, TaskLabel, State, CORE_OFF, CORE_IN_RESET,
  CORE_WFE, CORE_PENDING

LEMMA HeldPlaces ==
  /\ Running \cap Held = {}
  /\ Closing \cap Held = {}
  /\ OnLabel \subseteq Running
  /\ "sus_wfi" \notin Held
  /\ "sus_release" \notin Held
  /\ "sus_failed" \notin Held
BY DEF Running, Closing, Held, OnLabel, Asleep, TaskLabel

LEMMA MarkIsOther ==
  /\ CORE_RELEASED # CORE_PENDING
  /\ CORE_OFF_PENDING # CORE_PENDING
  /\ CORE_OFF # CORE_PENDING
  /\ CORE_STANDBY # CORE_PENDING
  /\ CORE_PWR_DOWN # CORE_PENDING
  /\ CORE_WFE # CORE_PENDING
  /\ CORE_OFF # CORE_IN_RESET /\ CORE_OFF # CORE_WFE /\ CORE_IN_RESET # CORE_WFE
  /\ CORE_RELEASED \notin Claimable /\ CORE_OFF_PENDING \notin Claimable
  /\ CORE_STANDBY \notin Claimable /\ CORE_PWR_DOWN \notin Claimable
  /\ CORE_WORKING_INIT \notin Claimable /\ CORE_PENDING \notin Claimable
BY DEF Claimable, CORE_IN_RESET, CORE_OFF, CORE_STANDBY, CORE_PWR_DOWN,
  CORE_WFE, CORE_OFF_PENDING, CORE_WORKING_INIT, CORE_PENDING, CORE_RELEASED

\* What a step of core c does to the states, besides what Honestly says.
Claims(c) ==
  /\ pc'[c] \in OnLabel => pc[c] \in OnLabel \/ c \in Callers
  /\ pc'[c] = "claim_off" => coreState'[frame'[c].tgt] = CORE_OFF
  /\ pc'[c] = "claim_reset" => coreState'[frame'[c].tgt] = CORE_IN_RESET
  /\ pc'[c] = "claim_wfe" => coreState'[frame'[c].tgt] = CORE_WFE
  /\ coreState'[c] = CORE_PENDING => pc'[c] \in Held
  /\ pc[c] \notin OnLabel /\ coreState[c] \in Claimable => coreState'[c] = coreState[c]
  /\ \A d \in Core \ {c} :
       \/ coreState'[d] = coreState[d]
       \/ pc[c] \in ClaimLabel /\ d = frame[c].tgt

LEMMA ClaimsStep ==
  ASSUME NEW b, Callers = {b}, OneCallerInv, NEW c \in Core,
         Honestly(c), Claims(c), HonestInv'
  PROVE  OneCallerInv'
<1>0. /\ TypeOK
      /\ \A d \in Core : pc[d] \in PlacesOf(coreState[d])
  BY DEF OneCallerInv, HonestInv, StateIsHonest
<1>1. PendingIsNotRunning'
  <2> SUFFICES ASSUME NEW d \in Core, coreState'[d] = CORE_PENDING
               PROVE  pc'[d] \in Held
    BY DEF PendingIsNotRunning, Held
  <2>1. CASE d = c
    BY <2>1 DEF Claims
  <2>2. CASE d # c /\ coreState[d] = CORE_PENDING
    BY <2>2 DEF Honestly, OneCallerInv, PendingIsNotRunning, Held
  <2>3. CASE d # c /\ coreState[d] # CORE_PENDING
    <3>1. pc[c] \in ClaimLabel /\ d = frame[c].tgt
      BY <2>3 DEF Claims
    <3>2. coreState[d] \in Claimable
      BY <3>1 DEF OneCallerInv, SeenIsStillSo, ClaimLabel, Claimable
    <3>3. pc[d] \in Held
      BY <1>0, <3>2, ClaimablePlaces DEF Held
    <3>4. QED  BY <2>3, <3>3 DEF Honestly
  <2>4. QED  BY <2>1, <2>2, <2>3
<1>2. CallersCall'
  BY DEF CallersCall, Claims, Honestly, OneCallerInv
<1>3. SeenIsStillSo'
  <2> SUFFICES ASSUME NEW d \in Core
               PROVE  /\ pc'[d] = "claim_off" => coreState'[frame'[d].tgt] = CORE_OFF
                      /\ pc'[d] = "claim_reset" => coreState'[frame'[d].tgt] = CORE_IN_RESET
                      /\ pc'[d] = "claim_wfe" => coreState'[frame'[d].tgt] = CORE_WFE
    BY DEF SeenIsStillSo
  <2>1. CASE d = c
    BY <2>1 DEF Claims
  <2>2. CASE d # c /\ pc'[d] \in ClaimLabel
    <3> DEFINE t == frame[d].tgt
    <3>1. /\ pc[d] = pc'[d] /\ frame'[d] = frame[d]
          /\ t \in Core
      BY <1>0, <2>2, Fields DEF Honestly, TypeOK
    <3>2. d = b
      BY <2>2, <3>1 DEF OneCallerInv, CallersCall, ClaimLabel, OnLabel
    <3>3. pc[c] \notin OnLabel
      BY <2>2, <3>2 DEF OneCallerInv, CallersCall
    <3>4. coreState[t] \in Claimable
      BY <2>2, <3>1 DEF OneCallerInv, SeenIsStillSo, ClaimLabel, Claimable
    <3>5. coreState'[t] = coreState[t]
      BY <3>1, <3>3, <3>4 DEF Claims, ClaimLabel, OnLabel
    <3>6. QED  BY <2>2, <3>1, <3>5 DEF OneCallerInv, SeenIsStillSo
  <2>3. CASE d # c /\ pc'[d] \notin ClaimLabel
    BY <2>3 DEF ClaimLabel
  <2>4. QED  BY <2>1, <2>2, <2>3
<1>4. QED  BY <1>1, <1>2, <1>3 DEF OneCallerInv

LEMMA OnStepClaims ==
  ASSUME OneCallerInv, NEW c \in Core, OnStep(c)
  PROVE  Claims(c)
<1> USE MarkIsOther DEF dataVars, hwVars, cpuVars, Claims
<1>0. /\ TypeOK
      /\ pc[c] \in PlacesOf(coreState[c])
      /\ coreState[c] \in State
      /\ frame[c].tgt \in Core
      /\ pc[c] \in Running \cup Closing \cup {"sus_wfi", "sus_release", "sus_failed"}
           => coreState[c] # CORE_PENDING
  BY Fields, HeldPlaces DEF OneCallerInv, HonestInv, StateIsHonest, PendingIsNotRunning, Held, TypeOK
<1>1. CASE OnCheck(c)
  BY <1>0, <1>1, RunningPlaces
  DEF OnCheck, Goto, Return, OnLabel, Running, Closing, Held, Asleep, TaskLabel, TypeOK
<1>2. CASE OnSpsr(c)
  BY <1>0, <1>2, RunningPlaces
  DEF OnSpsr, Goto, OnLabel, Running, Closing, Held, Asleep, TaskLabel, TypeOK
<1>3. CASE OnStart(c)
  BY <1>0, <1>3, RunningPlaces
  DEF OnStart, Goto, OnLabel, Running, Closing, Held, Asleep, TaskLabel, TypeOK
<1>4. CASE OnCntxt(c)
  BY <1>0, <1>4, RunningPlaces
  DEF OnCntxt, Goto, OnLabel, Running, Closing, Held, Asleep, TaskLabel, TypeOK
<1>5. CASE OnReread(c)
  BY <1>0, <1>5, RunningPlaces
  DEF OnReread, Goto, OnLabel, Running, Closing, Held, Asleep, TaskLabel, TypeOK
<1>6. CASE OnAbort(c)
  BY <1>0, <1>6, RunningPlaces
  DEF OnAbort, Goto, OnLabel, Running, Closing, Held, Asleep, TaskLabel, TypeOK
<1>7. CASE OnWatch(c)
  BY <1>0, <1>7, RunningPlaces
  DEF OnWatch, Goto, Return, OnLabel, Running, Closing, Held, Asleep, TaskLabel, TypeOK
<1>8. CASE ClaimReset(c)
  BY <1>0, <1>8, RunningPlaces
  DEF ClaimReset, Goto, Claim, Return, SetState, OnLabel, Running, Closing, Held, Asleep, TaskLabel, TypeOK, OneCallerInv, SeenIsStillSo, ClaimLabel, Claimable
<1>9. CASE ClaimOff(c)
  BY <1>0, <1>9, RunningPlaces
  DEF ClaimOff, Goto, Claim, Return, SetState, OnLabel, Running, Closing, Held, Asleep, TaskLabel, TypeOK, OneCallerInv, SeenIsStillSo, ClaimLabel, Claimable
<1>10. CASE ClaimWfe(c)
  BY <1>0, <1>10, RunningPlaces
  DEF ClaimWfe, Goto, Claim, Return, SetState, OnLabel, Running, Closing, Held, Asleep, TaskLabel, TypeOK, OneCallerInv, SeenIsStillSo, ClaimLabel, Claimable
<1>11. CASE Release(c)
  BY <1>0, <1>11, RunningPlaces
  DEF Release, Return, OnLabel, Running, Closing, Held, Asleep, TaskLabel, TypeOK
<1>12. CASE Restart(c)
  BY <1>0, <1>12, RunningPlaces
  DEF Restart, Return, OnLabel, Running, Closing, Held, Asleep, TaskLabel, TypeOK
<1>13. CASE Sev(c)
  BY <1>0, <1>13, RunningPlaces
  DEF Sev, Return, OnLabel, Running, Closing, Held, Asleep, TaskLabel, TypeOK
<1>14. QED
  BY <1>1, <1>2, <1>3, <1>4, <1>5, <1>6, <1>7, <1>8, <1>9, <1>10, <1>11, <1>12, <1>13
  DEF OnStep

LEMMA OffStepClaims ==
  ASSUME OneCallerInv, NEW c \in Core, OffStep(c)
  PROVE  Claims(c)
<1> USE MarkIsOther DEF dataVars, hwVars, cpuVars, Claims
<1>0. /\ TypeOK
      /\ pc[c] \in PlacesOf(coreState[c])
      /\ coreState[c] \in State
      /\ frame[c].tgt \in Core
      /\ pc[c] \in Running \cup Closing \cup {"sus_wfi", "sus_release", "sus_failed"}
           => coreState[c] # CORE_PENDING
  BY Fields, HeldPlaces DEF OneCallerInv, HonestInv, StateIsHonest, PendingIsNotRunning, Held, TypeOK
<1>1. CASE OffCount(c)
  BY <1>0, <1>1, RunningPlaces, ClosingPlaces, AsleepPlaces
  DEF OffCount, Goto, Return, CountStep, OnLabel, Running, Closing, Held, Asleep, TaskLabel, TypeOK
<1>2. CASE OffState(c)
  BY <1>0, <1>2, RunningPlaces, ClosingPlaces, AsleepPlaces
  DEF OffState, Goto, Return, OnLabel, Running, Closing, Held, Asleep, TaskLabel, TypeOK
<1>3. CASE OffPend(c)
  BY <1>0, <1>3, RunningPlaces, ClosingPlaces, AsleepPlaces
  DEF OffPend, Goto, SetState, OnLabel, Running, Closing, Held, Asleep, TaskLabel, TypeOK
<1>4. CASE OffPhase1(c)
  BY <1>0, <1>4, RunningPlaces, ClosingPlaces, AsleepPlaces
  DEF OffPhase1, Goto, AbortCheck, OnLabel, Running, Closing, Held, Asleep, TaskLabel, TypeOK
<1>5. CASE OffPhase2(c)
  BY <1>0, <1>5, RunningPlaces, ClosingPlaces, AsleepPlaces
  DEF OffPhase2, Goto, AbortCheck, OnLabel, Running, Closing, Held, Asleep, TaskLabel, TypeOK
<1>6. CASE AbortClr(c)
  BY <1>0, <1>6, RunningPlaces, ClosingPlaces, AsleepPlaces
  DEF AbortClr, Goto, OnLabel, Running, Closing, Held, Asleep, TaskLabel, TypeOK
<1>7. CASE AbortPend(c)
  BY <1>0, <1>7, RunningPlaces, ClosingPlaces, AsleepPlaces
  DEF AbortPend, Goto, SetState, OnLabel, Running, Closing, Held, Asleep, TaskLabel, TypeOK
<1>8. CASE OffEnter(c)
  BY <1>0, <1>8, RunningPlaces, ClosingPlaces, AsleepPlaces
  DEF OffEnter, Goto, SetState, OnLabel, Running, Closing, Held, Asleep, TaskLabel, TypeOK
<1>9. CASE OffSgi(c)
  BY <1>0, <1>9, RunningPlaces, ClosingPlaces, AsleepPlaces
  DEF OffSgi, Goto, OnLabel, Running, Closing, Held, Asleep, TaskLabel, TypeOK
<1>10. CASE OffWake(c)
  BY <1>0, <1>10, RunningPlaces, ClosingPlaces, AsleepPlaces
  DEF OffWake, Goto, OnLabel, Running, Closing, Held, Asleep, TaskLabel, TypeOK
<1>11. CASE OffHit(c)
  BY <1>0, <1>11, RunningPlaces, ClosingPlaces, AsleepPlaces
  DEF OffHit, Goto, OnLabel, Running, Closing, Held, Asleep, TaskLabel, TypeOK
<1>12. CASE OffWoke(c)
  BY <1>0, <1>12, RunningPlaces, ClosingPlaces, AsleepPlaces
  DEF OffWoke, Goto, OnLabel, Running, Closing, Held, Asleep, TaskLabel, TypeOK
<1>13. QED
  BY <1>1, <1>2, <1>3, <1>4, <1>5, <1>6, <1>7, <1>8, <1>9, <1>10, <1>11, <1>12
  DEF OffStep

LEMMA ExitStepClaims ==
  ASSUME OneCallerInv, NEW c \in Core, ExitStep(c)
  PROVE  Claims(c)
<1> USE MarkIsOther DEF dataVars, hwVars, cpuVars, Claims
<1>0. /\ TypeOK
      /\ pc[c] \in PlacesOf(coreState[c])
      /\ coreState[c] \in State
      /\ frame[c].tgt \in Core
      /\ pc[c] \in Running \cup Closing \cup {"sus_wfi", "sus_release", "sus_failed"}
           => coreState[c] # CORE_PENDING
  BY Fields, HeldPlaces DEF OneCallerInv, HonestInv, StateIsHonest, PendingIsNotRunning, Held, TypeOK
<1>1. CASE SecondaryReset(c)
  BY <1>0, <1>1, RunningPlaces, ExitPlaces
  DEF SecondaryReset, Goto, OnLabel, Running, Closing, Held, Asleep, TaskLabel, TypeOK
<1>2. CASE ExitStart(c)
  BY <1>0, <1>2, RunningPlaces, ExitPlaces
  DEF ExitStart, Goto, OnLabel, Running, Closing, Held, Asleep, TaskLabel, TypeOK
<1>3. CASE ExitRelease(c)
  BY <1>0, <1>3, RunningPlaces, ExitPlaces
  DEF ExitRelease, Goto, SetState, OnLabel, Running, Closing, Held, Asleep, TaskLabel, TypeOK
<1>4. CASE ExitSpsr(c)
  BY <1>0, <1>4, RunningPlaces, ExitPlaces
  DEF ExitSpsr, Goto, OnLabel, Running, Closing, Held, Asleep, TaskLabel, TypeOK
<1>5. CASE ExitCntxt(c)
  BY <1>0, <1>5, RunningPlaces, ExitPlaces
  DEF ExitCntxt, Enter, OnLabel, Running, Closing, Held, Asleep, TaskLabel, TypeOK
<1>6. QED
  BY <1>1, <1>2, <1>3, <1>4, <1>5
  DEF ExitStep

LEMMA TaskStepClaims ==
  ASSUME OneCallerInv, NEW c \in Core, TaskStep(c)
  PROVE  Claims(c)
<1> USE MarkIsOther DEF dataVars, hwVars, cpuVars, Claims
<1>0. /\ TypeOK
      /\ pc[c] \in PlacesOf(coreState[c])
      /\ coreState[c] \in State
      /\ frame[c].tgt \in Core
      /\ pc[c] \in Running \cup Closing \cup {"sus_wfi", "sus_release", "sus_failed"}
           => coreState[c] # CORE_PENDING
  BY Fields, HeldPlaces DEF OneCallerInv, HonestInv, StateIsHonest, PendingIsNotRunning, Held, TypeOK
<1>1. CASE TaskCheck(c)
  BY <1>0, <1>1, TaskPlaces
  DEF TaskCheck, Goto, OnLabel, Running, Closing, Held, Asleep, TaskLabel, TypeOK
<1>2. CASE TaskSet(c)
  BY <1>0, <1>2, TaskPlaces
  DEF TaskSet, Goto, SetState, OnLabel, Running, Closing, Held, Asleep, TaskLabel, TypeOK
<1>3. CASE TaskWake(c)
  BY <1>0, <1>3, TaskPlaces
  DEF TaskWake, Goto, OnLabel, Running, Closing, Held, Asleep, TaskLabel, TypeOK
<1>4. QED
  BY <1>1, <1>2, <1>3
  DEF TaskStep

LEMMA SusStepClaims ==
  ASSUME OneCallerInv, NEW c \in Core, SusStep(c)
  PROVE  Claims(c)
<1> USE MarkIsOther DEF dataVars, hwVars, cpuVars, Claims
<1>0. /\ TypeOK
      /\ pc[c] \in PlacesOf(coreState[c])
      /\ coreState[c] \in State
      /\ frame[c].tgt \in Core
      /\ pc[c] \in Running \cup Closing \cup {"sus_wfi", "sus_release", "sus_failed"}
           => coreState[c] # CORE_PENDING
  BY Fields, HeldPlaces DEF OneCallerInv, HonestInv, StateIsHonest, PendingIsNotRunning, Held, TypeOK
<1>1. CASE SusCount(c)
  BY <1>0, <1>1, RunningPlaces, SuspendPlaces
  DEF SusCount, Goto, Return, CountStep, SusProceed, OnLabel, Running, Closing, Held, Asleep, TaskLabel, TypeOK
<1>2. CASE SusCntxt(c)
  BY <1>0, <1>2, RunningPlaces, SuspendPlaces
  DEF SusCntxt, Goto, OnLabel, Running, Closing, Held, Asleep, TaskLabel, TypeOK
<1>3. CASE SusStart(c)
  BY <1>0, <1>3, RunningPlaces, SuspendPlaces
  DEF SusStart, Goto, OnLabel, Running, Closing, Held, Asleep, TaskLabel, TypeOK
<1>4. CASE SusState(c)
  BY <1>0, <1>4, RunningPlaces, SuspendPlaces
  DEF SusState, Goto, SetState, OnLabel, Running, Closing, Held, Asleep, TaskLabel, TypeOK
<1>5. CASE SusFailed(c)
  BY <1>0, <1>5, RunningPlaces, SuspendPlaces
  DEF SusFailed, Return, SetState, OnLabel, Running, Closing, Held, Asleep, TaskLabel, TypeOK
<1>6. CASE SusRelease(c)
  BY <1>0, <1>6, RunningPlaces, SuspendPlaces
  DEF SusRelease, Goto, Return, SetState, OnLabel, Running, Closing, Held, Asleep, TaskLabel, TypeOK
<1>7. CASE SusElr(c)
  BY <1>0, <1>7, RunningPlaces, SuspendPlaces
  DEF SusElr, Goto, OnLabel, Running, Closing, Held, Asleep, TaskLabel, TypeOK
<1>8. CASE SusX0(c)
  BY <1>0, <1>8, RunningPlaces, SuspendPlaces
  DEF SusX0, Enter, OnLabel, Running, Closing, Held, Asleep, TaskLabel, TypeOK
<1>9. QED
  BY <1>1, <1>2, <1>3, <1>4, <1>5, <1>6, <1>7, <1>8
  DEF SusStep

LEMMA WakeClaims ==
  ASSUME OneCallerInv, NEW c \in Core, Wake(c)
  PROVE  Claims(c)
<1> USE MarkIsOther DEF dataVars, hwVars, cpuVars, Claims
<1>0. /\ TypeOK
      /\ pc[c] \in PlacesOf(coreState[c])
      /\ coreState[c] \in State
      /\ frame[c].tgt \in Core
      /\ pc[c] \in Running \cup Closing \cup {"sus_wfi", "sus_release", "sus_failed"}
           => coreState[c] # CORE_PENDING
  BY Fields, HeldPlaces DEF OneCallerInv, HonestInv, StateIsHonest, PendingIsNotRunning, Held, TypeOK
<1>1. CASE OffSpuriousWake(c)
  BY <1>0, <1>1, AsleepPlaces, TaskPlaces, SuspendPlaces
  DEF OffSpuriousWake, Goto, OnLabel, Running, Closing, Held, Asleep, TaskLabel, TypeOK
<1>2. CASE TaskSpuriousWake(c)
  BY <1>0, <1>2, AsleepPlaces, TaskPlaces, SuspendPlaces
  DEF TaskSpuriousWake, Goto, OnLabel, Running, Closing, Held, Asleep, TaskLabel, TypeOK
<1>3. CASE SusWake(c)
  BY <1>0, <1>3, AsleepPlaces, TaskPlaces, SuspendPlaces
  DEF SusWake, Goto, OnLabel, Running, Closing, Held, Asleep, TaskLabel, TypeOK
<1>4. CASE SusDdrFails(c)
  BY <1>0, <1>4, AsleepPlaces, TaskPlaces, SuspendPlaces
  DEF SusDdrFails, Goto, OnLabel, Running, Closing, Held, Asleep, TaskLabel, TypeOK
<1>5. QED
  BY <1>1, <1>2, <1>3, <1>4
  DEF Wake

LEMMA CallClaims ==
  ASSUME OneCallerInv, NEW c \in Core, Call(c)
  PROVE  Claims(c)
<1> USE MarkIsOther DEF dataVars, hwVars, cpuVars, Claims
<1>0. /\ TypeOK
      /\ pc[c] \in PlacesOf(coreState[c])
      /\ coreState[c] \in State
      /\ frame[c].tgt \in Core
      /\ pc[c] \in Running \cup Closing \cup {"sus_wfi", "sus_release", "sus_failed"}
           => coreState[c] # CORE_PENDING
  BY Fields, HeldPlaces DEF OneCallerInv, HonestInv, StateIsHonest, PendingIsNotRunning, Held, TypeOK
<1>1. ASSUME NEW t \in 0 .. CPU_MAX_COUNT, NEW a \in Args, CpuOnCall(c, t, a)
      PROVE  Claims(c)
  BY <1>0, <1>1 DEF CpuOnCall, Goto, Return, OnLabel, Running, TypeOK
<1>2. CASE CpuOffCall(c)
  BY <1>0, <1>2 DEF CpuOffCall, Goto, Return, OnLabel, Running, TypeOK
<1>3. ASSUME NEW k \in SuspendKind \cup {"invalid"}, NEW a \in Args,
             SuspendCall(c, k, a)
      PROVE  Claims(c)
  BY <1>0, <1>3 DEF SuspendCall, SusProceed, Goto, Return, OnLabel, Running, TypeOK
<1>4. QED
  BY <1>1, <1>2, <1>3 DEF Call

LEMMA OneCallerInit == Init => OneCallerInv
<1> SUFFICES ASSUME Init PROVE OneCallerInv
  OBVIOUS
<1>1. HonestInv
  BY HonestInit
<1>2. PendingIsNotRunning
  BY DEF Init, PendingIsNotRunning, CORE_RELEASED, CORE_DISABLED,
         CORE_WORKING_INIT, CORE_IN_RESET, CORE_PENDING
<1>3. \A c \in Core : pc[c] \in {"os", "task_check", "reset"}
  BY DEF Init
<1>4. CallersCall /\ SeenIsStillSo
  BY <1>3 DEF CallersCall, SeenIsStillSo, OnLabel
<1>5. QED  BY <1>1, <1>2, <1>4 DEF OneCallerInv

LEMMA OneCallerNext ==
  ASSUME NEW b, Callers = {b}, OneCallerInv, [Next]_vars
  PROVE  OneCallerInv'
<1>0. HonestInv /\ HonestInv'
  BY HonestNext DEF OneCallerInv
<1>1. ASSUME NEW c \in Core, Step(c) \/ Wake(c) \/ Call(c)
      PROVE  OneCallerInv'
  <2>1. Honestly(c)
    BY <1>0, <1>1, OnStepHonest, OffStepHonest, ExitStepHonest, TaskStepHonest,
       SusStepHonest, WakeHonest, CallHonest
    DEF Step
  <2>2. Claims(c)
    BY <1>1, OnStepClaims, OffStepClaims, ExitStepClaims, TaskStepClaims,
       SusStepClaims, WakeClaims, CallClaims
    DEF Step
  <2>3. QED  BY <1>0, <2>1, <2>2, ClaimsStep
<1>2. CASE UNCHANGED vars
  BY <1>0, <1>2 DEF vars, dataVars, hwVars, cpuVars, OneCallerInv,
     PendingIsNotRunning, CallersCall, SeenIsStillSo
<1>3. QED  BY <1>1, <1>2 DEF Next

\* As long as one core at a time issues CPU_ON, and all the others only turn
\* themselves off and suspend, CPU_ON marks CORE_PENDING only a core that is
\* held: never one that runs the normal world, is half way into CPU_OFF, or is
\* suspended (psci.s, from the second load of the state to core_in_reset,
\* core_is_off and core_in_wfe, which store without looking again).
THEOREM Unmarked ==
  ASSUME NEW b, Callers = {b}
  PROVE  Spec => []PendingIsNotRunning
<1>1. Init => OneCallerInv
  BY OneCallerInit
<1>2. OneCallerInv /\ [Next]_vars => OneCallerInv'
  BY OneCallerNext
<1>3. OneCallerInv => PendingIsNotRunning
  BY DEF OneCallerInv
<1>4. QED
  BY <1>1, <1>2, <1>3, PTL DEF Spec

-----------------------------------------------------------------------------
(* The refinement of PsciPower by a port without OCRAM task cores, with    *)
(* one core that calls CPU_ON.  (A task core can store CORE_WFE over a     *)
(* mark, utils.s:802, which no step of PsciPower allows.)                  *)

NoTask == \A c \in Core : pc[c] \notin TaskLabel

RefineInv == OneCallerInv /\ NoTask

\* The moves of PsciPower, and a stutter, as pairs of states of a data area.
Moves(s, t) ==
  \/ PowerOf(s) = PowerOf(t)
  \/ <<PowerOf(s), PowerOf(t)>> \in
       {<<"off", "pending">>, <<"pending", "on">>, <<"on", "off">>,
        <<"on", "suspended">>, <<"suspended", "on">>}

\* A step stores at most one state, and as a move of PsciPower.
MovesOne ==
  \/ coreState' = coreState
  \/ \E d \in Core, s \in State :
       coreState' = [coreState EXCEPT ![d] = s] /\ Moves(coreState[d], s)

LEMMA PowerByState ==
  /\ PowerOf(CORE_IN_RESET) = "off"
  /\ PowerOf(CORE_DISABLED) = "off"
  /\ PowerOf(CORE_OFF) = "off"
  /\ PowerOf(CORE_WFE) = "off"
  /\ PowerOf(CORE_WORKING_INIT) = "off"
  /\ PowerOf(CORE_OFF_PENDING) = "off"
  /\ PowerOf(CORE_PENDING) = "pending"
  /\ PowerOf(CORE_RELEASED) = "on"
  /\ PowerOf(CORE_STANDBY) = "suspended"
  /\ PowerOf(CORE_PWR_DOWN) = "suspended"
BY DEF PowerOf, CORE_IN_RESET, CORE_DISABLED, CORE_OFF, CORE_STANDBY,
  CORE_PWR_DOWN, CORE_WFE, CORE_OFF_PENDING, CORE_WORKING_INIT, CORE_PENDING,
  CORE_RELEASED

\* The moves the handlers make.
LEMMA MovesByState ==
  /\ \A s \in Claimable : Moves(s, CORE_PENDING)
  /\ Moves(CORE_OFF_PENDING, CORE_PENDING)
  /\ Moves(CORE_PENDING, CORE_RELEASED)
  /\ Moves(CORE_RELEASED, CORE_OFF_PENDING)
  /\ Moves(CORE_OFF_PENDING, CORE_OFF)
  /\ Moves(CORE_RELEASED, CORE_STANDBY)
  /\ Moves(CORE_RELEASED, CORE_PWR_DOWN)
  /\ Moves(CORE_STANDBY, CORE_RELEASED)
  /\ Moves(CORE_PWR_DOWN, CORE_RELEASED)
BY PowerByState DEF Moves, Claimable

\* What a place says of the state when only held cores are marked.
LEMMA StateByPlace ==
  ASSUME RefineInv, NEW c \in Core
  PROVE  /\ pc[c] \in Running => coreState[c] = CORE_RELEASED
         /\ pc[c] \in Closing => coreState[c] = CORE_OFF_PENDING
         /\ pc[c] \in {"exit_start", "exit_release"} => coreState[c] = CORE_PENDING
         /\ pc[c] \in {"sus_wfi", "sus_release", "sus_failed"} =>
              coreState[c] \in {CORE_STANDBY, CORE_PWR_DOWN}
         /\ pc[c] \in ClaimLabel => coreState[frame[c].tgt] \in Claimable
         /\ pc[c] \notin TaskLabel
         /\ frame[c].tgt \in Core
<1>1. /\ TypeOK
      /\ pc[c] \in PlacesOf(coreState[c])
      /\ coreState[c] \in State
      /\ coreState[c] = CORE_PENDING => pc[c] \in Held
  BY DEF RefineInv, OneCallerInv, HonestInv, StateIsHonest, PendingIsNotRunning, Held, TypeOK
<1>2. pc[c] \in Running => coreState[c] = CORE_RELEASED
  BY <1>1, RunningPlaces, HeldPlaces
<1>3. pc[c] \in Closing => coreState[c] = CORE_OFF_PENDING
  BY <1>1, ClosingPlaces, HeldPlaces
<1>4. pc[c] \in {"exit_start", "exit_release"} => coreState[c] = CORE_PENDING
  BY <1>1, ExitPlaces
<1>5. pc[c] \in {"sus_wfi", "sus_release", "sus_failed"} =>
        coreState[c] \in {CORE_STANDBY, CORE_PWR_DOWN}
  BY <1>1, SuspendPlaces, HeldPlaces
<1>6. pc[c] \in ClaimLabel => coreState[frame[c].tgt] \in Claimable
  BY DEF RefineInv, OneCallerInv, SeenIsStillSo, ClaimLabel, Claimable
<1>7. pc[c] \notin TaskLabel /\ frame[c].tgt \in Core
  BY <1>1, Fields DEF RefineInv, NoTask, TypeOK
<1>8. QED  BY <1>2, <1>3, <1>4, <1>5, <1>6, <1>7

LEMMA StoreMoves ==
  ASSUME NEW d \in Core, NEW s \in State, SetState(d, s), Moves(coreState[d], s)
  PROVE  MovesOne
BY DEF SetState, MovesOne

LEMMA StepMoves ==
  ASSUME RefineInv, NEW c \in Core, Step(c)
  PROVE  MovesOne
<1> USE DEF MovesOne
<1>1. CASE OnStep(c)
  <2>1. CASE ClaimReset(c) \/ ClaimOff(c) \/ ClaimWfe(c)
    <3>1. /\ pc[c] \in ClaimLabel
          /\ coreState' = coreState \/ SetState(frame[c].tgt, CORE_PENDING)
      BY <2>1 DEF ClaimReset, ClaimOff, ClaimWfe, Claim, ClaimLabel
    <3>2. /\ frame[c].tgt \in Core
          /\ Moves(coreState[frame[c].tgt], CORE_PENDING)
      BY <3>1, StateByPlace, MovesByState
    <3>3. QED  BY <3>1, <3>2, StoreMoves, States
  <2>2. CASE OnCheck(c) \/ OnSpsr(c) \/ OnStart(c) \/ OnCntxt(c) \/ OnReread(c)
              \/ OnAbort(c) \/ OnWatch(c)
    BY <2>2 DEF OnCheck, OnSpsr, OnStart, OnCntxt, OnReread, OnAbort, OnWatch, dataVars
  <2>3. CASE Release(c) \/ Restart(c) \/ Sev(c)
    BY <2>3 DEF Release, Restart, Sev, dataVars
  <2>4. QED  BY <1>1, <2>1, <2>2, <2>3 DEF OnStep
<1>2. CASE OffStep(c)
  <2>1. CASE OffPend(c)
    <3>1. SetState(c, CORE_OFF_PENDING)
      BY <2>1 DEF OffPend
    <3>2. Moves(coreState[c], CORE_OFF_PENDING)
      BY <2>1, StateByPlace, MovesByState DEF OffPend, Running
    <3>3. QED  BY <3>1, <3>2, StoreMoves, States
  <2>2. CASE AbortPend(c)
    <3>1. SetState(c, CORE_PENDING)
      BY <2>2 DEF AbortPend
    <3>2. Moves(coreState[c], CORE_PENDING)
      BY <2>2, StateByPlace, MovesByState DEF AbortPend, Closing
    <3>3. QED  BY <3>1, <3>2, StoreMoves, States
  <2>3. CASE OffEnter(c)
    <3>1. SetState(c, CORE_OFF)
      BY <2>3 DEF OffEnter
    <3>2. Moves(coreState[c], CORE_OFF)
      BY <2>3, StateByPlace, MovesByState DEF OffEnter, Closing
    <3>3. QED  BY <3>1, <3>2, StoreMoves, States
  <2>4. CASE OffCount(c) \/ OffState(c) \/ OffPhase1(c) \/ OffPhase2(c) \/ AbortClr(c)
    BY <2>4 DEF OffCount, OffState, OffPhase1, OffPhase2, AbortCheck, AbortClr, dataVars
  <2>5. CASE OffSgi(c) \/ OffWake(c) \/ OffHit(c) \/ OffWoke(c)
    BY <2>5 DEF OffSgi, OffWake, OffHit, OffWoke, dataVars
  <2>6. QED  BY <1>2, <2>1, <2>2, <2>3, <2>4, <2>5 DEF OffStep
<1>3. CASE ExitStep(c)
  <2>1. CASE ExitRelease(c)
    <3>1. SetState(c, CORE_RELEASED)
      BY <2>1 DEF ExitRelease
    <3>2. Moves(coreState[c], CORE_RELEASED)
      BY <2>1, StateByPlace, MovesByState DEF ExitRelease
    <3>3. QED  BY <3>1, <3>2, StoreMoves, States
  <2>2. CASE SecondaryReset(c) \/ ExitStart(c) \/ ExitSpsr(c) \/ ExitCntxt(c)
    BY <2>2 DEF SecondaryReset, ExitStart, ExitSpsr, ExitCntxt, dataVars
  <2>3. QED  BY <1>3, <2>1, <2>2 DEF ExitStep
<1>4. CASE TaskStep(c)
  BY <1>4, StateByPlace DEF TaskStep, TaskCheck, TaskSet, TaskWake, TaskLabel
<1>5. CASE SusStep(c)
  <2>1. CASE SusState(c)
    <3>1. coreState[c] = CORE_RELEASED
      BY <2>1, StateByPlace DEF SusState, Running
    <3>2. CASE frame[c].kind \in StandbyKind
      <4>1. coreState' = [coreState EXCEPT ![c] = CORE_STANDBY]
        BY <2>1, <3>2 DEF SusState, SetState
      <4>2. QED  BY <3>1, <4>1, MovesByState, States
    <3>3. CASE frame[c].kind \notin StandbyKind
      <4>1. coreState' = [coreState EXCEPT ![c] = CORE_PWR_DOWN]
        BY <2>1, <3>3 DEF SusState, SetState
      <4>2. QED  BY <3>1, <4>1, MovesByState, States
    <3>4. QED  BY <3>2, <3>3
  <2>2. CASE SusFailed(c) \/ SusRelease(c)
    BY <2>2, StateByPlace, MovesByState, States DEF SusFailed, SusRelease, SetState
  <2>3. CASE SusCount(c) \/ SusCntxt(c) \/ SusStart(c) \/ SusElr(c) \/ SusX0(c)
    BY <2>3 DEF SusCount, SusCntxt, SusStart, SusElr, SusX0, dataVars
  <2>4. QED  BY <1>5, <2>1, <2>2, <2>3 DEF SusStep
<1>6. QED  BY <1>1, <1>2, <1>3, <1>4, <1>5 DEF Step

LEMMA WakeOrCallMoves ==
  ASSUME NEW c \in Core, Wake(c) \/ Call(c)
  PROVE  MovesOne
<1> USE DEF MovesOne, dataVars
<1>1. CASE Wake(c)
  BY <1>1 DEF Wake, OffSpuriousWake, TaskSpuriousWake, SusWake, SusDdrFails
<1>2. CASE Call(c)
  BY <1>2 DEF Call, CpuOnCall, CpuOffCall, SuspendCall
<1>3. QED  BY <1>1, <1>2

\* Without task cores no core ever gets to the places of the OCRAM task.
LEMMA NoTaskNext ==
  ASSUME RefineInv, NEW c \in Core, Step(c) \/ Wake(c) \/ Call(c), Honestly(c)
  PROVE  NoTask'
<1>0. /\ \A d \in Core : pc[d] \notin TaskLabel
      /\ pc \in [Core -> Label]
  BY DEF RefineInv, NoTask, OneCallerInv, HonestInv, TypeOK
<1>1. /\ \A l \in Label : Goto(c, l) => pc'[c] = l
      /\ \A v : Return(c, v) => pc'[c] = "os"
      /\ \A at : Enter(c, at) => pc'[c] = "os"
  BY <1>0 DEF Goto, Return, Enter
<1>2. pc'[c] \notin TaskLabel
  <2> USE <1>0, <1>1 DEF TaskLabel
  <2>1. CASE OnStep(c)
    <3> USE OnLabels
    <3>1. CASE OnCheck(c) \/ OnSpsr(c) \/ OnStart(c) \/ OnCntxt(c) \/ OnReread(c)
                \/ OnAbort(c)
      BY <3>1 DEF OnCheck, OnSpsr, OnStart, OnCntxt, OnReread, OnAbort
    <3>2. CASE OnWatch(c) \/ Release(c) \/ Restart(c) \/ Sev(c)
      BY <3>2 DEF OnWatch, Release, Restart, Sev
    <3>3. CASE ClaimReset(c) \/ ClaimOff(c) \/ ClaimWfe(c)
      BY <3>3 DEF ClaimReset, ClaimOff, ClaimWfe, Claim
    <3>4. QED  BY <2>1, <3>1, <3>2, <3>3 DEF OnStep
  <2>2. CASE OffStep(c)
    <3> USE OffLabels, ExitLabels
    <3>1. CASE OffCount(c) \/ OffState(c) \/ OffPend(c) \/ OffPhase1(c) \/ OffPhase2(c)
      BY <3>1 DEF OffCount, OffState, OffPend, OffPhase1, OffPhase2, AbortCheck
    <3>2. CASE AbortClr(c) \/ AbortPend(c) \/ OffEnter(c) \/ OffSgi(c) \/ OffWake(c)
                \/ OffHit(c) \/ OffWoke(c)
      BY <3>2 DEF AbortClr, AbortPend, OffEnter, OffSgi, OffWake, OffHit, OffWoke
    <3>3. QED  BY <2>2, <3>1, <3>2 DEF OffStep
  <2>3. CASE ExitStep(c)
    BY <2>3, ExitLabels
    DEF ExitStep, SecondaryReset, ExitStart, ExitRelease, ExitSpsr, ExitCntxt
  <2>4. CASE TaskStep(c)
    BY <2>4 DEF TaskStep, TaskCheck, TaskSet, TaskWake
  <2>5. CASE SusStep(c)
    <3> USE SusLabels
    <3>1. CASE SusCount(c)
      BY <3>1 DEF SusCount, SusProceed
    <3>2. CASE SusCntxt(c) \/ SusStart(c) \/ SusState(c) \/ SusFailed(c)
      BY <3>2 DEF SusCntxt, SusStart, SusState, SusFailed
    <3>3. CASE SusRelease(c) \/ SusElr(c) \/ SusX0(c)
      BY <3>3 DEF SusRelease, SusElr, SusX0
    <3>4. QED  BY <2>5, <3>1, <3>2, <3>3 DEF SusStep
  <2>6. CASE Wake(c)
    BY <2>6, OffLabels, SusLabels
    DEF Wake, OffSpuriousWake, TaskSpuriousWake, SusWake, SusDdrFails
  <2>7. ASSUME NEW t \in 0 .. CPU_MAX_COUNT, NEW a \in Args, CpuOnCall(c, t, a)
        PROVE  pc'[c] \notin TaskLabel
    BY <2>7, OnLabels DEF CpuOnCall
  <2>8. CASE CpuOffCall(c)
    BY <2>8, OffLabels DEF CpuOffCall
  <2>9. ASSUME NEW k \in SuspendKind \cup {"invalid"}, NEW a \in Args,
               SuspendCall(c, k, a)
        PROVE  pc'[c] \notin TaskLabel
    BY <2>9, SusLabels DEF SuspendCall, SusProceed
  <2>10. QED
    BY <2>1, <2>2, <2>3, <2>4, <2>5, <2>6, <2>7, <2>8, <2>9 DEF Step, Call
<1>3. QED  BY <1>0, <1>2 DEF NoTask, Honestly

LEMMA RefineInit ==
  ASSUME TaskCores = {}, Init
  PROVE  RefineInv /\ Power!Init
<1>1. NoTask
  BY DEF Init, NoTask, TaskLabel
<1>2. /\ \A c \in Core : PowerOf(coreState[c]) \in {"off", "on"}
      /\ PowerOf(coreState[0]) = "on"
  <2>1. \A c \in Core : coreState[c] \in {CORE_RELEASED, CORE_DISABLED,
                                          CORE_WORKING_INIT, CORE_IN_RESET}
    BY DEF Init
  <2>2. coreState[0] = CORE_RELEASED
    BY NoValues, SocAssumption DEF Init
  <2>3. QED  BY <2>1, <2>2, PowerByState
<1>3. Power!Init
  BY <1>2, NoValues DEF Power!Init
<1>4. QED  BY <1>1, <1>3, OneCallerInit DEF RefineInv

LEMMA RefineNext ==
  ASSUME NEW b, Callers = {b}, RefineInv, [Next]_vars
  PROVE  RefineInv' /\ MovesOne
<1>1. OneCallerInv'
  BY OneCallerNext DEF RefineInv
<1>2. ASSUME NEW c \in Core, Step(c) \/ Wake(c) \/ Call(c)
      PROVE  NoTask' /\ MovesOne
  <2>1. Honestly(c)
    BY <1>2, OnStepHonest, OffStepHonest, ExitStepHonest, TaskStepHonest,
       SusStepHonest, WakeHonest, CallHonest
    DEF Step, RefineInv, OneCallerInv
  <2>2. QED  BY <1>2, <2>1, NoTaskNext, StepMoves, WakeOrCallMoves
<1>3. CASE UNCHANGED vars
  BY <1>1, <1>3 DEF vars, dataVars, MovesOne, RefineInv, NoTask
<1>4. QED  BY <1>1, <1>2, <1>3 DEF Next, RefineInv

\* A move of the states is a step of PsciPower, or leaves it where it is.
LEMMA PowerStep ==
  ASSUME RefineInv, MovesOne
  PROVE  [Power!Next]_[c \in Core |-> PowerOf(coreState[c])]
<1> DEFINE power == [c \in Core |-> PowerOf(coreState[c])]
<1>1. CASE coreState' = coreState
  BY <1>1
<1>2. ASSUME NEW d \in Core, NEW s \in State,
             coreState' = [coreState EXCEPT ![d] = s], Moves(coreState[d], s)
      PROVE  [Power!Next]_power
  <2>1. coreState \in [Core -> State]
    BY DEF RefineInv, OneCallerInv, HonestInv, TypeOK
  <2>2. power' = [power EXCEPT ![d] = PowerOf(s)]
    BY <1>2, <2>1
  <2>3. power[d] = PowerOf(coreState[d])
    OBVIOUS
  <2>4. CASE PowerOf(coreState[d]) = PowerOf(s)
    <3>1. power' = power
      BY <2>2, <2>3, <2>4
    <3>2. QED  BY <3>1
  <2>5. CASE PowerOf(coreState[d]) # PowerOf(s)
    <3>1. \/ Power!TurnOn(d) \/ Power!Start(d) \/ Power!TurnOff(d)
          \/ Power!Suspend(d) \/ Power!Resume(d)
      BY <1>2, <2>2, <2>3, <2>5
      DEF Moves, Power!TurnOn, Power!Start, Power!TurnOff, Power!Suspend,
          Power!Resume, Power!Move
    <3>2. QED  BY <3>1 DEF Power!Next
  <2>6. QED  BY <2>4, <2>5
<1>3. QED  BY <1>1, <1>2 DEF MovesOne

\* With one core that issues CPU_ON, on a port without OCRAM task cores, the
\* services of psci.s implement the life cycle of PsciPower: a core is turned on
\* only when it is off, starts only when it was turned on, and what one core does
\* changes no other except by turning it on, whatever the number of cores and
\* however their calls interleave.
THEOREM Refines ==
  ASSUME NEW b, Callers = {b}, TaskCores = {}
  PROVE  Spec => PowerIsLegal
<1>1. Init => RefineInv /\ Power!Init
  BY RefineInit
<1>2. RefineInv /\ [Next]_vars => RefineInv'
  BY RefineNext
<1>3. RefineInv /\ [Next]_vars => [Power!Next]_[c \in Core |-> PowerOf(coreState[c])]
  BY RefineNext, PowerStep
<1>4. QED
  BY <1>1, <1>2, <1>3, PTL DEF Spec, PowerIsLegal, Power!Spec

=============================================================================
