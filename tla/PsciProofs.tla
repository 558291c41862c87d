----------------------------- MODULE PsciProofs -----------------------------
(***************************************************************************)
(* Proofs about Psci, for every number of cores, every SoC port and every  *)
(* set of calling cores.                                                   *)
(*                                                                         *)
(* TypeCorrect: the type invariant.                                        *)
(* Restored: the normal world never runs with a handler's routing bits or  *)
(* with an MMU its own call turned off.                                    *)
(***************************************************************************)
EXTENDS Psci, TLAPS

-----------------------------------------------------------------------------
(* Members of the constant sets.                                           *)

\* The places of the handlers are labels.
LEMMA OnLabels ==
  /\ "on_check" \in Label
  /\ "on_spsr" \in Label
  /\ "on_start" \in Label
  /\ "on_cntxt" \in Label
  /\ "on_reread" \in Label
  /\ "on_abort" \in Label
  /\ "on_watch" \in Label
  /\ "claim_reset" \in Label
  /\ "claim_off" \in Label
  /\ "claim_wfe" \in Label
  /\ "release" \in Label
  /\ "restart" \in Label
  /\ "sev" \in Label
BY DEF Label, OnLabel

LEMMA OffLabels ==
  /\ "off_count" \in Label
  /\ "off_state" \in Label
  /\ "off_pend" \in Label
  /\ "off_phase1" \in Label
  /\ "off_phase2" \in Label
  /\ "abort_clr" \in Label
  /\ "abort_pend" \in Label
  /\ "off_enter" \in Label
  /\ "off_sgi" \in Label
  /\ "off_wfi" \in Label
  /\ "off_hit" \in Label
  /\ "off_woke" \in Label
BY DEF Label, OffLabel

LEMMA ExitLabels ==
  /\ "exit_start" \in Label
  /\ "exit_release" \in Label
  /\ "exit_spsr" \in Label
  /\ "exit_cntxt" \in Label
BY DEF Label, ExitLabel

LEMMA SusLabels ==
  /\ "sus_count" \in Label
  /\ "sus_cntxt" \in Label
  /\ "sus_start" \in Label
  /\ "sus_state" \in Label
  /\ "sus_wfi" \in Label
  /\ "sus_release" \in Label
  /\ "sus_failed" \in Label
  /\ "sus_elr" \in Label
  /\ "sus_x0" \in Label
BY DEF Label, SusLabel

LEMMA TaskLabels ==
  /\ "task_check" \in Label
  /\ "task_set" \in Label
  /\ "task_wfe" \in Label
BY DEF Label, TaskLabel

LEMMA OsLabel == "os" \in Label
BY DEF Label

\* The status codes a call returns and the states a handler stores.
LEMMA Codes ==
  /\ PSCI_SUCCESS \in Status
  /\ PSCI_NOT_SUPPORTED \in Status
  /\ PSCI_INVALID_PARMS \in Status
  /\ PSCI_DENIED \in Status
  /\ PSCI_ALREADY_ON \in Status
  /\ PSCI_ON_PENDING \in Status
  /\ PSCI_DISABLED \in Status
BY DEF Status, PSCI_SUCCESS, AFFINITY_LEVEL_ON

LEMMA States ==
  /\ CORE_IN_RESET \in State
  /\ CORE_DISABLED \in State
  /\ CORE_OFF \in State
  /\ CORE_STANDBY \in State
  /\ CORE_PWR_DOWN \in State
  /\ CORE_WFE \in State
  /\ CORE_OFF_PENDING \in State
  /\ CORE_WORKING_INIT \in State
  /\ CORE_PENDING \in State
  /\ CORE_RELEASED \in State
BY DEF State

LEMMA NoValues ==
  /\ 0 \in Core
  /\ NoArg \in ArgData
  /\ NoParam \in Param
  /\ NoFrame \in Frame
  /\ NoOut \in Out
<1>1. 0 \in Core  BY CountAssumption DEF Core
<1>2. NoArg \in ArgData  BY DEF ArgData
<1>3. NoParam \in Param  BY <1>2 DEF NoParam, Param
<1>4. NoFrame \in Frame  BY <1>1, <1>2, <1>3 DEF NoFrame, Frame
<1>5. NoOut \in Out  BY <1>1, <1>3, Codes DEF NoOut, Out
<1>6. QED  BY <1>1, <1>2, <1>3, <1>4, <1>5

\* The fields of the registers and of the data area keep their types.
LEMMA Fields ==
  /\ \A f \in Frame : /\ f.tgt \in Core /\ f.arg \in ArgData
                      /\ f.idx \in Core /\ f.cnt \in Nat /\ f.at \in Param
  /\ \A p \in Param : /\ p.spsr \in ArgData /\ p.start \in ArgData
                      /\ p.cntxt \in ArgData
BY DEF Frame, Param

LEMMA ParamUpdate ==
  ASSUME NEW p \in Param, NEW a \in ArgData
  PROVE  /\ [p EXCEPT !.spsr = a] \in Param
         /\ [p EXCEPT !.start = a] \in Param
         /\ [p EXCEPT !.cntxt = a] \in Param
BY DEF Param

LEMMA FrameUpdate ==
  ASSUME NEW f \in Frame
  PROVE  /\ \A n \in Nat : [f EXCEPT !.cnt = n] \in Frame
         /\ \A i \in Core, n \in Nat : [f EXCEPT !.idx = i, !.cnt = n] \in Frame
         /\ \A p \in Param : [f EXCEPT !.at = p] \in Frame
         /\ \A t \in Core, a \in ArgData : [f EXCEPT !.tgt = t, !.arg = a] \in Frame
         /\ \A a \in ArgData, k \in SuspendKind :
              [f EXCEPT !.arg = a, !.kind = k] \in Frame
         /\ \A a \in ArgData, k \in SuspendKind, i \in Core :
              [f EXCEPT !.arg = a, !.kind = k, !.idx = i] \in Frame
<1>1. \A n \in Nat : [f EXCEPT !.cnt = n] \in Frame  BY DEF Frame
<1>2. \A i \in Core, n \in Nat : [f EXCEPT !.idx = i, !.cnt = n] \in Frame
  BY DEF Frame
<1>3. \A p \in Param : [f EXCEPT !.at = p] \in Frame  BY DEF Frame
<1>4. \A t \in Core, a \in ArgData : [f EXCEPT !.tgt = t, !.arg = a] \in Frame
  BY DEF Frame
<1>5. \A a \in ArgData, k \in SuspendKind :
        [f EXCEPT !.arg = a, !.kind = k] \in Frame
  BY DEF Frame
<1>6. \A a \in ArgData, k \in SuspendKind, i \in Core :
        [f EXCEPT !.arg = a, !.kind = k, !.idx = i] \in Frame
  BY DEF Frame
<1>7. QED  BY <1>1, <1>2, <1>3, <1>4, <1>5, <1>6

\* A request counts cores that exist.
LEMMA ClusterRange ==
  ASSUME NEW c \in Core, NEW k
  PROVE  /\ FirstOf(c, k) \in Core
         /\ LastOf(c, k) \in Core
<1> DEFINE q == c \div CPU_PER_CLUSTER
<1>1. /\ CPU_PER_CLUSTER \in Nat /\ CPU_PER_CLUSTER > 0
      /\ CLUSTER_COUNT \in Nat /\ CLUSTER_COUNT > 0
      /\ c \in Nat /\ c < CLUSTER_COUNT * CPU_PER_CLUSTER
      /\ CPU_MAX_COUNT \in Nat
      /\ CPU_MAX_COUNT = CLUSTER_COUNT * CPU_PER_CLUSTER
  BY CountAssumption DEF Core
<1>2. /\ q \in Nat
      /\ q * CPU_PER_CLUSTER <= c
  BY <1>1, SMTT(30)
<1>3. q < CLUSTER_COUNT
  <2>1. SUFFICES ASSUME q >= CLUSTER_COUNT PROVE FALSE
    BY <1>1, <1>2
  <2> HIDE DEF q
  <2>2. q * CPU_PER_CLUSTER >= CLUSTER_COUNT * CPU_PER_CLUSTER
    BY <1>1, <1>2, <2>1, SMTT(30)
  <2>3. QED  BY <1>1, <1>2, <2>2
<1>4. q * CPU_PER_CLUSTER + CPU_PER_CLUSTER <= CPU_MAX_COUNT
  <2> HIDE DEF q
  <2>1. (q + 1) * CPU_PER_CLUSTER <= CLUSTER_COUNT * CPU_PER_CLUSTER
    BY <1>1, <1>2, <1>3, SMTT(30)
  <2>2. QED  BY <1>1, <1>2, <2>1, SMTT(30)
<1>5. q * CPU_PER_CLUSTER \in Nat
  <2> HIDE DEF q
  <2> QED  BY <1>1, <1>2
<1>6. QED
  BY <1>1, <1>4, <1>5 DEF FirstOf, LastOf, Core

-----------------------------------------------------------------------------
(* The steps a handler is built from preserve the types.                   *)

LEMMA GotoTypes ==
  ASSUME TypeOK, NEW c \in Core, NEW l \in Label, Goto(c, l)
  PROVE  /\ pc' \in [Core -> Label]
         /\ out' \in Out
BY NoValues DEF Goto, TypeOK

LEMMA ReturnTypes ==
  ASSUME TypeOK, NEW c \in Core, NEW v \in Status, Return(c, v)
  PROVE  /\ pc' \in [Core -> Label]
         /\ frame' \in [Core -> Frame]
         /\ out' \in Out
<1>1. [ev |-> "return", core |-> c, val |-> v, at |-> NoParam] \in Out
  BY NoValues DEF Out
<1>2. QED  BY <1>1, NoValues, OsLabel DEF Return, TypeOK

LEMMA EnterTypes ==
  ASSUME TypeOK, NEW c \in Core, NEW at \in Param, Enter(c, at)
  PROVE  /\ pc' \in [Core -> Label]
         /\ frame' \in [Core -> Frame]
         /\ kept' \in [Core -> BOOLEAN]
         /\ out' \in Out
<1>1. [ev |-> "entry", core |-> c, val |-> PSCI_SUCCESS, at |-> at] \in Out
  BY Codes DEF Out
<1>2. QED  BY <1>1, NoValues, OsLabel DEF Enter, TypeOK

LEMMA SetStateTypes ==
  ASSUME TypeOK, NEW c \in Core, NEW s \in State, SetState(c, s)
  PROVE  coreState' \in [Core -> State]
BY DEF SetState, TypeOK

LEMMA CountTypes ==
  ASSUME TypeOK, NEW c \in Core, NEW last \in Core, frame[c].idx < last, CountStep(c)
  PROVE  frame' \in [Core -> Frame]
<1> DEFINE f == frame[c]
<1>1. f \in Frame /\ f.idx \in Core /\ f.cnt \in Nat
  BY Fields DEF TypeOK
<1>2. f.idx + 1 \in Core
  BY <1>1, CountAssumption DEF Core
<1>3. Counted(c) \in Nat
  BY <1>1 DEF Counted
<1>4. [f EXCEPT !.idx = @ + 1, !.cnt = Counted(c)] \in Frame
  BY <1>1, <1>2, <1>3, FrameUpdate
<1>5. QED  BY <1>4 DEF CountStep, TypeOK

LEMMA OnStepTypes ==
  ASSUME TypeOK, NEW c \in Core, OnStep(c)
  PROVE  TypeOK'
<1> USE DEF dataVars, hwVars, cpuVars
<1>1. CASE OnCheck(c)
  <2>1. \A s \in {CORE_DISABLED, CORE_PENDING, CORE_RELEASED} : RefusalOf(s) \in Status
    BY Codes DEF RefusalOf, CORE_DISABLED, CORE_PENDING, CORE_RELEASED
  <2>2. QED
    BY <1>1, <2>1, OnLabels, GotoTypes, Codes, ReturnTypes DEF OnCheck, TypeOK
<1>2. CASE OnSpsr(c)
  <2>1. frame[c] \in Frame /\ frame[c].tgt \in Core
    BY Fields DEF TypeOK
  <2>2. [param[frame[c].tgt] EXCEPT !.spsr = frame[c].arg] \in Param
    BY <2>1, Fields, ParamUpdate DEF TypeOK
  <2>3. QED
    BY <1>2, <2>1, <2>2, OnLabels, GotoTypes DEF OnSpsr, TypeOK
<1>3. CASE OnStart(c)
  <2>1. frame[c] \in Frame /\ frame[c].tgt \in Core
    BY Fields DEF TypeOK
  <2>2. [param[frame[c].tgt] EXCEPT !.start = frame[c].arg] \in Param
    BY <2>1, Fields, ParamUpdate DEF TypeOK
  <2>3. QED
    BY <1>3, <2>1, <2>2, OnLabels, GotoTypes DEF OnStart, TypeOK
<1>4. CASE OnCntxt(c)
  <2>1. frame[c] \in Frame /\ frame[c].tgt \in Core
    BY Fields DEF TypeOK
  <2>2. [param[frame[c].tgt] EXCEPT !.cntxt = frame[c].arg] \in Param
    BY <2>1, Fields, ParamUpdate DEF TypeOK
  <2>3. QED
    BY <1>4, <2>1, <2>2, OnLabels, GotoTypes DEF OnCntxt, TypeOK
<1>5. CASE OnReread(c)
  BY <1>5, OnLabels, GotoTypes DEF OnReread, TypeOK
<1>6. CASE OnAbort(c)
  <2>1. frame[c] \in Frame /\ frame[c].tgt \in Core
    BY Fields DEF TypeOK
  <2>2. [frame[c] EXCEPT !.cnt = PSCI_ABORT_CNT] \in Frame
    BY <2>1, CountAssumption, FrameUpdate
  <2>3. QED
    BY <1>6, <2>1, <2>2, OnLabels, GotoTypes DEF OnAbort, TypeOK
<1>7. CASE OnWatch(c)
  <2>1. frame[c] \in Frame /\ frame[c].tgt \in Core
    BY Fields DEF TypeOK
  <2>2. frame[c].cnt > 1 => [frame[c] EXCEPT !.cnt = @ - 1] \in Frame
    <3>1. frame[c].cnt \in Nat
      BY <2>1, Fields
    <3>2. frame[c].cnt > 1 => frame[c].cnt - 1 \in Nat
      BY <3>1
    <3>3. QED  BY <2>1, <3>2, FrameUpdate
  <2>3. QED
    BY <1>7, <2>1, <2>2, OnLabels, GotoTypes, Codes, ReturnTypes
      DEF OnWatch, TypeOK
<1>8. CASE ClaimReset(c)
  <2>1. frame[c] \in Frame /\ frame[c].tgt \in Core
    BY Fields DEF TypeOK
  <2>2. QED
    BY <1>8, <2>1, OnLabels, GotoTypes, Codes, ReturnTypes, States,
       SetStateTypes
      DEF ClaimReset, Claim, TypeOK
<1>9. CASE ClaimOff(c)
  <2>1. frame[c] \in Frame /\ frame[c].tgt \in Core
    BY Fields DEF TypeOK
  <2>2. QED
    BY <1>9, <2>1, OnLabels, GotoTypes, Codes, ReturnTypes, States,
       SetStateTypes
      DEF ClaimOff, Claim, TypeOK
<1>10. CASE ClaimWfe(c)
  <2>1. frame[c] \in Frame /\ frame[c].tgt \in Core
    BY Fields DEF TypeOK
  <2>2. QED
    BY <1>10, <2>1, OnLabels, GotoTypes, Codes, ReturnTypes, States,
       SetStateTypes
      DEF ClaimWfe, Claim, TypeOK
<1>11. CASE Release(c)
  <2>1. frame[c] \in Frame /\ frame[c].tgt \in Core
    BY Fields DEF TypeOK
  <2>2. QED
    BY <1>11, <2>1, Codes, ReturnTypes DEF Release, Waiting, TypeOK
<1>12. CASE Restart(c)
  <2>1. frame[c] \in Frame /\ frame[c].tgt \in Core
    BY Fields DEF TypeOK
  <2>2. QED
    BY <1>12, <2>1, Codes, ReturnTypes DEF Restart, TypeOK
<1>13. CASE Sev(c)
  BY <1>13, Codes, ReturnTypes DEF Sev, Waiting, TypeOK
<1>14. QED
  BY <1>1, <1>2, <1>3, <1>4, <1>5, <1>6, <1>7, <1>8, <1>9, <1>10, <1>11,
     <1>12, <1>13 DEF OnStep

LEMMA OffStepTypes ==
  ASSUME TypeOK, NEW c \in Core, OffStep(c)
  PROVE  TypeOK'
<1> USE DEF dataVars, hwVars, cpuVars
<1>1. CASE OffCount(c)
  <2>1. CPU_MAX_COUNT - 1 \in Core
    BY CountAssumption DEF Core
  <2>2. QED
    BY <1>1, <2>1, NoValues, CountTypes, OffLabels, ExitLabels, GotoTypes,
       Codes, ReturnTypes
      DEF OffCount, TypeOK
<1>2. CASE OffState(c)
  BY <1>2, OffLabels, ExitLabels, GotoTypes, Codes, ReturnTypes
    DEF OffState, TypeOK
<1>3. CASE OffPend(c)
  BY <1>3, OffLabels, ExitLabels, GotoTypes, States, SetStateTypes
    DEF OffPend, TypeOK
<1>4. CASE OffPhase1(c)
  BY <1>4, OffLabels, ExitLabels, GotoTypes DEF OffPhase1, AbortCheck, TypeOK
<1>5. CASE OffPhase2(c)
  BY <1>5, OffLabels, ExitLabels, GotoTypes DEF OffPhase2, AbortCheck, TypeOK
<1>6. CASE AbortClr(c)
  BY <1>6, OffLabels, ExitLabels, GotoTypes DEF AbortClr, TypeOK
<1>7. CASE AbortPend(c)
  BY <1>7, OffLabels, ExitLabels, GotoTypes, States, SetStateTypes
    DEF AbortPend, TypeOK
<1>8. CASE OffEnter(c)
  BY <1>8, OffLabels, ExitLabels, GotoTypes, States, SetStateTypes
    DEF OffEnter, TypeOK
<1>9. CASE OffSgi(c)
  BY <1>9, OffLabels, ExitLabels, GotoTypes DEF OffSgi, TypeOK
<1>10. CASE OffWake(c)
  BY <1>10, OffLabels, ExitLabels, GotoTypes DEF OffWake, TypeOK
<1>11. CASE OffHit(c)
  BY <1>11, OffLabels, ExitLabels, GotoTypes DEF OffHit, TypeOK
<1>12. CASE OffWoke(c)
  BY <1>12, OffLabels, ExitLabels, GotoTypes DEF OffWoke, TypeOK
<1>13. QED
  BY <1>1, <1>2, <1>3, <1>4, <1>5, <1>6, <1>7, <1>8, <1>9, <1>10, <1>11,
     <1>12 DEF OffStep

LEMMA ExitStepTypes ==
  ASSUME TypeOK, NEW c \in Core, ExitStep(c)
  PROVE  TypeOK'
<1> USE DEF dataVars, hwVars, cpuVars
<1>1. CASE SecondaryReset(c)
  BY <1>1, ExitLabels, GotoTypes DEF SecondaryReset, TypeOK
<1>2. CASE ExitStart(c)
  <2>1. frame[c] \in Frame /\ param[c] \in Param
    BY DEF TypeOK
  <2>2. [frame[c].at EXCEPT !.start = param[c].start] \in Param
    BY <2>1, Fields, ParamUpdate
  <2>3. [frame[c] EXCEPT !.at.start = param[c].start] \in Frame
    BY <2>1, <2>2, FrameUpdate
  <2>4. QED
    BY <1>2, <2>1, <2>2, <2>3, ExitLabels, GotoTypes DEF ExitStart, TypeOK
<1>3. CASE ExitRelease(c)
  BY <1>3, ExitLabels, GotoTypes, States, SetStateTypes DEF ExitRelease, TypeOK
<1>4. CASE ExitSpsr(c)
  <2>1. frame[c] \in Frame /\ param[c] \in Param
    BY DEF TypeOK
  <2>2. [frame[c].at EXCEPT !.spsr = param[c].spsr] \in Param
    BY <2>1, Fields, ParamUpdate
  <2>3. [frame[c] EXCEPT !.at.spsr = param[c].spsr] \in Frame
    BY <2>1, <2>2, FrameUpdate
  <2>4. QED
    BY <1>4, <2>1, <2>2, <2>3, ExitLabels, GotoTypes DEF ExitSpsr, TypeOK
<1>5. CASE ExitCntxt(c)
  <2>1. frame[c] \in Frame /\ param[c] \in Param
    BY DEF TypeOK
  <2>2. [frame[c].at EXCEPT !.cntxt = param[c].cntxt] \in Param
    BY <2>1, Fields, ParamUpdate
  <2>3. QED
    BY <1>5, <2>1, <2>2, EnterTypes DEF ExitCntxt, TypeOK
<1>6. QED
  BY <1>1, <1>2, <1>3, <1>4, <1>5 DEF ExitStep

LEMMA TaskStepTypes ==
  ASSUME TypeOK, NEW c \in Core, TaskStep(c)
  PROVE  TypeOK'
<1> USE DEF dataVars, hwVars, cpuVars
<1>1. CASE TaskCheck(c)
  BY <1>1, TaskLabels, ExitLabels, GotoTypes DEF TaskCheck, TypeOK
<1>2. CASE TaskSet(c)
  BY <1>2, TaskLabels, ExitLabels, GotoTypes, States, SetStateTypes
    DEF TaskSet, TypeOK
<1>3. CASE TaskWake(c)
  BY <1>3, TaskLabels, ExitLabels, GotoTypes DEF TaskWake, TypeOK
<1>4. QED
  BY <1>1, <1>2, <1>3 DEF TaskStep

LEMMA SusStepTypes ==
  ASSUME TypeOK, NEW c \in Core, SusStep(c)
  PROVE  TypeOK'
<1> USE DEF dataVars, hwVars, cpuVars
<1>1. CASE SusCount(c)
  <2>1. frame[c] \in Frame
    BY DEF TypeOK
  <2>2. LastOf(c, frame[c].kind) \in Core
    BY ClusterRange
  <2>3. [frame[c] EXCEPT !.idx = 0, !.cnt = 0] \in Frame
    BY <2>1, NoValues, FrameUpdate
  <2>4. CASE /\ frame[c].idx < LastOf(c, frame[c].kind)
             /\ CountStep(c)
             /\ Goto(c, "sus_count")
    BY <1>1, <2>2, <2>4, CountTypes, SusLabels, GotoTypes DEF SusCount, TypeOK
  <2>5. CASE Return(c, PSCI_INVALID_PARMS)
    BY <1>1, <2>5, Codes, ReturnTypes DEF SusCount, TypeOK
  <2>6. CASE /\ SusProceed(c, frame[c].kind)
             /\ frame[c].kind \in Features =>
                  frame' = [frame EXCEPT ![c].idx = 0, ![c].cnt = 0]
    <3>1. CASE Return(c, PSCI_NOT_SUPPORTED)
      BY <1>1, <3>1, Codes, ReturnTypes DEF SusCount, TypeOK
    <3>2. CASE /\ frame[c].kind \in Features
               /\ Goto(c, IF frame[c].kind \in StandbyKind THEN "sus_state"
                                                           ELSE "sus_cntxt")
      <4>1. frame' \in [Core -> Frame]
        BY <2>3, <2>6, <3>2 DEF TypeOK
      <4>2. pc' \in [Core -> Label] /\ out' \in Out
        BY <3>2, SusLabels, GotoTypes
      <4>3. QED  BY <1>1, <4>1, <4>2 DEF SusCount, TypeOK
    <3>3. QED  BY <2>6, <3>1, <3>2 DEF SusProceed
  <2>7. QED  BY <1>1, <2>4, <2>5, <2>6 DEF SusCount
<1>2. CASE SusCntxt(c)
  <2>1. frame[c] \in Frame /\ param[c] \in Param
    BY DEF TypeOK
  <2>2. [param[c] EXCEPT !.cntxt = frame[c].arg] \in Param
    BY <2>1, Fields, ParamUpdate
  <2>3. QED
    BY <1>2, <2>1, <2>2, SusLabels, GotoTypes DEF SusCntxt, TypeOK
<1>3. CASE SusStart(c)
  <2>1. frame[c] \in Frame /\ param[c] \in Param
    BY DEF TypeOK
  <2>2. [param[c] EXCEPT !.start = frame[c].arg] \in Param
    BY <2>1, Fields, ParamUpdate
  <2>3. QED
    BY <1>3, <2>1, <2>2, SusLabels, GotoTypes DEF SusStart, TypeOK
<1>4. CASE SusState(c)
  BY <1>4, SusLabels, GotoTypes, States, SetStateTypes DEF SusState, TypeOK
<1>5. CASE SusFailed(c)
  BY <1>5, Codes, ReturnTypes, States, SetStateTypes DEF SusFailed, TypeOK
<1>6. CASE SusRelease(c)
  BY <1>6, SusLabels, GotoTypes, Codes, ReturnTypes, States, SetStateTypes
    DEF SusRelease, TypeOK
<1>7. CASE SusElr(c)
  <2>1. frame[c] \in Frame /\ param[c] \in Param
    BY DEF TypeOK
  <2>2. [frame[c].at EXCEPT !.start = param[c].start, !.spsr = frame[c].arg] \in Param
    BY <2>1, Fields DEF Param
  <2>3. [frame[c] EXCEPT !.at = [@ EXCEPT !.start = param[c].start,
                                          !.spsr = frame[c].arg]] \in Frame
    BY <2>1, <2>2, FrameUpdate
  <2>4. QED
    BY <1>7, <2>1, <2>2, <2>3, SusLabels, GotoTypes DEF SusElr, TypeOK
<1>8. CASE SusX0(c)
  <2>1. frame[c] \in Frame /\ param[c] \in Param
    BY DEF TypeOK
  <2>2. [frame[c].at EXCEPT !.cntxt = param[c].cntxt] \in Param
    BY <2>1, Fields, ParamUpdate
  <2>3. QED
    BY <1>8, <2>1, <2>2, EnterTypes DEF SusX0, TypeOK
<1>9. QED
  BY <1>1, <1>2, <1>3, <1>4, <1>5, <1>6, <1>7, <1>8 DEF SusStep

LEMMA WakeTypes ==
  ASSUME TypeOK, NEW c \in Core, Wake(c)
  PROVE  TypeOK'
<1> USE DEF dataVars, hwVars, cpuVars
<1>1. CASE OffSpuriousWake(c)
  BY <1>1, OffLabels, TaskLabels, SusLabels, GotoTypes
    DEF OffSpuriousWake, TypeOK
<1>2. CASE TaskSpuriousWake(c)
  BY <1>2, OffLabels, TaskLabels, SusLabels, GotoTypes
    DEF TaskSpuriousWake, TypeOK
<1>3. CASE SusWake(c)
  BY <1>3, OffLabels, TaskLabels, SusLabels, GotoTypes DEF SusWake, TypeOK
<1>4. CASE SusDdrFails(c)
  BY <1>4, OffLabels, TaskLabels, SusLabels, GotoTypes DEF SusDdrFails, TypeOK
<1>5. QED
  BY <1>1, <1>2, <1>3, <1>4 DEF Wake

-----------------------------------------------------------------------------
(* The calls, and the type invariant.                                      *)

LEMMA CallTypes ==
  ASSUME TypeOK, NEW c \in Core, Call(c)
  PROVE  TypeOK'
<1> USE DEF dataVars, hwVars, cpuVars
<1>1. ASSUME NEW t \in 0 .. CPU_MAX_COUNT, NEW a \in Args, CpuOnCall(c, t, a)
      PROVE  TypeOK'
  <2>1. CASE \E v \in {PSCI_INVALID_PARMS, PSCI_DISABLED} : Return(c, v)
    BY <1>1, <2>1, Codes, ReturnTypes DEF CpuOnCall, TypeOK
  <2>2. CASE /\ t \in Core \ Disabled
             /\ frame' = [frame EXCEPT ![c].tgt = t, ![c].arg = a]
             /\ Goto(c, "on_check")
    <3>1. [frame[c] EXCEPT !.tgt = t, !.arg = a] \in Frame
      BY <2>2, FrameUpdate DEF TypeOK, ArgData
    <3>2. frame' \in [Core -> Frame]
      BY <2>2, <3>1 DEF TypeOK
    <3>3. QED  BY <1>1, <2>2, <3>2, OnLabels, GotoTypes DEF CpuOnCall, TypeOK
  <2>3. QED  BY <1>1, <2>1, <2>2 DEF CpuOnCall
<1>2. CASE CpuOffCall(c)
  BY <1>2, OffLabels, GotoTypes, Codes, ReturnTypes DEF CpuOffCall, TypeOK
<1>3. ASSUME NEW k \in SuspendKind \cup {"invalid"}, NEW a \in Args,
             SuspendCall(c, k, a)
      PROVE  TypeOK'
  <2>1. SusArg(k, a) \in ArgData
    BY DEF SusArg, ArgData
  <2>2. \A i \in Core : k \in SuspendKind =>
          /\ [frame[c] EXCEPT !.arg = SusArg(k, a), !.kind = k] \in Frame
          /\ [frame[c] EXCEPT !.arg = SusArg(k, a), !.kind = k, !.idx = i] \in Frame
    BY <2>1, FrameUpdate DEF TypeOK
  <2>3. UNCHANGED <<dataVars, hwVars, cpuVars>>
    BY <1>3 DEF SuspendCall
  <2>4. CASE \E v \in {PSCI_INVALID_PARMS, PSCI_NOT_SUPPORTED} : Return(c, v)
    BY <2>3, <2>4, Codes, ReturnTypes DEF TypeOK
  <2>5. CASE /\ k \in SuspendKind
             /\ k \in Features
             /\ frame' = [frame EXCEPT ![c].arg = SusArg(k, a), ![c].kind = k]
             /\ Goto(c, IF k \in StandbyKind THEN "sus_state" ELSE "sus_cntxt")
    <3>1. frame' \in [Core -> Frame]
      BY <2>2, <2>5, NoValues DEF TypeOK
    <3>2. pc' \in [Core -> Label] /\ out' \in Out
      BY <2>5, SusLabels, GotoTypes
    <3>3. QED  BY <2>3, <3>1, <3>2 DEF TypeOK
  <2>6. CASE /\ k \in SuspendKind
             /\ frame' = [frame EXCEPT ![c].arg = SusArg(k, a), ![c].kind = k,
                                       ![c].idx = FirstOf(c, k)]
             /\ Goto(c, "sus_count")
    <3>1. frame' \in [Core -> Frame]
      BY <2>2, <2>6, ClusterRange DEF TypeOK
    <3>2. pc' \in [Core -> Label] /\ out' \in Out
      BY <2>6, SusLabels, GotoTypes
    <3>3. QED  BY <2>3, <3>1, <3>2 DEF TypeOK
  <2>7. QED
    <3>1. CASE k \notin SuspendKind /\ Return(c, PSCI_INVALID_PARMS)
      BY <2>4, <3>1
    <3>2. CASE /\ k \in SuspendKind \ (ClusterKind \cup SystemKind)
               /\ SusProceed(c, k)
               /\ k \in Features =>
                    frame' = [frame EXCEPT ![c].arg = SusArg(k, a), ![c].kind = k]
      BY <2>4, <2>5, <3>2 DEF SusProceed
    <3>3. CASE /\ k \in ClusterKind \cup SystemKind
               /\ frame' = [frame EXCEPT ![c].arg = SusArg(k, a), ![c].kind = k,
                                         ![c].idx = FirstOf(c, k)]
               /\ Goto(c, "sus_count")
      BY <2>6, <3>3
      DEF SuspendKind, ClusterKind, SystemKind, StandbyKind, PwrDownKind
    <3>4. QED  BY <1>3, <3>1, <3>2, <3>3 DEF SuspendCall
<1>4. QED
  BY <1>1, <1>2, <1>3 DEF Call

LEMMA InitTypes == Init => TypeOK
<1> SUFFICES ASSUME Init PROVE TypeOK
  OBVIOUS
<1>1. coreState \in [Core -> State]
  BY States DEF Init
<1>2. pc \in [Core -> Label]
  BY OsLabel, TaskLabels DEF Init, Label
<1>3. brr \subseteq Core
  BY SocAssumption DEF Init
<1>4. QED
  BY <1>1, <1>2, <1>3, NoValues DEF Init, TypeOK

LEMMA NextTypes ==
  ASSUME TypeOK, [Next]_vars
  PROVE  TypeOK'
<1>1. ASSUME NEW c \in Core, Step(c) \/ Wake(c) \/ Call(c)
      PROVE  TypeOK'
  BY <1>1, OnStepTypes, OffStepTypes, ExitStepTypes, TaskStepTypes,
     SusStepTypes, WakeTypes, CallTypes
  DEF Step
<1>2. CASE UNCHANGED vars
  BY <1>2 DEF vars, dataVars, hwVars, cpuVars, TypeOK
<1>3. QED  BY <1>1, <1>2 DEF Next

\* Whatever the cores do and in whatever order, every field of the data areas,
\* every register a handler keeps and every answer has its type; in particular
\* a count never leaves the cores of the system and a watch never goes below
\* zero (psci.s, CPU_ON, CPU_OFF, CPU_SUSPEND).
THEOREM TypeCorrect == Spec => []TypeOK
<1>1. Init => TypeOK
  BY InitTypes
<1>2. TypeOK /\ [Next]_vars => TypeOK'
  BY NextTypes
<1>3. QED
  BY <1>1, <1>2, PTL DEF Spec

-----------------------------------------------------------------------------
(* RoutingRestored.  On its own it is not inductive: a core is in the      *)
(* normal world behind many other places, and SCR_EL3 is loaded from the   *)
(* data area when a core starts.  Routed says, place by place, what a      *)
(* handler has done to SCR_EL3 and SCTLR so far, and that the saved copy   *)
(* of SCR_EL3 was taken from a core that had done nothing to its own.      *)

\* Places at which a handler has not touched SCR_EL3 and SCTLR.
Untouched == {"os", "off_count", "off_state", "off_pend", "sus_count",
              "sus_cntxt", "sus_start", "sus_state"} \cup OnLabel

\* Places at which it has put SCR_EL3 back.
PutBack == {"exit_release", "exit_spsr", "exit_cntxt", "sus_release", "sus_elr",
            "sus_x0"}

Routed(c) ==
  /\ savedScr[c] = {}
  /\ pc[c] \in Untouched => scr[c] = {} /\ kept[c]
  /\ pc[c] \in PutBack => scr[c] = {}
  /\ pc[c] = "sus_wfi" => scr[c] \subseteq {"IRQ"}
  /\ pc[c] \in {"sus_wfi", "sus_release"} /\ frame[c].kind \in StandbyKind => kept[c]
  /\ pc[c] # "sus_failed"

RoutingInv == TypeOK /\ \A c \in Core : Routed(c)

\* A step of core c leaves the registers of the others alone, and what it saves
\* for another core is an SCR_EL3 nothing was done to.
Reroutes(c) ==
  /\ \A d \in Core \ {c} : /\ pc'[d] = pc[d] /\ frame'[d] = frame[d]
                           /\ scr'[d] = scr[d] /\ kept'[d] = kept[d]
                           /\ savedScr'[d] = {}
  /\ Routed(c)'

LEMMA OnStepRoutes ==
  ASSUME RoutingInv, NEW c \in Core, OnStep(c)
  PROVE  Reroutes(c)
<1> USE DEF dataVars, hwVars, cpuVars, Routed, Reroutes, Untouched, PutBack
<1>0. /\ TypeOK /\ Routed(c)
      /\ \A d \in Core : savedScr[d] = {}
      /\ frame[c].tgt \in Core
  BY Fields DEF RoutingInv, TypeOK
<1>1. CASE OnCheck(c)
  BY <1>0, <1>1
  DEF OnCheck, Goto, Return, OnLabel, TypeOK
<1>2. CASE OnSpsr(c)
  BY <1>0, <1>2
  DEF OnSpsr, Goto, OnLabel, TypeOK
<1>3. CASE OnStart(c)
  BY <1>0, <1>3
  DEF OnStart, Goto, OnLabel, TypeOK
<1>4. CASE OnCntxt(c)
  BY <1>0, <1>4
  DEF OnCntxt, Goto, OnLabel, TypeOK
<1>5. CASE OnReread(c)
  BY <1>0, <1>5
  DEF OnReread, Goto, OnLabel, TypeOK
<1>6. CASE OnAbort(c)
  BY <1>0, <1>6
  DEF OnAbort, Goto, OnLabel, TypeOK
<1>7. CASE OnWatch(c)
  BY <1>0, <1>7
  DEF OnWatch, Goto, Return, OnLabel, TypeOK
<1>8. CASE ClaimReset(c)
  BY <1>0, <1>8
  DEF ClaimReset, Goto, Claim, Return, SetState, OnLabel, TypeOK
<1>9. CASE ClaimOff(c)
  BY <1>0, <1>9
  DEF ClaimOff, Goto, Claim, Return, SetState, OnLabel, TypeOK
<1>10. CASE ClaimWfe(c)
  BY <1>0, <1>10
  DEF ClaimWfe, Goto, Claim, Return, SetState, OnLabel, TypeOK
<1>11. CASE Release(c)
  BY <1>0, <1>11
  DEF Release, Return, OnLabel, TypeOK
<1>12. CASE Restart(c)
  BY <1>0, <1>12
  DEF Restart, Return, OnLabel, TypeOK
<1>13. CASE Sev(c)
  BY <1>0, <1>13
  DEF Sev, Return, OnLabel, TypeOK
<1>14. QED
  BY <1>1, <1>2, <1>3, <1>4, <1>5, <1>6, <1>7, <1>8, <1>9, <1>10, <1>11, <1>12, <1>13
  DEF OnStep

LEMMA OffStepRoutes ==
  ASSUME RoutingInv, NEW c \in Core, OffStep(c)
  PROVE  Reroutes(c)
<1> USE DEF dataVars, hwVars, cpuVars, Routed, Reroutes, Untouched, PutBack
<1>0. /\ TypeOK /\ Routed(c)
      /\ \A d \in Core : savedScr[d] = {}
      /\ frame[c].tgt \in Core
  BY Fields DEF RoutingInv, TypeOK
<1>1. CASE OffCount(c)
  BY <1>0, <1>1
  DEF OffCount, Goto, Return, CountStep, OnLabel, TypeOK
<1>2. CASE OffState(c)
  BY <1>0, <1>2
  DEF OffState, Goto, Return, OnLabel, TypeOK
<1>3. CASE OffPend(c)
  BY <1>0, <1>3
  DEF OffPend, Goto, SetState, OnLabel, TypeOK
<1>4. CASE OffPhase1(c)
  BY <1>0, <1>4
  DEF OffPhase1, Goto, AbortCheck, OnLabel, TypeOK
<1>5. CASE OffPhase2(c)
  BY <1>0, <1>5
  DEF OffPhase2, Goto, AbortCheck, OnLabel, TypeOK
<1>6. CASE AbortClr(c)
  BY <1>0, <1>6
  DEF AbortClr, Goto, OnLabel, TypeOK
<1>7. CASE AbortPend(c)
  BY <1>0, <1>7
  DEF AbortPend, Goto, SetState, OnLabel, TypeOK
<1>8. CASE OffEnter(c)
  BY <1>0, <1>8
  DEF OffEnter, Goto, SetState, OnLabel, TypeOK
<1>9. CASE OffSgi(c)
  BY <1>0, <1>9
  DEF OffSgi, Goto, OnLabel, TypeOK
<1>10. CASE OffWake(c)
  BY <1>0, <1>10
  DEF OffWake, Goto, OnLabel, TypeOK
<1>11. CASE OffHit(c)
  BY <1>0, <1>11
  DEF OffHit, Goto, OnLabel, TypeOK
<1>12. CASE OffWoke(c)
  BY <1>0, <1>12
  DEF OffWoke, Goto, OnLabel, TypeOK
<1>13. QED
  BY <1>1, <1>2, <1>3, <1>4, <1>5, <1>6, <1>7, <1>8, <1>9, <1>10, <1>11, <1>12
  DEF OffStep

LEMMA ExitStepRoutes ==
  ASSUME RoutingInv, NEW c \in Core, ExitStep(c)
  PROVE  Reroutes(c)
<1> USE DEF dataVars, hwVars, cpuVars, Routed, Reroutes, Untouched, PutBack
<1>0. /\ TypeOK /\ Routed(c)
      /\ \A d \in Core : savedScr[d] = {}
      /\ frame[c].tgt \in Core
  BY Fields DEF RoutingInv, TypeOK
<1>1. CASE SecondaryReset(c)
  BY <1>0, <1>1
  DEF SecondaryReset, Goto, OnLabel, TypeOK
<1>2. CASE ExitStart(c)
  BY <1>0, <1>2
  DEF ExitStart, Goto, OnLabel, TypeOK
<1>3. CASE ExitRelease(c)
  BY <1>0, <1>3
  DEF ExitRelease, Goto, SetState, OnLabel, TypeOK
<1>4. CASE ExitSpsr(c)
  BY <1>0, <1>4
  DEF ExitSpsr, Goto, OnLabel, TypeOK
<1>5. CASE ExitCntxt(c)
  BY <1>0, <1>5
  DEF ExitCntxt, Enter, OnLabel, TypeOK
<1>6. QED
  BY <1>1, <1>2, <1>3, <1>4, <1>5
  DEF ExitStep

LEMMA TaskStepRoutes ==
  ASSUME RoutingInv, NEW c \in Core, TaskStep(c)
  PROVE  Reroutes(c)
<1> USE DEF dataVars, hwVars, cpuVars, Routed, Reroutes, Untouched, PutBack
<1>0. /\ TypeOK /\ Routed(c)
      /\ \A d \in Core : savedScr[d] = {}
      /\ frame[c].tgt \in Core
  BY Fields DEF RoutingInv, TypeOK
<1>1. CASE TaskCheck(c)
  BY <1>0, <1>1
  DEF TaskCheck, Goto, OnLabel, TypeOK
<1>2. CASE TaskSet(c)
  BY <1>0, <1>2
  DEF TaskSet, Goto, SetState, OnLabel, TypeOK
<1>3. CASE TaskWake(c)
  BY <1>0, <1>3
  DEF TaskWake, Goto, OnLabel, TypeOK
<1>4. QED
  BY <1>1, <1>2, <1>3
  DEF TaskStep

LEMMA SusStepRoutes ==
  ASSUME RoutingInv, NEW c \in Core, SusStep(c)
  PROVE  Reroutes(c)
<1> USE DEF dataVars, hwVars, cpuVars, Routed, Reroutes, Untouched, PutBack
<1>0. /\ TypeOK /\ Routed(c)
      /\ \A d \in Core : savedScr[d] = {}
      /\ frame[c].tgt \in Core
  BY Fields DEF RoutingInv, TypeOK
<1>1. CASE SusCount(c)
  BY <1>0, <1>1
  DEF SusCount, Goto, Return, CountStep, SusProceed, OnLabel, TypeOK
<1>2. CASE SusCntxt(c)
  BY <1>0, <1>2
  DEF SusCntxt, Goto, OnLabel, TypeOK
<1>3. CASE SusStart(c)
  BY <1>0, <1>3
  DEF SusStart, Goto, OnLabel, TypeOK
<1>4. CASE SusState(c)
  BY <1>0, <1>4
  DEF SusState, Goto, SetState, OnLabel, TypeOK
<1>5. CASE SusFailed(c)
  BY <1>0, <1>5
  DEF SusFailed, Return, SetState, OnLabel, TypeOK
<1>6. CASE SusRelease(c)
  BY <1>0, <1>6
  DEF SusRelease, Goto, Return, SetState, OnLabel, TypeOK
<1>7. CASE SusElr(c)
  BY <1>0, <1>7
  DEF SusElr, Goto, OnLabel, TypeOK
<1>8. CASE SusX0(c)
  BY <1>0, <1>8
  DEF SusX0, Enter, OnLabel, TypeOK
<1>9. QED
  BY <1>1, <1>2, <1>3, <1>4, <1>5, <1>6, <1>7, <1>8
  DEF SusStep

LEMMA WakeRoutes ==
  ASSUME RoutingInv, "DDR_SLEEP" \notin HwFaults, NEW c \in Core, Wake(c)
  PROVE  Reroutes(c)
<1> USE DEF dataVars, hwVars, cpuVars, Routed, Reroutes, Untouched, PutBack
<1>0. /\ TypeOK /\ Routed(c)
      /\ \A d \in Core : savedScr[d] = {}
      /\ frame[c].tgt \in Core
  BY Fields DEF RoutingInv, TypeOK
<1>1. CASE OffSpuriousWake(c)
  BY <1>0, <1>1
  DEF OffSpuriousWake, Goto, OnLabel, TypeOK
<1>2. CASE TaskSpuriousWake(c)
  BY <1>0, <1>2
  DEF TaskSpuriousWake, Goto, OnLabel, TypeOK
<1>3. CASE SusWake(c)
  BY <1>0, <1>3
  DEF SusWake, Goto, OnLabel, TypeOK
<1>4. CASE SusDdrFails(c)
  BY <1>0, <1>4
  DEF SusDdrFails, Goto, OnLabel, TypeOK
<1>5. QED
  BY <1>1, <1>2, <1>3, <1>4
  DEF Wake

LEMMA CallRoutes ==
  ASSUME RoutingInv, NEW c \in Core, Call(c)
  PROVE  Reroutes(c)
<1> USE DEF dataVars, hwVars, cpuVars, Routed, Reroutes, Untouched, PutBack
<1>0. /\ TypeOK /\ Routed(c)
      /\ \A d \in Core : savedScr[d] = {}
  BY DEF RoutingInv
<1>1. ASSUME NEW t \in 0 .. CPU_MAX_COUNT, NEW a \in Args, CpuOnCall(c, t, a)
      PROVE  Reroutes(c)
  BY <1>0, <1>1 DEF CpuOnCall, Goto, Return, OnLabel, TypeOK
<1>2. CASE CpuOffCall(c)
  BY <1>0, <1>2 DEF CpuOffCall, Goto, Return, OnLabel, TypeOK
<1>3. ASSUME NEW k \in SuspendKind \cup {"invalid"}, NEW a \in Args,
             SuspendCall(c, k, a)
      PROVE  Reroutes(c)
  BY <1>0, <1>3 DEF SuspendCall, SusProceed, Goto, Return, OnLabel, TypeOK
<1>4. QED
  BY <1>1, <1>2, <1>3 DEF Call

LEMMA RoutingInit == Init => RoutingInv
<1> SUFFICES ASSUME Init PROVE RoutingInv
  OBVIOUS
<1>1. TypeOK
  BY InitTypes
<1>2. ASSUME NEW c \in Core PROVE Routed(c)
  <2>1. savedScr[c] = {} /\ scr[c] = {} /\ kept[c]
    BY <1>2 DEF Init
  <2>2. pc[c] # "sus_failed"
    BY <1>2 DEF Init
  <2>3. QED  BY <2>1, <2>2 DEF Routed
<1>3. QED  BY <1>1, <1>2 DEF RoutingInv

LEMMA RoutingNext ==
  ASSUME "DDR_SLEEP" \notin HwFaults, RoutingInv, [Next]_vars
  PROVE  RoutingInv'
<1>1. TypeOK'
  BY NextTypes DEF RoutingInv
<1>2. ASSUME NEW c \in Core, Step(c) \/ Wake(c) \/ Call(c)
      PROVE  \A d \in Core : Routed(d)'
  <2>1. Reroutes(c)
    BY <1>2, OnStepRoutes, OffStepRoutes, ExitStepRoutes, TaskStepRoutes,
       SusStepRoutes, WakeRoutes, CallRoutes
    DEF Step
  <2>2. ASSUME NEW d \in Core PROVE Routed(d)'
    <3>1. CASE d = c
      BY <2>1, <3>1 DEF Reroutes
    <3>2. CASE d # c
      BY <2>1, <3>2 DEF Reroutes, Routed, RoutingInv
    <3>3. QED  BY <3>1, <3>2
  <2>3. QED  BY <2>2
<1>3. CASE UNCHANGED vars
  BY <1>1, <1>3 DEF vars, dataVars, hwVars, cpuVars, RoutingInv, Routed
<1>4. QED  BY <1>1, <1>2, <1>3 DEF Next, RoutingInv

\* Unless the DDR refuses to enter self refresh, no core ever returns to the
\* normal world, from a call or from a restart, with IRQs or FIQs still routed
\* to EL3 or with an MMU its own handler turned off, however the calls of the
\* cores interleave and whatever one core saved for another
\* (_soc_core_phase1_off, _soc_*_entr_* and _soc_*_exit_*).
THEOREM Restored ==
  ASSUME "DDR_SLEEP" \notin HwFaults
  PROVE  Spec => []RoutingRestored
<1>1. Init => RoutingInv
  BY RoutingInit
<1>2. RoutingInv /\ [Next]_vars => RoutingInv'
  BY RoutingNext
<1>3. RoutingInv => RoutingRestored
  BY DEF RoutingInv, Routed, Untouched, RoutingRestored
<1>4. QED
  BY <1>1, <1>2, <1>3, PTL DEF Spec

=============================================================================
