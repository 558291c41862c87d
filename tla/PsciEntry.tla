----------------------------- MODULE PsciEntry -----------------------------
(***************************************************************************)
(* A core enters the normal world with the parameters of one request: the  *)
(* proof of EntryIsOneRequest for one core that calls CPU_ON, on every     *)
(* port that offers neither CPU_OFF nor a suspend with power-down, however *)
(* many cores, standby requests and cores of the OCRAM task it has.        *)
(*                                                                         *)
(* EntryIsOneRequest speaks of the last step only.  The parameters are     *)
(* three stores of CPU_ON before the claim and three loads of the target   *)
(* after it; EntryInv follows them from the call to the entry: what the    *)
(* call has stored so far, that nobody stores over it until the target has *)
(* loaded it, and what the target has loaded so far.                       *)
(*                                                                         *)
(* With CPU_OFF it is not true: the abort flag of a call that has returned *)
(* may turn the target round while the next call is between its stores.    *)
(* Nor is it with a power-down: CPU_ON stores the parameters of a core     *)
(* that is suspended before it sees that it can not claim it.              *)
(***************************************************************************)
EXTENDS PsciHonest

EntryPort ==
  "CORE_OFF" \notin Features /\ Features \cap PwrDownKind = {}

\* The places of CPU_ON between the first test of the target and the claim.
Storing == OnLabel \ {"on_check", "release", "restart", "sev"}
Starting == {"exit_start", "exit_release", "exit_spsr", "exit_cntxt"}

\* The parameters of one request.
OneRequest(p) == p.start # NoArg /\ p.start = p.spsr /\ p.start = p.cntxt

\* No core is inside CPU_OFF or resumes from a power-down.
NoPowerDown ==
  \A c \in Core :
    /\ pc[c] \notin OffLabel \cup {"sus_cntxt", "sus_start", "sus_elr", "sus_x0"}
    /\ pc[c] \in {"sus_state", "sus_wfi", "sus_release"} => frame[c].kind \in StandbyKind

\* What CPU_ON has stored for its target, which does not start meanwhile.
StoredSoFar(c) ==
  LET p == param[frame[c].tgt]
  IN  pc[c] \in Storing =>
        /\ frame[c].arg # NoArg
        /\ coreState[frame[c].tgt] # CORE_PENDING
        /\ pc[frame[c].tgt] \notin Starting
        /\ pc[c] # "on_spsr" => p.spsr = frame[c].arg
        /\ pc[c] \notin {"on_spsr", "on_start"} => p.start = frame[c].arg
        /\ pc[c] \notin {"on_spsr", "on_start", "on_cntxt"} => p.cntxt = frame[c].arg

\* What a core that is marked finds, and what it has loaded of it.
LoadedSoFar(c) ==
  /\ coreState[c] = CORE_PENDING \/ pc[c] \in Starting => OneRequest(param[c])
  /\ pc[c] \in Starting \ {"exit_start"} => frame[c].at.start = param[c].start
  /\ pc[c] = "exit_cntxt" => frame[c].at.spsr = param[c].spsr

EntryInv ==
  /\ OneCallerInv
  /\ NoPowerDown
  /\ \A c \in Core : pc[c] = "on_check" => frame[c].arg # NoArg
  /\ \A c \in Core : StoredSoFar(c) /\ LoadedSoFar(c)
  /\ EntryIsOneRequest

-----------------------------------------------------------------------------
(* A step of core c: what it owes to the facts about c, and what it leaves *)
(* of the data of the other cores.                                         *)

Enters(c) ==
  /\ pc'[c] \notin OffLabel \cup {"sus_cntxt", "sus_start", "sus_elr", "sus_x0"}
  /\ pc'[c] \in {"sus_state", "sus_wfi", "sus_release"} => frame'[c].kind \in StandbyKind
  /\ pc'[c] = "on_check" => frame'[c].arg # NoArg
  /\ StoredSoFar(c)'
  /\ LoadedSoFar(c)'
  /\ EntryIsOneRequest'
  /\ coreState'[c] = CORE_PENDING => coreState[c] = CORE_PENDING
  /\ pc'[c] \in Starting => pc[c] \in Starting \/ coreState[c] = CORE_PENDING
  /\ param' = param \/ pc[c] \in OnLabel
  /\ \A d \in Core \ {c} :
       \/ param'[d] = param[d] /\ coreState'[d] = coreState[d]
       \/ pc[c] \in Storing /\ d = frame[c].tgt /\ coreState'[d] = coreState[d]
       \/ pc[c] \in ClaimLabel /\ d = frame[c].tgt /\ param'[d] = param[d]

\* What the invariant says of the core that takes a step.
LEMMA EntryFacts ==
  ASSUME EntryInv, NEW c \in Core
  PROVE  /\ TypeOK
         /\ frame[c] \in Frame /\ frame[c].tgt \in Core /\ frame[c].at \in Param
         /\ param[c] \in Param /\ param[frame[c].tgt] \in Param
         /\ pc[c] \in OnLabel => coreState[c] = CORE_RELEASED
         /\ pc[c] \in ClaimLabel => frame[c].tgt # c
         /\ coreState[c] = CORE_PENDING => pc[c] \in Held
         /\ pc[c] \in Starting => coreState[c] \in {CORE_PENDING, CORE_RELEASED}
<1>1. /\ TypeOK
      /\ pc[c] \in PlacesOf(coreState[c])
      /\ coreState[c] \in State
      /\ coreState[c] = CORE_PENDING => pc[c] \in Held
  BY DEF EntryInv, OneCallerInv, HonestInv, StateIsHonest, PendingIsNotRunning, Held, TypeOK
<1>2. frame[c] \in Frame /\ frame[c].tgt \in Core /\ frame[c].at \in Param
  BY <1>1, Fields DEF TypeOK
<1>3. param[c] \in Param /\ param[frame[c].tgt] \in Param
  BY <1>1, <1>2 DEF TypeOK
<1>4. pc[c] \in OnLabel => coreState[c] = CORE_RELEASED
  BY <1>1, RunningPlaces, HeldPlaces
<1>5. pc[c] \in ClaimLabel => coreState[frame[c].tgt] \in Claimable
  BY DEF EntryInv, OneCallerInv, SeenIsStillSo, ClaimLabel, Claimable
<1>6. pc[c] \in ClaimLabel => frame[c].tgt # c
  BY <1>4, <1>5, MarkIsOther DEF ClaimLabel, OnLabel
<1>7. pc[c] \in Starting => coreState[c] \in {CORE_PENDING, CORE_RELEASED}
  BY <1>1, RunningPlaces, ExitPlaces DEF Starting, Running
<1>8. QED  BY <1>1, <1>2, <1>3, <1>4, <1>6, <1>7

LEMMA EntersStep ==
  ASSUME NEW b, Callers = {b}, EntryInv, NEW c \in Core,
         Honestly(c), Enters(c), OneCallerInv'
  PROVE  EntryInv'
<1>1. NoPowerDown'
  BY DEF NoPowerDown, Enters, Honestly, EntryInv
<1>2. (\A d \in Core : pc[d] = "on_check" => frame[d].arg # NoArg)'
  BY DEF Enters, Honestly, EntryInv
<1>3. ASSUME NEW d \in Core PROVE StoredSoFar(d)'
  <2>1. CASE d = c
    BY <2>1 DEF Enters
  <2>2. CASE d # c /\ pc[d] \in Storing
    <3> DEFINE t == frame[d].tgt
    <3>1. pc'[d] = pc[d] /\ frame'[d] = frame[d] /\ t \in Core
      BY <2>2, EntryFacts DEF Honestly
    <3>2. d \in Callers /\ pc[c] \notin OnLabel
      BY <2>2 DEF EntryInv, OneCallerInv, CallersCall, Storing
    <3>3. param' = param
      BY <3>2 DEF Enters
    <3>4. coreState[t] # CORE_PENDING /\ pc[t] \notin Starting
      BY <2>2 DEF EntryInv, StoredSoFar
    <3>5. coreState'[t] # CORE_PENDING /\ pc'[t] \notin Starting
      <4>1. CASE t = c
        BY <3>4, <4>1 DEF Enters
      <4>2. CASE t # c
        <5>1. coreState'[t] = coreState[t]
          BY <3>1, <3>2, <4>2 DEF Enters, Storing, ClaimLabel, OnLabel
        <5>2. pc'[t] = pc[t]
          BY <3>1, <4>2 DEF Honestly
        <5>3. QED  BY <3>4, <5>1, <5>2
      <4>3. QED  BY <4>1, <4>2
    <3>6. StoredSoFar(d)
      BY DEF EntryInv
    <3>7. QED  BY <3>1, <3>3, <3>5, <3>6 DEF StoredSoFar
  <2>3. CASE d # c /\ pc[d] \notin Storing
    BY <2>3 DEF StoredSoFar, Honestly
  <2>4. QED  BY <2>1, <2>2, <2>3
<1>4. ASSUME NEW d \in Core PROVE LoadedSoFar(d)'
  <2>1. CASE d = c
    BY <2>1 DEF Enters
  <2>2. CASE d # c
    <3>1. pc'[d] = pc[d] /\ frame'[d] = frame[d] /\ LoadedSoFar(d)
      BY <2>2 DEF Honestly, EntryInv
    <3>2. CASE param'[d] = param[d] /\ coreState'[d] = coreState[d]
      BY <3>1, <3>2 DEF LoadedSoFar
    <3>3. CASE pc[c] \in Storing /\ d = frame[c].tgt /\ coreState'[d] = coreState[d]
      <4>1. coreState[d] # CORE_PENDING /\ pc[d] \notin Starting
        BY <3>3 DEF EntryInv, StoredSoFar
      <4>2. QED  BY <3>1, <3>3, <4>1 DEF LoadedSoFar, Starting
    <3>4. CASE pc[c] \in ClaimLabel /\ d = frame[c].tgt /\ param'[d] = param[d]
      <4>1. pc[c] \in Storing \ {"on_spsr", "on_start", "on_cntxt"}
        BY <3>4 DEF ClaimLabel, Storing, OnLabel
      <4>2. OneRequest(param[d]) /\ pc[d] \notin Starting
        BY <3>4, <4>1 DEF EntryInv, StoredSoFar, OneRequest
      <4>3. QED  BY <3>1, <3>4, <4>2 DEF LoadedSoFar, Starting
    <3>5. QED  BY <2>2, <3>2, <3>3, <3>4 DEF Enters
  <2>3. QED  BY <2>1, <2>2
<1>5. EntryIsOneRequest'
  BY DEF Enters
<1>6. QED  BY <1>1, <1>2, <1>3, <1>4, <1>5 DEF EntryInv

\* A step of c that stores no parameter, marks nobody, and goes where nothing
\* is owed.
Elsewhere == Label \ (OnLabel \cup OffLabel \cup Starting \cup
                      {"sus_cntxt", "sus_start", "sus_elr", "sus_x0"})

LEMMA QuietEnters ==
  ASSUME EntryInv, NEW c \in Core, param' = param,
         \/ coreState' = coreState
         \/ \E s \in State \ {CORE_PENDING} : coreState' = [coreState EXCEPT ![c] = s],
         pc' \in [Core -> Label], pc'[c] \in Elsewhere, out'.ev # "entry",
         pc'[c] \in {"sus_state", "sus_wfi", "sus_release"} => frame'[c].kind \in StandbyKind
  PROVE  Enters(c)
<1>1. TypeOK
  BY EntryFacts
<1>2. /\ coreState'[c] = CORE_PENDING => coreState[c] = CORE_PENDING
      /\ \A d \in Core \ {c} : coreState'[d] = coreState[d]
  BY <1>1 DEF TypeOK
<1>3. /\ StoredSoFar(c)'
      /\ pc'[c] # "on_check"
      /\ pc'[c] \notin Starting
      /\ pc'[c] \notin OffLabel \cup {"sus_cntxt", "sus_start", "sus_elr", "sus_x0"}
  BY DEF StoredSoFar, Elsewhere, Storing, OnLabel
<1>4. LoadedSoFar(c)
  BY DEF EntryInv
<1>5. LoadedSoFar(c)'
  BY <1>2, <1>3, <1>4 DEF LoadedSoFar, Starting
<1>6. EntryIsOneRequest'
  BY DEF EntryIsOneRequest
<1>7. QED  BY <1>2, <1>3, <1>5, <1>6 DEF Enters

LEMMA ReturnEnters ==
  ASSUME EntryInv, NEW c \in Core, NEW v, Return(c, v), param' = param,
         \/ coreState' = coreState
         \/ \E s \in State \ {CORE_PENDING} : coreState' = [coreState EXCEPT ![c] = s]
  PROVE  Enters(c)
<1>1. pc' \in [Core -> Label] /\ pc'[c] = "os" /\ out'.ev # "entry"
  BY EntryFacts, OsLabel DEF Return, TypeOK
<1>2. "os" \in Elsewhere
  BY DEF Elsewhere, Label, OnLabel, OffLabel, Starting
<1>3. QED  BY <1>1, <1>2, QuietEnters

LEMMA GotoEnters ==
  ASSUME EntryInv, NEW c \in Core, NEW l \in Elsewhere, Goto(c, l), param' = param,
         \/ coreState' = coreState
         \/ \E s \in State \ {CORE_PENDING} : coreState' = [coreState EXCEPT ![c] = s],
         l \in {"sus_state", "sus_wfi", "sus_release"} => frame'[c].kind \in StandbyKind
  PROVE  Enters(c)
<1>1. pc' \in [Core -> Label] /\ pc'[c] = l /\ out'.ev # "entry"
  BY EntryFacts DEF Goto, TypeOK, NoOut, Elsewhere
<1>2. QED  BY <1>1, QuietEnters

-----------------------------------------------------------------------------
(* The steps.                                                              *)

LEMMA ElsewhereLabels ==
  /\ "os" \in Elsewhere /\ "reset" \in Elsewhere
  /\ "task_check" \in Elsewhere /\ "task_set" \in Elsewhere /\ "task_wfe" \in Elsewhere
  /\ "sus_count" \in Elsewhere /\ "sus_state" \in Elsewhere /\ "sus_wfi" \in Elsewhere
  /\ "sus_release" \in Elsewhere /\ "sus_failed" \in Elsewhere
BY DEF Elsewhere, Label, OnLabel, OffLabel, ExitLabel, SusLabel, TaskLabel, Starting

\* From one place of CPU_ON to the next: the target is neither marked nor starting.
LEMMA StoreEnters ==
  ASSUME EntryInv, NEW c \in Core, NEW l \in Storing, pc[c] \in OnLabel, Goto(c, l),
         coreState' = coreState,
         frame'[c].tgt = frame[c].tgt, frame'[c].arg = frame[c].arg,
         \A d \in Core \ {frame[c].tgt} : param'[d] = param[d],
         pc[c] \in Storing \/ param' = param,
         frame[c].arg # NoArg,
         coreState[frame[c].tgt] # CORE_PENDING,
         pc[frame[c].tgt] \notin Starting,
         LET p == param'[frame[c].tgt]
         IN  /\ l # "on_spsr" => p.spsr = frame[c].arg
             /\ l \notin {"on_spsr", "on_start"} => p.start = frame[c].arg
             /\ l \notin {"on_spsr", "on_start", "on_cntxt"} => p.cntxt = frame[c].arg
  PROVE  Enters(c)
<1>1. TypeOK /\ frame[c].tgt \in Core /\ coreState[c] # CORE_PENDING
  BY EntryFacts, MarkIsOther
<1>2. /\ pc'[c] = l /\ out'.ev # "entry"
      /\ \A d \in Core \ {c} : pc'[d] = pc[d]
  BY <1>1 DEF Goto, TypeOK, NoOut
<1>3. l \notin OffLabel \cup Starting \cup
        {"on_check", "sus_cntxt", "sus_start", "sus_elr", "sus_x0", "sus_state", "sus_wfi",
         "sus_release"}
  BY DEF Storing, OnLabel, OffLabel, Starting
<1>4. pc'[frame[c].tgt] \notin Starting
  BY <1>1, <1>2, <1>3
<1>5. StoredSoFar(c)'
  BY <1>2, <1>4 DEF StoredSoFar
<1>6. LoadedSoFar(c)'
  BY <1>1, <1>2, <1>3 DEF LoadedSoFar, Starting
<1>7. EntryIsOneRequest'
  BY <1>2 DEF EntryIsOneRequest
<1>8. \A d \in Core \ {c} :
        \/ param'[d] = param[d] /\ coreState'[d] = coreState[d]
        \/ pc[c] \in Storing /\ d = frame[c].tgt /\ coreState'[d] = coreState[d]
  OBVIOUS
<1>9. QED  BY <1>2, <1>3, <1>5, <1>6, <1>7, <1>8 DEF Enters

LEMMA OnStepEnters ==
  ASSUME EntryInv, NEW c \in Core, OnStep(c)
  PROVE  Enters(c)
<1> USE DEF dataVars, hwVars, cpuVars
<1> DEFINE t == frame[c].tgt
<1>0. /\ TypeOK
      /\ frame[c] \in Frame /\ t \in Core /\ frame[c].arg \in ArgData
      /\ param[t] \in Param
  BY EntryFacts, Fields
<1>s. pc[c] \in Storing =>
        /\ frame[c].arg # NoArg
        /\ coreState[t] # CORE_PENDING
        /\ pc[t] \notin Starting
        /\ pc[c] # "on_spsr" => param[t].spsr = frame[c].arg
        /\ pc[c] \notin {"on_spsr", "on_start"} => param[t].start = frame[c].arg
        /\ pc[c] \notin {"on_spsr", "on_start", "on_cntxt"} => param[t].cntxt = frame[c].arg
  BY DEF EntryInv, StoredSoFar
<1>1. CASE OnCheck(c)
  <2>1. CASE \E v : Return(c, v)
    BY <1>1, <2>1, ReturnEnters DEF OnCheck
  <2>2. CASE /\ coreState[t] \notin {CORE_DISABLED, CORE_PENDING, CORE_RELEASED}
             /\ Goto(c, "on_spsr") /\ UNCHANGED frame
    <3>1. /\ pc[c] = "on_check" /\ frame[c].arg # NoArg
          /\ coreState' = coreState /\ param' = param
      BY <1>1 DEF OnCheck, EntryInv
    <3>2. pc[t] \notin Starting
      BY <1>0, <2>2, EntryFacts
    <3>3. "on_spsr" \in Storing /\ "on_check" \in OnLabel
      BY DEF Storing, OnLabel
    <3>4. QED  BY <1>0, <2>2, <3>1, <3>2, <3>3, StoreEnters
  <2>3. QED  BY <1>1, <2>1, <2>2 DEF OnCheck
<1>2. CASE OnSpsr(c)
  <2>1. /\ pc[c] = "on_spsr" /\ Goto(c, "on_start")
        /\ param' = [param EXCEPT ![t].spsr = frame[c].arg]
        /\ coreState' = coreState /\ frame' = frame
    BY <1>2 DEF OnSpsr
  <2>2. /\ param'[t].spsr = frame[c].arg
        /\ \A d \in Core \ {t} : param'[d] = param[d]
    BY <1>0, <2>1 DEF TypeOK, Param
  <2>3. "on_spsr" \in Storing /\ "on_start" \in Storing /\ "on_spsr" \in OnLabel
    BY DEF Storing, OnLabel
  <2>4. QED  BY <1>0, <1>s, <2>1, <2>2, <2>3, StoreEnters
<1>3. CASE OnStart(c)
  <2>1. /\ pc[c] = "on_start" /\ Goto(c, "on_cntxt")
        /\ param' = [param EXCEPT ![t].start = frame[c].arg]
        /\ coreState' = coreState /\ frame' = frame
    BY <1>3 DEF OnStart
  <2>2. /\ param'[t].start = frame[c].arg /\ param'[t].spsr = param[t].spsr
        /\ \A d \in Core \ {t} : param'[d] = param[d]
    BY <1>0, <2>1 DEF TypeOK, Param
  <2>3. "on_start" \in Storing /\ "on_cntxt" \in Storing /\ "on_start" \in OnLabel
    BY DEF Storing, OnLabel
  <2>4. QED  BY <1>0, <1>s, <2>1, <2>2, <2>3, StoreEnters
<1>4. CASE OnCntxt(c)
  <2>1. /\ pc[c] = "on_cntxt" /\ Goto(c, "on_reread")
        /\ param' = [param EXCEPT ![t].cntxt = frame[c].arg]
        /\ coreState' = coreState /\ frame' = frame
    BY <1>4 DEF OnCntxt
  <2>2. /\ param'[t].cntxt = frame[c].arg
        /\ param'[t].spsr = param[t].spsr /\ param'[t].start = param[t].start
        /\ \A d \in Core \ {t} : param'[d] = param[d]
    BY <1>0, <2>1 DEF TypeOK, Param
  <2>3. "on_cntxt" \in Storing /\ "on_reread" \in Storing /\ "on_cntxt" \in OnLabel
    BY DEF Storing, OnLabel
  <2>4. QED  BY <1>0, <1>s, <2>1, <2>2, <2>3, StoreEnters
<1>5. CASE OnReread(c)
  <2>1. /\ pc[c] = "on_reread"
        /\ \E l \in {"claim_wfe", "claim_reset", "claim_off", "on_abort"} : Goto(c, l)
        /\ coreState' = coreState /\ frame' = frame /\ param' = param
    BY <1>5 DEF OnReread
  <2>2. PICK l \in {"claim_wfe", "claim_reset", "claim_off", "on_abort"} : Goto(c, l)
    BY <2>1
  <2>3. "on_reread" \in Storing /\ l \in Storing /\ "on_reread" \in OnLabel
    BY DEF Storing, OnLabel
  <2>4. QED  BY <1>0, <1>s, <2>1, <2>2, <2>3, StoreEnters
<1>6. CASE OnAbort(c)
  <2>1. /\ pc[c] = "on_abort" /\ Goto(c, "on_watch")
        /\ frame' = [frame EXCEPT ![c].cnt = PSCI_ABORT_CNT]
        /\ coreState' = coreState /\ param' = param
    BY <1>6 DEF OnAbort
  <2>2. frame'[c].tgt = frame[c].tgt /\ frame'[c].arg = frame[c].arg
    BY <1>0, <2>1 DEF TypeOK, Frame
  <2>3. "on_abort" \in Storing /\ "on_watch" \in Storing /\ "on_abort" \in OnLabel
    BY DEF Storing, OnLabel
  <2>4. QED  BY <1>0, <1>s, <2>1, <2>2, <2>3, StoreEnters
<1>7. CASE OnWatch(c)
  <2>1. /\ pc[c] = "on_watch"
        /\ coreState' = coreState /\ param' = param
    BY <1>7 DEF OnWatch
  <2>2. "on_watch" \in Storing /\ "claim_off" \in Storing /\ "on_watch" \in OnLabel
    BY DEF Storing, OnLabel
  <2>3. CASE Goto(c, "claim_off") /\ UNCHANGED frame
    BY <1>0, <1>s, <2>1, <2>2, <2>3, StoreEnters
  <2>4. CASE Return(c, PSCI_SUCCESS)
    BY <2>1, <2>4, ReturnEnters
  <2>5. CASE frame' = [frame EXCEPT ![c].cnt = @ - 1] /\ Goto(c, "on_watch")
    <3>1. frame'[c].tgt = frame[c].tgt /\ frame'[c].arg = frame[c].arg
      BY <1>0, <2>5 DEF TypeOK, Frame
    <3>2. QED  BY <1>0, <1>s, <2>1, <2>2, <2>5, <3>1, StoreEnters
  <2>6. QED  BY <1>7, <2>3, <2>4, <2>5 DEF OnWatch
<1>8. CASE ClaimReset(c) \/ ClaimOff(c) \/ ClaimWfe(c)
  <2>1. /\ pc[c] \in ClaimLabel /\ param' = param
        /\ \/ /\ coreState' = [coreState EXCEPT ![t] = CORE_PENDING]
              /\ \E l \in {"release", "restart", "sev"} : Goto(c, l)
              /\ frame' = frame
           \/ Return(c, PSCI_NOT_SUPPORTED) /\ coreState' = coreState
    BY <1>8 DEF ClaimReset, ClaimOff, ClaimWfe, Claim, SetState, ClaimLabel
  <2>2. CASE Return(c, PSCI_NOT_SUPPORTED) /\ coreState' = coreState
    BY <2>1, <2>2, ReturnEnters
  <2>3. ASSUME NEW l \in {"release", "restart", "sev"}, Goto(c, l), frame' = frame,
               coreState' = [coreState EXCEPT ![t] = CORE_PENDING]
        PROVE  Enters(c)
    <3>1. t # c /\ coreState[c] # CORE_PENDING
      BY <2>1, EntryFacts, MarkIsOther DEF ClaimLabel, OnLabel
    <3>2. /\ pc'[c] = l /\ out'.ev # "entry"
          /\ coreState'[c] = coreState[c]
          /\ \A d \in Core \ {c, t} : coreState'[d] = coreState[d]
      BY <1>0, <2>3, <3>1 DEF Goto, TypeOK, NoOut
    <3>3. /\ l \notin Storing /\ l \notin Starting /\ l # "on_check"
          /\ l \notin OffLabel \cup {"sus_cntxt", "sus_start", "sus_elr", "sus_x0"}
          /\ l \notin {"sus_state", "sus_wfi", "sus_release"}
      BY DEF Storing, OnLabel, OffLabel, Starting
    <3>4. StoredSoFar(c)' /\ LoadedSoFar(c)' /\ EntryIsOneRequest'
      BY <3>1, <3>2, <3>3 DEF StoredSoFar, LoadedSoFar, EntryIsOneRequest, Starting
    <3>5. QED  BY <2>1, <2>3, <3>1, <3>2, <3>3, <3>4 DEF Enters
  <2>4. QED  BY <2>1, <2>2, <2>3
<1>9. CASE Release(c) \/ Restart(c) \/ Sev(c)
  <2>1. Return(c, PSCI_SUCCESS) /\ coreState' = coreState /\ param' = param
    BY <1>9 DEF Release, Restart, Sev
  <2>2. QED  BY <2>1, ReturnEnters
<1>10. QED
  BY <1>1, <1>2, <1>3, <1>4, <1>5, <1>6, <1>7, <1>8, <1>9 DEF OnStep

LEMMA OffStepEnters ==
  ASSUME EntryInv, NEW c \in Core, OffStep(c)
  PROVE  Enters(c)
<1>1. pc[c] \notin OffLabel
  BY DEF EntryInv, NoPowerDown
<1>2. QED
  BY <1>1 DEF OffStep, OffCount, OffState, OffPend, OffPhase1, OffPhase2, AbortCheck, AbortClr,
    AbortPend, OffEnter, OffSgi, OffWake, OffHit, OffWoke, OffLabel

LEMMA ExitStepEnters ==
  ASSUME EntryInv, NEW c \in Core, ExitStep(c)
  PROVE  Enters(c)
<1> USE DEF dataVars, hwVars, cpuVars
<1>0. /\ TypeOK
      /\ frame[c] \in Frame /\ frame[c].at \in Param /\ param[c] \in Param
      /\ LoadedSoFar(c)
  BY EntryFacts DEF EntryInv
<1>1. ASSUME NEW l \in Starting, Goto(c, l), param' = param, pc[c] \in Starting,
             coreState' = coreState \/ coreState' = [coreState EXCEPT ![c] = CORE_RELEASED],
             l # "exit_start" => frame'[c].at.start = param[c].start,
             l = "exit_cntxt" => frame'[c].at.spsr = param[c].spsr
      PROVE  Enters(c)
  <2>1. /\ pc'[c] = l /\ out'.ev # "entry"
        /\ \A d \in Core \ {c} : coreState'[d] = coreState[d]
        /\ coreState'[c] = CORE_PENDING => coreState[c] = CORE_PENDING
    BY <1>0, <1>1, MarkIsOther DEF Goto, TypeOK, NoOut
  <2>2. /\ l \notin Storing /\ l # "on_check"
        /\ l \notin OffLabel \cup {"sus_cntxt", "sus_start", "sus_elr", "sus_x0"}
        /\ l \notin {"sus_state", "sus_wfi", "sus_release"}
    BY DEF Storing, OnLabel, OffLabel, Starting
  <2>3. OneRequest(param[c])
    BY <1>0, <1>1 DEF LoadedSoFar
  <2>4. StoredSoFar(c)' /\ LoadedSoFar(c)' /\ EntryIsOneRequest'
    BY <1>1, <2>1, <2>2, <2>3 DEF StoredSoFar, LoadedSoFar, EntryIsOneRequest
  <2>5. QED  BY <1>1, <2>1, <2>2, <2>4 DEF Enters
<1>2. CASE SecondaryReset(c)
  <2>1. coreState[c] = CORE_PENDING
    BY <1>2 DEF SecondaryReset, EntryInv, OneCallerInv, HonestInv, ReleasedIsMarked
  <2>2. /\ pc'[c] = "exit_start" /\ out'.ev # "entry"
        /\ coreState' = coreState /\ param' = param /\ frame' = frame
    BY <1>0, <1>2 DEF SecondaryReset, Goto, TypeOK, NoOut
  <2>3. /\ StoredSoFar(c)' /\ LoadedSoFar(c)' /\ EntryIsOneRequest'
        /\ "exit_start" \notin OffLabel
    BY <1>0, <2>1, <2>2
    DEF StoredSoFar, LoadedSoFar, EntryIsOneRequest, Storing, OnLabel, OffLabel
  <2>4. QED  BY <2>1, <2>2, <2>3 DEF Enters
<1>3. CASE ExitStart(c)
  <2>1. frame' = [frame EXCEPT ![c].at.start = param[c].start]
    BY <1>3 DEF ExitStart
  <2>2. frame'[c].at.start = param[c].start
    BY <1>0, <2>1 DEF TypeOK, Frame, Param
  <2>3. /\ Goto(c, "exit_release") /\ coreState' = coreState /\ param' = param
        /\ pc[c] = "exit_start"
    BY <1>3 DEF ExitStart
  <2>4. QED  BY <1>1, <2>2, <2>3 DEF Starting
<1>4. CASE ExitRelease(c)
  <2>1. /\ Goto(c, "exit_spsr") /\ param' = param /\ frame' = frame
        /\ coreState' = [coreState EXCEPT ![c] = CORE_RELEASED]
        /\ pc[c] = "exit_release"
    BY <1>4 DEF ExitRelease, SetState
  <2>2. frame[c].at.start = param[c].start
    BY <1>0, <2>1 DEF LoadedSoFar, Starting
  <2>3. QED  BY <1>1, <2>1, <2>2 DEF Starting
<1>5. CASE ExitSpsr(c)
  <2>1. /\ Goto(c, "exit_cntxt") /\ param' = param /\ coreState' = coreState
        /\ frame' = [frame EXCEPT ![c].at.spsr = param[c].spsr]
        /\ pc[c] = "exit_spsr"
    BY <1>5 DEF ExitSpsr
  <2>2. frame'[c].at.spsr = param[c].spsr /\ frame'[c].at.start = frame[c].at.start
    BY <1>0, <2>1 DEF TypeOK, Frame, Param
  <2>3. frame[c].at.start = param[c].start
    BY <1>0, <2>1 DEF LoadedSoFar, Starting
  <2>4. QED  BY <1>1, <2>1, <2>2, <2>3 DEF Starting
<1>6. CASE ExitCntxt(c)
  <2> DEFINE at == [frame[c].at EXCEPT !.cntxt = param[c].cntxt]
  <2>1. /\ Enter(c, at) /\ param' = param /\ coreState' = coreState
        /\ pc[c] = "exit_cntxt"
    BY <1>6 DEF ExitCntxt
  <2>2. /\ frame[c].at.start = param[c].start /\ frame[c].at.spsr = param[c].spsr
        /\ OneRequest(param[c])
    BY <1>0, <2>1 DEF LoadedSoFar, Starting
  <2>3. /\ at.start = param[c].start /\ at.spsr = param[c].spsr /\ at.cntxt = param[c].cntxt
    BY <1>0, <2>2 DEF Param
  <2>4. EntryIsOneRequest'
    <3>1. out'.at = at
      BY <2>1 DEF Enter
    <3> HIDE DEF at
    <3>2. QED  BY <2>2, <2>3, <3>1 DEF EntryIsOneRequest, OneRequest
  <2>5. pc'[c] = "os"
    BY <1>0, <2>1 DEF Enter, TypeOK
  <2>6. StoredSoFar(c)' /\ LoadedSoFar(c)' /\ "os" \notin OffLabel \cup Starting
    BY <1>0, <2>1, <2>5 DEF StoredSoFar, LoadedSoFar, Storing, OnLabel, Starting, OffLabel
  <2>7. QED  BY <2>1, <2>4, <2>5, <2>6 DEF Enters
<1>7. QED  BY <1>2, <1>3, <1>4, <1>5, <1>6 DEF ExitStep

LEMMA TaskStepEnters ==
  ASSUME EntryInv, NEW c \in Core, TaskStep(c)
  PROVE  Enters(c)
<1> USE ElsewhereLabels DEF dataVars, hwVars, cpuVars
<1>0. TypeOK /\ LoadedSoFar(c)
  BY EntryFacts DEF EntryInv
<1>1. CASE TaskCheck(c) /\ coreState[c] = CORE_PENDING
  <2>1. /\ pc'[c] = "exit_start" /\ out'.ev # "entry"
        /\ coreState' = coreState /\ param' = param /\ frame' = frame
    BY <1>0, <1>1 DEF TaskCheck, Goto, TypeOK, NoOut
  <2>2. /\ StoredSoFar(c)' /\ LoadedSoFar(c)' /\ EntryIsOneRequest'
        /\ "exit_start" \notin OffLabel
    BY <1>0, <1>1, <2>1
    DEF StoredSoFar, LoadedSoFar, EntryIsOneRequest, Storing, OnLabel, OffLabel
  <2>3. QED  BY <1>1, <2>1, <2>2 DEF Enters
<1>2. CASE TaskCheck(c) /\ coreState[c] # CORE_PENDING
  <2>1. Goto(c, "task_set") /\ coreState' = coreState /\ param' = param
    BY <1>2 DEF TaskCheck
  <2>2. QED  BY <2>1, GotoEnters
<1>3. CASE TaskSet(c)
  <2>1. /\ Goto(c, "task_wfe") /\ param' = param
        /\ coreState' = [coreState EXCEPT ![c] = CORE_WFE]
    BY <1>3 DEF TaskSet, SetState
  <2>2. QED  BY <2>1, GotoEnters, States, MarkIsOther
<1>4. CASE TaskWake(c)
  <2>1. Goto(c, "task_check") /\ coreState' = coreState /\ param' = param
    BY <1>4 DEF TaskWake
  <2>2. QED  BY <2>1, GotoEnters
<1>5. QED  BY <1>1, <1>2, <1>3, <1>4 DEF TaskStep

LEMMA SusStepEnters ==
  ASSUME EntryPort, EntryInv, NEW c \in Core, SusStep(c)
  PROVE  Enters(c)
<1> USE ElsewhereLabels DEF dataVars, hwVars, cpuVars
<1>0. /\ TypeOK /\ frame[c] \in Frame
      /\ pc[c] \notin {"sus_cntxt", "sus_start", "sus_elr", "sus_x0"}
      /\ pc[c] \in {"sus_state", "sus_wfi", "sus_release"} => frame[c].kind \in StandbyKind
  BY EntryFacts DEF EntryInv, NoPowerDown
<1>1. CASE SusCount(c)
  <2>1. coreState' = coreState /\ param' = param
    BY <1>1 DEF SusCount
  <2>2. CASE Goto(c, "sus_count")
    BY <2>1, <2>2, GotoEnters
  <2>3. CASE \E v : Return(c, v)
    BY <2>1, <2>3, ReturnEnters
  <2>4. CASE /\ SusProceed(c, frame[c].kind)
             /\ frame[c].kind \in Features =>
                  frame' = [frame EXCEPT ![c].idx = 0, ![c].cnt = 0]
    <3>1. CASE frame[c].kind \notin Features
      BY <2>3, <2>4, <3>1 DEF SusProceed
    <3>2. CASE frame[c].kind \in Features
      <4>1. frame'[c].kind = frame[c].kind
        BY <1>0, <2>4, <3>2 DEF TypeOK, Frame
      <4>2. frame[c].kind \in StandbyKind
        <5>1. frame[c].kind \in SuspendKind \cup {"none"} /\ "none" \notin Features
          BY <1>0, SocAssumption
          DEF Frame, Feature, SuspendKind, StandbyKind, PwrDownKind
        <5>2. QED  BY <3>2, <5>1 DEF EntryPort, SuspendKind
      <4>3. Goto(c, "sus_state")
        BY <2>4, <3>2, <4>2 DEF SusProceed
      <4>4. QED  BY <2>1, <4>1, <4>2, <4>3, GotoEnters
    <3>3. QED  BY <3>1, <3>2
  <2>5. QED  BY <1>1, <2>2, <2>3, <2>4 DEF SusCount
<1>2. CASE SusState(c)
  <2>1. /\ Goto(c, "sus_wfi") /\ param' = param /\ frame' = frame
        /\ coreState' = [coreState EXCEPT ![c] = CORE_STANDBY]
        /\ frame[c].kind \in StandbyKind
    BY <1>0, <1>2 DEF SusState, SetState
  <2>2. QED  BY <2>1, GotoEnters, States, MarkIsOther
<1>3. CASE SusFailed(c) \/ SusRelease(c)
  <2>1. /\ \E v : Return(c, v)
        /\ coreState' = [coreState EXCEPT ![c] = CORE_RELEASED] /\ param' = param
    BY <1>0, <1>3 DEF SusFailed, SusRelease, SetState, StandbyKind, PwrDownKind
  <2>2. QED  BY <2>1, ReturnEnters, States, MarkIsOther
<1>4. CASE SusCntxt(c) \/ SusStart(c) \/ SusElr(c) \/ SusX0(c)
  BY <1>0, <1>4 DEF SusCntxt, SusStart, SusElr, SusX0
<1>5. QED  BY <1>1, <1>2, <1>3, <1>4 DEF SusStep

LEMMA WakeEnters ==
  ASSUME EntryInv, NEW c \in Core, Wake(c)
  PROVE  Enters(c)
<1> USE ElsewhereLabels DEF dataVars, hwVars, cpuVars
<1>1. CASE OffSpuriousWake(c)
  BY <1>1 DEF OffSpuriousWake, EntryInv, NoPowerDown, OffLabel
<1>2. CASE TaskSpuriousWake(c)
  <2>1. Goto(c, "task_check") /\ coreState' = coreState /\ param' = param
    BY <1>2 DEF TaskSpuriousWake
  <2>2. QED  BY <2>1, GotoEnters
<1>3. CASE SusWake(c)
  <2>1. /\ Goto(c, "sus_release") /\ coreState' = coreState /\ param' = param
        /\ frame'[c].kind \in StandbyKind
    BY <1>3 DEF SusWake, EntryInv, NoPowerDown
  <2>2. QED  BY <2>1, GotoEnters
<1>4. CASE SusDdrFails(c)
  <2>1. Goto(c, "sus_failed") /\ coreState' = coreState /\ param' = param
    BY <1>4 DEF SusDdrFails
  <2>2. QED  BY <2>1, GotoEnters
<1>5. QED  BY <1>1, <1>2, <1>3, <1>4 DEF Wake

LEMMA CallEnters ==
  ASSUME EntryPort, EntryInv, NEW c \in Core, Call(c)
  PROVE  Enters(c)
<1> USE ElsewhereLabels DEF dataVars, hwVars, cpuVars
<1>0. /\ TypeOK /\ frame[c] \in Frame /\ LoadedSoFar(c)
  BY EntryFacts DEF EntryInv
<1>1. ASSUME NEW t \in 0 .. CPU_MAX_COUNT, NEW a \in Args, CpuOnCall(c, t, a)
      PROVE  Enters(c)
  <2>1. coreState' = coreState /\ param' = param /\ pc[c] = "os"
    BY <1>1 DEF CpuOnCall
  <2>2. CASE \E v : Return(c, v)
    BY <2>1, <2>2, ReturnEnters
  <2>3. CASE /\ frame' = [frame EXCEPT ![c].tgt = t, ![c].arg = a]
             /\ Goto(c, "on_check")
    <3>1. /\ frame'[c].arg = a /\ a # NoArg
      BY <1>0, <2>3, ArgsAssumption DEF TypeOK, Frame, NoArg
    <3>2. pc'[c] = "on_check" /\ out'.ev # "entry"
      BY <1>0, <2>3 DEF Goto, TypeOK, NoOut
    <3>3. StoredSoFar(c)' /\ LoadedSoFar(c)' /\ EntryIsOneRequest'
      BY <1>0, <2>1, <3>2 DEF StoredSoFar, LoadedSoFar, EntryIsOneRequest, Storing, Starting
    <3>4. QED  BY <2>1, <3>1, <3>2, <3>3 DEF Enters, OffLabel, Starting
  <2>4. QED  BY <1>1, <2>2, <2>3 DEF CpuOnCall
<1>2. CASE CpuOffCall(c)
  <2>1. Return(c, PSCI_NOT_SUPPORTED) /\ coreState' = coreState /\ param' = param
    BY <1>2 DEF CpuOffCall, EntryPort
  <2>2. QED  BY <2>1, ReturnEnters
<1>3. ASSUME NEW k \in SuspendKind \cup {"invalid"}, NEW a \in Args,
             SuspendCall(c, k, a)
      PROVE  Enters(c)
  <2>1. coreState' = coreState /\ param' = param
    BY <1>3 DEF SuspendCall
  <2>2. CASE \E v : Return(c, v)
    BY <2>1, <2>2, ReturnEnters
  <2>3. CASE Goto(c, "sus_count")
    BY <2>1, <2>3, GotoEnters
  <2>4. CASE /\ k \in SuspendKind /\ k \in Features /\ SusProceed(c, k)
             /\ frame' = [frame EXCEPT ![c].arg = SusArg(k, a), ![c].kind = k]
    <3>1. frame'[c].kind = k
      BY <1>0, <2>4 DEF TypeOK, Frame
    <3>2. k \in StandbyKind
      BY <2>4 DEF EntryPort, SuspendKind
    <3>3. Goto(c, "sus_state")
      BY <2>4, <3>2 DEF SusProceed
    <3>4. QED  BY <2>1, <3>1, <3>2, <3>3, GotoEnters
  <2>5. QED  BY <1>3, <2>2, <2>3, <2>4 DEF SuspendCall, SusProceed
<1>4. QED  BY <1>1, <1>2, <1>3 DEF Call

-----------------------------------------------------------------------------

LEMMA EntryInit == Init => EntryInv
<1> SUFFICES ASSUME Init PROVE EntryInv
  OBVIOUS
<1>1. OneCallerInv
  BY OneCallerInit
<1>2. \A c \in Core : /\ pc[c] \in {"os", "task_check", "reset"}
                      /\ coreState[c] # CORE_PENDING
  BY DEF Init, CORE_RELEASED, CORE_DISABLED, CORE_WORKING_INIT, CORE_IN_RESET, CORE_PENDING
<1>3. NoPowerDown
  BY <1>2 DEF NoPowerDown, OffLabel
<1>4. \A c \in Core : StoredSoFar(c) /\ LoadedSoFar(c)
  BY <1>2 DEF StoredSoFar, LoadedSoFar, Storing, OnLabel, Starting
<1>5. EntryIsOneRequest
  BY DEF Init, NoOut, EntryIsOneRequest
<1>6. QED  BY <1>1, <1>2, <1>3, <1>4, <1>5 DEF EntryInv

LEMMA EntryNext ==
  ASSUME NEW b, Callers = {b}, EntryPort, EntryInv, [Next]_vars
  PROVE  EntryInv'
<1>0. OneCallerInv /\ OneCallerInv'
  BY OneCallerNext DEF EntryInv
<1>1. ASSUME NEW c \in Core, Step(c) \/ Wake(c) \/ Call(c)
      PROVE  EntryInv'
  <2>1. Honestly(c)
    BY <1>0, <1>1, OnStepHonest, OffStepHonest, ExitStepHonest, TaskStepHonest,
       SusStepHonest, WakeHonest, CallHonest
    DEF Step, OneCallerInv
  <2>2. Enters(c)
    BY <1>1, OnStepEnters, OffStepEnters, ExitStepEnters, TaskStepEnters,
       SusStepEnters, WakeEnters, CallEnters
    DEF Step
  <2>3. QED  BY <1>0, <2>1, <2>2, EntersStep
<1>2. CASE UNCHANGED vars
  BY <1>0, <1>2 DEF vars, dataVars, hwVars, cpuVars, EntryInv, NoPowerDown, StoredSoFar,
     LoadedSoFar, EntryIsOneRequest
<1>3. QED  BY <1>1, <1>2 DEF Next

\* On a port without CPU_OFF and without power-down states, with one core that
\* issues CPU_ON, every core enters the normal world with the entry point, the
\* context id and the execution state of one and the same call, for any number
\* of cores, of calls and of cores of the OCRAM task, and however the standby
\* requests of the others interleave (psci.s:752-826 against monitor.s:365-534).
THEOREM EntryOfOneRequest ==
  ASSUME NEW b, Callers = {b}, "CORE_OFF" \notin Features, Features \cap PwrDownKind = {}
  PROVE  Spec => []EntryIsOneRequest
<1>1. Init => EntryInv
  BY EntryInit
<1>2. EntryInv /\ [Next]_vars => EntryInv'
  BY EntryNext DEF EntryPort
<1>3. EntryInv => EntryIsOneRequest
  BY DEF EntryInv
<1>4. QED
  BY <1>1, <1>2, <1>3, PTL DEF Spec
=============================================================================
