--------------------------- MODULE JobRingProofs ----------------------------
(***************************************************************************)
(* Proofs about JobRing.                                                   *)
(*                                                                         *)
(* For any number of cores: type correctness.                              *)
(*                                                                         *)
(* For a single calling core: the driver's indices agree with the engine's *)
(* counts, the ring is the queue of JobQueue, and a call that finds the    *)
(* ring empty is answered by its own job.                                  *)
(***************************************************************************)
EXTENDS JobRing, SequenceTheorems, TLAPS

\* The engine never holds more jobs than its ring has slots.
Bounded == added + done <= SEC_JOB_RING_SIZE

TypeInv == TypeOK /\ Bounded

-----------------------------------------------------------------------------
(* Indices.                                                                *)

\* An index stays inside the ring when it moves by a slot, or by as many as
\* the ring has (sec_hw_specific.h:56).
LEMMA IndexMoves ==
  ASSUME NEW i \in Index, NEW n \in 0 .. SEC_JOB_RING_SIZE
  PROVE  /\ SEC_CIRCULAR_COUNTER(i) \in Index
         /\ Ahead(i, n) \in Index
BY RingAssumption DEF Index, SEC_CIRCULAR_COUNTER, Ahead

-----------------------------------------------------------------------------
(* Records of calls.                                                       *)

LEMMA ZeroIsIndex == 0 \in Index /\ 0 \in 0 .. SEC_JOB_RING_SIZE
BY RingAssumption DEF Index

LEMMA NoCallIsCall == NoCall \in Call
BY ZeroIsIndex DEF NoCall, Call, Content

\* The fields of a call keep their types when a step sets some of them.
LEMMA CallSet ==
  ASSUME NEW k \in Call, NEW n \in Nat, NEW i \in Index, NEW b \in BOOLEAN,
         NEW r \in {"none", "fail", "done"} \cup Content,
         NEW j \in {"inst", "gen", "blob"},
         NEW w \in {"none", "init", "release", "rng", "key"}
  PROVE  /\ [NoCall EXCEPT !.want = w, !.alone = b, !.res = r] \in Call
         /\ [NoCall EXCEPT !.want = w, !.job = j] \in Call
         /\ [NoCall EXCEPT !.want = w, !.res = r] \in Call
         /\ [NoCall EXCEPT !.want = w] \in Call
         /\ [k EXCEPT !.tries = n, !.polls = 0, !.left = 0] \in Call
         /\ [k EXCEPT !.job = j, !.tries = n] \in Call
         /\ [k EXCEPT !.job = j] \in Call
         /\ [k EXCEPT !.slot = i, !.alone = b] \in Call
         /\ [k EXCEPT !.polls = n, !.left = 0] \in Call
         /\ [k EXCEPT !.polls = n] \in Call
         /\ [k EXCEPT !.left = n] \in Call
         /\ [k EXCEPT !.blob = "fresh"] \in Call
<1>a. [NoCall EXCEPT !.want = w, !.alone = b, !.res = r] \in Call
  BY ZeroIsIndex DEF NoCall, Call
<1>b. [NoCall EXCEPT !.want = w, !.job = j] \in Call
  BY ZeroIsIndex DEF NoCall, Call
<1>c. [NoCall EXCEPT !.want = w, !.res = r] \in Call
  BY ZeroIsIndex DEF NoCall, Call
<1>d. [NoCall EXCEPT !.want = w] \in Call
  BY ZeroIsIndex DEF NoCall, Call
<1>2. /\ [k EXCEPT !.tries = n, !.polls = 0, !.left = 0] \in Call
      /\ [k EXCEPT !.job = j, !.tries = n] \in Call
      /\ [k EXCEPT !.job = j] \in Call
  BY DEF Call
<1>3. /\ [k EXCEPT !.slot = i, !.alone = b] \in Call
      /\ [k EXCEPT !.polls = n, !.left = 0] \in Call
      /\ [k EXCEPT !.polls = n] \in Call
      /\ [k EXCEPT !.left = n] \in Call
      /\ [k EXCEPT !.blob = "fresh"] \in Call
  BY DEF Call
<1>. QED BY <1>a, <1>b, <1>c, <1>d, <1>2, <1>3

\* What the fields of a call are.
LEMMA CallFields ==
  ASSUME NEW k \in Call
  PROVE  /\ k.want \in {"none", "init", "release", "rng", "key"}
         /\ k.job \in {"inst", "gen", "blob"}
         /\ k.slot \in Index
         /\ k.alone \in BOOLEAN
         /\ k.polls \in Nat
         /\ k.left \in Nat
         /\ k.tries \in Nat
         /\ k.blob \in {"blank", "fresh"}
BY DEF Call

\* A call that fails or ends keeps the types of pc and call.
LEMMA CallTypes ==
  ASSUME TypeOK, NEW c \in Cores,
         \/ JobFails(c)
         \/ JobSucceeds(c)
         \/ PollAgain(c)
         \/ \E r \in {"none", "fail", "done"} \cup Content : Answer(c, r)
  PROVE  /\ pc' \in [Cores -> Label]
         /\ call' \in [Cores -> Call]
<1>0. pc \in [Cores -> Label] /\ call \in [Cores -> Call] /\ call[c] \in Call
  BY DEF TypeOK
<1>a. ASSUME NEW r \in {"none", "fail", "done"} \cup Content, Answer(c, r)
      PROVE  /\ pc' \in [Cores -> Label]
             /\ call' \in [Cores -> Call]
  <2>1. [NoCall EXCEPT !.want = call[c].want, !.alone = call[c].alone,
                       !.res = r] \in Call
    BY <1>0, CallSet, CallFields, ZeroIsIndex, Zenon
  <2>. QED BY <1>0, <1>a, <2>1 DEF Answer, Goto, Label
<1>1. CASE JobFails(c)
  <2>1. CASE call[c].job = "inst" /\ call[c].tries < TRIES
    <3>1. call[c].tries + 1 \in Nat
      BY <1>0, CallFields
    <3>2. [call[c] EXCEPT !.tries = @ + 1, !.polls = 0, !.left = 0] \in Call
      BY <1>0, <3>1 DEF Call
    <3>. QED BY <1>0, <1>1, <2>1, <3>2 DEF JobFails, Goto, Label
  <2>2. CASE ~(call[c].job = "inst" /\ call[c].tries < TRIES)
    BY <1>1, <2>2, <1>a DEF JobFails
  <2>. QED BY <2>1, <2>2
<1>2. CASE JobSucceeds(c)
  BY <1>0, <1>2, <1>a DEF JobSucceeds, Goto, Label
<1>3. CASE PollAgain(c)
  <2>1. CASE call[c].polls + 1 = POLLS
    BY <1>3, <2>1, <1>1 DEF PollAgain
  <2>2. CASE call[c].polls + 1 # POLLS
    <3>0. call[c].polls + 1 \in Nat
      BY <1>0, CallFields
    <3>1. [call[c] EXCEPT !.polls = @ + 1, !.left = 0] \in Call
      BY <1>0, <3>0 DEF Call
    <3>. QED BY <1>0, <1>3, <2>2, <3>1 DEF PollAgain, Goto, Label
  <2>. QED BY <2>1, <2>2
<1>. QED BY <1>a, <1>1, <1>2, <1>3

-----------------------------------------------------------------------------
(* Type correctness.                                                       *)

LEMMA TypeInit == Init => TypeInv
<1> SUFFICES ASSUME Init PROVE TypeInv
  OBVIOUS
<1>1. /\ pc \in [Cores -> Label]
      /\ call \in [Cores -> Call]
  BY NoCallIsCall DEF Init, Label
<1>2. /\ input_ring \in [Index -> Job \cup {NoJob}]
      /\ output_ring \in [Index -> Outcome]
  BY DEF Init, Outcome
<1>3. Bounded
  BY RingAssumption DEF Init, Bounded
<1>. QED BY <1>1, <1>2, <1>3, ZeroIsIndex DEF Init, TypeInv, TypeOK, Content

\* Steps that move the driver and its rings.
LEMMA TypeDriver ==
  ASSUME TypeInv, NEW c \in Cores,
         SecInit(c) \/ SecRelease(c) \/ Flush(c) \/ Shutdown(c)
  PROVE  TypeInv'
<1> USE ZeroIsIndex, RingAssumption DEF TypeInv, Bounded
<1>1. CASE SecInit(c)
  <2>1. /\ [NoCall EXCEPT !.want = "init"] \in Call
        /\ [NoCall EXCEPT !.want = "init", !.res = "fail"] \in Call
    BY ZeroIsIndex DEF NoCall, Call
  <2>2. pc' \in [Cores -> Label] /\ call' \in [Cores -> Call]
    BY <1>1, <2>1 DEF SecInit, TypeOK, Goto, Label
  <2>3. /\ input_ring' \in [Index -> Job \cup {NoJob}]
        /\ output_ring' \in [Index -> Outcome]
    BY <1>1 DEF SecInit, Outcome
  <2>4. /\ added' \in 0 .. SEC_JOB_RING_SIZE
        /\ done' \in 0 .. SEC_JOB_RING_SIZE
        /\ next' \in Index /\ jre' \in BOOLEAN /\ Bounded'
    <3>1. CASE next' = 0 /\ added' = 0 /\ done' = 0 /\ jre' = FALSE
      <4>1. 0 + 0 <= SEC_JOB_RING_SIZE
        BY RingAssumption
      <4>2. Bounded'
        BY <3>1, <4>1
      <4>. QED BY <3>1, <4>2
    <3>2. CASE UNCHANGED <<next, added, done, jre>>
      BY <3>2 DEF TypeOK
    <3>. QED BY <1>1, <3>1, <3>2 DEF SecInit
  <2>. QED BY <1>1, <2>2, <2>3, <2>4 DEF SecInit, TypeOK
<1>2. CASE SecRelease(c)
  <2>1. [NoCall EXCEPT !.want = "release"] \in Call
    BY ZeroIsIndex DEF NoCall, Call
  <2>2. pc' \in [Cores -> Label] /\ call' \in [Cores -> Call]
    BY <1>2, <2>1 DEF SecRelease, TypeOK, Goto, Label
  <2>. QED BY <1>2, <2>2 DEF SecRelease, TypeOK, ringVars, hwVars
<1>3. CASE Flush(c)
  <2>1. cidx' \in Index
    BY <1>3, IndexMoves DEF Flush, TypeOK
  <2>. QED BY <1>3, <2>1 DEF Flush, TypeOK, drvVars
<1>4. CASE Shutdown(c)
  <2>1. pc' \in [Cores -> Label] /\ call' \in [Cores -> Call]
    BY <1>4, CallTypes DEF Shutdown
  <2>2. /\ added' \in 0 .. SEC_JOB_RING_SIZE
        /\ done' \in 0 .. SEC_JOB_RING_SIZE
        /\ next' \in Index /\ jre' \in BOOLEAN /\ Bounded'
    <3>1. CASE next' = 0 /\ added' = 0 /\ done' = 0 /\ jre' = FALSE
      <4>1. 0 + 0 <= SEC_JOB_RING_SIZE
        BY RingAssumption
      <4>2. Bounded'
        BY <3>1, <4>1
      <4>. QED BY <3>1, <4>2
    <3>2. CASE UNCHANGED <<next, added, done, jre>>
      BY <3>2 DEF TypeOK
    <3>. QED BY <1>4, <3>1, <3>2 DEF Shutdown
  <2>. QED BY <1>4, <2>1, <2>2 DEF Shutdown, TypeOK, ringVars
<1>. QED BY <1>1, <1>2, <1>3, <1>4

\* Steps that enqueue a job.
LEMMA TypeEnqueue ==
  ASSUME TypeInv, NEW c \in Cores,
         EnqCheck(c) \/ EnqWrite(c) \/ EnqTell(c) \/ EnqStep(c)
  PROVE  TypeInv'
<1> USE DEF TypeInv, Bounded
<1>0. call[c] \in Call BY DEF TypeOK
<1>1. CASE EnqCheck(c)
  <2>1. pc' \in [Cores -> Label] /\ call' \in [Cores -> Call]
    BY <1>1, CallTypes DEF EnqCheck, TypeOK, Goto, Label
  <2>. QED BY <1>1, <2>1 DEF EnqCheck, TypeOK, drvVars, ringVars, hwVars
<1>2. CASE EnqWrite(c)
  <2>1. [call[c] EXCEPT !.slot = pidx, !.alone = (pidx = cidx)] \in Call
    BY <1>0 DEF TypeOK, Call
  <2>2. pc' \in [Cores -> Label] /\ call' \in [Cores -> Call]
    BY <1>2, <2>1 DEF EnqWrite, TypeOK, Goto, Label
  <2>3. [kind |-> call[c].job, by |-> c] \in Job
    BY <1>0, CallFields DEF Job
  <2>4. input_ring' \in [Index -> Job \cup {NoJob}]
    BY <1>2, <2>3 DEF EnqWrite, TypeOK
  <2>. QED BY <1>2, <2>2, <2>4 DEF EnqWrite, TypeOK, drvVars, hwVars
<1>3. CASE EnqTell(c)
  <2>1. pc' \in [Cores -> Label]
    BY <1>3 DEF EnqTell, TypeOK, Goto, Label
  <2>2. added' \in 0 .. SEC_JOB_RING_SIZE /\ Bounded' /\ jre' \in BOOLEAN
    <3>1. CASE added + done < SEC_JOB_RING_SIZE
      BY <1>3, <3>1, RingAssumption DEF EnqTell, TypeOK
    <3>2. CASE ~(added + done < SEC_JOB_RING_SIZE)
      BY <1>3, <3>2 DEF EnqTell, TypeOK
    <3>. QED BY <3>1, <3>2
  <2>. QED BY <1>3, <2>1, <2>2 DEF EnqTell, TypeOK, drvVars, ringVars
<1>4. CASE EnqStep(c)
  <2>1. pc' \in [Cores -> Label] /\ pidx' \in Index
    BY <1>4, ZeroIsIndex, IndexMoves, RingAssumption
       DEF EnqStep, TypeOK, Goto, Label, Index, SEC_CIRCULAR_COUNTER
  <2>. QED BY <1>4, <2>1 DEF EnqStep, TypeOK, drvVars, hwVars
<1>. QED BY <1>1, <1>2, <1>3, <1>4

\* Removing an entry moves the consumer index and keeps the counts bounded.
LEMMA TypeRemove ==
  ASSUME TypeInv, Remove, pc' \in [Cores -> Label], call' \in [Cores -> Call]
  PROVE  TypeInv'
<1>1. cidx' \in Index
  BY RingAssumption
     DEF TypeInv, TypeOK, Remove, Index, SEC_CIRCULAR_COUNTER
<1>2. done' \in 0 .. SEC_JOB_RING_SIZE /\ Bounded' /\ jre' \in BOOLEAN
  <2>1. CASE done > 0
    BY <2>1, RingAssumption DEF TypeInv, TypeOK, Bounded, Remove
  <2>2. CASE ~(done > 0)
    BY <2>2 DEF TypeInv, TypeOK, Bounded, Remove
  <2>. QED BY <2>1, <2>2
<1>. QED BY <1>1, <1>2 DEF TypeInv, TypeOK, Remove, drvVars

\* Steps that poll and dequeue.
LEMMA TypeDequeue ==
  ASSUME TypeInv, NEW c \in Cores,
         \/ DeqCheck(c) \/ Poll(c)
         \/ EntryNull(c) \/ EntryError(c) \/ EntryOk(c)
  PROVE  TypeInv'
<1> USE DEF TypeInv, Bounded
<1>0. call[c] \in Call BY DEF TypeOK
<1>1. CASE DeqCheck(c)
  <2>1. [call[c] EXCEPT !.polls = 0] \in Call
    BY <1>0 DEF Call
  <2>2. pc' \in [Cores -> Label] /\ call' \in [Cores -> Call]
    BY <1>1, <2>1, CallTypes DEF DeqCheck, TypeOK, Goto, Label
  <2>. QED BY <1>1, <2>2 DEF DeqCheck, TypeOK, drvVars, ringVars, hwVars
<1>2. CASE Poll(c)
  <2>1. [call[c] EXCEPT !.left = done] \in Call
    BY <1>0, RingAssumption DEF TypeOK, Call
  <2>2. pc' \in [Cores -> Label] /\ call' \in [Cores -> Call]
    BY <1>2, <2>1, CallTypes DEF Poll, TypeOK, Goto, Label
  <2>. QED BY <1>2, <2>2 DEF Poll, TypeOK, drvVars, ringVars, hwVars
<1>3. CASE EntryNull(c)
  <2>1. pc' \in [Cores -> Label] /\ call' \in [Cores -> Call]
    BY <1>3, CallTypes DEF EntryNull
  <2>. QED BY <1>3, <2>1 DEF EntryNull, TypeOK, drvVars, ringVars, hwVars
<1>4. CASE EntryError(c)
  BY <1>4, CallTypes, TypeRemove DEF EntryError
<1>5. CASE EntryOk(c)
  <2>1. CASE call[c].left > 1
    <3>1. call[c].left - 1 \in Nat
      BY <1>0, <2>1, CallFields
    <3>2. [call[c] EXCEPT !.left = @ - 1] \in Call
      BY <1>0, <3>1 DEF Call
    <3>3. pc' \in [Cores -> Label] /\ call' \in [Cores -> Call]
      BY <1>5, <2>1, <3>2 DEF EntryOk, TypeOK
    <3>. QED BY <1>5, <3>3, TypeRemove DEF EntryOk
  <2>2. CASE ~(call[c].left > 1)
    BY <1>5, <2>2, CallTypes, TypeRemove DEF EntryOk
  <2>. QED BY <2>1, <2>2
<1>. QED BY <1>1, <1>2, <1>3, <1>4, <1>5

\* Steps of the services.
LEMMA TypeService ==
  ASSUME TypeInv, NEW c \in Cores,
         \/ GetRng(c) \/ GetKey(c) \/ RngCheck(c) \/ Instantiate(c)
         \/ RngReady(c) \/ CopyRng(c) \/ CopyKey(c)
  PROVE  TypeInv'
<1> USE DEF TypeInv, Bounded
<1>0. call[c] \in Call BY DEF TypeOK
<1>1. pc' \in [Cores -> Label] /\ call' \in [Cores -> Call]
  <2>1. CASE GetRng(c)
    <3>1. [NoCall EXCEPT !.want = "rng"] \in Call
      BY ZeroIsIndex DEF NoCall, Call
    <3>. QED BY <2>1, <3>1 DEF GetRng, TypeOK, Goto, Label
  <2>2. CASE GetKey(c)
    <3>1. [NoCall EXCEPT !.want = "key", !.job = "blob"] \in Call
      BY ZeroIsIndex DEF NoCall, Call
    <3>. QED BY <2>2, <3>1 DEF GetKey, TypeOK, Goto, Label
  <2>3. CASE RngCheck(c)
    BY <2>3 DEF RngCheck, TypeOK, Goto, Label
  <2>4. CASE Instantiate(c)
    <3>1. [call[c] EXCEPT !.job = "inst", !.tries = 1] \in Call
      BY <1>0 DEF Call
    <3>. QED BY <2>4, <3>1, CallTypes DEF Instantiate, TypeOK, Goto, Label
  <2>5. CASE RngReady(c)
    <3>1. [call[c] EXCEPT !.job = "gen"] \in Call
      BY <1>0 DEF Call
    <3>. QED BY <2>5, <3>1, CallTypes DEF RngReady, RunJob, TypeOK, Goto, Label
  <2>6. CASE CopyRng(c)
    BY <2>6, CallTypes DEF CopyRng, TypeOK
  <2>7. CASE CopyKey(c)
    <3>1. call[c].blob \in Content
      BY <1>0, CallFields DEF Content
    <3>. QED BY <2>7, <3>1, CallTypes DEF CopyKey
  <2>. QED BY <2>1, <2>2, <2>3, <2>4, <2>5, <2>6, <2>7
<1>2. rand_byte' \in Content
  BY DEF TypeOK, Content, GetRng, GetKey, RngCheck, Instantiate, RngReady,
         CopyRng, CopyKey
<1>3. UNCHANGED <<drvVars, ringVars, hwVars>>
  BY DEF GetRng, GetKey, RngCheck, Instantiate, RngReady, CopyRng, CopyKey
<1>. QED BY <1>1, <1>2, <1>3 DEF TypeOK, drvVars, ringVars, hwVars

\* Steps of the engine.
LEMMA TypeEngine ==
  ASSUME TypeInv, HwNext \/ HwRingError
  PROVE  TypeInv'
<1> USE DEF TypeInv, Bounded
<1>1. CASE HwNext
  <2>1. PICK o \in HwOutcome : HwRun(o)
    BY <1>1 DEF HwNext
  <2>2. o \in Outcome
    BY <2>1 DEF HwOutcome, Outcome
  <2>3. next' \in Index
    BY <2>1, RingAssumption DEF HwRun, TypeOK, Index, SEC_CIRCULAR_COUNTER
  <2>4. /\ added' \in 0 .. SEC_JOB_RING_SIZE
        /\ done' \in 0 .. SEC_JOB_RING_SIZE
        /\ Bounded'
    BY <2>1, RingAssumption DEF HwRun, TypeOK
  <2>5. ASSUME NEW c \in Cores PROVE [call[c] EXCEPT !.blob = "fresh"] \in Call
    <3>1. call[c] \in Call
      BY DEF TypeOK
    <3>. QED BY <3>1 DEF Call
  <2>6. call' \in [Cores -> Call]
    BY <2>1, <2>5 DEF HwRun, TypeOK
  <2>7. output_ring' \in [Index -> Outcome] /\ rand_byte' \in Content
    BY <2>1, <2>2 DEF HwRun, TypeOK, Content
  <2>8. rdsta' \in BOOLEAN
    BY <2>1 DEF HwRun, TypeOK
  <2>. QED BY <2>1, <2>3, <2>4, <2>6, <2>7, <2>8 DEF HwRun, TypeOK, drvVars
<1>2. CASE HwRingError
  BY <1>2 DEF HwRingError, TypeOK, drvVars, ringVars
<1>. QED BY <1>1, <1>2

LEMMA TypeNext == TypeInv /\ [Next]_vars => TypeInv'
<1> SUFFICES ASSUME TypeInv, [Next]_vars PROVE TypeInv'
  OBVIOUS
<1>1. ASSUME NEW c \in Cores, Step(c) \/ Enter(c) PROVE TypeInv'
  BY <1>1, TypeDriver, TypeEnqueue, TypeDequeue, TypeService DEF Step, Enter
<1>2. CASE HwNext \/ HwRingError
  BY <1>2, TypeEngine
<1>3. CASE UNCHANGED vars
  BY <1>3 DEF TypeInv, TypeOK, Bounded, vars, drvVars, ringVars, hwVars
<1>. QED BY <1>1, <1>2, <1>3 DEF Next

\* Every variable keeps its type, for any number of cores: the engine's counts
\* never exceed its ring and no index leaves it, even when the cores that
\* share the ring corrupt its contents.
THEOREM TypeCorrect == Spec => []TypeOK
<1>1. TypeInv => TypeOK
  BY DEF TypeInv
<1>. QED BY TypeInit, TypeNext, <1>1, PTL DEF Spec

-----------------------------------------------------------------------------
(* One calling core: the ring.                                             *)


Step1(c) == IF pc[c] = "step" THEN 1 ELSE 0

Counted(c) ==
  handle /\ g_driver_state # "IDLE" =>
    /\ added + done < SEC_JOB_RING_SIZE
    /\ next = Ahead(cidx, done)
    /\ Ahead(pidx, Step1(c)) = Ahead(next, added)

\* The test for a full ring stays true until the job is counted, and the loop
\* over finished jobs stays inside those that are done.
Room(c) ==
  /\ pc[c] \in {"write", "tell"} => SEC_CIRCULAR_COUNTER(pidx) # cidx
  /\ pc[c] = "entry" => 0 < call[c].left /\ call[c].left <= done

CountInv(c) == TypeInv /\ Counted(c) /\ Room(c)

\* Where a call goes on when its job ends.
LEMMA JobEnds ==
  ASSUME TypeOK, NEW c \in Cores
  PROVE  /\ JobFails(c) => pc'[c] \in {"idle", "enq"}
         /\ JobSucceeds(c) => pc'[c] \in {"idle", "ready", "copy"}
         /\ PollAgain(c) => pc'[c] \in {"idle", "enq", "poll"}
         /\ \A r : Answer(c, r) => pc'[c] = "idle"
BY DEF TypeOK, JobFails, JobSucceeds, PollAgain, Answer, Goto

\* A step that leaves the ring alone and does not enter the places that move it.
LEMMA CountQuiet ==
  ASSUME NEW c \in Cores, CountInv(c),
         UNCHANGED <<handle, ringVars, next, added, done>>,
         g_driver_state' = "IDLE" => g_driver_state = "IDLE",
         g_driver_state = "IDLE" => g_driver_state' = "IDLE",
         pc[c] # "step",
         pc'[c] \notin {"step", "write", "tell", "entry"}
  PROVE  Counted(c)' /\ Room(c)'
BY DEF CountInv, Counted, Room, Step1, Ahead, ringVars

\* Taking the first of the jobs that are done.
LEMMA CountRemove ==
  ASSUME NEW c \in Cores, CountInv(c), Remove, pc[c] = "entry",
         pc'[c] \notin {"step", "write", "tell"},
         pc'[c] = "entry" => 0 < call'[c].left /\ call'[c].left < call[c].left
                              /\ call'[c].left \in Nat
  PROVE  Counted(c)' /\ Room(c)'
<1>1. /\ done \in Nat /\ done > 0 /\ done' = done - 1
      /\ cidx' = SEC_CIRCULAR_COUNTER(cidx)
      /\ UNCHANGED <<handle, g_driver_state, pidx, next, added>>
      /\ call[c].left \in Nat /\ call[c].left <= done
  <2>1. call[c].left \in Nat
    BY CallFields DEF CountInv, TypeInv, TypeOK
  <2>. QED BY <2>1 DEF CountInv, TypeInv, TypeOK, Room, Remove, drvVars
<1>2. Room(c)'
  BY <1>1 DEF Room
<1>3. Counted(c)'
  <2> SUFFICES ASSUME handle, g_driver_state # "IDLE"
               PROVE  Counted(c)'
    BY <1>1 DEF Counted
  <2>1. Ahead(SEC_CIRCULAR_COUNTER(cidx), done - 1) = Ahead(cidx, done)
    BY <1>1, RingAssumption
       DEF CountInv, TypeInv, TypeOK, Counted, Ahead, SEC_CIRCULAR_COUNTER, Index
  <2>2. Step1(c) = 0 /\ Step1(c)' = 0
    BY DEF Step1
  <2>3. added + done < SEC_JOB_RING_SIZE => added + (done - 1) < SEC_JOB_RING_SIZE
    BY <1>1, RingAssumption DEF CountInv, TypeInv, TypeOK
  <2>. QED BY <1>1, <2>1, <2>2, <2>3 DEF CountInv, Counted, Ahead
<1>. QED BY <1>2, <1>3

LEMMA CountInit ==
  ASSUME NEW c \in Cores, Init PROVE CountInv(c)
BY TypeInit DEF Init, CountInv, Counted, Room

\* Every step of the core keeps the counts.
LEMMA CountCore ==
  ASSUME NEW c \in Cores, CountInv(c), Step(c) \/ Enter(c)
  PROVE  Counted(c)' /\ Room(c)'
<1>0. TypeOK /\ RingAssumption
  BY RingAssumption DEF CountInv, TypeInv
<1>1. CASE SecInit(c)
  <2>1. pc'[c] \in {"inst", "idle"}
    BY <1>0, <1>1 DEF SecInit, TypeOK, Goto, At
  <2>2. Room(c)'
    BY <2>1 DEF Room
  <2>3. handle' => /\ pidx' = 0 /\ cidx' = 0 /\ next' = 0
                    /\ added' = 0 /\ done' = 0
    BY <1>1 DEF SecInit
  <2>4. Counted(c)'
    <3> SUFFICES ASSUME handle' PROVE Counted(c)'
      BY DEF Counted
    <3>1. Step1(c)' = 0
      BY <2>1 DEF Step1
    <3>2. Ahead(0, 0) = 0 /\ 0 + 0 < SEC_JOB_RING_SIZE
      BY <1>0, RingAssumption DEF Ahead
    <3>. QED BY <2>3, <3>1, <3>2 DEF Counted, Ahead
  <2>. QED BY <2>2, <2>4
<1>2. CASE SecRelease(c)
  <2>1. pc[c] = "idle" /\ pc'[c] = "flush"
    BY <1>0, <1>2 DEF SecRelease, TypeOK, Goto, At
  <2>. QED BY <1>2, <2>1, CountQuiet DEF SecRelease, hwVars
<1>3. CASE Flush(c)
  <2>1. Room(c)' /\ Step1(c) = 0 /\ Step1(c)' = 0
    BY <1>3 DEF Flush, At, Room, Step1
  <2>2. Counted(c)'
    BY <1>0, <1>3, <2>1 DEF CountInv, Counted, Flush, TypeOK, Index, Ahead, drvVars
  <2>. QED BY <2>1, <2>2
<1>4. CASE Shutdown(c)
  <2>1. pc'[c] = "idle"
    BY <1>0, <1>4, JobEnds DEF Shutdown
  <2>. QED BY <1>4, <2>1 DEF Shutdown, Counted, Room
<1>5. CASE EnqCheck(c)
  <2>1. CASE g_driver_state # "STARTED" \/ ~handle \/ SEC_JOB_RING_IS_FULL
    <3>1. pc[c] = "enq" /\ pc'[c] \in {"idle", "enq"}
      BY <1>0, <1>5, <2>1, JobEnds DEF EnqCheck, At
    <3>. QED BY <1>5, <3>1, CountQuiet DEF EnqCheck, drvVars, hwVars
  <2>2. CASE ~(g_driver_state # "STARTED" \/ ~handle \/ SEC_JOB_RING_IS_FULL)
    <3>1. pc[c] = "enq" /\ pc'[c] = "write"
      BY <1>0, <1>5, <2>2 DEF EnqCheck, At, Goto, TypeOK
    <3>2. Room(c)'
      BY <1>5, <2>2, <3>1 DEF EnqCheck, Room, SEC_JOB_RING_IS_FULL, ringVars
    <3>3. Counted(c)'
      BY <1>5, <3>1 DEF EnqCheck, CountInv, Counted, Step1, Ahead, drvVars,
                        ringVars, hwVars
    <3>. QED BY <3>2, <3>3
  <2>. QED BY <2>1, <2>2
<1>6. CASE EnqWrite(c)
  <2>1. pc[c] = "write" /\ pc'[c] = "tell"
    BY <1>0, <1>6 DEF EnqWrite, At, Goto, TypeOK
  <2>. QED BY <1>6, <2>1 DEF EnqWrite, CountInv, Counted, Room, Step1, Ahead,
                             drvVars, hwVars
<1>7. CASE EnqTell(c)
  <2>1. pc[c] = "tell" /\ pc'[c] = "step"
    BY <1>0, <1>7 DEF EnqTell, At, Goto, TypeOK
  <2>2. Room(c)'
    BY <2>1 DEF Room
  <2>3. Counted(c)'
    <3> SUFFICES ASSUME handle, g_driver_state # "IDLE" PROVE Counted(c)'
      BY <1>7 DEF EnqTell, Counted, drvVars
    <3>1. /\ added + done < SEC_JOB_RING_SIZE
          /\ next = Ahead(cidx, done)
          /\ pidx = Ahead(next, added)
          /\ SEC_CIRCULAR_COUNTER(pidx) # cidx
      BY <1>0, <2>1 DEF CountInv, Counted, Room, Step1, Ahead, TypeOK, Index
    <3>2. added + 1 + done < SEC_JOB_RING_SIZE
      BY <1>0, <3>1 DEF TypeOK, Index, Ahead, SEC_CIRCULAR_COUNTER
    <3>3. /\ added' = added + 1
          /\ UNCHANGED <<handle, g_driver_state, pidx, cidx, next, done>>
      BY <1>7, <3>1 DEF EnqTell, drvVars, ringVars
    <3>4. Ahead(pidx, 1) = Ahead(next, added + 1)
      BY <1>0, <3>1, <3>2 DEF TypeOK, Index, Ahead
    <3>. QED BY <2>1, <3>1, <3>2, <3>3, <3>4 DEF Counted, Step1, Ahead
  <2>. QED BY <2>2, <2>3
<1>8. CASE EnqStep(c)
  <2>1. pc[c] = "step" /\ pc'[c] = "deq"
    BY <1>0, <1>8 DEF EnqStep, At, Goto, TypeOK
  <2>2. Ahead(SEC_CIRCULAR_COUNTER(pidx), 0) = Ahead(pidx, 1)
    BY <1>0 DEF TypeOK, Index, Ahead, SEC_CIRCULAR_COUNTER
  <2>3. Counted(c)'
    BY <1>8, <2>1, <2>2 DEF EnqStep, CountInv, Counted, Step1, Ahead, drvVars, hwVars
  <2>. QED BY <2>1, <2>3 DEF Room
<1>9. CASE DeqCheck(c)
  <2>1. pc[c] = "deq" /\ pc'[c] \in {"idle", "enq", "poll"}
    BY <1>0, <1>9, JobEnds DEF DeqCheck, At, Goto, TypeOK
  <2>. QED BY <1>9, <2>1, CountQuiet DEF DeqCheck, drvVars, hwVars
<1>10. CASE Poll(c)
  <2>1. CASE jre \/ done = 0
    <3>1. pc[c] = "poll" /\ pc'[c] \in {"idle", "enq", "poll"}
      BY <1>0, <1>10, <2>1, JobEnds DEF Poll, At, TypeOK
    <3>. QED BY <1>10, <3>1, CountQuiet DEF Poll, drvVars, hwVars
  <2>2. CASE ~(jre \/ done = 0)
    <3>1. pc[c] = "poll" /\ pc'[c] = "entry" /\ call'[c].left = done
      BY <1>0, <1>10, <2>2 DEF Poll, At, Goto, TypeOK, Call
    <3>2. Room(c)'
      BY <1>0, <1>10, <2>2, <3>1 DEF Poll, Room, TypeOK, hwVars
    <3>3. Counted(c)'
      BY <1>10, <3>1 DEF Poll, CountInv, Counted, Step1, Ahead, drvVars,
                         ringVars, hwVars
    <3>. QED BY <3>2, <3>3
  <2>. QED BY <2>1, <2>2
<1>11. CASE EntryNull(c)
  <2>1. pc[c] = "entry" /\ pc'[c] \in {"idle", "enq", "poll"}
    BY <1>0, <1>11, JobEnds DEF EntryNull, At
  <2>. QED BY <1>11, <2>1, CountQuiet DEF EntryNull, drvVars, hwVars
<1>12. CASE EntryError(c)
  <2>1. pc[c] = "entry" /\ pc'[c] \in {"idle", "enq"}
    BY <1>0, <1>12, JobEnds DEF EntryError, At
  <2>. QED BY <1>12, <2>1, CountRemove DEF EntryError
<1>13. CASE EntryOk(c)
  <2>1. CASE call[c].left > 1
    <3>1. call[c].left \in Nat
      BY <1>0, CallFields DEF TypeOK
    <3>2. /\ pc[c] = "entry" /\ pc'[c] = "entry"
          /\ call'[c].left = call[c].left - 1
      BY <1>0, <1>13, <2>1 DEF EntryOk, At, TypeOK, Call
    <3>. QED BY <1>13, <2>1, <3>1, <3>2, CountRemove DEF EntryOk
  <2>2. CASE ~(call[c].left > 1)
    <3>1. pc[c] = "entry" /\ pc'[c] \in {"idle", "ready", "copy"}
      BY <1>0, <1>13, <2>2, JobEnds DEF EntryOk, At
    <3>. QED BY <1>13, <3>1, CountRemove DEF EntryOk
  <2>. QED BY <2>1, <2>2
<1>14. CASE GetRng(c) \/ GetKey(c)
  <2>1. pc[c] = "idle" /\ pc'[c] \in {"rdsta", "enq"}
    BY <1>0, <1>14 DEF GetRng, GetKey, At, Goto, TypeOK
  <2>. QED BY <1>14, <2>1, CountQuiet DEF GetRng, GetKey, drvVars, hwVars
<1>15. CASE RngCheck(c) \/ Instantiate(c) \/ RngReady(c)
  <2>1. /\ pc[c] \in {"rdsta", "inst", "ready"}
        /\ pc'[c] \in {"ready", "inst", "enq", "idle"}
    BY <1>0, <1>15, JobEnds
       DEF RngCheck, Instantiate, RngReady, RunJob, At, Goto, TypeOK
  <2>. QED BY <1>15, <2>1, CountQuiet
           DEF RngCheck, Instantiate, RngReady, drvVars, hwVars
<1>16. CASE CopyRng(c) \/ CopyKey(c)
  <2>1. pc[c] = "copy" /\ pc'[c] = "idle"
    BY <1>0, <1>16, JobEnds DEF CopyRng, CopyKey, At
  <2>. QED BY <1>16, <2>1, CountQuiet DEF CopyRng, CopyKey, drvVars, hwVars
<1>. QED BY <1>1, <1>2, <1>3, <1>4, <1>5, <1>6, <1>7, <1>8, <1>9, <1>10, <1>11,
            <1>12, <1>13, <1>14, <1>15, <1>16 DEF Step, Enter

\* A run of the engine moves a job from those it was told of to those done.
LEMMA CountEngine ==
  ASSUME NEW c \in Cores, CountInv(c), HwNext \/ HwRingError
  PROVE  Counted(c)' /\ Room(c)'
<1>0. TypeOK /\ RingAssumption
  BY RingAssumption DEF CountInv, TypeInv
<1>1. CASE HwNext
  <2>1. PICK o \in HwOutcome : HwRun(o)
    BY <1>1 DEF HwNext
  <2>2. /\ added > 0 /\ added' = added - 1 /\ done' = done + 1
        /\ next' = SEC_CIRCULAR_COUNTER(next)
        /\ UNCHANGED <<handle, g_driver_state, pidx, cidx, pc>>
        /\ call'[c].left = call[c].left
    <3>1. call[c] \in Call
      BY <1>0 DEF TypeOK
    <3>. QED BY <2>1, <3>1 DEF HwRun, drvVars, Call
  <2>3. Room(c)'
    <3>1. call[c].left \in Nat
      BY <1>0, CallFields DEF TypeOK
    <3>. QED BY <1>0, <2>2, <3>1 DEF CountInv, Room, TypeOK
  <2>4. Counted(c)'
    <3> SUFFICES ASSUME handle, g_driver_state # "IDLE" PROVE Counted(c)'
      BY <2>2 DEF Counted
    <3>1. /\ added + done < SEC_JOB_RING_SIZE
          /\ next = Ahead(cidx, done)
          /\ Ahead(pidx, Step1(c)) = Ahead(next, added)
      BY DEF CountInv, Counted
    <3>2. (added - 1) + (done + 1) < SEC_JOB_RING_SIZE
      BY <1>0, <3>1 DEF TypeOK
    <3>3. SEC_CIRCULAR_COUNTER(next) = Ahead(cidx, done + 1)
      BY <1>0, <2>2, <3>1, RingAssumption
         DEF TypeOK, Index, Ahead, SEC_CIRCULAR_COUNTER
    <3>4. Ahead(SEC_CIRCULAR_COUNTER(next), added - 1) = Ahead(next, added)
      BY <1>0, <2>2, <3>1, RingAssumption
         DEF TypeOK, Index, Ahead, SEC_CIRCULAR_COUNTER
    <3>5. Step1(c)' = Step1(c)
      BY <2>2 DEF Step1
    <3>. QED BY <2>2, <3>1, <3>2, <3>3, <3>4, <3>5 DEF Counted, Ahead
  <2>. QED BY <2>3, <2>4
<1>2. CASE HwRingError
  BY <1>2 DEF HwRingError, CountInv, Counted, Room, Step1, Ahead, drvVars, ringVars
<1>. QED BY <1>1, <1>2

LEMMA CountNext ==
  ASSUME NEW c \in Cores, Cores = {c}, CountInv(c), [Next]_vars
  PROVE  CountInv(c)'
<1>1. TypeInv'
  BY TypeNext DEF CountInv
<1>2. Counted(c)' /\ Room(c)'
  <2>1. CASE \E d \in Cores : Step(d) \/ Enter(d)
    BY <2>1, CountCore
  <2>2. CASE HwNext \/ HwRingError
    BY <2>2, CountEngine
  <2>3. CASE UNCHANGED vars
    BY <2>3 DEF vars, drvVars, ringVars, hwVars, CountInv, Counted, Room, Step1,
                Ahead
  <2>. QED BY <2>1, <2>2, <2>3 DEF Next
<1>. QED BY <1>1, <1>2 DEF CountInv

LEMMA CountIsCounted ==
  ASSUME NEW c \in Cores, Cores = {c}, CountInv(c)
  PROVE  RingIsCounted
<1>1. Told = Step1(c)
  BY DEF Told, Step1, At
<1>. QED BY <1>1 DEF CountInv, Counted, RingIsCounted

\* With one calling core the driver's indices agree with the engine's counts
\* for every size of the ring, through jobs that fail, calls that give up,
\* entries without descriptor and resets that fail.
THEOREM RingCounted ==
  ASSUME NEW c \in Cores, Cores = {c}
  PROVE  Spec => []RingIsCounted
<1>1. Init => CountInv(c)
  BY CountInit
<1>2. CountInv(c) /\ [Next]_vars => CountInv(c)'
  BY CountNext
<1>3. CountInv(c) => RingIsCounted
  BY CountIsCounted
<1>. QED BY <1>1, <1>2, <1>3, PTL DEF Spec

-----------------------------------------------------------------------------
(* The ring is a queue.                                                    *)

\* A ring that is not in use holds nothing.  A job is written while the ring
\* is in use, and is in its slot when the engine is told of it.
Occupied(c) ==
  /\ (~handle \/ g_driver_state = "IDLE") => added = 0 /\ done = 0
  /\ pc[c] \in {"write", "tell", "step"} => handle /\ g_driver_state = "STARTED"
  /\ pc[c] = "tell" => input_ring[pidx] \in Job

QueueInv(c) == CountInv(c) /\ Occupied(c)

\* The places of the ring that count from one place are distinct.
LEMMA AheadMoves ==
  ASSUME NEW i \in Index, NEW m \in Nat, NEW n \in Nat,
         m < n, n < SEC_JOB_RING_SIZE
  PROVE  /\ Ahead(i, m) # Ahead(i, n)
         /\ Ahead(i, m) \in Index
         /\ Ahead(SEC_CIRCULAR_COUNTER(i), m) = Ahead(i, m + 1)
BY RingAssumption DEF Index, Ahead, SEC_CIRCULAR_COUNTER

\* A function that agrees with a longer or a shorter sequence is that sequence.
LEMMA IsAppend ==
  ASSUME NEW S, NEW s \in Seq(S), NEW e \in S, NEW f,
         f = [i \in 1 .. Len(s) + 1 |-> f[i]],
         f[Len(s) + 1] = e,
         \A i \in 1 .. Len(s) : f[i] = s[i]
  PROVE  f = Append(s, e)
<1>1. Len(s) \in Nat
  BY LenProperties
<1>2. \A i \in 1 .. Len(s) + 1 : f[i] \in S
  <2> SUFFICES ASSUME NEW i \in 1 .. Len(s) + 1 PROVE f[i] \in S
    OBVIOUS
  <2>1. CASE i \in 1 .. Len(s)
    BY <2>1, ElementOfSeq
  <2>2. CASE i = Len(s) + 1
    BY <2>2
  <2>. QED BY <1>1, <2>1, <2>2
<1>3. f \in [1 .. Len(s) + 1 -> S]
  BY <1>2
<1>4. f \in Seq(S) /\ Len(f) = Len(s) + 1
  BY <1>1, <1>3
<1>5. /\ Append(s, e) \in Seq(S)
      /\ Len(Append(s, e)) = Len(s) + 1
      /\ \A i \in 1 .. Len(s) : Append(s, e)[i] = s[i]
      /\ Append(s, e)[Len(s) + 1] = e
  BY AppendProperties
<1>6. \A i \in 1 .. Len(f) : f[i] = Append(s, e)[i]
  <2> SUFFICES ASSUME NEW i \in 1 .. Len(f) PROVE f[i] = Append(s, e)[i]
    OBVIOUS
  <2>1. CASE i = Len(s) + 1
    BY <1>5, <2>1
  <2>2. CASE i # Len(s) + 1
    <3>1. i \in 1 .. Len(s)
      BY <1>1, <1>4, <2>2
    <3>. QED BY <1>5, <3>1
  <2>. QED BY <2>1, <2>2
<1>. QED BY <1>4, <1>5, <1>6, SeqEqual

LEMMA IsTail ==
  ASSUME NEW S, NEW s \in Seq(S), s # << >>, NEW f,
         f = [i \in 1 .. Len(s) - 1 |-> s[i + 1]]
  PROVE  f = Tail(s)
<1>1. Len(s) \in Nat \ {0}
  BY EmptySeq
<1>2. \A i \in 1 .. Len(s) - 1 : s[i + 1] \in S
  BY <1>1, ElementOfSeq
<1>3. f \in [1 .. Len(s) - 1 -> S]
  BY <1>2
<1>4. f \in Seq(S) /\ Len(f) = Len(s) - 1
  BY <1>1, <1>3
<1>5. /\ Tail(s) \in Seq(S)
      /\ Len(Tail(s)) = Len(s) - 1
      /\ \A i \in 1 .. Len(Tail(s)) : Tail(s)[i] = s[i + 1]
  BY HeadTailProperties
<1>6. \A i \in 1 .. Len(f) : f[i] = Tail(s)[i]
  BY <1>4, <1>5
<1>. QED BY <1>4, <1>5, <1>6, SeqEqual

LEMMA QueueTypes ==
  ASSUME TypeOK
  PROVE  /\ Waiting \in Seq(Job \cup {NoJob}) /\ Len(Waiting) = added
         /\ Finished \in Seq(Outcome) /\ Len(Finished) = done
<1>1. \A i \in 1 .. added : Ahead(next, i - 1) \in Index
  BY RingAssumption DEF TypeOK, Index, Ahead
<1>2. \A i \in 1 .. done : Ahead(cidx, i - 1) \in Index
  BY RingAssumption DEF TypeOK, Index, Ahead
<1>3. added \in Nat /\ done \in Nat
  BY RingAssumption DEF TypeOK
<1>4. Waiting \in [1 .. added -> Job \cup {NoJob}]
  BY <1>1 DEF Waiting, TypeOK
<1>5. Finished \in [1 .. done -> Outcome]
  BY <1>2 DEF Finished, TypeOK
<1>. QED BY <1>3, <1>4, <1>5

\* What a step leaves in the ring it leaves in the queue.
LEMMA SameWaiting ==
  ASSUME UNCHANGED <<input_ring, next, added>>
  PROVE  Waiting' = Waiting
BY DEF Waiting, Ahead

LEMMA SameFinished ==
  ASSUME UNCHANGED <<output_ring, cidx, done>>
  PROVE  Finished' = Finished
BY DEF Finished, Ahead

\* An empty ring is an empty queue, whatever its slots and indices.
LEMMA EmptyQueue ==
  /\ added = 0 => Waiting = << >>
  /\ done = 0 => Finished = << >>
<1>1. ASSUME added = 0 PROVE Waiting = << >>
  <2>1. 1 .. added = {}
    BY <1>1
  <2>. QED BY <2>1 DEF Waiting
<1>2. ASSUME done = 0 PROVE Finished = << >>
  <2>1. 1 .. done = {}
    BY <1>2
  <2>. QED BY <2>1 DEF Finished
<1>. QED BY <1>1, <1>2

\* Telling the engine of a job puts it into the queue.
LEMMA TellPuts ==
  ASSUME NEW c \in Cores, QueueInv(c), EnqTell(c)
  PROVE  \E j \in Job : Queue!Put(j)
<1>0. TypeOK /\ RingAssumption
  BY RingAssumption DEF QueueInv, CountInv, TypeInv
<1>1. pc[c] = "tell" /\ handle /\ g_driver_state # "IDLE"
  BY <1>0 DEF QueueInv, Occupied, EnqTell, At
<1>2. /\ next = Ahead(cidx, done)
      /\ pidx = Ahead(next, added)
      /\ SEC_CIRCULAR_COUNTER(pidx) # cidx
      /\ added + done < SEC_JOB_RING_SIZE
  BY <1>0, <1>1 DEF QueueInv, CountInv, Counted, Room, Step1, Ahead, TypeOK, Index
<1>3. added + done < SEC_JOB_RING_SIZE - 1
  BY <1>0, <1>2 DEF TypeOK, Index, Ahead, SEC_CIRCULAR_COUNTER
<1>4. added' = added + 1 /\ UNCHANGED <<ringVars, next, done>>
  BY <1>2 DEF EnqTell
<1>5. input_ring[pidx] \in Job
  BY <1>1 DEF QueueInv, Occupied
<1>6. Waiting' = Append(Waiting, input_ring[pidx])
  <2>0. Waiting = [i \in 1 .. added |-> input_ring[Ahead(next, i - 1)]]
    BY DEF Waiting
  <2>1. Waiting' = [i \in 1 .. added + 1 |-> input_ring[Ahead(next, i - 1)]]
    BY <1>4 DEF Waiting, Ahead, ringVars
  <2>2. added \in Nat /\ Len(Waiting) = added
    BY <1>0, QueueTypes DEF TypeOK
  <2>3. input_ring[Ahead(next, (added + 1) - 1)] = input_ring[pidx]
    BY <1>2, <2>2
  <2>4. \A i \in 1 .. added : Waiting'[i] = Waiting[i]
    BY <2>0, <2>1, <2>2
  <2>5. Waiting'[added + 1] = input_ring[pidx]
    BY <2>1, <2>2, <2>3
  <2>6. Waiting' = [i \in 1 .. added + 1 |-> Waiting'[i]]
    BY <2>1
  <2>7. Waiting \in Seq(Job \cup {NoJob}) /\ input_ring[pidx] \in Job \cup {NoJob}
    BY <1>0, <1>5, QueueTypes
  <2>. QED BY <2>2, <2>4, <2>5, <2>6, <2>7, IsAppend
<1>7. Finished' = Finished
  BY <1>4, SameFinished DEF ringVars
<1>. QED BY <1>0, <1>3, <1>5, <1>6, <1>7, QueueTypes DEF Queue!Put

\* A run of the engine is a run of the queue.
LEMMA EngineRuns ==
  ASSUME NEW c \in Cores, QueueInv(c), HwNext
  PROVE  \E o \in Outcome : Queue!Run(o)
<1>0. TypeOK /\ RingAssumption /\ UseAssumption
  BY RingAssumption, UseAssumption DEF QueueInv, CountInv, TypeInv
<1>1. PICK o \in HwOutcome : HwRun(o)
  BY DEF HwNext
<1>2. o \in Outcome
  BY <1>1 DEF HwOutcome, Outcome
<1>3. /\ added > 0 /\ added' = added - 1 /\ done' = done + 1
      /\ next' = SEC_CIRCULAR_COUNTER(next)
      /\ output_ring' = [output_ring EXCEPT ![next] = o]
      /\ UNCHANGED <<cidx, input_ring>>
  BY <1>1 DEF HwRun
<1>4. /\ added + done < SEC_JOB_RING_SIZE
      /\ next = Ahead(cidx, done)
  BY <1>3 DEF QueueInv, CountInv, Counted, Occupied
<1>5. added \in Nat /\ done \in Nat /\ next \in Index /\ cidx \in Index
  BY <1>0 DEF TypeOK
<1>6. Waiting' = Tail(Waiting)
  <2>1. Waiting' = [i \in 1 .. added - 1 |->
                      input_ring[Ahead(SEC_CIRCULAR_COUNTER(next), i - 1)]]
    BY <1>3 DEF Waiting, Ahead
  <2>2. \A i \in 1 .. added - 1 :
          Ahead(SEC_CIRCULAR_COUNTER(next), i - 1) = Ahead(next, (i + 1) - 1)
    BY <1>0, <1>4, <1>5 DEF Ahead, SEC_CIRCULAR_COUNTER, Index
  <2>3. Waiting' = [i \in 1 .. added - 1 |-> Waiting[i + 1]]
    <3>1. Waiting = [i \in 1 .. added |-> input_ring[Ahead(next, i - 1)]]
      BY DEF Waiting
    <3>2. \A i \in 1 .. added - 1 :
            Waiting[i + 1] = input_ring[Ahead(SEC_CIRCULAR_COUNTER(next), i - 1)]
      BY <1>5, <2>2, <3>1
    <3>. QED BY <2>1, <3>2
  <2>4. Waiting \in Seq(Job \cup {NoJob}) /\ Len(Waiting) = added /\ Waiting # << >>
    BY <1>0, <1>3, QueueTypes
  <2>. QED BY <2>3, <2>4, IsTail
<1>7. Finished' = Append(Finished, o)
  <2>0. Finished = [i \in 1 .. done |-> output_ring[Ahead(cidx, i - 1)]]
    BY DEF Finished
  <2>1. Finished' = [i \in 1 .. done + 1 |-> output_ring'[Ahead(cidx, i - 1)]]
    BY <1>3 DEF Finished, Ahead
  <2>2. output_ring'[Ahead(cidx, (done + 1) - 1)] = o
    BY <1>0, <1>3, <1>4, <1>5 DEF TypeOK
  <2>3. \A i \in 1 .. done :
          output_ring'[Ahead(cidx, i - 1)] = output_ring[Ahead(cidx, i - 1)]
    <3> SUFFICES ASSUME NEW i \in 1 .. done
                 PROVE  output_ring'[Ahead(cidx, i - 1)]
                          = output_ring[Ahead(cidx, i - 1)]
      OBVIOUS
    <3>1. Ahead(cidx, i - 1) # next /\ Ahead(cidx, i - 1) \in Index
      BY <1>0, <1>4, <1>5, AheadMoves
    <3>. QED BY <1>0, <1>3, <3>1 DEF TypeOK
  <2>4. Len(Finished) = done /\ Finished \in Seq(Outcome)
    BY <1>0, QueueTypes
  <2>5. \A i \in 1 .. done : Finished'[i] = Finished[i]
    BY <1>5, <2>0, <2>1, <2>3
  <2>6. Finished'[done + 1] = o
    BY <1>5, <2>1, <2>2
  <2>7. Finished' = [i \in 1 .. done + 1 |-> Finished'[i]]
    BY <2>1
  <2>. QED BY <1>2, <2>4, <2>5, <2>6, <2>7, IsAppend
<1>8. Waiting # << >>
  BY <1>0, <1>3, QueueTypes
<1>. QED BY <1>2, <1>6, <1>7, <1>8 DEF Queue!Run

\* Removing an entry of the output ring takes an outcome from the queue.
LEMMA RemoveTakes ==
  ASSUME NEW c \in Cores, QueueInv(c), Remove, pc[c] = "entry"
  PROVE  Queue!Take
<1>0. TypeOK /\ RingAssumption
  BY RingAssumption DEF QueueInv, CountInv, TypeInv
<1>1. done \in Nat /\ done > 0 /\ cidx \in Index
  <2>1. call[c].left \in Nat
    BY <1>0, CallFields DEF TypeOK
  <2>. QED BY <1>0, <2>1 DEF TypeOK, QueueInv, CountInv, Room
<1>2. /\ done' = done - 1 /\ cidx' = SEC_CIRCULAR_COUNTER(cidx)
      /\ UNCHANGED <<input_ring, output_ring, next, added>>
  BY <1>1 DEF Remove
<1>3. added + done < SEC_JOB_RING_SIZE /\ added \in Nat
  BY <1>0, <1>1 DEF QueueInv, CountInv, Counted, Occupied, TypeOK
<1>4. Finished' = Tail(Finished)
  <2>1. Finished' = [i \in 1 .. done - 1 |->
                       output_ring[Ahead(SEC_CIRCULAR_COUNTER(cidx), i - 1)]]
    BY <1>2 DEF Finished, Ahead
  <2>2. \A i \in 1 .. done - 1 :
          Ahead(SEC_CIRCULAR_COUNTER(cidx), i - 1) = Ahead(cidx, (i + 1) - 1)
    BY <1>0, <1>1, <1>3 DEF Ahead, SEC_CIRCULAR_COUNTER, Index
  <2>3. Finished' = [i \in 1 .. done - 1 |-> Finished[i + 1]]
    <3>1. Finished = [i \in 1 .. done |-> output_ring[Ahead(cidx, i - 1)]]
      BY DEF Finished
    <3>2. \A i \in 1 .. done - 1 :
            Finished[i + 1] = output_ring[Ahead(SEC_CIRCULAR_COUNTER(cidx), i - 1)]
      BY <1>1, <2>2, <3>1
    <3>. QED BY <2>1, <3>2
  <2>4. Finished \in Seq(Outcome) /\ Len(Finished) = done /\ Finished # << >>
    BY <1>0, <1>1, QueueTypes
  <2>. QED BY <2>3, <2>4, IsTail
<1>5. Waiting' = Waiting
  BY <1>2, SameWaiting
<1>6. Finished # << >>
  BY <1>0, <1>1, QueueTypes
<1>. QED BY <1>4, <1>5, <1>6 DEF Queue!Take

\* Nobody waits for the slot the driver writes.
LEMMA WriteIsUnseen ==
  ASSUME NEW c \in Cores, QueueInv(c), EnqWrite(c)
  PROVE  Waiting' = Waiting /\ Finished' = Finished
<1>0. TypeOK /\ RingAssumption
  BY RingAssumption DEF QueueInv, CountInv, TypeInv
<1>1. /\ input_ring' = [input_ring EXCEPT ![pidx] = [kind |-> call[c].job, by |-> c]]
      /\ UNCHANGED <<pidx, cidx, output_ring, hwVars>>
  BY DEF EnqWrite
<1>2. /\ pidx = Ahead(next, added)
      /\ added + done < SEC_JOB_RING_SIZE
      /\ added \in Nat /\ done \in Nat /\ next \in Index
  <2>1. pc[c] = "write" /\ handle /\ g_driver_state # "IDLE"
    BY DEF EnqWrite, At, QueueInv, Occupied
  <2>. QED BY <1>0, <2>1 DEF QueueInv, CountInv, Counted, Step1, Ahead, TypeOK, Index
<1>3. \A i \in 1 .. added : input_ring'[Ahead(next, i - 1)]
                              = input_ring[Ahead(next, i - 1)]
  <2> SUFFICES ASSUME NEW i \in 1 .. added
               PROVE  input_ring'[Ahead(next, i - 1)] = input_ring[Ahead(next, i - 1)]
    OBVIOUS
  <2>1. Ahead(next, i - 1) # pidx /\ Ahead(next, i - 1) \in Index
    BY <1>0, <1>2, AheadMoves
  <2>. QED BY <1>0, <1>1, <2>1 DEF TypeOK
<1>4. Waiting' = Waiting
  BY <1>1, <1>3 DEF Waiting, Ahead, hwVars
<1>5. Finished' = Finished
  BY <1>1, SameFinished DEF hwVars
<1>. QED BY <1>4, <1>5

\* Initialisation and shutdown find the ring empty and leave it empty.
LEMMA ResetIsUnseen ==
  ASSUME NEW c \in Cores, QueueInv(c), SecInit(c) \/ Shutdown(c)
  PROVE  /\ added = 0 /\ done = 0 /\ added' = 0 /\ done' = 0
<1>0. TypeOK /\ RingAssumption
  BY RingAssumption DEF QueueInv, CountInv, TypeInv
<1>1. CASE SecInit(c)
  BY <1>1 DEF SecInit, QueueInv, Occupied
<1>2. CASE Shutdown(c)
  <2>1. added = 0 /\ done = 0
    <3>1. CASE ~handle \/ g_driver_state = "IDLE"
      BY <3>1 DEF QueueInv, Occupied
    <3>2. CASE handle /\ g_driver_state # "IDLE"
      <4>1. /\ pidx = cidx /\ next = Ahead(cidx, done)
            /\ Ahead(pidx, 0) = Ahead(next, added)
            /\ added + done < SEC_JOB_RING_SIZE
        BY <1>2, <3>2 DEF Shutdown, At, QueueInv, CountInv, Counted, Step1
      <4>. QED BY <1>0, <4>1 DEF TypeOK, Index, Ahead
    <3>. QED BY <3>1, <3>2
  <2>. QED BY <1>2, <2>1 DEF Shutdown
<1>. QED BY <1>1, <1>2

\* A core's step puts, takes or discards, or is unseen.
LEMMA CoreQueues ==
  ASSUME NEW c \in Cores, QueueInv(c), Step(c) \/ Enter(c)
  PROVE  [Queue!Next]_<<Waiting, Finished>>
<1>1. CASE SecInit(c) \/ Shutdown(c)
  <2>1. Waiting = << >> /\ Finished = << >>
    BY <1>1, ResetIsUnseen, EmptyQueue
  <2>2. (added = 0 /\ done = 0 => Waiting = << >> /\ Finished = << >>)'
    BY EmptyQueue, PTL
  <2>. QED BY <1>1, <2>1, <2>2, ResetIsUnseen
<1>2. CASE Flush(c)
  <2>1. Waiting' = Waiting
    BY <1>2, SameWaiting DEF Flush
  <2>2. (done = 0 => Finished = << >>)'
    BY EmptyQueue, PTL
  <2>. QED BY <1>2, <2>1, <2>2 DEF Flush, Queue!Discard, Queue!Next
<1>3. CASE EnqWrite(c)
  BY <1>3, WriteIsUnseen
<1>4. CASE EnqTell(c)
  BY <1>4, TellPuts DEF Queue!Next
<1>5. CASE EntryError(c) \/ EntryOk(c)
  BY <1>5, RemoveTakes DEF EntryError, EntryOk, At, Queue!Next
<1>6. CASE \/ SecRelease(c) \/ GetRng(c) \/ GetKey(c)
           \/ EnqCheck(c) \/ EnqStep(c) \/ DeqCheck(c) \/ Poll(c) \/ EntryNull(c)
           \/ RngCheck(c) \/ Instantiate(c) \/ RngReady(c) \/ CopyRng(c) \/ CopyKey(c)
  <2>1. UNCHANGED <<input_ring, output_ring, cidx, next, added, done>>
    BY <1>6 DEF SecRelease, GetRng, GetKey, EnqCheck, EnqStep, DeqCheck, Poll,
                EntryNull, RngCheck, Instantiate, RngReady, CopyRng, CopyKey,
                ringVars, hwVars
  <2>. QED BY <2>1, SameWaiting, SameFinished
<1>. QED BY <1>1, <1>2, <1>3, <1>4, <1>5, <1>6 DEF Step, Enter

LEMMA OccupiedInit == ASSUME NEW c \in Cores, Init PROVE Occupied(c)
BY DEF Init, Occupied

\* A step keeps a ring that is not in use empty and a job in its slot.
LEMMA OccupiedCore ==
  ASSUME NEW c \in Cores, QueueInv(c), Step(c) \/ Enter(c)
  PROVE  Occupied(c)'
<1>0. TypeOK /\ RingAssumption
  BY RingAssumption DEF QueueInv, CountInv, TypeInv
<1>1. CASE SecInit(c) \/ Shutdown(c)
  <2>1. pc'[c] \in {"inst", "idle"}
    BY <1>0, <1>1, JobEnds DEF SecInit, Shutdown, TypeOK, Goto, At
  <2>. QED BY <1>1, <2>1, ResetIsUnseen DEF Occupied
<1>2. CASE Flush(c)
  BY <1>2 DEF Flush, QueueInv, Occupied, At, drvVars
<1>3. CASE SecRelease(c)
  <2>1. pc'[c] = "flush"
    BY <1>0, <1>3 DEF SecRelease, TypeOK, Goto
  <2>. QED BY <1>3, <2>1 DEF SecRelease, QueueInv, Occupied, hwVars
<1>4. CASE EnqCheck(c)
  <2>1. pc'[c] \in {"idle", "enq"} \/ (pc'[c] = "write" /\ handle /\ g_driver_state = "STARTED")
    BY <1>0, <1>4, JobEnds DEF EnqCheck, TypeOK, Goto
  <2>. QED BY <1>4, <2>1 DEF EnqCheck, QueueInv, Occupied, drvVars, hwVars
<1>5. CASE EnqWrite(c)
  <2>1. pc[c] = "write" /\ pc'[c] = "tell"
    BY <1>0, <1>5 DEF EnqWrite, At, Goto, TypeOK
  <2>2. input_ring'[pidx'] \in Job
    <3>1. [kind |-> call[c].job, by |-> c] \in Job
      BY <1>0, CallFields DEF TypeOK, Job
    <3>. QED BY <1>0, <1>5, <3>1 DEF EnqWrite, TypeOK
  <2>. QED BY <1>5, <2>1, <2>2 DEF EnqWrite, QueueInv, Occupied, drvVars, hwVars
<1>6. CASE EnqTell(c)
  <2>1. pc[c] = "tell" /\ pc'[c] = "step"
    BY <1>0, <1>6 DEF EnqTell, At, Goto, TypeOK
  <2>. QED BY <1>6, <2>1 DEF EnqTell, QueueInv, Occupied, drvVars
<1>7. CASE EntryError(c) \/ EntryOk(c)
  <2>1. pc[c] = "entry" /\ pc'[c] \in {"entry", "idle", "enq", "ready", "copy"}
    BY <1>0, <1>7, JobEnds DEF EntryError, EntryOk, At
  <2>2. done > 0
    <3>1. call[c].left \in Nat
      BY <1>0, CallFields DEF TypeOK
    <3>. QED BY <1>0, <2>1, <3>1 DEF TypeOK, QueueInv, CountInv, Room
  <2>. QED BY <1>7, <2>1, <2>2 DEF EntryError, EntryOk, Remove, QueueInv, Occupied, drvVars
<1>8. CASE EnqStep(c) \/ DeqCheck(c) \/ Poll(c) \/ EntryNull(c)
  <2>1. pc'[c] \in {"deq", "idle", "enq", "poll", "entry"}
    BY <1>0, <1>8, JobEnds DEF EnqStep, DeqCheck, Poll, EntryNull, Goto, TypeOK
  <2>. QED BY <1>8, <2>1 DEF EnqStep, DeqCheck, Poll, EntryNull, QueueInv,
                             Occupied, drvVars, ringVars, hwVars
<1>9. CASE GetRng(c) \/ GetKey(c) \/ RngCheck(c) \/ Instantiate(c) \/ RngReady(c)
            \/ CopyRng(c) \/ CopyKey(c)
  <2>1. pc'[c] \in {"rdsta", "enq", "ready", "inst", "idle"}
    BY <1>0, <1>9, JobEnds DEF GetRng, GetKey, RngCheck, Instantiate, RngReady,
                               RunJob, CopyRng, CopyKey, Goto, TypeOK
  <2>. QED BY <1>9, <2>1 DEF GetRng, GetKey, RngCheck, Instantiate, RngReady,
                             CopyRng, CopyKey, QueueInv, Occupied, drvVars,
                             ringVars, hwVars
<1>. QED BY <1>1, <1>2, <1>3, <1>4, <1>5, <1>6, <1>7, <1>8, <1>9 DEF Step, Enter

LEMMA OccupiedEngine ==
  ASSUME NEW c \in Cores, QueueInv(c), HwNext \/ HwRingError
  PROVE  Occupied(c)'
<1>1. CASE HwNext
  BY <1>1 DEF HwNext, HwRun, QueueInv, Occupied, drvVars
<1>2. CASE HwRingError
  BY <1>2 DEF HwRingError, QueueInv, Occupied, drvVars, ringVars
<1>. QED BY <1>1, <1>2

LEMMA QueueNext ==
  ASSUME NEW c \in Cores, Cores = {c}, QueueInv(c), [Next]_vars
  PROVE  QueueInv(c)' /\ [Queue!Next]_<<Waiting, Finished>>
<1>1. CountInv(c)'
  BY CountNext DEF QueueInv
<1>2. CASE \E d \in Cores : Step(d) \/ Enter(d)
  BY <1>1, <1>2, CoreQueues, OccupiedCore DEF QueueInv
<1>3. CASE HwNext
  BY <1>1, <1>3, EngineRuns, OccupiedEngine DEF QueueInv, Queue!Next
<1>4. CASE HwRingError
  <2>1. UNCHANGED <<input_ring, output_ring, cidx, next, added, done>>
    BY <1>4 DEF HwRingError, ringVars
  <2>. QED BY <1>1, <1>4, <2>1, OccupiedEngine, SameWaiting, SameFinished
           DEF QueueInv
<1>5. CASE UNCHANGED vars
  <2>1. UNCHANGED <<input_ring, output_ring, cidx, next, added, done>>
    BY <1>5 DEF vars, ringVars, hwVars
  <2>2. Occupied(c)'
    BY <1>5 DEF vars, drvVars, ringVars, hwVars, QueueInv, Occupied
  <2>. QED BY <1>1, <2>1, <2>2, SameWaiting, SameFinished DEF QueueInv
<1>. QED BY <1>2, <1>3, <1>4, <1>5 DEF Next

\* With one calling core the ring is the queue of JobQueue for every size:
\* a job the driver puts is run once and in its turn, and its outcome is taken
\* once or discarded by a release (sec_jr_driver.c:217, sec_hw_specific.c:458).
THEOREM RingQueues ==
  ASSUME NEW c \in Cores, Cores = {c}
  PROVE  Spec => RingIsQueue
<1>1. Init => QueueInv(c) /\ Queue!Init
  <2> SUFFICES ASSUME Init PROVE QueueInv(c) /\ Queue!Init
    OBVIOUS
  <2>1. QueueInv(c)
    BY CountInit, OccupiedInit DEF QueueInv
  <2>2. Waiting = << >> /\ Finished = << >>
    BY EmptyQueue DEF Init
  <2>. QED BY <2>1, <2>2 DEF Queue!Init
<1>2. QueueInv(c) /\ [Next]_vars
        => QueueInv(c)' /\ [Queue!Next]_<<Waiting, Finished>>
  BY QueueNext
<1>. QED BY <1>1, <1>2, PTL DEF Spec, RingIsQueue, Queue!Spec

-----------------------------------------------------------------------------
(* One calling core: its answers.                                          *)


EnqLabel  == {"write", "tell", "step", "deq", "poll", "entry"}
SentLabel == {"step", "deq", "poll", "entry"}

\* A job is in the ring only while the driver is up, and serves the call it
\* was built for.
Serving(c) ==
  /\ pc[c] \in EnqLabel => handle /\ g_driver_state = "STARTED"
  /\ pc[c] = "flush" => call[c].want = "release"
  /\ pc[c] \in {"rdsta", "ready"} => call[c].want = "rng"
  /\ pc[c] = "inst" => call[c].want \in {"init", "rng"}
  /\ pc[c] \in EnqLabel \cup {"enq", "copy"} =>
       \/ call[c].want = "init" /\ call[c].job = "inst"
       \/ call[c].want = "rng" /\ call[c].job \in {"inst", "gen"}
       \/ call[c].want = "key" /\ call[c].job = "blob"
  /\ pc[c] = "copy" => call[c].job # "inst"

\* The slot of a job keeps the job until the call ends.
Written(c) ==
  pc[c] \in {"tell"} \cup SentLabel =>
    input_ring[call[c].slot] = [kind |-> call[c].job, by |-> c]

\* The buffer of the call has what its job produces.
Produced(c) ==
  /\ call[c].job = "gen" => rand_byte = "fresh"
  /\ call[c].job = "blob" => call[c].blob = "fresh"

\* A job that went into an empty ring stays the only one there, so the job
\* whose end the call is told of is its own.
Lone(c) ==
  call[c].alone =>
    /\ pc[c] = "tell" =>
         added + done = 0 /\ call[c].slot = cidx /\ pidx = cidx
    /\ pc[c] \in SentLabel =>
         /\ added + done = 1
         /\ call[c].slot = cidx
         /\ done = 1 /\ output_ring[cidx] = "ok" => Produced(c)
    /\ pc[c] = "copy" => Produced(c)

Fresh(c) ==
  pc[c] = "idle" /\ call[c].want \in {"rng", "key"} /\ call[c].alone =>
    call[c].res \in {"fail", "fresh"}

Lonely(c)  == Serving(c) /\ Written(c) /\ Lone(c) /\ Fresh(c)
FreshInv(c) == CountInv(c) /\ Lonely(c)

\* What a call keeps when its job ends.
LEMMA EndKeeps ==
  ASSUME TypeOK, NEW c \in Cores
  PROVE  /\ \A r : Answer(c, r) =>
              pc'[c] = "idle" /\ call'[c].want = call[c].want
                /\ call'[c].res = r /\ call'[c].alone = call[c].alone
         /\ JobFails(c) =>
              \/ pc'[c] = "idle" /\ call'[c].res = "fail"
              \/ /\ pc'[c] = "enq" /\ call[c].job = "inst"
                 /\ call'[c].want = call[c].want /\ call'[c].job = call[c].job
         /\ JobSucceeds(c) =>
              \/ pc'[c] = "idle" /\ call[c].want = "init" /\ call'[c].want = "init"
              \/ /\ call' = call
                 /\ \/ pc'[c] = "ready" /\ call[c].job = "inst"
                       /\ call[c].want # "init"
                    \/ pc'[c] = "copy" /\ call[c].job # "inst"
         /\ PollAgain(c) =>
              \/ JobFails(c)
              \/ /\ pc'[c] = "poll"
                 /\ call'[c].want = call[c].want /\ call'[c].job = call[c].job
                 /\ call'[c].slot = call[c].slot /\ call'[c].blob = call[c].blob
                 /\ call'[c].alone = call[c].alone
<1>0. call \in [Cores -> Call] /\ pc \in [Cores -> Label] /\ call[c] \in Call
  BY DEF TypeOK
<1>1. ASSUME NEW r, Answer(c, r)
      PROVE  /\ pc'[c] = "idle" /\ call'[c].want = call[c].want
             /\ call'[c].res = r /\ call'[c].alone = call[c].alone
  BY <1>0, <1>1 DEF Answer, Goto, NoCall
<1>2. ASSUME JobFails(c)
      PROVE  \/ pc'[c] = "idle" /\ call'[c].res = "fail"
             \/ /\ pc'[c] = "enq" /\ call[c].job = "inst"
                /\ call'[c].want = call[c].want /\ call'[c].job = call[c].job
  BY <1>0, <1>1, <1>2 DEF JobFails, Goto, Call
<1>3. ASSUME JobSucceeds(c)
      PROVE  \/ pc'[c] = "idle" /\ call[c].want = "init" /\ call'[c].want = "init"
             \/ /\ call' = call
                /\ \/ pc'[c] = "ready" /\ call[c].job = "inst"
                      /\ call[c].want # "init"
                   \/ pc'[c] = "copy" /\ call[c].job # "inst"
  BY <1>0, <1>1, <1>3 DEF JobSucceeds, Goto
<1>4. ASSUME PollAgain(c), ~JobFails(c)
      PROVE  /\ pc'[c] = "poll"
             /\ call'[c].want = call[c].want /\ call'[c].job = call[c].job
             /\ call'[c].slot = call[c].slot /\ call'[c].blob = call[c].blob
             /\ call'[c].alone = call[c].alone
  BY <1>0, <1>4 DEF PollAgain, Goto, Call
<1>. QED BY <1>1, <1>2, <1>3, <1>4

\* A call that failed, or tries again.
LEMMA LonelyFails ==
  ASSUME NEW c \in Cores, FreshInv(c), JobFails(c),
         pc[c] \in EnqLabel \cup {"enq"}
  PROVE  Lonely(c)'
<1>1. TypeOK
  BY DEF FreshInv, CountInv, TypeInv
<1>2. CASE pc'[c] = "idle" /\ call'[c].res = "fail"
  BY <1>2 DEF Lonely, Serving, Written, Lone, Fresh, EnqLabel, SentLabel
<1>3. CASE /\ pc'[c] = "enq" /\ call[c].job = "inst"
           /\ call'[c].want = call[c].want /\ call'[c].job = call[c].job
  BY <1>3 DEF FreshInv, Lonely, Serving, Written, Lone, Fresh, EnqLabel, SentLabel
<1>. QED BY <1>1, <1>2, <1>3, EndKeeps

\* A place where no job is in the ring: only Serving is at stake.
LEMMA LonelyQuiet ==
  ASSUME NEW c \in Cores, Serving(c)',
         pc'[c] \in {"flush", "rdsta", "inst", "enq", "write", "ready"}
  PROVE  Lonely(c)'
BY DEF Lonely, Written, Lone, Fresh, SentLabel

LEMMA LonelyInit ==
  ASSUME NEW c \in Cores, Init PROVE Lonely(c)
BY DEF Init, Lonely, Serving, Written, Lone, Fresh, NoCall, EnqLabel, SentLabel

\* Steps that bring the driver up and down.
LEMMA LonelyDriver ==
  ASSUME NEW c \in Cores, Cores = {c}, FreshInv(c),
         SecInit(c) \/ SecRelease(c) \/ Flush(c) \/ Shutdown(c)
  PROVE  Lonely(c)'
<1>0. TypeOK /\ pc \in [Cores -> Label] /\ call \in [Cores -> Call]
  BY DEF FreshInv, CountInv, TypeInv, TypeOK
<1>1. CASE SecInit(c)
  <2>1. /\ pc'[c] \in {"inst", "idle"}
        /\ call'[c].want = "init"
    BY <1>0, <1>1 DEF SecInit, Goto, At, NoCall
  <2>. QED BY <2>1 DEF Lonely, Serving, Written, Lone, Fresh, EnqLabel, SentLabel
<1>2. CASE SecRelease(c)
  <2>1. pc'[c] = "flush" /\ call'[c].want = "release"
    BY <1>0, <1>2 DEF SecRelease, Goto, NoCall
  <2>2. Serving(c)'
    BY <2>1 DEF Serving, EnqLabel
  <2>. QED BY <2>1, <2>2, LonelyQuiet
<1>3. CASE Flush(c)
  <2>1. pc'[c] = "flush" /\ call' = call /\ pc[c] = "flush"
    BY <1>3 DEF Flush, At
  <2>2. Serving(c)'
    BY <2>1 DEF FreshInv, Lonely, Serving, EnqLabel
  <2>. QED BY <2>1, <2>2, LonelyQuiet
<1>4. CASE Shutdown(c)
  <2>1. pc[c] = "flush" /\ pc'[c] = "idle" /\ call'[c].want = call[c].want
    BY <1>0, <1>4, EndKeeps DEF Shutdown, At
  <2>2. call'[c].want = "release"
    BY <2>1 DEF FreshInv, Lonely, Serving
  <2>. QED BY <2>1, <2>2
           DEF Lonely, Serving, Written, Lone, Fresh, EnqLabel, SentLabel
<1>. QED BY <1>1, <1>2, <1>3, <1>4

\* Steps that enqueue a job.
LEMMA LonelyEnqueue ==
  ASSUME NEW c \in Cores, FreshInv(c),
         EnqCheck(c) \/ EnqWrite(c) \/ EnqTell(c) \/ EnqStep(c)
  PROVE  Lonely(c)'
<1>0. /\ TypeOK /\ RingAssumption
      /\ pc \in [Cores -> Label] /\ call \in [Cores -> Call] /\ call[c] \in Call
  BY RingAssumption DEF FreshInv, CountInv, TypeInv, TypeOK
<1>1. CASE EnqCheck(c)
  <2>1. CASE g_driver_state # "STARTED" \/ ~handle \/ SEC_JOB_RING_IS_FULL
    BY <1>1, <2>1, LonelyFails DEF EnqCheck, At
  <2>2. CASE ~(g_driver_state # "STARTED" \/ ~handle \/ SEC_JOB_RING_IS_FULL)
    <3>1. /\ pc[c] = "enq" /\ pc'[c] = "write" /\ call' = call
          /\ handle' /\ g_driver_state' = "STARTED"
      BY <1>0, <1>1, <2>2 DEF EnqCheck, At, Goto, drvVars
    <3>2. Serving(c)'
      BY <3>1 DEF FreshInv, Lonely, Serving, EnqLabel
    <3>. QED BY <3>1, <3>2, LonelyQuiet
  <2>. QED BY <2>1, <2>2
<1>2. CASE EnqWrite(c)
  <2>1. /\ pc[c] = "write" /\ pc'[c] = "tell"
        /\ call'[c].want = call[c].want /\ call'[c].job = call[c].job
        /\ call'[c].slot = pidx /\ call'[c].alone = (pidx = cidx)
        /\ UNCHANGED <<handle, g_driver_state, pidx, cidx, added, done>>
    BY <1>0, <1>2 DEF EnqWrite, At, Goto, Call, drvVars, hwVars
  <2>2. Serving(c)'
    BY <2>1 DEF FreshInv, Lonely, Serving, EnqLabel
  <2>3. Written(c)'
    BY <1>0, <1>2, <2>1 DEF EnqWrite, Written, TypeOK
  <2>4. Lone(c)'
    <3> SUFFICES ASSUME pidx = cidx PROVE added + done = 0
      BY <2>1 DEF Lone, SentLabel
    <3>1. handle /\ g_driver_state # "IDLE"
      BY <2>1 DEF FreshInv, Lonely, Serving, EnqLabel
    <3>2. /\ added + done < SEC_JOB_RING_SIZE
          /\ next = Ahead(cidx, done)
          /\ pidx = Ahead(next, added)
      BY <1>0, <2>1, <3>1
         DEF FreshInv, CountInv, Counted, Step1, Ahead, TypeOK, Index
    <3>. QED BY <1>0, <3>2 DEF TypeOK, Index, Ahead
  <2>. QED BY <2>1, <2>2, <2>3, <2>4 DEF Lonely, Fresh
<1>3. CASE EnqTell(c)
  <2>1. /\ pc[c] = "tell" /\ pc'[c] = "step" /\ call' = call
        /\ UNCHANGED <<handle, g_driver_state, input_ring, cidx, done>>
    BY <1>0, <1>3 DEF EnqTell, At, Goto, drvVars, ringVars
  <2>2. Serving(c)' /\ Written(c)'
    BY <2>1 DEF FreshInv, Lonely, Serving, Written, EnqLabel, SentLabel
  <2>3. Lone(c)'
    <3> SUFFICES ASSUME call[c].alone PROVE Lone(c)'
      BY <2>1 DEF Lone
    <3>1. added + done = 0 /\ call[c].slot = cidx
      BY <2>1 DEF FreshInv, Lonely, Lone
    <3>2. added = 0 /\ done = 0 /\ added' = added + 1
      BY <1>0, <1>3, <3>1 DEF EnqTell, TypeOK
    <3>. QED BY <2>1, <3>1, <3>2 DEF Lone, SentLabel
  <2>. QED BY <2>1, <2>2, <2>3 DEF Lonely, Fresh
<1>4. CASE EnqStep(c)
  <2>1. /\ pc[c] = "step" /\ pc'[c] = "deq" /\ call' = call
        /\ UNCHANGED <<handle, g_driver_state, input_ring, output_ring, cidx,
                       added, done, rand_byte>>
    BY <1>0, <1>4 DEF EnqStep, At, Goto, drvVars, hwVars
  <2>. QED BY <2>1 DEF FreshInv, Lonely, Serving, Written, Lone, Produced, Fresh,
                       EnqLabel, SentLabel
<1>. QED BY <1>1, <1>2, <1>3, <1>4

\* Steps that poll and dequeue.
LEMMA LonelyDequeue ==
  ASSUME NEW c \in Cores, FreshInv(c),
         \/ DeqCheck(c) \/ Poll(c)
         \/ EntryNull(c) \/ EntryError(c) \/ EntryOk(c)
  PROVE  Lonely(c)'
<1>0. /\ TypeOK /\ RingAssumption
      /\ pc \in [Cores -> Label] /\ call \in [Cores -> Call] /\ call[c] \in Call
  BY RingAssumption DEF FreshInv, CountInv, TypeInv, TypeOK
\* The call waits on: ring, engine and buffers are as they were.
<1>a. ASSUME pc[c] \in {"deq", "poll", "entry"}, pc'[c] \in {"poll", "entry"},
             UNCHANGED <<drvVars, ringVars, hwVars, rand_byte>>,
             call'[c].want = call[c].want, call'[c].job = call[c].job,
             call'[c].slot = call[c].slot, call'[c].blob = call[c].blob,
             call'[c].alone = call[c].alone
      PROVE  Lonely(c)'
  BY <1>a DEF FreshInv, Lonely, Serving, Written, Lone, Produced, Fresh,
              EnqLabel, SentLabel, drvVars, ringVars, hwVars
<1>b. ASSUME PollAgain(c), pc[c] \in {"poll", "entry"},
             UNCHANGED <<drvVars, ringVars, hwVars, rand_byte>>
      PROVE  Lonely(c)'
  <2>1. CASE JobFails(c)
    BY <1>b, <2>1, LonelyFails DEF EnqLabel
  <2>2. CASE ~JobFails(c)
    BY <1>0, <1>a, <1>b, <2>2, EndKeeps
  <2>. QED BY <2>1, <2>2
<1>1. CASE DeqCheck(c)
  <2>1. CASE g_driver_state # "STARTED"
    BY <1>1, <2>1, LonelyFails DEF DeqCheck, At, EnqLabel
  <2>2. CASE g_driver_state = "STARTED"
    <3>1. /\ pc[c] = "deq" /\ pc'[c] = "poll"
          /\ call'[c].want = call[c].want /\ call'[c].job = call[c].job
          /\ call'[c].slot = call[c].slot /\ call'[c].blob = call[c].blob
          /\ call'[c].alone = call[c].alone
      BY <1>0, <1>1, <2>2 DEF DeqCheck, At, Goto, Call
    <3>. QED BY <1>1, <1>a, <3>1 DEF DeqCheck
  <2>. QED BY <2>1, <2>2
<1>2. CASE Poll(c)
  <2>1. CASE JobFails(c)
    BY <1>2, <2>1, LonelyFails DEF Poll, At, EnqLabel
  <2>2. CASE PollAgain(c)
    BY <1>2, <1>b, <2>2 DEF Poll, At
  <2>3. CASE Goto(c, "entry") /\ call' = [call EXCEPT ![c].left = done]
    <3>1. /\ pc[c] = "poll" /\ pc'[c] = "entry"
          /\ call'[c].want = call[c].want /\ call'[c].job = call[c].job
          /\ call'[c].slot = call[c].slot /\ call'[c].blob = call[c].blob
          /\ call'[c].alone = call[c].alone
      BY <1>0, <1>2, <2>3 DEF Poll, At, Goto, Call
    <3>. QED BY <1>2, <1>a, <3>1 DEF Poll
  <2>. QED BY <1>2, <2>1, <2>2, <2>3 DEF Poll
<1>3. CASE EntryNull(c)
  BY <1>3, <1>b DEF EntryNull, At
<1>4. CASE EntryError(c)
  BY <1>4, LonelyFails DEF EntryError, At, EnqLabel
<1>5. CASE EntryOk(c)
  <2>0. /\ pc[c] = "entry" /\ output_ring[cidx] = "ok"
        /\ call[c].left \in Nat /\ 0 < call[c].left /\ call[c].left <= done
        /\ UNCHANGED <<handle, g_driver_state, input_ring, rand_byte>>
    BY <1>0, <1>5, CallFields
       DEF EntryOk, At, Remove, drvVars, FreshInv, CountInv, Room
  <2>1. call[c].alone => done = 1 /\ call[c].left = 1 /\ Produced(c)
    BY <1>0, <2>0 DEF FreshInv, Lonely, Lone, SentLabel, TypeOK
  <2>2. CASE call[c].left > 1
    <3>1. /\ pc'[c] = "entry" /\ ~call[c].alone
          /\ call'[c].want = call[c].want /\ call'[c].job = call[c].job
          /\ call'[c].slot = call[c].slot /\ call'[c].alone = call[c].alone
      BY <1>0, <1>5, <2>0, <2>1, <2>2 DEF EntryOk, Call
    <3>. QED BY <2>0, <3>1 DEF FreshInv, Lonely, Serving, Written, Lone, Fresh,
                               EnqLabel, SentLabel
  <2>3. CASE ~(call[c].left > 1)
    <3>1. JobSucceeds(c)
      BY <1>5, <2>3 DEF EntryOk
    <3>2. CASE pc'[c] = "idle" /\ call'[c].want = "init"
      BY <3>2 DEF Lonely, Serving, Written, Lone, Fresh, EnqLabel, SentLabel
    <3>3. CASE /\ call' = call /\ pc'[c] = "ready"
               /\ call[c].job = "inst" /\ call[c].want # "init"
      <4>1. Serving(c)'
        BY <2>0, <3>3 DEF FreshInv, Lonely, Serving, EnqLabel
      <4>. QED BY <3>3, <4>1, LonelyQuiet
    <3>4. CASE call' = call /\ pc'[c] = "copy" /\ call[c].job # "inst"
      <4>1. Serving(c)'
        BY <2>0, <3>4 DEF FreshInv, Lonely, Serving, EnqLabel
      <4>2. Lone(c)'
        BY <2>0, <2>1, <3>4 DEF Lone, Produced, SentLabel
      <4>. QED BY <3>4, <4>1, <4>2 DEF Lonely, Written, Fresh, SentLabel
    <3>. QED BY <1>0, <3>1, <3>2, <3>3, <3>4, EndKeeps
  <2>. QED BY <2>2, <2>3
<1>. QED BY <1>1, <1>2, <1>3, <1>4, <1>5

\* Steps of the services.
LEMMA LonelyService ==
  ASSUME NEW c \in Cores, FreshInv(c),
         \/ GetRng(c) \/ GetKey(c) \/ RngCheck(c) \/ Instantiate(c)
         \/ RngReady(c) \/ CopyRng(c) \/ CopyKey(c)
  PROVE  Lonely(c)'
<1>0. /\ TypeOK
      /\ pc \in [Cores -> Label] /\ call \in [Cores -> Call] /\ call[c] \in Call
  BY DEF FreshInv, CountInv, TypeInv, TypeOK
<1>1. CASE GetRng(c) \/ GetKey(c)
  <2>1. \/ pc'[c] = "rdsta" /\ call'[c].want = "rng"
        \/ pc'[c] = "enq" /\ call'[c].want = "key" /\ call'[c].job = "blob"
    BY <1>0, <1>1 DEF GetRng, GetKey, Goto, NoCall
  <2>2. Serving(c)'
    BY <2>1 DEF Serving, EnqLabel
  <2>. QED BY <2>1, <2>2, LonelyQuiet
<1>2. CASE RngCheck(c)
  <2>1. pc[c] = "rdsta" /\ pc'[c] \in {"ready", "inst"} /\ call' = call
    BY <1>0, <1>2 DEF RngCheck, At, Goto
  <2>2. Serving(c)'
    BY <2>1 DEF FreshInv, Lonely, Serving, EnqLabel
  <2>. QED BY <2>1, <2>2, LonelyQuiet
<1>3. CASE Instantiate(c)
  <2>0. pc[c] = "inst" /\ call[c].want \in {"init", "rng"}
    BY <1>3 DEF Instantiate, At, FreshInv, Lonely, Serving
  <2>1. CASE ~rdsta
    <3>1. pc'[c] = "enq" /\ call'[c].want = call[c].want /\ call'[c].job = "inst"
      BY <1>0, <1>3, <2>1 DEF Instantiate, Goto, Call
    <3>2. Serving(c)'
      BY <2>0, <3>1 DEF Serving, EnqLabel
    <3>. QED BY <3>1, <3>2, LonelyQuiet
  <2>2. CASE rdsta /\ call[c].want = "init"
    <3>1. pc'[c] = "idle" /\ call'[c].want = "init"
      BY <1>0, <1>3, <2>2, EndKeeps DEF Instantiate
    <3>. QED BY <3>1 DEF Lonely, Serving, Written, Lone, Fresh, EnqLabel, SentLabel
  <2>3. CASE rdsta /\ call[c].want # "init"
    <3>1. pc'[c] = "ready" /\ call' = call
      BY <1>0, <1>3, <2>3 DEF Instantiate, Goto
    <3>2. Serving(c)'
      BY <2>0, <2>3, <3>1 DEF Serving, EnqLabel
    <3>. QED BY <3>1, <3>2, LonelyQuiet
  <2>. QED BY <2>1, <2>2, <2>3
<1>4. CASE RngReady(c)
  <2>0. pc[c] = "ready" /\ call[c].want = "rng"
    BY <1>4 DEF RngReady, At, FreshInv, Lonely, Serving
  <2>1. CASE rdsta
    <3>1. pc'[c] = "enq" /\ call'[c].want = call[c].want /\ call'[c].job = "gen"
      BY <1>0, <1>4, <2>1 DEF RngReady, RunJob, Goto, Call
    <3>2. Serving(c)'
      BY <2>0, <3>1 DEF Serving, EnqLabel
    <3>. QED BY <3>1, <3>2, LonelyQuiet
  <2>2. CASE ~rdsta
    <3>1. pc'[c] = "idle" /\ call'[c].res = "fail"
      BY <1>0, <1>4, <2>2, EndKeeps DEF RngReady
    <3>. QED BY <3>1 DEF Lonely, Serving, Written, Lone, Fresh, EnqLabel, SentLabel
  <2>. QED BY <2>1, <2>2
<1>5. CASE CopyRng(c) \/ CopyKey(c)
  <2>1. /\ pc[c] = "copy" /\ pc'[c] = "idle"
        /\ call'[c].alone = call[c].alone
        /\ \/ call[c].want = "rng" /\ call'[c].res = rand_byte
           \/ call[c].want = "key" /\ call'[c].res = call[c].blob
    BY <1>0, <1>5, EndKeeps DEF CopyRng, CopyKey, At
  <2>2. call[c].alone => call'[c].res = "fresh"
    BY <2>1 DEF FreshInv, Lonely, Serving, Lone, Produced
  <2>. QED BY <2>1, <2>2
           DEF Lonely, Serving, Written, Lone, Fresh, EnqLabel, SentLabel
<1>. QED BY <1>1, <1>2, <1>3, <1>4, <1>5

\* The engine runs the only job of a lone call, which is that call's own.
LEMMA LonelyEngine ==
  ASSUME NEW c \in Cores, FreshInv(c), HwNext \/ HwRingError
  PROVE  Lonely(c)'
<1>0. /\ TypeOK /\ RingAssumption
      /\ call \in [Cores -> Call] /\ call[c] \in Call
  BY RingAssumption DEF FreshInv, CountInv, TypeInv, TypeOK
<1>1. CASE HwNext
  <2>1. PICK o \in HwOutcome : HwRun(o)
    BY <1>1 DEF HwNext
  <2>2. /\ call'[c].want = call[c].want /\ call'[c].job = call[c].job
        /\ call'[c].slot = call[c].slot /\ call'[c].alone = call[c].alone
        /\ call'[c].res = call[c].res
        /\ call[c].blob = "fresh" => call'[c].blob = "fresh"
    BY <1>0, <2>1 DEF HwRun, Call
  <2>3. /\ UNCHANGED <<handle, g_driver_state, input_ring, cidx, pidx, pc>>
        /\ rand_byte = "fresh" => rand_byte' = "fresh"
        /\ added > 0 /\ added' = added - 1 /\ done' = done + 1
    BY <2>1 DEF HwRun, drvVars
  <2>4. Serving(c)' /\ Written(c)' /\ Fresh(c)'
    BY <2>2, <2>3 DEF FreshInv, Lonely, Serving, Written, Fresh
  <2>5. Lone(c)'
    <3> SUFFICES ASSUME call[c].alone PROVE Lone(c)'
      BY <2>2 DEF Lone
    <3>1. CASE pc[c] = "tell"
      BY <1>0, <2>3, <3>1 DEF FreshInv, Lonely, Lone, TypeOK
    <3>2. CASE pc[c] \in SentLabel
      <4>1. /\ added = 1 /\ done = 0 /\ call[c].slot = cidx
        BY <1>0, <2>3, <3>2 DEF FreshInv, Lonely, Lone, TypeOK
      <4>2. next = cidx
        <5>1. handle /\ g_driver_state # "IDLE"
          BY <3>2 DEF FreshInv, Lonely, Serving, EnqLabel, SentLabel
        <5>. QED BY <1>0, <4>1, <5>1
                 DEF FreshInv, CountInv, Counted, Ahead, TypeOK, Index
      <4>3. input_ring[next] = [kind |-> call[c].job, by |-> c]
        BY <3>2, <4>1, <4>2 DEF FreshInv, Lonely, Written, SentLabel
      <4>4. output_ring'[cidx] = o
        BY <1>0, <2>1, <4>2 DEF HwRun, TypeOK
      <4>5. o # "error" /\ call[c].job = "gen" => rand_byte' = "fresh"
        BY <2>1, <4>3 DEF HwRun
      <4>6. o # "error" /\ call[c].job = "blob" => call'[c].blob = "fresh"
        BY <1>0, <2>1, <3>2, <4>1, <4>2, <4>3 DEF HwRun, Call, SentLabel
      <4>. QED BY <1>0, <2>2, <2>3, <3>2, <4>1, <4>4, <4>5, <4>6
               DEF Lone, Produced, SentLabel
    <3>3. CASE pc[c] = "copy"
      BY <2>2, <2>3, <3>3 DEF FreshInv, Lonely, Lone, Produced, SentLabel
    <3>. QED BY <2>3, <3>1, <3>2, <3>3 DEF Lone
  <2>. QED BY <2>4, <2>5 DEF Lonely
<1>2. CASE HwRingError
  BY <1>2 DEF HwRingError, FreshInv, Lonely, Serving, Written, Lone, Produced,
              Fresh, drvVars, ringVars
<1>. QED BY <1>1, <1>2

LEMMA FreshNext ==
  ASSUME NEW c \in Cores, Cores = {c}, FreshInv(c), [Next]_vars
  PROVE  FreshInv(c)'
<1>1. CountInv(c)'
  BY CountNext DEF FreshInv
<1>2. Lonely(c)'
  <2>1. CASE \E d \in Cores : Step(d) \/ Enter(d)
    BY <2>1, LonelyDriver, LonelyEnqueue, LonelyDequeue, LonelyService
       DEF Step, Enter
  <2>2. CASE HwNext \/ HwRingError
    BY <2>2, LonelyEngine
  <2>3. CASE UNCHANGED vars
    BY <2>3 DEF vars, drvVars, ringVars, hwVars, FreshInv, Lonely, Serving,
                Written, Lone, Produced, Fresh
  <2>. QED BY <2>1, <2>2, <2>3 DEF Next
<1>. QED BY <1>1, <1>2 DEF FreshInv

LEMMA FreshAnswer ==
  ASSUME NEW c \in Cores, Cores = {c}, FreshInv(c)
  PROVE  LoneAnswerIsFresh
BY DEF FreshInv, Lonely, Fresh, LoneAnswerIsFresh, Answered, FreshOrFailed, At

\* With one calling core, a call that finds the ring empty fails or hands out
\* what its own job produced, whatever the engine does and however long it
\* takes, for every size of the ring and every number of polls and rounds.
THEOREM LoneAnswer ==
  ASSUME NEW c \in Cores, Cores = {c}
  PROVE  Spec => []LoneAnswerIsFresh
<1>1. Init => FreshInv(c)
  BY CountInit, LonelyInit DEF FreshInv
<1>2. FreshInv(c) /\ [Next]_vars => FreshInv(c)'
  BY FreshNext
<1>3. FreshInv(c) => LoneAnswerIsFresh
  BY FreshAnswer
<1>. QED BY <1>1, <1>2, <1>3, PTL DEF Spec
=============================================================================
