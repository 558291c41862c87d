------------------------------- MODULE JobRing -------------------------------
(***************************************************************************)
(* The job ring driver of the SEC engine (drivers/fsl_sec) with the two    *)
(* services above it: random numbers from the hardware RNG (_get_RNG) and  *)
(* the hardware unique key (_get_hw_unq_key).                              *)
(*                                                                         *)
(* A call builds a job descriptor, writes its address into the input ring, *)
(* tells the engine, and polls the output ring a bounded number of times.  *)
(* The engine runs jobs while the driver polls, or after it gave up.       *)
(*                                                                         *)
(* Every core is a sequential process, pc[c] its place in a call, and an   *)
(* action does one access to what the cores or the engine share.  The code *)
(* takes no lock: the ring, its indices, the buffer of random bytes and    *)
(* the state of the driver are globals.  One pass of the loop over         *)
(* finished jobs is one action.                                            *)
(*                                                                         *)
(* Data.  A descriptor is the kind of its job and the core that built it.  *)
(* Of a buffer the properties ask whether a job has written it since it    *)
(* was last handed out.  The engine takes jobs in the order of the ring.   *)
(***************************************************************************)
EXTENDS Integers, Sequences

CONSTANTS
  Cores,     \* cores that call the services
  SEC_JOB_RING_SIZE,
  POLLS,     \* polls of dequeue_jr before it gives up (100, or CAAM_TIMEOUT)
  TRIES,     \* rounds of hw_rng_instantiate: entropy delays from MIN to MAX
  Kinds,     \* services the cores call
  Faults     \* what the engine may do wrong

ASSUME RingAssumption ==
  /\ SEC_JOB_RING_SIZE \in Nat \ {0, 1}
  /\ POLLS \in Nat \ {0}
  /\ TRIES \in Nat \ {0}

\* The pointer to the descriptor of a key is static (hw_key_blob.c:81): what
\* two cores that ask for keys together do to each other is not modelled.
ASSUME UseAssumption ==
  /\ Kinds \subseteq {"rng", "key"}
  /\ "key" \in Kinds => \A c, d \in Cores : c = d
  /\ Faults \subseteq {"error", "null", "jre", "halt"}

Index == 0 .. SEC_JOB_RING_SIZE - 1

\* The code masks the sum: the size is a power of two.
SEC_CIRCULAR_COUNTER(i) == IF i = SEC_JOB_RING_SIZE - 1 THEN 0 ELSE i + 1

\* The slot n places after slot i.
Ahead(i, n) ==
  IF i + n < SEC_JOB_RING_SIZE THEN i + n ELSE i + n - SEC_JOB_RING_SIZE

VARIABLES
  g_driver_state,
  handle,      \* job_ring of fsl_sec.c is not NULL
  pidx, cidx,  \* producer and consumer index of the ring
  input_ring, output_ring,
  next,        \* engine: the slot of the next job
  added,       \* engine: jobs it was told of and has not run (IRJA)
  done,        \* engine: jobs it has run and the driver has not removed (ORSF)
  jre,         \* engine: job ring error (JRINT)
  rdsta,       \* engine: state handle 0 of the RNG is instantiated
  rand_byte,   \* the buffer of random bytes
  pc, call

ringVars == <<pidx, cidx, input_ring, output_ring>>
hwVars   == <<next, added, done, jre, rdsta>>
drvVars  == <<g_driver_state, handle>>
vars     == <<drvVars, ringVars, hwVars, rand_byte, pc, call>>

Job   == [kind : {"inst", "gen", "blob"}, by : Cores]
NoJob == [kind |-> "none", by |-> "none"]

Outcome == {"ok", "error", "null"}
Content == {"blank", "fresh", "handed"}

Label == {"idle", "rdsta", "inst", "enq", "write", "tell", "step", "deq",
          "poll", "entry", "ready", "copy", "flush"}

\* What a call keeps: the service it serves, the job it runs, the slot of the
\* job and whether the ring was empty then, the counters of its loops, the
\* buffer of a blob, and the answer, which stays until the next call.
Call == [want : {"none", "init", "release", "rng", "key"},
         job : {"inst", "gen", "blob"}, slot : Index, alone : BOOLEAN,
         polls : Nat, left : Nat, tries : Nat,
         blob : {"blank", "fresh"}, res : {"none", "fail", "done"} \cup Content]

NoCall == [want |-> "none", job |-> "inst", slot |-> 0, alone |-> FALSE,
           polls |-> 0, left |-> 0, tries |-> 0, blob |-> "blank", res |-> "none"]

TypeOK ==
  /\ g_driver_state \in {"IDLE", "STARTED", "RELEASE"}
  /\ handle \in BOOLEAN
  /\ pidx \in Index
  /\ cidx \in Index
  /\ input_ring \in [Index -> Job \cup {NoJob}]
  /\ output_ring \in [Index -> Outcome]
  /\ next \in Index
  /\ added \in 0 .. SEC_JOB_RING_SIZE
  /\ done \in 0 .. SEC_JOB_RING_SIZE
  /\ jre \in BOOLEAN
  /\ rdsta \in BOOLEAN
  /\ rand_byte \in Content
  /\ pc \in [Cores -> Label]
  /\ call \in [Cores -> Call]

Init ==
  /\ g_driver_state = "IDLE"
  /\ handle = FALSE
  /\ pidx = 0
  /\ cidx = 0
  /\ input_ring = [i \in Index |-> NoJob]
  /\ output_ring = [i \in Index |-> "null"]
  /\ next = 0
  /\ added = 0
  /\ done = 0
  /\ jre = FALSE
  /\ rdsta \in BOOLEAN
  /\ rand_byte = "blank"
  /\ pc = [c \in Cores |-> "idle"]
  /\ call = [c \in Cores |-> NoCall]

At(c, l)   == pc[c] = l
Goto(c, l) == pc' = [pc EXCEPT ![c] = l]

Answer(c, r) ==
  /\ Goto(c, "idle")
  /\ call' = [call EXCEPT ![c] = [NoCall EXCEPT !.want = call[c].want,
                                                !.alone = call[c].alone,
                                                !.res = r]]

RunJob(c, k) ==
  /\ Goto(c, "enq")
  /\ call' = [call EXCEPT ![c].job = k]

\* run_descriptor_jr returns -1: hw_rng_instantiate tries again with a longer
\* entropy delay, any other caller fails.
JobFails(c) ==
  IF call[c].job = "inst" /\ call[c].tries < TRIES
  THEN /\ Goto(c, "enq")
       /\ call' = [call EXCEPT ![c].tries = @ + 1, ![c].polls = 0, ![c].left = 0]
  ELSE Answer(c, "fail")

\* run_descriptor_jr returns 0.
JobSucceeds(c) ==
  IF call[c].job = "inst" /\ call[c].want = "init"
  THEN Answer(c, "done")
  ELSE /\ Goto(c, IF call[c].job = "inst" THEN "ready" ELSE "copy")
       /\ UNCHANGED call

\* A boot core initialises the driver before it starts the other cores, and
\* tears it down when it is alone.
Exclusive ==
  \E c \in Cores : pc[c] # "idle" /\ call[c].want \in {"init", "release"}

-----------------------------------------------------------------------------
(* The driver: initialisation and release.                                 *)

SecInit(c) ==
  /\ \A d \in Cores : At(d, "idle")
  /\ g_driver_state = "IDLE"
  /\ g_driver_state' = "STARTED"
  /\ pidx' = 0
  /\ cidx' = 0
  /\ input_ring' = [i \in Index |-> NoJob]
  /\ output_ring' = [i \in Index |-> "null"]
  /\ \/ /\ handle' = TRUE
        /\ next' = 0
        /\ added' = 0
        /\ done' = 0
        /\ jre' = FALSE
        /\ Goto(c, "inst")
        /\ call' = [call EXCEPT ![c] = [NoCall EXCEPT !.want = "init"]]
     \/ /\ "halt" \in Faults
        /\ handle' = FALSE
        /\ call' = [call EXCEPT ![c] = [NoCall EXCEPT !.want = "init",
                                                      !.res = "fail"]]
        /\ UNCHANGED <<next, added, done, jre, pc>>
  /\ UNCHANGED <<rdsta, rand_byte>>

SecRelease(c) ==
  /\ \A d \in Cores : At(d, "idle")
  /\ g_driver_state = "STARTED"
  /\ g_driver_state' = "RELEASE"
  /\ Goto(c, "flush")
  /\ call' = [call EXCEPT ![c] = [NoCall EXCEPT !.want = "release"]]
  /\ UNCHANGED <<handle, ringVars, hwVars, rand_byte>>

\* Mutant: jobs are discarded without moving the consumer index.
FlushMutant(c) ==
  /\ At(c, "flush")
  /\ pidx # cidx
  /\ done' = 0
  /\ UNCHANGED <<drvVars, ringVars, next, added, jre, rdsta, rand_byte, pc, call>>

\* One round of flush_job_rings: the jobs that are done are discarded.
Flush(c) ==
  /\ At(c, "flush")
  /\ pidx # cidx
  /\ cidx' = Ahead(cidx, done)
  /\ done' = 0
  /\ UNCHANGED <<drvVars, pidx, input_ring, output_ring, next, added, jre, rdsta,
                 rand_byte, pc, call>>

\* The answer of shutdown_job_ring is not looked at.
Shutdown(c) ==
  /\ At(c, "flush")
  /\ pidx = cidx
  /\ g_driver_state' = "IDLE"
  /\ \/ /\ next' = 0
        /\ added' = 0
        /\ done' = 0
        /\ jre' = FALSE
     \/ /\ "halt" \in Faults
        /\ UNCHANGED <<next, added, done, jre>>
  /\ Answer(c, "done")
  /\ UNCHANGED <<handle, ringVars, rdsta, rand_byte>>

-----------------------------------------------------------------------------
(* enq_jr_desc and dequeue_jr, as run_descriptor_jr calls them.            *)

\* Mutant: the ring is called full one slot too late.
SEC_JOB_RING_IS_FULL_Mutant == pidx = cidx /\ done > 0

SEC_JOB_RING_IS_FULL == SEC_CIRCULAR_COUNTER(pidx) = cidx

\* Without a job ring enq_jr_desc reads the state of the ring at address 0:
\* whatever it finds, dequeue_jr tests the handle and the call fails.
EnqCheck(c) ==
  /\ At(c, "enq")
  /\ IF g_driver_state # "STARTED" \/ ~handle \/ SEC_JOB_RING_IS_FULL
     THEN JobFails(c)
     ELSE Goto(c, "write") /\ UNCHANGED call
  /\ UNCHANGED <<drvVars, ringVars, hwVars, rand_byte>>

EnqWrite(c) ==
  /\ At(c, "write")
  /\ input_ring' = [input_ring EXCEPT ![pidx] = [kind |-> call[c].job, by |-> c]]
  /\ call' = [call EXCEPT ![c].slot = pidx, ![c].alone = (pidx = cidx)]
  /\ Goto(c, "tell")
  /\ UNCHANGED <<drvVars, pidx, cidx, output_ring, hwVars, rand_byte>>

\* The engine takes no more jobs than its ring has slots.
EnqTell(c) ==
  /\ At(c, "tell")
  /\ IF added + done < SEC_JOB_RING_SIZE
     THEN added' = added + 1 /\ UNCHANGED jre
     ELSE jre' = TRUE /\ UNCHANGED added
  /\ Goto(c, "step")
  /\ UNCHANGED <<drvVars, ringVars, next, done, rdsta, rand_byte, call>>

\* Mutant: the index is not wrapped.
EnqStepMutant(c) ==
  /\ At(c, "step")
  /\ pidx' = pidx + 1
  /\ Goto(c, "deq")
  /\ UNCHANGED <<drvVars, cidx, input_ring, output_ring, hwVars, rand_byte, call>>

EnqStep(c) ==
  /\ At(c, "step")
  /\ pidx' = SEC_CIRCULAR_COUNTER(pidx)
  /\ Goto(c, "deq")
  /\ UNCHANGED <<drvVars, cidx, input_ring, output_ring, hwVars, rand_byte, call>>

DeqCheck(c) ==
  /\ At(c, "deq")
  /\ IF g_driver_state # "STARTED"
     THEN JobFails(c)
     ELSE /\ Goto(c, "poll")
          /\ call' = [call EXCEPT ![c].polls = 0]
  /\ UNCHANGED <<drvVars, ringVars, hwVars, rand_byte>>

\* Mutant: run_descriptor_jr takes "no job was notified" for success.
PollAgainMutant(c) ==
  IF call[c].polls + 1 = POLLS
  THEN JobSucceeds(c)
  ELSE /\ Goto(c, "poll")
       /\ call' = [call EXCEPT ![c].polls = @ + 1, ![c].left = 0]

\* The end of a round of dequeue_jr that was told of no job.
PollAgain(c) ==
  IF call[c].polls + 1 = POLLS
  THEN JobFails(c)
  ELSE /\ Goto(c, "poll")
       /\ call' = [call EXCEPT ![c].polls = @ + 1, ![c].left = 0]

Poll(c) ==
  /\ At(c, "poll")
  /\ \/ jre /\ JobFails(c)
     \/ ~jre /\ done = 0 /\ PollAgain(c)
     \/ /\ ~jre /\ done > 0
        /\ Goto(c, "entry")
        /\ call' = [call EXCEPT ![c].left = done]
  /\ UNCHANGED <<drvVars, ringVars, hwVars, rand_byte>>

\* The entry at cidx leaves the output ring.
Remove ==
  /\ cidx' = SEC_CIRCULAR_COUNTER(cidx)
  /\ IF done > 0 THEN done' = done - 1 /\ UNCHANGED jre
                 ELSE jre' = TRUE /\ UNCHANGED done
  /\ UNCHANGED <<drvVars, pidx, input_ring, output_ring, next, added, rdsta,
                 rand_byte>>

\* Mutant: a round that meets an entry without descriptor is not counted.
EntryNullMutant(c) ==
  /\ At(c, "entry")
  /\ output_ring[cidx] = "null"
  /\ Goto(c, "poll")
  /\ call' = [call EXCEPT ![c].left = 0]
  /\ UNCHANGED <<drvVars, ringVars, hwVars, rand_byte>>

\* hw_poll_job_ring answers 0 for an entry without descriptor and leaves it
\* where it is, whatever it has notified before.
EntryNull(c) ==
  /\ At(c, "entry")
  /\ output_ring[cidx] = "null"
  /\ PollAgain(c)
  /\ UNCHANGED <<drvVars, ringVars, hwVars, rand_byte>>

\* Mutant: a failed job is not removed from the engine's count.
EntryErrorMutant(c) ==
  /\ At(c, "entry")
  /\ output_ring[cidx] = "error"
  /\ cidx' = SEC_CIRCULAR_COUNTER(cidx)
  /\ JobFails(c)
  /\ UNCHANGED <<drvVars, pidx, input_ring, output_ring, hwVars, rand_byte>>

EntryError(c) ==
  /\ At(c, "entry")
  /\ output_ring[cidx] = "error"
  /\ Remove
  /\ JobFails(c)

\* Any job that was notified makes run_descriptor_jr succeed.
EntryOk(c) ==
  /\ At(c, "entry")
  /\ output_ring[cidx] = "ok"
  /\ Remove
  /\ IF call[c].left > 1
     THEN /\ call' = [call EXCEPT ![c].left = @ - 1]
          /\ UNCHANGED pc
     ELSE JobSucceeds(c)

-----------------------------------------------------------------------------
(* The services.                                                           *)

GetRng(c) ==
  /\ At(c, "idle")
  /\ "rng" \in Kinds
  /\ ~Exclusive
  /\ Goto(c, "rdsta")
  /\ call' = [call EXCEPT ![c] = [NoCall EXCEPT !.want = "rng"]]
  /\ UNCHANGED <<drvVars, ringVars, hwVars, rand_byte>>

\* The buffers of a key are allocated for the call; what is in the output
\* buffer then, cleared only in part, is no key.
GetKey(c) ==
  /\ At(c, "idle")
  /\ "key" \in Kinds
  /\ ~Exclusive
  /\ Goto(c, "enq")
  /\ call' = [call EXCEPT ![c] = [NoCall EXCEPT !.want = "key", !.job = "blob"]]
  /\ UNCHANGED <<drvVars, ringVars, hwVars, rand_byte>>

\* First look of get_rand_bytes_hw at the state handle.
RngCheck(c) ==
  /\ At(c, "rdsta")
  /\ Goto(c, IF rdsta THEN "ready" ELSE "inst")
  /\ UNCHANGED <<drvVars, ringVars, hwVars, rand_byte, call>>

\* hw_rng_instantiate: nothing to do, or the first round.
Instantiate(c) ==
  /\ At(c, "inst")
  /\ IF ~rdsta
     THEN /\ Goto(c, "enq")
          /\ call' = [call EXCEPT ![c].job = "inst", ![c].tries = 1]
     ELSE IF call[c].want = "init"
          THEN Answer(c, "done")
          ELSE Goto(c, "ready") /\ UNCHANGED call
  /\ UNCHANGED <<drvVars, ringVars, hwVars, rand_byte>>

\* Second look of get_rand_bytes_hw.
RngReady(c) ==
  /\ At(c, "ready")
  /\ IF rdsta THEN RunJob(c, "gen") ELSE Answer(c, "fail")
  /\ UNCHANGED <<drvVars, ringVars, hwVars, rand_byte>>

\* _get_RNG hands out the static buffer.  Its memset(rand_byte, 64, 0) sets no
\* byte, so the last number stays there until a job writes another.
CopyRng(c) ==
  /\ At(c, "copy")
  /\ call[c].want = "rng"
  /\ Answer(c, rand_byte)
  /\ rand_byte' = IF rand_byte = "fresh" THEN "handed" ELSE rand_byte
  /\ UNCHANGED <<drvVars, ringVars, hwVars>>

CopyKey(c) ==
  /\ At(c, "copy")
  /\ call[c].want = "key"
  /\ Answer(c, call[c].blob)
  /\ UNCHANGED <<drvVars, ringVars, hwVars, rand_byte>>

-----------------------------------------------------------------------------
(* The engine (external).                                                  *)

\* The engine runs the job of the next slot, writes what the job produces and
\* then its entry.
HwRun(o) ==
  LET j == input_ring[next]
      own(c) == /\ j.by = c /\ j.kind = "blob"
                /\ call[c].slot = next /\ pc[c] \in {"step", "deq", "poll", "entry"}
  IN /\ added > 0
     /\ output_ring' = [output_ring EXCEPT ![next] = o]
     /\ next' = SEC_CIRCULAR_COUNTER(next)
     /\ added' = added - 1
     /\ done' = done + 1
     /\ rdsta' = (rdsta \/ (o # "error" /\ j.kind = "inst"))
     /\ rand_byte' = IF o # "error" /\ j.kind = "gen" THEN "fresh" ELSE rand_byte
     /\ call' = [c \in Cores |->
                   IF o # "error" /\ own(c) THEN [call[c] EXCEPT !.blob = "fresh"]
                                            ELSE call[c]]
     /\ UNCHANGED <<drvVars, pidx, cidx, input_ring, jre, pc>>

\* The outcomes a run of the next job may have: the engine has no descriptor
\* to run in a slot that was never written.
HwOutcome ==
  IF input_ring[next] = NoJob THEN {"null"}
  ELSE {"ok"} \cup (Faults \cap {"error", "null"})

HwNext == added > 0 /\ \E o \in HwOutcome : HwRun(o)

HwRingError ==
  /\ "jre" \in Faults
  /\ ~jre
  /\ jre' = TRUE
  /\ UNCHANGED <<drvVars, ringVars, next, added, done, rdsta, rand_byte, pc, call>>

-----------------------------------------------------------------------------
Step(c) ==
  \/ Flush(c) \/ Shutdown(c)
  \/ EnqCheck(c) \/ EnqWrite(c) \/ EnqTell(c) \/ EnqStep(c)
  \/ DeqCheck(c) \/ Poll(c) \/ EntryNull(c) \/ EntryError(c) \/ EntryOk(c)
  \/ RngCheck(c) \/ Instantiate(c) \/ RngReady(c) \/ CopyRng(c) \/ CopyKey(c)

Enter(c) == SecInit(c) \/ SecRelease(c) \/ GetRng(c) \/ GetKey(c)

Next ==
  \/ \E c \in Cores : Step(c) \/ Enter(c)
  \/ HwNext
  \/ HwRingError

Spec == Init /\ [][Next]_vars

\* EL3 is not preempted, so a call in progress goes on; the engine runs the
\* jobs it was told of, after any delay.
FairSpec ==
  /\ Spec
  /\ \A c \in Cores : WF_vars(Step(c))
  /\ WF_vars(HwNext)
-----------------------------------------------------------------------------
(* Properties.                                                             *)

\* Jobs in the ring that the engine has been told of and the driver has not
\* stepped over yet.
Told == IF \E c \in Cores : At(c, "step") THEN 1 ELSE 0

\* The driver's two indices and the engine's counts agree: the driver's test
\* for a full ring (sec_jr_driver.c:235) and for an empty one
\* (sec_hw_specific.c:572) see what the engine really holds, through give-ups,
\* failed jobs, releases and resets that fail.
RingIsCounted ==
  handle /\ g_driver_state # "IDLE" =>
    /\ added + done < SEC_JOB_RING_SIZE
    /\ next = Ahead(cidx, done)
    /\ Ahead(pidx, Told) = Ahead(next, added)

\* A ring of slots and indices, of which each side moves one, is a queue: no
\* job is lost, run twice or overwritten, and outcomes come in order
\* (sec_jr_driver.c:217, sec_hw_specific.c:458).
Waiting  == [i \in 1 .. added |-> input_ring[Ahead(next, i - 1)]]
Finished == [i \in 1 .. done |-> output_ring[Ahead(cidx, i - 1)]]

Queue == INSTANCE JobQueue WITH
           Capacity <- SEC_JOB_RING_SIZE - 1,
           waiting <- Waiting,
           finished <- Finished

RingIsQueue == Queue!Spec

Answered(c, want) == At(c, "idle") /\ call[c].want = want
FreshOrFailed(c)  == call[c].res \in {"fail", "fresh"}

\* A call that found the ring empty waits for its own job: it fails, or hands
\* out what that job produced and nobody has been given before
\* (fsl_sec.c:233-268, rng.c:240, hw_key_blob.c:58).
LoneAnswerIsFresh ==
  \A c \in Cores : \A want \in {"rng", "key"} :
    Answered(c, want) /\ call[c].alone => FreshOrFailed(c)

\* A key that get_hw_unq_key_blob_hw answers with success is one the engine
\* produced for this call (hw_key_blob.c:55-56).
KeyIsProduced == \A c \in Cores : Answered(c, "key") => FreshOrFailed(c)

\* A random number is handed out once (fsl_sec.c:270).
NumberIsNew == \A c \in Cores : Answered(c, "rng") => FreshOrFailed(c)

\* Every call returns, whatever the engine does: the polls and the rounds of
\* the RNG are bounded (sec_jr_driver.c:185, rng.c:214).
CallsReturn ==
  \A c \in Cores :
    (pc[c] \notin {"idle", "flush"}) ~> At(c, "idle")

\* A release ends once the engine has run what it was told of, with jobs of
\* calls that gave up and with entries that carry no descriptor
\* (sec_hw_specific.c:562).
ReleaseEnds == \A c \in Cores : At(c, "flush") ~> g_driver_state = "IDLE"
=============================================================================
