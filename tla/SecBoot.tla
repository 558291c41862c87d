------------------------------ MODULE SecBoot ------------------------------
(***************************************************************************)
(* The bring-up of the SEC engine by the boot core: sec_init() of          *)
(* drivers/fsl_sec with the reset of its job ring, the TrustZone bit of    *)
(* the ring and the search for an entropy delay at which the RNG           *)
(* instantiates.  JobRing has the ring in use, by many cores.              *)
(***************************************************************************)
EXTENDS Integers, Sequences

CONSTANTS
  SecEngines,    \* what an engine is like and what an earlier boot stage left in it
  SEC_TIMEOUT,   \* polls of a flush or a reset (100000 in the code)
  SecLates       \* bound: jobs that end after their caller has given up

ASSUME SecBootAssumption ==
  /\ \A engine \in SecEngines : engine.needs \in Nat
  /\ SEC_TIMEOUT \in Nat \ {0} /\ SecLates \in Nat

VARIABLES
  secEngine,   \* engine: how it was built, and the entropy delay it needs
  secRegs,     \* engine: attributes, start and TrustZone bits, state of the ring
  trng,        \* engine: the entropy source
  handles,     \* engine: state handles of the RNG that are instantiated
  secRing,     \* jobs in the ring: "run" or how they ended
  secBoot,     \* the call: its place, polls left, next delay, job_ring # NULL, jobs given up, answer
  secTried     \* history: the delays tried

secBootVars == <<secEngine, secRegs, trng, handles, secRing, secBoot, secTried>>

RTSDCTL_ENT_DLY_MIN == 3200
RTSDCTL_ENT_DLY_MAX == 12800
RTFRQMAX_DISABLE == 2 ^ 20

SecBootInit ==
  /\ secEngine \in SecEngines
  /\ secRegs = [awcache |-> 0, arcache |-> 0, ps |-> FALSE, start |-> {}, tz |-> {}, ring |-> "unset"]
  /\ trng = [prgm |-> FALSE, delay |-> 200, frqmin |-> 0, frqmax |-> 0, raw |-> FALSE]
  /\ handles = secEngine.handles
  /\ secRing = secEngine.left
  /\ secBoot = [pc |-> "sec_init", polls |-> 0, delay |-> 0, job_ring |-> FALSE, late |-> 0, res |-> 1]
  /\ secTried = <<>>

SecAt(place) == secBoot.pc = place
SecEnds(result) == secBoot' = [secBoot EXCEPT !.pc = "end", !.res = result]

-----------------------------------------------------------------------------
(* The job ring.  DEFAULT_JR is 3.                                         *)

DEFAULT_JR == 3

\* A ring of a virtualised engine must be started.
Started(engine) == engine.por \/ (engine.inc /\ engine.scfgr)

start_jr(num, engine, started) == IF Started(engine) THEN started \cup {num} ELSE started

\* sec_init() up to the reset of the ring, whose flush the last write asks for.
ConfigureJr ==
  /\ SecAt("sec_init")
  /\ secRegs' = [secRegs EXCEPT !.awcache = IF secEngine.soc = "ls2088" THEN 11 ELSE 2,
                                !.arcache = IF secEngine.soc = "ls2088" THEN 6 ELSE @,
                                !.ps = TRUE,
                                !.start = start_jr(DEFAULT_JR, secEngine, @)]
  /\ secBoot' = [secBoot EXCEPT !.pc = "flush", !.polls = SEC_TIMEOUT]
  /\ UNCHANGED <<secEngine, trng, handles, secRing, secTried>>

\* Still at it: the poll is counted, and the last one that counts ends the call.
PollRing ==
  /\ SecAt("flush") \/ SecAt("reset")
  /\ IF secBoot.polls = 1 THEN SecEnds(-1)
     ELSE secBoot' = [secBoot EXCEPT !.polls = @ - 1]
  /\ UNCHANGED <<secEngine, secRegs, trng, handles, secRing, secTried>>

\* The flush ends, with the ring halted or not.
Flushed ==
  /\ SecAt("flush")
  /\ \E halted \in BOOLEAN :
       IF halted
       THEN /\ secBoot' = [secBoot EXCEPT !.pc = "reset", !.polls = SEC_TIMEOUT]
            /\ secRegs' = [secRegs EXCEPT !.ring = "halted"]
       ELSE SecEnds(-1) /\ UNCHANGED secRegs
  /\ UNCHANGED <<secEngine, trng, handles, secRing, secTried>>

config_tz(num, tz) == IF num \in 0..3 THEN tz \cup {num} ELSE tz

\* The reset has emptied the ring: hw_reset_job_ring() writes sizes and addresses,
\* init_job_ring() starts the software's side, config_tz() gives it to the secure world.
Configure ==
  /\ SecAt("reset")
  /\ secRing' = <<>>
  /\ secRegs' = [secRegs EXCEPT !.ring = "started", !.tz = config_tz(DEFAULT_JR, @)]
  /\ secBoot' = [secBoot EXCEPT !.pc = "rng", !.job_ring = TRUE]
  /\ UNCHANGED <<secEngine, trng, handles, secTried>>

-----------------------------------------------------------------------------
(* The random number generator.                                            *)

\* Both branches of the code look at state handle 0.
is_hw_rng_instantiated == 0 \in handles

HwRngInstantiate ==
  /\ SecAt("rng")
  /\ IF is_hw_rng_instantiated THEN SecEnds(0)
     ELSE secBoot' = [secBoot EXCEPT !.pc = "try", !.delay = RTSDCTL_ENT_DLY_MIN]
  /\ UNCHANGED <<secEngine, secRegs, trng, handles, secRing, secTried>>

kick_trng(ent_delay) ==
  [trng EXCEPT !.prgm = FALSE, !.delay = ent_delay, !.frqmin = ent_delay \div 4,
               !.frqmax = RTFRQMAX_DISABLE, !.raw = TRUE]

\* One round up to the job in the ring; the ring is never full here.
Try ==
  /\ SecAt("try")
  /\ trng' = kick_trng(secBoot.delay)
  /\ secRing' = Append(secRing, "run")
  /\ secTried' = Append(secTried, secBoot.delay)
  /\ secBoot' = [secBoot EXCEPT !.pc = "poll", !.delay = @ + 400]
  /\ UNCHANGED <<secEngine, secRegs, handles>>

\* Mutant: the loop ends one delay early.
RetryMutant(ret, late) ==
  IF ret = -1 /\ secBoot.delay + 400 < RTSDCTL_ENT_DLY_MAX
  THEN secBoot' = [secBoot EXCEPT !.pc = "try", !.late = late]
  ELSE secBoot' = [secBoot EXCEPT !.pc = "end", !.late = late, !.res = ret]

\* The end of a round of hw_rng_instantiate() and of sec_init().
Retry(ret, late) ==
  IF ret = -1 /\ secBoot.delay < RTSDCTL_ENT_DLY_MAX
  THEN secBoot' = [secBoot EXCEPT !.pc = "try", !.late = late]
  ELSE secBoot' = [secBoot EXCEPT !.pc = "end", !.late = late, !.res = ret]

\* run_descriptor_jr() takes the jobs that have ended: the first error ends its look at the
\* ring, and any job in time for its own.
Poll ==
  /\ SecAt("poll")
  /\ secRing # <<>> /\ secRing[1] # "run"
  /\ LET ended == CHOOSE n \in 1..Len(secRing) :
                    /\ \A i \in 1..n : secRing[i] # "run"
                    /\ n < Len(secRing) => secRing[n + 1] = "run"
         bad   == {i \in 1..ended : secRing[i] = "error"}
         taken == IF bad = {} THEN ended ELSE CHOOSE i \in bad : \A j \in bad : i <= j
     IN  /\ secRing' = SubSeq(secRing, taken + 1, Len(secRing))
         /\ Retry(IF bad = {} THEN 0 ELSE -1, secBoot.late)
  /\ UNCHANGED <<secEngine, secRegs, trng, handles, secTried>>

\* No job ended while it polled: the job stays in the ring.
GiveUp ==
  /\ SecAt("poll")
  /\ secRing[1] = "run"
  /\ secBoot.late < SecLates
  /\ Retry(-1, secBoot.late + 1)
  /\ UNCHANGED <<secEngine, secRegs, trng, handles, secRing, secTried>>

\* External: the engine runs the next job. It instantiates handle 0 when the samples are long
\* enough, and refuses a handle that is.
SecRuns ==
  /\ \E n \in 1..Len(secRing) :
       /\ secRing[n] = "run" /\ \A i \in 1..(n - 1) : secRing[i] # "run"
       /\ LET good == trng.delay >= secEngine.needs /\ 0 \notin handles
          IN  /\ secRing' = [secRing EXCEPT ![n] = IF good THEN "ok" ELSE "error"]
              /\ handles' = IF good THEN handles \cup {0} ELSE handles
  /\ SecAt("try") \/ SecAt("poll")
  /\ UNCHANGED <<secEngine, secRegs, trng, secBoot, secTried>>

SecBootNext ==
  \/ ConfigureJr \/ PollRing \/ Flushed \/ Configure
  \/ HwRngInstantiate \/ Try \/ Poll \/ GiveUp \/ SecRuns

SecBootSpec == SecBootInit /\ [][SecBootNext]_secBootVars

-----------------------------------------------------------------------------
\* The delays that hw_rng_instantiate() has before it gives up.
Delays == [i \in 1..24 |-> RTSDCTL_ENT_DLY_MIN + 400 * (i - 1)]

\* sec_init() that succeeds leaves a ring that is empty of what an earlier boot stage had in it, that
\* runs and that the normal world cannot use, before the first job is in it, and state handle 0
\* instantiated.  It fails to instantiate only when no delay was enough, or a job was given up that had
\* instantiated the handle; and as long as no job is given up it stops at the least delay that is enough.
SecIsReady ==
  /\ secTried # <<>> \/ secBoot.res = 0 =>
       /\ secBoot.job_ring /\ secRegs.ring = "started" /\ DEFAULT_JR \in secRegs.tz
       /\ Started(secEngine) => DEFAULT_JR \in secRegs.start
       /\ Len(secRing) <= secBoot.late + 1
  /\ secBoot.res = 0 => 0 \in handles
  /\ secTried = SubSeq(Delays, 1, Len(secTried))
  /\ secTried # <<>> /\ secBoot.res = -1 =>
       secTried = Delays /\ (secEngine.needs <= Delays[24] => secBoot.late > 0)
  /\ secTried # <<>> /\ secBoot.res = 0 /\ secBoot.late = 0 =>
       /\ secEngine.needs <= secTried[Len(secTried)]
       /\ \A i \in 1..(Len(secTried) - 1) : secTried[i] < secEngine.needs
=============================================================================
