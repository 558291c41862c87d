------------------------------ MODULE HashDrbg ------------------------------
(***************************************************************************)
(* The random numbers of the SIP_PRNG call: drivers/hash_drbg.             *)
(*                                                                         *)
(* Every core reaches get_rand_bytes() through the monitor, and one DRBG   *)
(* instance in the "glob" section serves them all without a lock.  An      *)
(* action is what a core does between two accesses to the instance that    *)
(* another core can come between.                                          *)
(*                                                                         *)
(* A value of V is named by the seed it grew from and the number of        *)
(* updates since; hash_gen() is a function of V, so a name of V also names *)
(* the block of random bytes made from it.  A seed is the ordinal of what  *)
(* get_entropy() returned, not its value: the code counts bytes (i++) and  *)
(* stores them in eight bits, so its values come round after 256.  The     *)
(* model says where a number comes from, never that two of them differ.    *)
(***************************************************************************)
EXTENDS Integers, FiniteSets

CONSTANTS
  DrbgCores,         \* the cores that call
  RESEED_MAX_SHORT,  \* reseed_interval of a new instance
  DrbgCalls,         \* bound: calls made by all cores together while none overlap
  DrbgRaces,         \* bound: calls made by all cores together once two have overlapped
  DrbgForms,         \* kinds of call: <<register width of the SMC, prngWidth>>
  SelfTestMayFail    \* whether sha256_ShortMsg() may report a failure

ASSUME DrbgAssumption ==
  /\ RESEED_MAX_SHORT \in Nat \ {0}
  /\ DrbgCalls \in Nat /\ DrbgRaces \in 0..DrbgCalls
  /\ DrbgForms \subseteq {32, 64} \X {32, 64}
  /\ SelfTestMayFail \in BOOLEAN
  /\ IsFiniteSet(DrbgCores)

VARIABLES
  instance,   \* HASH_DRBG_CTX
  entropyI,   \* the static counter of get_entropy(), in chunks of 32 bytes, from 1
  drbgPc,     \* where each core is
  call,       \* locals of the call each core is in
  calls,      \* number of calls begun
  served,     \* history: the blocks given out so far
  generated,  \* history: generate requests served from each seed
  alone       \* history: no two calls have ever overlapped

drbgVars == <<instance, entropyI, drbgPc, call, calls, served, generated, alone>>

UNINSTANTIATED == 0
INSTANTIATED   == 1
ERROR_FLAG     == 2

\* Nothing grew from the seed Zero: V, C and comp hold zeros.
Zero  == 0
Seed  == Nat
Block == [seed : Seed, step : Nat]
NoBlock == [seed |-> Zero, step |-> 0]

DrbgState == {UNINSTANTIATED, INSTANTIATED, ERROR_FLAG}

Context == [state : DrbgState, reseed_interval : Nat, reseed_count : Nat,
            V : Block, C : Seed, comp : Block]

DrbgPc == {"idle", "check", "instantiate", "entropy", "entropyDone", "begin", "setV", "setC",
           "ready", "generate", "reseed", "reseedEntropy", "reseedEntropyDone", "reseedV",
           "reseedC", "genAlg", "copyV", "compare", "emit", "hash", "add", "bump", "return"}

Call == [form : {32, 64} \X {32, 64}, nth : Nat, seed : Seed, data : Block, h : Block, count : Nat,
         ok : BOOLEAN, status : {"none", "success", "failure"}]

Fresh(f, n) == [form |-> f, nth |-> n, seed |-> Zero, data |-> NoBlock, h |-> NoBlock, count |-> 0,
             ok |-> FALSE, status |-> "none"]

DrbgInit ==
  /\ instance = [state |-> UNINSTANTIATED, reseed_interval |-> 0, reseed_count |-> 0,
                 V |-> NoBlock, C |-> Zero, comp |-> NoBlock]
  /\ entropyI = 1
  /\ drbgPc = [c \in DrbgCores |-> "idle"]
  /\ call = [c \in DrbgCores |-> Fresh(<<64, 64>>, 0)]
  /\ calls = 0
  /\ served = {}
  /\ generated = {}
  /\ alone = TRUE

-----------------------------------------------------------------------------

At(c, pc) == drbgPc[c] = pc
DrbgGoto(c, pc) == drbgPc' = [drbgPc EXCEPT ![c] = pc]
Give(c, ok) == DrbgGoto(c, "return") /\ call' = [call EXCEPT ![c].ok = ok]
Quiet == UNCHANGED <<calls, alone>>
Ghosts == UNCHANGED <<served, generated>>

\* _get_PRNG() with prngWidth, reached from SMC64 or SMC32.
GetPrng(c) ==
  /\ At(c, "idle")
  /\ alone' = (alone /\ \A d \in DrbgCores \ {c} : At(d, "idle"))
  /\ calls < (IF alone' THEN DrbgCalls ELSE DrbgRaces)
  /\ \E f \in DrbgForms : call' = [call EXCEPT ![c] = Fresh(f, calls + 1)]
  /\ calls' = calls + 1
  /\ DrbgGoto(c, "check")
  /\ Ghosts /\ UNCHANGED <<instance, entropyI>>

\* get_rand_bytes(): instantiate on the first call.
CheckUninstantiated(c) ==
  /\ At(c, "check")
  /\ DrbgGoto(c, IF instance.state = UNINSTANTIATED THEN "instantiate" ELSE "ready")
  /\ Quiet /\ Ghosts /\ UNCHANGED <<instance, entropyI, call>>

\* hash_drbg_instantiate(): the checks before entropy is drawn.
DrbgInstantiate(c) ==
  /\ At(c, "instantiate")
  /\ \/ instance.state # INSTANTIATED /\ DrbgGoto(c, "entropy") /\ UNCHANGED call
     \/ (instance.state = INSTANTIATED \/ SelfTestMayFail) /\ Give(c, FALSE)
  /\ Quiet /\ Ghosts /\ UNCHANGED <<instance, entropyI>>

\* get_entropy() reads the counter ...  (The code does so for each byte; all the bytes
\* of one request stand for one seed here.)
GetEntropy(c, from, to) ==
  /\ At(c, from)
  /\ call' = [call EXCEPT ![c].seed = entropyI]
  /\ DrbgGoto(c, to)
  /\ Quiet /\ Ghosts /\ UNCHANGED <<instance, entropyI>>

\* ... and stores it incremented: a core in between gets the same bytes.
StepEntropy(c, from, to, chunks) ==
  /\ At(c, from)
  /\ entropyI' = call[c].seed + chunks
  /\ DrbgGoto(c, to)
  /\ Quiet /\ Ghosts /\ UNCHANGED <<instance, call>>

\* Mutant: the state is set before there is anything in the instance.
BeginInstanceMutant(c) ==
  /\ At(c, "begin")
  /\ instance' = [instance EXCEPT !.state = INSTANTIATED, !.reseed_interval = RESEED_MAX_SHORT,
                                  !.reseed_count = 1]
  /\ DrbgGoto(c, "setV")
  /\ Quiet /\ Ghosts /\ UNCHANGED <<entropyI, call>>

\* hash_drbg_instantiate_alg(): ERROR until the instance is complete.
BeginInstance(c) ==
  /\ At(c, "begin")
  /\ instance' = [instance EXCEPT !.state = ERROR_FLAG, !.reseed_interval = RESEED_MAX_SHORT,
                                  !.reseed_count = 1]
  /\ DrbgGoto(c, "setV")
  /\ Quiet /\ Ghosts /\ UNCHANGED <<entropyI, call>>

\* V from the seed material, and so many generate requests of that seed so far: none.
SetV(c, from, to) ==
  /\ At(c, from)
  /\ instance' = [instance EXCEPT !.V = [seed |-> call[c].seed, step |-> 0]]
  /\ generated' = {g \in generated : g.seed # call[c].seed}
  /\ DrbgGoto(c, to)
  /\ Quiet /\ UNCHANGED <<entropyI, call, served>>

\* Mutant: the instance stays in its error state.
CompleteInstanceMutant(c) ==
  /\ At(c, "setC")
  /\ instance' = [instance EXCEPT !.C = instance.V.seed, !.comp = NoBlock]
  /\ DrbgGoto(c, "ready")
  /\ Quiet /\ Ghosts /\ UNCHANGED <<entropyI, call>>

\* C from V; comp cleared; the instance is complete.
CompleteInstance(c) ==
  /\ At(c, "setC")
  /\ instance' = [instance EXCEPT !.C = instance.V.seed, !.comp = NoBlock, !.state = INSTANTIATED]
  /\ DrbgGoto(c, "ready")
  /\ Quiet /\ Ghosts /\ UNCHANGED <<entropyI, call>>

\* A check of the state that a call in progress makes again and again.
CheckInstantiated(c, from, to) ==
  /\ At(c, from)
  /\ \/ instance.state = INSTANTIATED /\ DrbgGoto(c, to) /\ UNCHANGED call
     \/ instance.state # INSTANTIATED /\ Give(c, FALSE)
  /\ Quiet /\ Ghosts /\ UNCHANGED <<instance, entropyI>>

ReseedDue == instance.reseed_count > instance.reseed_interval

\* hash_drbg_generate(): reseed when the interval is used up; PRED_RES is 0.
Generate(c) ==
  /\ At(c, "generate")
  /\ \/ instance.state # INSTANTIATED /\ Give(c, FALSE)
     \/ /\ instance.state = INSTANTIATED
        /\ DrbgGoto(c, IF ReseedDue THEN "reseed" ELSE "genAlg")
        /\ UNCHANGED call
  /\ Quiet /\ Ghosts /\ UNCHANGED <<instance, entropyI>>

\* The check that opens hash_drbg_reseed_alg() goes with the write of V.
ReseedV(c) ==
  \/ instance.state = INSTANTIATED /\ SetV(c, "reseedV", "reseedC")
  \/ /\ At(c, "reseedV") /\ instance.state # INSTANTIATED
     /\ Give(c, FALSE)
     /\ Quiet /\ Ghosts /\ UNCHANGED <<instance, entropyI>>

\* C from V, and the count starts again.
ReseedC(c) ==
  /\ At(c, "reseedC")
  /\ instance' = [instance EXCEPT !.C = instance.V.seed, !.reseed_count = 1]
  /\ DrbgGoto(c, "genAlg")
  /\ Quiet /\ Ghosts /\ UNCHANGED <<entropyI, call>>

\* hash_gen() works on a copy of V; hash_drbg_generate_alg() looked at the state before.
CopyV(c) ==
  /\ At(c, "copyV")
  /\ call' = [call EXCEPT ![c].data = instance.V]
  /\ DrbgGoto(c, "compare")
  /\ Quiet /\ Ghosts /\ UNCHANGED <<instance, entropyI>>

\* The block is the one made before; no block equals a comp of zeros.
Repeats(c) == instance.comp # NoBlock /\ call[c].data = instance.comp

\* The continuous test: the block must differ from the one before.
Compare(c) ==
  /\ At(c, "compare")
  /\ \/ ~Repeats(c) /\ DrbgGoto(c, "emit") /\ UNCHANGED call
     \/ Repeats(c) /\ Give(c, FALSE)
  /\ Quiet /\ Ghosts /\ UNCHANGED <<instance, entropyI>>

Emit(c) ==
  /\ At(c, "emit")
  /\ instance' = [instance EXCEPT !.comp = call[c].data]
  /\ generated' = generated \cup {[seed |-> call[c].data.seed, nth |-> call[c].nth]}
  /\ DrbgGoto(c, "hash")
  /\ Quiet /\ UNCHANGED <<entropyI, call, served>>

\* H and the bytes to add to are taken from V as it is now.
HashV(c) ==
  /\ At(c, "hash")
  /\ call' = [call EXCEPT ![c].h = instance.V]
  /\ DrbgGoto(c, "add")
  /\ Quiet /\ Ghosts /\ UNCHANGED <<instance, entropyI>>

Updated(v) == [v EXCEPT !.step = @ + 1]

\* V = V + C + H + R byte by byte in place: the update of a core that runs
\* at the same time survives or is lost.
AddV(c) ==
  /\ At(c, "add")
  /\ \E v \in {instance.V, call[c].h} : instance' = [instance EXCEPT !.V = Updated(v)]
  /\ call' = [call EXCEPT ![c].count = instance.reseed_count]
  /\ DrbgGoto(c, "bump")
  /\ Quiet /\ Ghosts /\ UNCHANGED <<entropyI>>

\* Mutant: the request is not counted.
BumpMutant(c) ==
  /\ At(c, "bump")
  /\ instance' = [instance EXCEPT !.reseed_count = call[c].count]
  /\ Give(c, TRUE)
  /\ Quiet /\ Ghosts /\ UNCHANGED entropyI

\* reseed_count += 1 stores one more than was read.
Bump(c) ==
  /\ At(c, "bump")
  /\ instance' = [instance EXCEPT !.reseed_count = call[c].count + 1]
  /\ Give(c, TRUE)
  /\ Quiet /\ Ghosts /\ UNCHANGED entropyI

\* _get_PRNG() copies four or eight bytes, zeros after a failure, into an array of
\* eight and returns all eight: with prngWidth 0 the upper half is what was on the
\* stack.  smc64_sip_PRNG tests all of x1 against 0, smc32_sip_PRNG only the words
\* it was asked for.
Nonzero(f, ok, stack) == ok \/ (f = <<64, 32>> /\ stack)

DrbgReturn(c) ==
  /\ At(c, "return")
  /\ \E stack \in BOOLEAN :
       call' = [call EXCEPT ![c].status =
                  IF Nonzero(call[c].form, call[c].ok, stack) THEN "success" ELSE "failure"]
  /\ served' = IF call[c].ok THEN served \cup {call[c].data} ELSE served
  /\ DrbgGoto(c, "idle")
  /\ Quiet /\ UNCHANGED <<instance, entropyI, generated>>

DrbgStep(c) ==
  \/ CheckUninstantiated(c)
  \/ DrbgInstantiate(c)
  \/ GetEntropy(c, "entropy", "entropyDone")
  \/ StepEntropy(c, "entropyDone", "begin", 2)
  \/ BeginInstance(c)
  \/ SetV(c, "setV", "setC")
  \/ CompleteInstance(c)
  \/ CheckInstantiated(c, "ready", "generate")
  \/ Generate(c)
  \/ CheckInstantiated(c, "reseed", "reseedEntropy")
  \/ GetEntropy(c, "reseedEntropy", "reseedEntropyDone")
  \/ StepEntropy(c, "reseedEntropyDone", "reseedV", 1)
  \/ ReseedV(c)
  \/ ReseedC(c)
  \/ CheckInstantiated(c, "genAlg", "copyV")
  \/ CopyV(c)
  \/ Compare(c)
  \/ Emit(c)
  \/ HashV(c)
  \/ AddV(c)
  \/ Bump(c)
  \/ DrbgReturn(c)

DrbgNext == \E c \in DrbgCores : GetPrng(c) \/ DrbgStep(c)

DrbgSpec == DrbgInit /\ [][DrbgNext]_drbgVars
DrbgFair == \A c \in DrbgCores : WF_drbgVars(DrbgStep(c))

-----------------------------------------------------------------------------

\* Every variable has its type.
DrbgTypeOK ==
  /\ instance \in Context
  /\ entropyI \in Nat
  /\ drbgPc \in [DrbgCores -> DrbgPc]
  /\ call \in [DrbgCores -> Call]
  /\ calls \in 0..DrbgCalls
  /\ served \subseteq Block
  /\ generated \subseteq [seed : Seed, nth : 0..DrbgCalls]
  /\ alone \in BOOLEAN

\* A number is never made from a V that nothing was seeded into, although a
\* core may find the instance half built by another one.
NumbersAreSeeded == \A b \in served : b.seed # Zero

\* The instance is in its error state only while some core is building it: no
\* order of calls, failed or overlapping, leaves it there.
ErrorIsTransient ==
  instance.state = ERROR_FLAG => \E c \in DrbgCores : drbgPc[c] \in {"setV", "setC"}

\* The reseed interval is tested before the generate call and the count is bumped
\* after it: until two calls overlap a seed serves no more requests than its interval.
SeedIsUsedUp ==
  alone => \A s \in {g.seed : g \in generated} :
             Cardinality({g \in generated : g.seed = s}) <= RESEED_MAX_SHORT
=============================================================================
