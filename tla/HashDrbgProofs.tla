--------------------------- MODULE HashDrbgProofs ---------------------------
(***************************************************************************)
(* Proofs about the random numbers (HashDrbg), for any number of cores     *)
(* that share the instance without a lock and any number of calls.         *)
(*                                                                         *)
(* A core may find the instance half built by another one.  What saves it  *)
(* is the order of hash_drbg_instantiate_alg(): V is seeded before the     *)
(* state says INSTANTIATED, and V never returns to zeros.  So a core that  *)
(* has seen INSTANTIATED once, at any of the checks it makes, copies a V   *)
(* that was seeded, whatever the others do in between.                     *)
(*                                                                         *)
(* Calls that do not overlap promise more: no seed serves more requests    *)
(* than the reseed interval.  LoneInv counts the requests of a seed        *)
(* against the counter of the instance at each place of the one core that  *)
(* is inside.                                                              *)
(*                                                                         *)
(* The second part is about the bytes below (Sha256), for messages that    *)
(* come in pieces of any lengths.  ShaInv says that the context holds the  *)
(* message byte for byte, in the blocks that were transformed and in the   *)
(* front of its buffer.  What a recursive function computes is had from a  *)
(* closed form of it: a least place where the two differ does not exist.   *)
(***************************************************************************)
EXTENDS HashDrbg, Sha256, FiniteSetTheorems, NaturalsInduction, SequenceTheorems, TLAPS

\* The part of the type invariant that the arguments need.
DrbgTypes ==
  /\ instance \in Context
  /\ entropyI \in Nat
  /\ drbgPc \in [DrbgCores -> DrbgPc]
  /\ call \in [DrbgCores -> Call]

Holds(c, places) == drbgPc[c] \in places

\* A seed is never zero: get_entropy() counts from one.
SeedDrawn(c) ==
  Holds(c, {"entropyDone", "begin", "setV", "reseedEntropyDone", "reseedV"}) => call[c].seed # Zero

\* V is seeded from the time that a core has seeded it, or has seen INSTANTIATED.
VSeeded(c) ==
  Holds(c, {"setC", "generate", "reseed", "reseedEntropy", "reseedEntropyDone", "reseedV", "reseedC",
            "genAlg", "copyV", "compare", "emit", "hash", "add", "bump"}) => instance.V.seed # Zero

CopySeeded(c) ==
  /\ Holds(c, {"compare", "emit", "hash", "add", "bump"}) => call[c].data.seed # Zero
  /\ Holds(c, {"return"}) /\ call[c].ok => call[c].data.seed # Zero
  /\ Holds(c, {"add"}) => call[c].h.seed # Zero

CoreSeeded(c) == SeedDrawn(c) /\ VSeeded(c) /\ CopySeeded(c)

InstanceSeeded ==
  /\ entropyI # 0
  /\ instance.state = INSTANTIATED => instance.V.seed # Zero
  /\ NumbersAreSeeded

SeededInv == DrbgTypes /\ InstanceSeeded /\ \A c \in DrbgCores : CoreSeeded(c)

-----------------------------------------------------------------------------
(* Types.                                                                  *)

LEMMA FieldTypes ==
  ASSUME DrbgTypes, NEW c \in DrbgCores
  PROVE  /\ call[c] \in Call /\ call[c].seed \in Nat /\ call[c].data \in Block /\ call[c].h \in Block
         /\ call[c].count \in Nat /\ call[c].nth \in Nat
         /\ instance.V \in Block /\ instance.V.seed \in Nat /\ instance.V.step \in Nat
         /\ instance.reseed_count \in Nat
BY DEF DrbgTypes, Call, Context, Block, Seed

LEMMA GotoType ==
  ASSUME DrbgTypes, NEW c \in DrbgCores, NEW pc \in DrbgPc, DrbgGoto(c, pc)
  PROVE  /\ drbgPc' \in [DrbgCores -> DrbgPc]
         /\ drbgPc'[c] = pc
         /\ \A d \in DrbgCores \ {c} : drbgPc'[d] = drbgPc[d]
BY DEF DrbgTypes, DrbgGoto

LEMMA GiveType ==
  ASSUME DrbgTypes, NEW c \in DrbgCores, NEW ok \in BOOLEAN, Give(c, ok)
  PROVE  /\ drbgPc' \in [DrbgCores -> DrbgPc] /\ call' \in [DrbgCores -> Call]
         /\ drbgPc'[c] = "return" /\ call'[c].ok = ok /\ call'[c].data = call[c].data
         /\ \A d \in DrbgCores \ {c} : drbgPc'[d] = drbgPc[d] /\ call'[d] = call[d]
<1>1. "return" \in DrbgPc
  BY DEF DrbgPc
<1>2. DrbgGoto(c, "return") /\ call' = [call EXCEPT ![c].ok = ok]
  BY DEF Give
<1>3. [call[c] EXCEPT !.ok = ok] \in Call
  BY FieldTypes DEF Call
<1>4. call' \in [DrbgCores -> Call]
  BY <1>2, <1>3 DEF DrbgTypes
<1>5. call'[c] = [call[c] EXCEPT !.ok = ok]
  BY <1>2 DEF DrbgTypes
<1>6. call'[c].ok = ok /\ call'[c].data = call[c].data
  BY <1>5, FieldTypes DEF Call
<1> QED
  BY <1>1, <1>2, <1>4, <1>6, GotoType DEF DrbgTypes

\* The locals of a call after one of them changed.
LEMMA CallType ==
  ASSUME DrbgTypes, NEW c \in DrbgCores, NEW new \in Call, call' = [call EXCEPT ![c] = new]
  PROVE  /\ call' \in [DrbgCores -> Call]
         /\ call'[c] = new
         /\ \A d \in DrbgCores \ {c} : call'[d] = call[d]
BY DEF DrbgTypes

-----------------------------------------------------------------------------
(* One step of one core.                                                   *)

\* What a step of c owes to the invariant: its own facts, those of the instance, and that the facts of
\* the other cores are left alone.
StepIsSeeded(c) ==
  /\ DrbgTypes'
  /\ InstanceSeeded'
  /\ CoreSeeded(c)'
  /\ instance.V.seed # Zero => instance'.V.seed # Zero
  /\ \A d \in DrbgCores \ {c} : drbgPc'[d] = drbgPc[d] /\ call'[d] = call[d]

\* A step that only moves on, to a place where no more is known of the call.
LEMMA MoveIsSeeded ==
  ASSUME SeededInv, NEW c \in DrbgCores, NEW pc \in DrbgPc, DrbgGoto(c, pc),
         UNCHANGED <<instance, entropyI, call, served>>,
         pc \in {"setV", "begin", "entropyDone", "reseedEntropyDone", "reseedV"} => call[c].seed # Zero,
         pc \in {"setC", "generate", "reseed", "reseedEntropy", "reseedEntropyDone", "reseedV", "reseedC",
                 "genAlg", "copyV", "compare", "emit", "hash", "add", "bump"} => instance.V.seed # Zero,
         pc \in {"compare", "emit", "hash", "add", "bump"} => call[c].data.seed # Zero,
         pc \notin {"return", "add"}
  PROVE  StepIsSeeded(c)
<1>1. /\ drbgPc' \in [DrbgCores -> DrbgPc] /\ drbgPc'[c] = pc
      /\ \A d \in DrbgCores \ {c} : drbgPc'[d] = drbgPc[d]
  BY GotoType DEF SeededInv
<1> QED
  BY <1>1 DEF SeededInv, StepIsSeeded, DrbgTypes, InstanceSeeded, NumbersAreSeeded, CoreSeeded, SeedDrawn,
              VSeeded, CopySeeded, Holds

\* A step that ends the call without a number.
LEMMA FailIsSeeded ==
  ASSUME SeededInv, NEW c \in DrbgCores, Give(c, FALSE), UNCHANGED <<instance, entropyI, served>>
  PROVE  StepIsSeeded(c)
<1>1. /\ drbgPc' \in [DrbgCores -> DrbgPc] /\ call' \in [DrbgCores -> Call]
      /\ drbgPc'[c] = "return" /\ call'[c].ok = FALSE
      /\ \A d \in DrbgCores \ {c} : drbgPc'[d] = drbgPc[d] /\ call'[d] = call[d]
  BY GiveType DEF SeededInv
<1> QED
  BY <1>1 DEF SeededInv, StepIsSeeded, DrbgTypes, InstanceSeeded, NumbersAreSeeded, CoreSeeded, SeedDrawn,
              VSeeded, CopySeeded, Holds

LEMMA EntropyIsSeeded ==
  ASSUME SeededInv, NEW c \in DrbgCores,
         \/ GetEntropy(c, "entropy", "entropyDone")
         \/ StepEntropy(c, "entropyDone", "begin", 2)
         \/ GetEntropy(c, "reseedEntropy", "reseedEntropyDone")
         \/ StepEntropy(c, "reseedEntropyDone", "reseedV", 1)
  PROVE  StepIsSeeded(c)
<1>1. CASE \/ GetEntropy(c, "entropy", "entropyDone")
           \/ GetEntropy(c, "reseedEntropy", "reseedEntropyDone")
  <2> DEFINE new == [call[c] EXCEPT !.seed = entropyI]
  <2>1. new \in Call /\ new.seed # Zero
    BY FieldTypes DEF SeededInv, DrbgTypes, InstanceSeeded, Call, Seed, Zero
  <2>2. /\ call' = [call EXCEPT ![c] = new] /\ UNCHANGED <<instance, entropyI, served>>
        /\ \/ DrbgGoto(c, "entropyDone")
           \/ DrbgGoto(c, "reseedEntropyDone") /\ drbgPc[c] = "reseedEntropy"
    BY <1>1 DEF GetEntropy, Ghosts, At
  <2>3. PICK pc \in {"entropyDone", "reseedEntropyDone"} :
          DrbgGoto(c, pc) /\ (pc = "reseedEntropyDone" => drbgPc[c] = "reseedEntropy")
    BY <2>2
  <2>4. /\ drbgPc' \in [DrbgCores -> DrbgPc] /\ drbgPc'[c] = pc
        /\ \A d \in DrbgCores \ {c} : drbgPc'[d] = drbgPc[d]
    BY <2>3, GotoType DEF SeededInv, DrbgPc
  <2>5. /\ call' \in [DrbgCores -> Call] /\ call'[c] = new
        /\ \A d \in DrbgCores \ {c} : call'[d] = call[d]
    <3> HIDE DEF new
    <3> QED
      BY <2>1, <2>2, CallType DEF SeededInv
  <2> HIDE DEF new
  <2> QED
    BY <2>1, <2>2, <2>3, <2>4, <2>5
       DEF SeededInv, StepIsSeeded, DrbgTypes, InstanceSeeded, NumbersAreSeeded, CoreSeeded, SeedDrawn,
           VSeeded, CopySeeded, Holds
<1>2. CASE \/ StepEntropy(c, "entropyDone", "begin", 2)
           \/ StepEntropy(c, "reseedEntropyDone", "reseedV", 1)
  <2>1. PICK pc \in {"begin", "reseedV"} :
          /\ DrbgGoto(c, pc) /\ entropyI' \in {call[c].seed + 1, call[c].seed + 2}
          /\ drbgPc[c] = IF pc = "begin" THEN "entropyDone" ELSE "reseedEntropyDone"
          /\ UNCHANGED <<instance, call, served>>
    BY <1>2 DEF StepEntropy, Ghosts, At
  <2>2. /\ drbgPc' \in [DrbgCores -> DrbgPc] /\ drbgPc'[c] = pc
        /\ \A d \in DrbgCores \ {c} : drbgPc'[d] = drbgPc[d]
    BY <2>1, GotoType DEF SeededInv, DrbgPc
  <2>3. entropyI' \in Nat /\ entropyI' # 0
    BY <2>1, FieldTypes DEF SeededInv
  <2> QED
    BY <2>1, <2>2, <2>3
       DEF SeededInv, StepIsSeeded, DrbgTypes, InstanceSeeded, NumbersAreSeeded, CoreSeeded, SeedDrawn,
           VSeeded, CopySeeded, Holds
<1> QED
  BY <1>1, <1>2

\* The steps that build or reseed the instance.
LEMMA BuildIsSeeded ==
  ASSUME SeededInv, NEW c \in DrbgCores,
         \/ BeginInstance(c) \/ SetV(c, "setV", "setC") \/ SetV(c, "reseedV", "reseedC")
         \/ CompleteInstance(c) \/ ReseedC(c)
  PROVE  StepIsSeeded(c)
<1>1. DrbgTypes /\ instance \in Context /\ instance.V \in Block
  BY FieldTypes DEF SeededInv, DrbgTypes, Context
<1>2. CASE BeginInstance(c)
  <2>1. /\ instance' \in Context /\ instance'.V = instance.V /\ instance'.state # INSTANTIATED
    <3>1. ERROR_FLAG \in DrbgState /\ ERROR_FLAG # INSTANTIATED
      BY DEF DrbgState, ERROR_FLAG, INSTANTIATED, UNINSTANTIATED
    <3>2. instance' = [instance EXCEPT !.state = ERROR_FLAG, !.reseed_interval = RESEED_MAX_SHORT,
                                       !.reseed_count = 1]
      BY <1>2 DEF BeginInstance
    <3> QED
      BY <1>1, <3>1, <3>2, DrbgAssumption DEF Context
  <2>2. drbgPc[c] = "begin" /\ DrbgGoto(c, "setV") /\ UNCHANGED <<entropyI, call, served>>
    BY <1>2 DEF BeginInstance, Ghosts, At
  <2>3. /\ drbgPc' \in [DrbgCores -> DrbgPc] /\ drbgPc'[c] = "setV"
        /\ \A d \in DrbgCores \ {c} : drbgPc'[d] = drbgPc[d]
    BY <1>1, <2>2, GotoType DEF DrbgPc
  <2> QED
    BY <2>1, <2>2, <2>3
       DEF SeededInv, StepIsSeeded, DrbgTypes, InstanceSeeded, NumbersAreSeeded, CoreSeeded, SeedDrawn,
           VSeeded, CopySeeded, Holds
<1>3. CASE SetV(c, "setV", "setC") \/ SetV(c, "reseedV", "reseedC")
  <2> DEFINE v == [seed |-> call[c].seed, step |-> 0]
  <2>1. /\ instance' = [instance EXCEPT !.V = v] /\ UNCHANGED <<entropyI, call, served>>
        /\ drbgPc[c] \in {"setV", "reseedV"}
        /\ \/ DrbgGoto(c, "setC")
           \/ DrbgGoto(c, "reseedC")
    BY <1>3 DEF SetV, At
  <2>2. v \in Block /\ v.seed # Zero
    BY <1>1, <2>1, FieldTypes DEF SeededInv, CoreSeeded, SeedDrawn, Holds, Block, Seed
  <2>3. instance' \in Context /\ instance'.V.seed # Zero /\ instance'.state = instance.state
    <3> HIDE DEF v
    <3> QED
      BY <1>1, <2>1, <2>2 DEF Context
  <2>4. PICK pc \in {"setC", "reseedC"} : DrbgGoto(c, pc)
    BY <2>1
  <2>5. /\ drbgPc' \in [DrbgCores -> DrbgPc] /\ drbgPc'[c] = pc
        /\ \A d \in DrbgCores \ {c} : drbgPc'[d] = drbgPc[d]
    BY <1>1, <2>4, GotoType DEF DrbgPc
  <2> QED
    BY <2>1, <2>3, <2>4, <2>5
       DEF SeededInv, StepIsSeeded, DrbgTypes, InstanceSeeded, NumbersAreSeeded, CoreSeeded, SeedDrawn,
           VSeeded, CopySeeded, Holds
<1>4. CASE CompleteInstance(c)
  <2>1. /\ drbgPc[c] = "setC" /\ DrbgGoto(c, "ready") /\ UNCHANGED <<entropyI, call, served>>
        /\ instance' = [instance EXCEPT !.C = instance.V.seed, !.comp = NoBlock, !.state = INSTANTIATED]
    BY <1>4 DEF CompleteInstance, Ghosts, At
  <2>2. instance' \in Context /\ instance'.V = instance.V
    <3>1. NoBlock \in Block /\ instance.V.seed \in Seed /\ INSTANTIATED \in DrbgState
      BY <1>1, FieldTypes DEF Block, Seed, NoBlock, Zero, DrbgState
    <3> QED
      BY <1>1, <2>1, <3>1 DEF Context
  <2>3. instance.V.seed # Zero
    BY <2>1 DEF SeededInv, CoreSeeded, VSeeded, Holds
  <2>4. /\ drbgPc' \in [DrbgCores -> DrbgPc] /\ drbgPc'[c] = "ready"
        /\ \A d \in DrbgCores \ {c} : drbgPc'[d] = drbgPc[d]
    BY <1>1, <2>1, GotoType DEF DrbgPc
  <2> QED
    BY <2>1, <2>2, <2>3, <2>4
       DEF SeededInv, StepIsSeeded, DrbgTypes, InstanceSeeded, NumbersAreSeeded, CoreSeeded, SeedDrawn,
           VSeeded, CopySeeded, Holds
<1>5. CASE ReseedC(c)
  <2>1. /\ drbgPc[c] = "reseedC" /\ DrbgGoto(c, "genAlg") /\ UNCHANGED <<entropyI, call, served>>
        /\ instance' = [instance EXCEPT !.C = instance.V.seed, !.reseed_count = 1]
    BY <1>5 DEF ReseedC, Ghosts, At
  <2>2. instance' \in Context /\ instance'.V = instance.V /\ instance'.state = instance.state
    BY <1>1, <2>1, FieldTypes DEF Context, Seed
  <2>3. /\ drbgPc' \in [DrbgCores -> DrbgPc] /\ drbgPc'[c] = "genAlg"
        /\ \A d \in DrbgCores \ {c} : drbgPc'[d] = drbgPc[d]
    BY <1>1, <2>1, GotoType DEF DrbgPc
  <2> QED
    BY <2>1, <2>2, <2>3
       DEF SeededInv, StepIsSeeded, DrbgTypes, InstanceSeeded, NumbersAreSeeded, CoreSeeded, SeedDrawn,
           VSeeded, CopySeeded, Holds
<1> QED
  BY <1>2, <1>3, <1>4, <1>5

\* The checks of a call: each leads on, or ends the call.
LEMMA CheckIsSeeded ==
  ASSUME SeededInv, NEW c \in DrbgCores,
         \/ CheckUninstantiated(c) \/ DrbgInstantiate(c) \/ CheckInstantiated(c, "ready", "generate")
         \/ Generate(c) \/ CheckInstantiated(c, "reseed", "reseedEntropy") \/ Compare(c)
         \/ CheckInstantiated(c, "genAlg", "copyV")
         \/ ReseedV(c)
  PROVE  StepIsSeeded(c)
<1>1. instance.state = INSTANTIATED => instance.V.seed # Zero
  BY DEF SeededInv, InstanceSeeded
<1>2. CASE CheckUninstantiated(c)
  <2>1. \E pc \in {"instantiate", "ready"} : DrbgGoto(c, pc) /\ UNCHANGED <<instance, entropyI, call, served>>
    BY <1>2 DEF CheckUninstantiated, Ghosts
  <2> QED
    BY <2>1, MoveIsSeeded DEF DrbgPc
<1>3. CASE DrbgInstantiate(c)
  <2>1. CASE Give(c, FALSE)
    BY <1>3, <2>1, FailIsSeeded DEF DrbgInstantiate, Ghosts
  <2>2. CASE DrbgGoto(c, "entropy") /\ UNCHANGED call
    BY <1>3, <2>2, MoveIsSeeded DEF DrbgInstantiate, Ghosts, DrbgPc
  <2> QED
    BY <1>3, <2>1, <2>2 DEF DrbgInstantiate
<1>4. CASE \/ CheckInstantiated(c, "ready", "generate") \/ CheckInstantiated(c, "reseed", "reseedEntropy")
           \/ CheckInstantiated(c, "genAlg", "copyV")
  <2>1. CASE Give(c, FALSE)
    BY <1>4, <2>1, FailIsSeeded DEF CheckInstantiated, Ghosts
  <2>2. CASE \E pc \in {"generate", "reseedEntropy", "copyV"} :
               instance.state = INSTANTIATED /\ DrbgGoto(c, pc) /\ UNCHANGED call
    BY <1>1, <1>4, <2>2, MoveIsSeeded DEF CheckInstantiated, Ghosts, DrbgPc
  <2> QED
    BY <1>4, <2>1, <2>2 DEF CheckInstantiated
<1>5. CASE Generate(c)
  <2>1. CASE Give(c, FALSE)
    BY <1>5, <2>1, FailIsSeeded DEF Generate, Ghosts
  <2>2. CASE \E pc \in {"reseed", "genAlg"} :
               instance.state = INSTANTIATED /\ DrbgGoto(c, pc) /\ UNCHANGED call
    BY <1>1, <1>5, <2>2, MoveIsSeeded DEF Generate, Ghosts, DrbgPc
  <2> QED
    BY <1>5, <2>1, <2>2 DEF Generate
<1>6. CASE Compare(c)
  <2>1. CASE Give(c, FALSE)
    BY <1>6, <2>1, FailIsSeeded DEF Compare, Ghosts
  <2>2. CASE DrbgGoto(c, "emit") /\ UNCHANGED call
    <3>1. instance.V.seed # Zero /\ call[c].data.seed # Zero
      BY <1>6 DEF Compare, At, SeededInv, CoreSeeded, VSeeded, CopySeeded, Holds
    <3> QED
      BY <1>6, <2>2, <3>1, MoveIsSeeded DEF Compare, Ghosts, DrbgPc
  <2> QED
    BY <1>6, <2>1, <2>2 DEF Compare
<1>7. CASE ReseedV(c)
  <2>1. CASE SetV(c, "reseedV", "reseedC")
    BY <2>1, BuildIsSeeded
  <2>2. CASE Give(c, FALSE) /\ Ghosts /\ UNCHANGED <<instance, entropyI>>
    BY <2>2, FailIsSeeded DEF Ghosts
  <2> QED
    BY <1>7, <2>1, <2>2 DEF ReseedV
<1> QED
  BY <1>2, <1>3, <1>4, <1>5, <1>6, <1>7

\* The steps that make the number and update V.
LEMMA NumberIsSeeded ==
  ASSUME SeededInv, NEW c \in DrbgCores,
         CopyV(c) \/ Emit(c) \/ HashV(c) \/ AddV(c) \/ Bump(c)
  PROVE  StepIsSeeded(c)
<1>1. DrbgTypes /\ instance \in Context /\ instance.V \in Block /\ call[c] \in Call
  BY FieldTypes DEF SeededInv, DrbgTypes
<1>2. CASE CopyV(c)
  <2> DEFINE new == [call[c] EXCEPT !.data = instance.V]
  <2>1. /\ drbgPc[c] = "copyV" /\ DrbgGoto(c, "compare") /\ UNCHANGED <<instance, entropyI, served>>
        /\ call' = [call EXCEPT ![c] = new]
    BY <1>2 DEF CopyV, Ghosts, At
  <2>2. instance.V.seed # Zero
    BY <2>1 DEF SeededInv, CoreSeeded, VSeeded, Holds
  <2>3. new \in Call /\ new.data.seed # Zero
    BY <1>1, <2>2 DEF Call
  <2>4. /\ call' \in [DrbgCores -> Call] /\ call'[c] = new
        /\ \A d \in DrbgCores \ {c} : call'[d] = call[d]
    <3> HIDE DEF new
    <3> QED
      BY <1>1, <2>1, <2>3, CallType
  <2>5. /\ drbgPc' \in [DrbgCores -> DrbgPc] /\ drbgPc'[c] = "compare"
        /\ \A d \in DrbgCores \ {c} : drbgPc'[d] = drbgPc[d]
    BY <1>1, <2>1, GotoType DEF DrbgPc
  <2> HIDE DEF new
  <2> QED
    BY <2>1, <2>2, <2>3, <2>4, <2>5
       DEF SeededInv, StepIsSeeded, DrbgTypes, InstanceSeeded, NumbersAreSeeded, CoreSeeded, SeedDrawn,
           VSeeded, CopySeeded, Holds
<1>3. CASE Emit(c)
  <2>1. /\ drbgPc[c] = "emit" /\ DrbgGoto(c, "hash") /\ UNCHANGED <<entropyI, call, served>>
        /\ instance' = [instance EXCEPT !.comp = call[c].data]
    BY <1>3 DEF Emit, At
  <2>2. instance' \in Context /\ instance'.V = instance.V /\ instance'.state = instance.state
    BY <1>1, <2>1 DEF Context, Call
  <2>3. /\ drbgPc' \in [DrbgCores -> DrbgPc] /\ drbgPc'[c] = "hash"
        /\ \A d \in DrbgCores \ {c} : drbgPc'[d] = drbgPc[d]
    BY <1>1, <2>1, GotoType DEF DrbgPc
  <2> QED
    BY <2>1, <2>2, <2>3
       DEF SeededInv, StepIsSeeded, DrbgTypes, InstanceSeeded, NumbersAreSeeded, CoreSeeded, SeedDrawn,
           VSeeded, CopySeeded, Holds
<1>4. CASE HashV(c)
  <2> DEFINE new == [call[c] EXCEPT !.h = instance.V]
  <2>1. /\ drbgPc[c] = "hash" /\ DrbgGoto(c, "add") /\ UNCHANGED <<instance, entropyI, served>>
        /\ call' = [call EXCEPT ![c] = new]
    BY <1>4 DEF HashV, Ghosts, At
  <2>2. new \in Call /\ new.h.seed # Zero /\ new.data = call[c].data
    BY <1>1, <2>1 DEF Call, SeededInv, CoreSeeded, VSeeded, Holds
  <2>3. /\ call' \in [DrbgCores -> Call] /\ call'[c] = new
        /\ \A d \in DrbgCores \ {c} : call'[d] = call[d]
    <3> HIDE DEF new
    <3> QED
      BY <1>1, <2>1, <2>2, CallType
  <2>4. /\ drbgPc' \in [DrbgCores -> DrbgPc] /\ drbgPc'[c] = "add"
        /\ \A d \in DrbgCores \ {c} : drbgPc'[d] = drbgPc[d]
    BY <1>1, <2>1, GotoType DEF DrbgPc
  <2> HIDE DEF new
  <2> QED
    BY <2>1, <2>2, <2>3, <2>4
       DEF SeededInv, StepIsSeeded, DrbgTypes, InstanceSeeded, NumbersAreSeeded, CoreSeeded, SeedDrawn,
           VSeeded, CopySeeded, Holds
<1>5. CASE AddV(c)
  <2> DEFINE new == [call[c] EXCEPT !.count = instance.reseed_count]
  <2>1. /\ drbgPc[c] = "add" /\ DrbgGoto(c, "bump") /\ UNCHANGED <<entropyI, served>>
        /\ call' = [call EXCEPT ![c] = new]
    BY <1>5 DEF AddV, Ghosts, At
  <2>2. PICK v \in {instance.V, call[c].h} : instance' = [instance EXCEPT !.V = Updated(v)]
    BY <1>5 DEF AddV
  <2>3. v \in Block /\ v.seed # Zero
    BY <1>1, <2>1, FieldTypes DEF SeededInv, CoreSeeded, VSeeded, CopySeeded, Holds
  <2>4. Updated(v) \in Block /\ Updated(v).seed = v.seed
    BY <2>3 DEF Updated, Block
  <2>5. instance' \in Context /\ instance'.V.seed # Zero /\ instance'.state = instance.state
    BY <1>1, <2>2, <2>3, <2>4 DEF Context
  <2>6. new \in Call /\ new.data = call[c].data
    BY <1>1, FieldTypes DEF Call
  <2>7. /\ call' \in [DrbgCores -> Call] /\ call'[c] = new
        /\ \A d \in DrbgCores \ {c} : call'[d] = call[d]
    <3> HIDE DEF new
    <3> QED
      BY <1>1, <2>1, <2>6, CallType
  <2>8. /\ drbgPc' \in [DrbgCores -> DrbgPc] /\ drbgPc'[c] = "bump"
        /\ \A d \in DrbgCores \ {c} : drbgPc'[d] = drbgPc[d]
    BY <1>1, <2>1, GotoType DEF DrbgPc
  <2> HIDE DEF new
  <2> QED
    BY <2>1, <2>5, <2>6, <2>7, <2>8
       DEF SeededInv, StepIsSeeded, DrbgTypes, InstanceSeeded, NumbersAreSeeded, CoreSeeded, SeedDrawn,
           VSeeded, CopySeeded, Holds
<1>6. CASE Bump(c)
  <2>1. /\ drbgPc[c] = "bump" /\ Give(c, TRUE) /\ UNCHANGED <<entropyI, served>>
        /\ instance' = [instance EXCEPT !.reseed_count = call[c].count + 1]
    BY <1>6 DEF Bump, Ghosts, At
  <2>2. instance' \in Context /\ instance'.V = instance.V /\ instance'.state = instance.state
    BY <1>1, <2>1, FieldTypes DEF Context
  <2>3. /\ drbgPc' \in [DrbgCores -> DrbgPc] /\ call' \in [DrbgCores -> Call]
        /\ drbgPc'[c] = "return" /\ call'[c].data = call[c].data
        /\ \A d \in DrbgCores \ {c} : drbgPc'[d] = drbgPc[d] /\ call'[d] = call[d]
    BY <1>1, <2>1, GiveType
  <2> QED
    BY <2>1, <2>2, <2>3
       DEF SeededInv, StepIsSeeded, DrbgTypes, InstanceSeeded, NumbersAreSeeded, CoreSeeded, SeedDrawn,
           VSeeded, CopySeeded, Holds
<1> QED
  BY <1>2, <1>3, <1>4, <1>5, <1>6

\* A call begins with nothing, and ends with its number among those served.
LEMMA EndsAreSeeded ==
  ASSUME SeededInv, NEW c \in DrbgCores, GetPrng(c) \/ DrbgReturn(c), calls \in Nat
  PROVE  StepIsSeeded(c)
<1>1. DrbgTypes /\ call[c] \in Call
  BY FieldTypes DEF SeededInv
<1>2. CASE GetPrng(c)
  <2>1. PICK f \in DrbgForms : call' = [call EXCEPT ![c] = Fresh(f, calls + 1)]
    BY <1>2 DEF GetPrng
  <2>2. Fresh(f, calls + 1) \in Call
    <3>1. f \in {32, 64} \X {32, 64} /\ NoBlock \in Block
      BY DrbgAssumption DEF NoBlock, Block, Seed, Zero
    <3> QED
      BY <3>1 DEF Fresh, Call, Seed, Zero
  <2>3. /\ call' \in [DrbgCores -> Call]
        /\ \A d \in DrbgCores \ {c} : call'[d] = call[d]
    BY <1>1, <2>1, <2>2, CallType
  <2>4. DrbgGoto(c, "check") /\ UNCHANGED <<instance, entropyI, served>>
    BY <1>2 DEF GetPrng, Ghosts
  <2>5. /\ drbgPc' \in [DrbgCores -> DrbgPc] /\ drbgPc'[c] = "check"
        /\ \A d \in DrbgCores \ {c} : drbgPc'[d] = drbgPc[d]
    BY <1>1, <2>4, GotoType DEF DrbgPc
  <2> QED
    BY <2>3, <2>4, <2>5
       DEF SeededInv, StepIsSeeded, DrbgTypes, InstanceSeeded, NumbersAreSeeded, CoreSeeded, SeedDrawn,
           VSeeded, CopySeeded, Holds
<1>3. CASE DrbgReturn(c)
  <2>1. PICK status \in {"success", "failure"} : call' = [call EXCEPT ![c].status = status]
    BY <1>3 DEF DrbgReturn
  <2> DEFINE new == [call[c] EXCEPT !.status = status]
  <2>2. new \in Call /\ call' = [call EXCEPT ![c] = new]
    BY <1>1, <2>1 DEF Call
  <2>3. /\ call' \in [DrbgCores -> Call]
        /\ \A d \in DrbgCores \ {c} : call'[d] = call[d]
    <3> HIDE DEF new
    <3> QED
      BY <1>1, <2>2, CallType
  <2>4. /\ drbgPc[c] = "return" /\ DrbgGoto(c, "idle") /\ UNCHANGED <<instance, entropyI>>
        /\ served' = IF call[c].ok THEN served \cup {call[c].data} ELSE served
    BY <1>3 DEF DrbgReturn, At
  <2>5. NumbersAreSeeded'
    BY <2>4 DEF SeededInv, InstanceSeeded, NumbersAreSeeded, CoreSeeded, CopySeeded, Holds
  <2>6. /\ drbgPc' \in [DrbgCores -> DrbgPc] /\ drbgPc'[c] = "idle"
        /\ \A d \in DrbgCores \ {c} : drbgPc'[d] = drbgPc[d]
    BY <1>1, <2>4, GotoType DEF DrbgPc
  <2> HIDE DEF new
  <2> QED
    BY <2>3, <2>4, <2>5, <2>6
       DEF SeededInv, StepIsSeeded, DrbgTypes, InstanceSeeded, CoreSeeded, SeedDrawn, VSeeded, CopySeeded, Holds
<1> QED
  BY <1>2, <1>3

-----------------------------------------------------------------------------
(* The theorems.                                                           *)

SeededNext == SeededInv /\ calls \in Nat

LEMMA SeededStep == ASSUME SeededNext, [DrbgNext]_drbgVars PROVE SeededNext'
<1>1. ASSUME NEW c \in DrbgCores, GetPrng(c) \/ DrbgStep(c) PROVE StepIsSeeded(c) /\ calls' \in Nat
  <2>1. StepIsSeeded(c)
    BY <1>1, EntropyIsSeeded, BuildIsSeeded, CheckIsSeeded, NumberIsSeeded, EndsAreSeeded
       DEF SeededNext, DrbgStep
  <2>2. calls' = calls \/ calls' = calls + 1
    BY <1>1 DEF GetPrng, DrbgStep, Quiet, CheckUninstantiated, DrbgInstantiate, GetEntropy, StepEntropy,
                BeginInstance, SetV, CompleteInstance, CheckInstantiated, Generate, ReseedV, ReseedC, CopyV,
                Compare, Emit, HashV, AddV, Bump, DrbgReturn
  <2> QED
    BY <2>1, <2>2 DEF SeededNext
<1>2. ASSUME NEW c \in DrbgCores, StepIsSeeded(c) PROVE SeededInv'
  <2>1. ASSUME NEW d \in DrbgCores PROVE CoreSeeded(d)'
    <3>1. CASE d = c
      BY <1>2, <3>1 DEF StepIsSeeded
    <3>2. CASE d # c
      <4>1. /\ drbgPc'[d] = drbgPc[d] /\ call'[d] = call[d]
            /\ instance.V.seed # Zero => instance'.V.seed # Zero
        BY <1>2, <3>2 DEF StepIsSeeded
      <4> QED
        BY <4>1 DEF SeededNext, SeededInv, CoreSeeded, SeedDrawn, VSeeded, CopySeeded, Holds
    <3> QED
      BY <3>1, <3>2
  <2> QED
    BY <1>2, <2>1 DEF SeededInv, StepIsSeeded
<1>3. CASE UNCHANGED drbgVars
  BY <1>3 DEF drbgVars, SeededNext, SeededInv, DrbgTypes, InstanceSeeded, NumbersAreSeeded, CoreSeeded,
              SeedDrawn, VSeeded, CopySeeded, Holds
<1> QED
  BY <1>1, <1>2, <1>3 DEF DrbgNext, SeededNext

LEMMA SeededStart == DrbgInit => SeededNext
<1> SUFFICES ASSUME DrbgInit PROVE SeededNext
  OBVIOUS
<1>2. NoBlock \in Block /\ Zero \in Seed
  BY DEF NoBlock, Block, Seed, Zero
<1>3. instance \in Context /\ instance.state # INSTANTIATED
  <2>1. UNINSTANTIATED \in DrbgState /\ UNINSTANTIATED # INSTANTIATED
    BY DEF DrbgState, UNINSTANTIATED, INSTANTIATED
  <2>2. instance = [state |-> UNINSTANTIATED, reseed_interval |-> 0, reseed_count |-> 0,
                    V |-> NoBlock, C |-> Zero, comp |-> NoBlock]
    BY DEF DrbgInit
  <2> QED
    BY <1>2, <2>1, <2>2 DEF Context
<1>4. Fresh(<<64, 64>>, 0) \in Call
  BY <1>2 DEF Fresh, Call
<1>5. call \in [DrbgCores -> Call]
  <2>1. call = [c \in DrbgCores |-> Fresh(<<64, 64>>, 0)]
    BY DEF DrbgInit
  <2> QED
    BY <1>4, <2>1
<1>6. drbgPc \in [DrbgCores -> DrbgPc] /\ \A c \in DrbgCores : drbgPc[c] = "idle"
  <2>1. drbgPc = [c \in DrbgCores |-> "idle"]
    BY DEF DrbgInit
  <2> QED
    BY <2>1 DEF DrbgPc
<1>7. entropyI = 1 /\ served = {} /\ calls = 0
  BY DEF DrbgInit
<1> QED
  BY <1>3, <1>5, <1>6, <1>7
     DEF SeededNext, SeededInv, DrbgTypes, InstanceSeeded, NumbersAreSeeded, CoreSeeded, SeedDrawn, VSeeded,
         CopySeeded, Holds

\* However many cores share the instance, and wherever the others are in building it, no number comes
\* from a V that nothing was seeded into.
THEOREM EveryNumberIsSeeded == DrbgSpec => []NumbersAreSeeded
<1>1. SeededNext => NumbersAreSeeded
  BY DEF SeededNext, SeededInv, InstanceSeeded
<1> QED
  BY <1>1, SeededStart, SeededStep, PTL DEF DrbgSpec

\* Whichever core sets ERROR_FLAG clears it itself, and a core that finds it set only fails its own
\* call: the instance is never left in the error state.
THEOREM ErrorEnds == DrbgSpec => []ErrorIsTransient
<1>1. DrbgInit => ErrorIsTransient
  BY DEF DrbgInit, ErrorIsTransient, UNINSTANTIATED, ERROR_FLAG
<1>2. SeededNext /\ ErrorIsTransient /\ [DrbgNext]_drbgVars => ErrorIsTransient'
  <2> SUFFICES ASSUME SeededNext, ErrorIsTransient, [DrbgNext]_drbgVars PROVE ErrorIsTransient'
    OBVIOUS
  <2>1. DrbgTypes /\ instance \in Context
    BY DEF SeededNext, SeededInv, DrbgTypes
  <2>2. ASSUME NEW c \in DrbgCores, BeginInstance(c) PROVE ErrorIsTransient'
    <3>1. drbgPc'[c] = "setV"
      BY <2>1, <2>2, GotoType DEF BeginInstance, DrbgPc
    <3> QED
      BY <3>1 DEF ErrorIsTransient
  <2>3. ASSUME NEW c \in DrbgCores, CompleteInstance(c) PROVE ErrorIsTransient'
    <3>1. instance'.state = INSTANTIATED
      BY <2>1, <2>3 DEF CompleteInstance, Context
    <3> QED
      BY <3>1 DEF ErrorIsTransient, INSTANTIATED, ERROR_FLAG
  <2>4. ASSUME NEW c \in DrbgCores, SetV(c, "setV", "setC") PROVE ErrorIsTransient'
    <3>1. drbgPc'[c] = "setC"
      BY <2>1, <2>4, GotoType DEF SetV, DrbgPc
    <3> QED
      BY <3>1 DEF ErrorIsTransient
  <2>5. ASSUME NEW c \in DrbgCores, GetPrng(c) \/ DrbgStep(c),
               ~BeginInstance(c), ~CompleteInstance(c), ~SetV(c, "setV", "setC")
        PROVE  ErrorIsTransient'
    <3>1. drbgPc[c] \notin {"setV", "setC"}
      BY <2>5 DEF GetPrng, DrbgStep, CheckUninstantiated, DrbgInstantiate, GetEntropy, StepEntropy, SetV,
                  CheckInstantiated, Generate, ReseedV, ReseedC, CopyV, Compare, Emit, HashV, AddV, Bump,
                  DrbgReturn, At
    <3>2. instance'.state = instance.state
      <4>1. CASE ReseedC(c) \/ Emit(c) \/ AddV(c) \/ Bump(c) \/ SetV(c, "reseedV", "reseedC")
        BY <2>1, <4>1 DEF ReseedC, Emit, AddV, Bump, SetV, Context
      <4>2. CASE UNCHANGED instance
        BY <4>2
      <4> QED
        BY <2>5, <4>1, <4>2
           DEF GetPrng, DrbgStep, CheckUninstantiated, DrbgInstantiate, GetEntropy, StepEntropy,
               CheckInstantiated, Generate, ReseedV, CopyV, Compare, HashV, DrbgReturn
    <3>3. StepIsSeeded(c)
      BY <2>5, EntropyIsSeeded, BuildIsSeeded, CheckIsSeeded, NumberIsSeeded, EndsAreSeeded
         DEF SeededNext, DrbgStep
    <3>4. \A d \in DrbgCores \ {c} : drbgPc'[d] = drbgPc[d]
      BY <3>3 DEF StepIsSeeded
    <3> QED
      BY <3>1, <3>2, <3>4 DEF ErrorIsTransient
  <2>6. CASE UNCHANGED drbgVars
    BY <2>6 DEF drbgVars, ErrorIsTransient
  <2> QED
    BY <2>2, <2>3, <2>4, <2>5, <2>6 DEF DrbgNext
<1> QED
  BY <1>1, <1>2, SeededStart, SeededStep, PTL DEF DrbgSpec

-----------------------------------------------------------------------------
(* Calls that do not overlap.                                              *)

\* The requests served from a seed.
Gen(s) == {g \in generated : g.seed = s}

Late == {"hash", "add", "bump"}

\* What the core that makes the only call knows at each place.
SeedIsNew(c) ==
  /\ Holds(c, {"entropyDone", "reseedEntropyDone", "begin", "setV", "reseedV"}) => instance.V.seed < call[c].seed
  /\ Holds(c, {"begin", "setV", "reseedV"}) => call[c].seed < entropyI

Building(c) ==
  /\ Holds(c, {"setV", "setC"}) =>
       /\ instance.state = ERROR_FLAG
       /\ instance.reseed_count = 1 /\ instance.reseed_interval = RESEED_MAX_SHORT
  /\ Holds(c, {"setC", "reseedC"}) => Gen(instance.V.seed) = {}

Counted(c) ==
  /\ Holds(c, {"generate", "reseed", "reseedEntropy", "reseedEntropyDone", "reseedV", "reseedC", "genAlg",
               "copyV", "compare", "emit"} \cup Late) => instance.state = INSTANTIATED
  /\ Holds(c, {"genAlg", "copyV", "compare", "emit"}) => instance.reseed_count <= RESEED_MAX_SHORT
  /\ Holds(c, Late) => Cardinality(Gen(instance.V.seed)) <= instance.reseed_count
  /\ Holds(c, {"bump"}) => call[c].count = instance.reseed_count

Copied(c) ==
  /\ Holds(c, {"compare", "emit", "hash", "add"}) => call[c].data = instance.V
  /\ Holds(c, {"add"}) => call[c].h = instance.V

LoneCore(c) == SeedIsNew(c) /\ Building(c) /\ Counted(c) /\ Copied(c)

\* The entropy to come is newer than V, and a seed that is counted has served fewer requests than the count
\* says.
LoneInstance ==
  /\ instance.V.seed < entropyI
  /\ instance.state = INSTANTIATED => instance.reseed_interval = RESEED_MAX_SHORT
  /\ \A s \in Nat : Cardinality(Gen(s)) <= RESEED_MAX_SHORT

LoneCount ==
  instance.state = INSTANTIATED /\ (\A c \in DrbgCores : ~Holds(c, Late)) =>
    Cardinality(Gen(instance.V.seed)) < instance.reseed_count

LoneTypes ==
  /\ IsFiniteSet(generated) /\ generated \subseteq [seed : Seed, nth : Nat]
  /\ alone \in BOOLEAN

LoneInv ==
  /\ LoneTypes
  /\ alone =>
       /\ \A c, d \in DrbgCores : drbgPc[c] # "idle" /\ drbgPc[d] # "idle" => c = d
       /\ LoneInstance /\ LoneCount
       /\ \A c \in DrbgCores : LoneCore(c)

LEMMA GenFacts ==
  ASSUME LoneTypes, NEW s
  PROVE  IsFiniteSet(Gen(s)) /\ Cardinality(Gen(s)) \in Nat
<1>1. Gen(s) \subseteq generated /\ IsFiniteSet(generated)
  BY DEF Gen, LoneTypes
<1>2. IsFiniteSet(Gen(s))
  BY <1>1, FS_Subset
<1> QED
  BY <1>2, FS_CardinalityType

LEMMA StepTypes ==
  ASSUME SeededNext, LoneTypes, NEW c \in DrbgCores, GetPrng(c) \/ DrbgStep(c)
  PROVE  LoneTypes' /\ (alone' => alone)
<1>0. call[c].data \in Block /\ call[c].nth \in Nat /\ call[c].data.seed \in Nat
  BY FieldTypes DEF SeededNext, SeededInv, Block, Seed
<1>1. CASE GetPrng(c)
  BY <1>1 DEF GetPrng, Ghosts, LoneTypes
<1>2. CASE Emit(c)
  <2>1. [seed |-> call[c].data.seed, nth |-> call[c].nth] \in [seed : Seed, nth : Nat]
    BY <1>0 DEF Seed
  <2>2. /\ generated' = generated \cup {[seed |-> call[c].data.seed, nth |-> call[c].nth]}
        /\ UNCHANGED <<served, alone>>
    BY <1>2 DEF Emit, Quiet
  <2>3. IsFiniteSet(generated')
    BY <2>2, FS_AddElement DEF LoneTypes
  <2> HIDE DEF Seed
  <2> QED
    BY <2>1, <2>2, <2>3 DEF LoneTypes
<1>3. CASE DrbgReturn(c)
  BY <1>0, <1>3 DEF DrbgReturn, Quiet, LoneTypes
<1>4. CASE SetV(c, "setV", "setC") \/ SetV(c, "reseedV", "reseedC")
  <2>1. generated' \subseteq generated /\ UNCHANGED <<served, alone>>
    BY <1>4 DEF SetV, Quiet
  <2>2. IsFiniteSet(generated')
    BY <2>1, FS_Subset DEF LoneTypes
  <2> QED
    BY <2>1, <2>2 DEF LoneTypes
<1>5. CASE UNCHANGED <<served, generated, alone>>
  BY <1>5 DEF LoneTypes
<1> QED
  BY <1>1, <1>2, <1>3, <1>4, <1>5
     DEF DrbgStep, Quiet, Ghosts, CheckUninstantiated, DrbgInstantiate, GetEntropy, StepEntropy, BeginInstance,
         CompleteInstance, CheckInstantiated, Generate, ReseedV, ReseedC, CopyV, Compare, HashV, AddV, Bump

\* The step of the one core that is in a call: what it owes to the invariant.
LEMMA LoneFinish ==
  ASSUME LoneInv, alone, NEW c \in DrbgCores, drbgPc[c] # "idle", StepIsSeeded(c), LoneTypes', UNCHANGED alone,
         LoneInstance', LoneCore(c)',
         instance'.state = INSTANTIATED /\ drbgPc'[c] \notin Late =>
           Cardinality(Gen(instance.V.seed))' < instance'.reseed_count
  PROVE  LoneInv'
<1>1. ASSUME NEW d \in DrbgCores, d # c PROVE drbgPc'[d] = "idle" /\ LoneCore(d)'
  <2>1. drbgPc'[d] = "idle"
    BY <1>1 DEF LoneInv, StepIsSeeded
  <2> QED
    BY <2>1 DEF LoneCore, SeedIsNew, Building, Counted, Copied, Holds, Late
<1>2. \A d \in DrbgCores : LoneCore(d)'
  BY <1>1
<1>3. LoneCount'
  BY DEF LoneCount, Holds
<1> QED
  BY <1>1, <1>2, <1>3 DEF LoneInv

\* A step that leaves the instance alone.
LEMMA LoneMove ==
  ASSUME LoneInv, alone, NEW c \in DrbgCores, drbgPc[c] # "idle", StepIsSeeded(c), LoneTypes',
         UNCHANGED <<instance, entropyI, served, generated, alone>>,
         LoneCore(c)', drbgPc'[c] \notin Late => drbgPc[c] \notin Late
  PROVE  LoneInv'
<1>1. LoneInstance'
  BY DEF LoneInv, LoneInstance, Gen
<1>2. ASSUME drbgPc[c] \notin Late, instance.state = INSTANTIATED
      PROVE  Cardinality(Gen(instance.V.seed)) < instance.reseed_count
  <2>1. \A d \in DrbgCores : ~Holds(d, Late)
    BY <1>2 DEF LoneInv, Holds, Late
  <2> QED
    BY <1>2, <2>1 DEF LoneInv, LoneCount
<1>3. Gen(instance.V.seed)' = Gen(instance.V.seed)
  BY DEF Gen
<1> QED
  BY <1>1, <1>2, <1>3, LoneFinish

LEMMA SomeoneCounts ==
  ASSUME LoneInv, alone, NEW c \in DrbgCores, drbgPc[c] # "idle", drbgPc[c] \notin Late,
         instance.state = INSTANTIATED
  PROVE  Cardinality(Gen(instance.V.seed)) < instance.reseed_count
<1>1. \A d \in DrbgCores : ~Holds(d, Late)
  BY DEF LoneInv, Holds, Late
<1> QED
  BY <1>1 DEF LoneInv, LoneCount

\* A step that only moves on.
LEMMA LoneGoto ==
  ASSUME SeededNext, LoneInv, alone, NEW c \in DrbgCores, drbgPc[c] # "idle", drbgPc[c] \notin Late,
         StepIsSeeded(c), LoneTypes', UNCHANGED <<instance, entropyI, call, served, generated, alone>>,
         NEW pc \in {"instantiate", "ready", "generate", "entropy", "reseed", "reseedEntropy", "genAlg", "copyV", "emit"},
         DrbgGoto(c, pc),
         pc \in {"generate", "reseed", "reseedEntropy", "genAlg", "copyV", "emit"} => instance.state = INSTANTIATED,
         pc \in {"genAlg", "copyV", "emit"} => instance.reseed_count <= RESEED_MAX_SHORT,
         pc = "emit" => call[c].data = instance.V
  PROVE  LoneInv'
<1>1. drbgPc'[c] = pc
  BY GotoType DEF SeededNext, SeededInv, DrbgPc
<1>2. LoneCore(c)'
  BY <1>1 DEF LoneCore, SeedIsNew, Building, Counted, Copied, Holds, Late
<1> QED
  BY <1>1, <1>2, LoneMove

\* A step that gives the call up.
LEMMA LoneFail ==
  ASSUME SeededNext, LoneInv, alone, NEW c \in DrbgCores, drbgPc[c] # "idle", drbgPc[c] \notin Late,
         StepIsSeeded(c), LoneTypes', UNCHANGED <<instance, entropyI, served, generated, alone>>,
         Give(c, FALSE)
  PROVE  LoneInv'
<1>1. drbgPc'[c] = "return" /\ call'[c].ok = FALSE
  BY GiveType DEF SeededNext, SeededInv
<1>2. LoneCore(c)'
  BY <1>1 DEF LoneCore, SeedIsNew, Building, Counted, Copied, Holds, Late
<1> QED
  BY <1>1, <1>2, LoneMove

LEMMA LoneChecks ==
  ASSUME SeededNext, LoneInv, alone, NEW c \in DrbgCores, StepIsSeeded(c), LoneTypes',
         \/ CheckUninstantiated(c) \/ DrbgInstantiate(c) \/ CheckInstantiated(c, "ready", "generate")
         \/ Generate(c) \/ CheckInstantiated(c, "reseed", "reseedEntropy") \/ Compare(c)
         \/ CheckInstantiated(c, "genAlg", "copyV")
         \/ (drbgPc[c] = "reseedV" /\ Give(c, FALSE) /\ Quiet /\ Ghosts /\ UNCHANGED <<instance, entropyI>>)
  PROVE  LoneInv'
<1>0. /\ UNCHANGED <<instance, entropyI, served, generated, alone>>
      /\ drbgPc[c] # "idle" /\ drbgPc[c] \notin Late
  BY DEF Quiet, Ghosts, CheckUninstantiated, DrbgInstantiate, CheckInstantiated, Generate, Compare, At, Late
<1>1. CASE Give(c, FALSE)
  BY <1>0, <1>1, LoneFail
<1>2. CASE CheckUninstantiated(c)
  <2>1. PICK pc \in {"instantiate", "ready"} : DrbgGoto(c, pc) /\ UNCHANGED call
    BY <1>2 DEF CheckUninstantiated
  <2> QED
    BY <1>0, <2>1, LoneGoto
<1>3. CASE DrbgInstantiate(c)
  BY <1>0, <1>1, <1>3, LoneGoto DEF DrbgInstantiate
<1>4. CASE \/ CheckInstantiated(c, "ready", "generate") \/ CheckInstantiated(c, "reseed", "reseedEntropy")
           \/ CheckInstantiated(c, "genAlg", "copyV")
  <2>1. Give(c, FALSE) \/ \E pc \in {"generate", "reseedEntropy", "copyV"} :
          /\ DrbgGoto(c, pc) /\ UNCHANGED call /\ instance.state = INSTANTIATED
          /\ pc = "copyV" => drbgPc[c] = "genAlg"
    BY <1>4 DEF CheckInstantiated, At
  <2>2. drbgPc[c] = "genAlg" => instance.reseed_count <= RESEED_MAX_SHORT
    BY DEF LoneInv, LoneCore, Counted, Holds
  <2> QED
    BY <1>0, <1>1, <2>1, <2>2, LoneGoto
<1>5. CASE Generate(c)
  <2>1. Give(c, FALSE) \/ \E pc \in {"reseed", "genAlg"} :
          /\ DrbgGoto(c, pc) /\ UNCHANGED call /\ instance.state = INSTANTIATED
          /\ pc = "genAlg" => ~ReseedDue
    BY <1>5 DEF Generate
  <2>2. instance.state = INSTANTIATED /\ ~ReseedDue => instance.reseed_count <= RESEED_MAX_SHORT
    <3>1. instance.reseed_count \in Nat /\ instance.reseed_interval \in Nat
      BY DEF SeededNext, SeededInv, DrbgTypes, Context
    <3>2. instance.state = INSTANTIATED => instance.reseed_interval = RESEED_MAX_SHORT
      BY DEF LoneInv, LoneInstance
    <3> QED
      BY <3>1, <3>2 DEF ReseedDue
  <2> QED
    BY <1>0, <1>1, <2>1, <2>2, LoneGoto
<1>6. CASE Compare(c)
  <2>1. /\ instance.state = INSTANTIATED /\ instance.reseed_count <= RESEED_MAX_SHORT
        /\ call[c].data = instance.V
    BY <1>6 DEF Compare, At, LoneInv, LoneCore, Counted, Copied, Holds
  <2>2. Give(c, FALSE) \/ (DrbgGoto(c, "emit") /\ UNCHANGED call)
    BY <1>6 DEF Compare
  <2> QED
    BY <1>0, <1>1, <2>1, <2>2, LoneGoto
<1> QED
  BY <1>1, <1>2, <1>3, <1>4, <1>5, <1>6

\* Entropy is drawn after all that was drawn before.
LEMMA LoneEntropy ==
  ASSUME SeededNext, LoneInv, alone, NEW c \in DrbgCores, StepIsSeeded(c), LoneTypes',
         \/ GetEntropy(c, "entropy", "entropyDone")
         \/ StepEntropy(c, "entropyDone", "begin", 2)
         \/ GetEntropy(c, "reseedEntropy", "reseedEntropyDone")
         \/ StepEntropy(c, "reseedEntropyDone", "reseedV", 1)
  PROVE  LoneInv'
<1>0. DrbgTypes /\ call[c] \in Call /\ call[c].seed \in Nat /\ instance.V.seed \in Nat /\ entropyI \in Nat
  BY FieldTypes DEF SeededNext, SeededInv, DrbgTypes
<1>1. CASE \/ GetEntropy(c, "entropy", "entropyDone")
           \/ GetEntropy(c, "reseedEntropy", "reseedEntropyDone")
  <2> DEFINE new == [call[c] EXCEPT !.seed = entropyI]
  <2>1. new \in Call /\ new.seed = entropyI
    BY <1>0 DEF Call, Seed
  <2>2. /\ call' = [call EXCEPT ![c] = new] /\ UNCHANGED <<instance, entropyI, served, generated, alone>>
        /\ \/ DrbgGoto(c, "entropyDone") /\ drbgPc[c] = "entropy"
           \/ DrbgGoto(c, "reseedEntropyDone") /\ drbgPc[c] = "reseedEntropy"
    BY <1>1 DEF GetEntropy, Ghosts, Quiet, At
  <2> HIDE DEF new
  <2>3. call'[c].seed = entropyI
    BY <1>0, <2>1, <2>2, CallType
  <2>4. /\ drbgPc'[c] \in {"entropyDone", "reseedEntropyDone"}
        /\ drbgPc'[c] = "reseedEntropyDone" => drbgPc[c] = "reseedEntropy"
    BY <1>0, <2>2, GotoType DEF DrbgPc
  <2>5. instance.V.seed < entropyI
    BY DEF LoneInv, LoneInstance
  <2>6. drbgPc[c] = "reseedEntropy" => instance.state = INSTANTIATED
    BY DEF LoneInv, LoneCore, Counted, Holds
  <2>7. LoneCore(c)'
    BY <2>2, <2>3, <2>4, <2>5, <2>6 DEF LoneCore, SeedIsNew, Building, Counted, Copied, Holds, Late
  <2>8. drbgPc[c] \notin Late /\ drbgPc[c] # "idle"
    BY <2>2 DEF Late
  <2> QED
    BY <2>2, <2>7, <2>8, LoneMove
<1>2. CASE \/ StepEntropy(c, "entropyDone", "begin", 2)
           \/ StepEntropy(c, "reseedEntropyDone", "reseedV", 1)
  <2>1. PICK pc \in {"begin", "reseedV"} :
          /\ DrbgGoto(c, pc) /\ entropyI' \in {call[c].seed + 1, call[c].seed + 2}
          /\ drbgPc[c] = IF pc = "begin" THEN "entropyDone" ELSE "reseedEntropyDone"
          /\ UNCHANGED <<instance, call, served, generated, alone>>
    BY <1>2 DEF StepEntropy, Ghosts, Quiet, At
  <2>2. drbgPc'[c] = pc
    BY <1>0, <2>1, GotoType DEF DrbgPc
  <2>3. drbgPc[c] # "idle" /\ drbgPc[c] \notin Late
    BY <2>1 DEF Late
  <2>4. instance.V.seed < call[c].seed /\ (pc = "reseedV" => instance.state = INSTANTIATED)
    BY <2>1 DEF LoneInv, LoneCore, SeedIsNew, Counted, Holds
  <2>5. instance.V.seed < entropyI' /\ call[c].seed < entropyI'
    BY <1>0, <2>1, <2>4
  <2>6. LoneCore(c)'
    BY <2>1, <2>2, <2>4, <2>5 DEF LoneCore, SeedIsNew, Building, Counted, Copied, Holds, Late
  <2>7. LoneInstance'
    BY <2>1, <2>5 DEF LoneInv, LoneInstance, Gen
  <2>8. instance.state = INSTANTIATED => Cardinality(Gen(instance.V.seed)) < instance.reseed_count
    BY <2>3, SomeoneCounts
  <2>9. Gen(instance.V.seed)' = Gen(instance.V.seed)
    BY <2>1 DEF Gen
  <2> QED
    BY <2>1, <2>3, <2>6, <2>7, <2>8, <2>9, LoneFinish
<1> QED
  BY <1>1, <1>2

\* A new seed has served nothing.
LEMMA LoneSetV ==
  ASSUME SeededNext, LoneInv, alone, NEW c \in DrbgCores, StepIsSeeded(c), LoneTypes',
         SetV(c, "setV", "setC") \/ SetV(c, "reseedV", "reseedC"),
         drbgPc[c] = "reseedV" => instance.state = INSTANTIATED
  PROVE  LoneInv'
<1>0. DrbgTypes /\ instance \in Context /\ call[c].seed \in Nat /\ instance.V.seed \in Nat /\ entropyI \in Nat
  BY FieldTypes DEF SeededNext, SeededInv, DrbgTypes
<1> DEFINE v == [seed |-> call[c].seed, step |-> 0]
<1>1. PICK pc \in {"setC", "reseedC"} :
        /\ instance' = [instance EXCEPT !.V = v]
        /\ generated' = {g \in generated : g.seed # call[c].seed}
        /\ UNCHANGED <<entropyI, call, served, alone>>
        /\ drbgPc[c] = (IF pc = "setC" THEN "setV" ELSE "reseedV") /\ DrbgGoto(c, pc)
  BY DEF SetV, Quiet, At
<1>2. drbgPc'[c] = pc
  BY <1>0, <1>1, GotoType DEF DrbgPc
<1>3. v \in Block /\ v.seed = call[c].seed
  BY <1>0 DEF Block, Seed
<1> HIDE DEF v
<1>4. /\ instance'.V = v /\ instance'.state = instance.state
      /\ instance'.reseed_count = instance.reseed_count
      /\ instance'.reseed_interval = instance.reseed_interval
  BY <1>0, <1>1, <1>3 DEF Context
<1>5. instance.V.seed < call[c].seed /\ call[c].seed < entropyI
  BY <1>1 DEF LoneInv, LoneCore, SeedIsNew, Holds
<1>6. \A s : Gen(s)' = IF s = call[c].seed THEN {} ELSE Gen(s)
  BY <1>1 DEF Gen
<1>7. Gen(instance.V.seed)' = {}
  BY <1>1, <1>3, <1>4 DEF Gen
<1>8. LoneInstance'
  <2>1. instance'.V.seed < entropyI'
    BY <1>1, <1>3, <1>4, <1>5
  <2>3. ASSUME NEW s \in Nat PROVE Cardinality(Gen(s))' <= RESEED_MAX_SHORT
    <3>1. CASE s = call[c].seed
      <4>1. Gen(s)' = {}
        BY <1>6, <3>1
      <4>2. Cardinality(Gen(s))' = 0
        BY <4>1, FS_EmptySet
      <4> QED
        BY <4>2, DrbgAssumption
    <3>2. CASE s # call[c].seed
      BY <1>6, <3>2 DEF LoneInv, LoneInstance
    <3> QED
      BY <3>1, <3>2
  <2>4. instance'.state = INSTANTIATED => instance'.reseed_interval = RESEED_MAX_SHORT
    BY <1>4 DEF LoneInv, LoneInstance
  <2> QED
    BY <1>1, <2>1, <2>3, <2>4 DEF LoneInstance
<1>9. instance'.state = INSTANTIATED => Cardinality(Gen(instance.V.seed))' < instance'.reseed_count
  <2>1. instance.state = INSTANTIATED => 0 < instance.reseed_count
    <3>1. instance.state = INSTANTIATED => Cardinality(Gen(instance.V.seed)) < instance.reseed_count
      BY <1>1, SomeoneCounts DEF Late
    <3>2. Cardinality(Gen(instance.V.seed)) \in Nat /\ instance.reseed_count \in Nat
      BY <1>0, GenFacts DEF LoneInv, Context
    <3> QED
      BY <3>1, <3>2
  <2> QED
    BY <1>4, <1>7, <2>1, FS_EmptySet
<1>10. LoneCore(c)'
  <2>1. pc = "setC" =>
          /\ instance.state = ERROR_FLAG
          /\ instance.reseed_count = 1 /\ instance.reseed_interval = RESEED_MAX_SHORT
    BY <1>1 DEF LoneInv, LoneCore, Building, Holds
  <2>2. pc = "reseedC" => instance.state = INSTANTIATED
    BY <1>1
  <2> QED
    BY <1>2, <1>4, <1>7, <2>1, <2>2 DEF LoneCore, SeedIsNew, Building, Counted, Copied, Holds, Late
<1> QED
  BY <1>1, <1>8, <1>9, <1>10, LoneFinish

LEMMA LoneBuilds ==
  ASSUME SeededNext, LoneInv, alone, NEW c \in DrbgCores, StepIsSeeded(c), LoneTypes',
         BeginInstance(c) \/ CompleteInstance(c) \/ ReseedC(c)
  PROVE  LoneInv'
<1>0. DrbgTypes /\ instance \in Context
  BY DEF SeededNext, SeededInv, DrbgTypes
<1>1. /\ instance'.V = instance.V
      /\ UNCHANGED <<entropyI, call, served, generated, alone>>
      /\ drbgPc[c] \in {"begin", "setC", "reseedC"}
      /\ BeginInstance(c) => drbgPc[c] = "begin"
      /\ CompleteInstance(c) => drbgPc[c] = "setC"
      /\ ReseedC(c) => drbgPc[c] = "reseedC"
  BY <1>0 DEF BeginInstance, CompleteInstance, ReseedC, Quiet, Ghosts, At, Context
<1>2. Gen(instance.V.seed)' = Gen(instance.V.seed)
  BY <1>1 DEF Gen
<1>3. /\ instance.V.seed < entropyI
      /\ \A s \in Nat : Cardinality(Gen(s)) <= RESEED_MAX_SHORT
  BY DEF LoneInv, LoneInstance
<1>4. /\ instance'.V.seed < entropyI'
      /\ \A s \in Nat : Cardinality(Gen(s))' <= RESEED_MAX_SHORT
  BY <1>1, <1>3 DEF Gen
<1>5. CASE BeginInstance(c)
  <2>1. /\ instance'.state = ERROR_FLAG /\ instance'.reseed_interval = RESEED_MAX_SHORT
        /\ instance'.reseed_count = 1
    BY <1>0, <1>5 DEF BeginInstance, Context
  <2>2. drbgPc'[c] = "setV"
    BY <1>0, <1>5, GotoType DEF BeginInstance, DrbgPc
  <2>3. instance.V.seed < call[c].seed /\ call[c].seed < entropyI
    BY <1>1, <1>5 DEF LoneInv, LoneCore, SeedIsNew, Holds
  <2>4. LoneCore(c)'
    BY <1>1, <2>1, <2>2, <2>3 DEF LoneCore, SeedIsNew, Building, Counted, Copied, Holds, Late
  <2>5. LoneInstance' /\ instance'.state # INSTANTIATED
    BY <1>4, <2>1 DEF LoneInstance, ERROR_FLAG, INSTANTIATED
  <2> QED
    BY <1>1, <2>4, <2>5, LoneFinish
<1>6. CASE CompleteInstance(c)
  <2>1. /\ instance.reseed_count = 1 /\ instance.reseed_interval = RESEED_MAX_SHORT
        /\ Gen(instance.V.seed) = {}
    BY <1>1, <1>6 DEF LoneInv, LoneCore, Building, Holds
  <2>2. /\ instance'.reseed_count = 1 /\ instance'.reseed_interval = RESEED_MAX_SHORT
    BY <1>0, <1>6, <2>1 DEF CompleteInstance, Context
  <2>3. drbgPc'[c] = "ready"
    BY <1>0, <1>6, GotoType DEF CompleteInstance, DrbgPc
  <2>4. LoneCore(c)'
    BY <2>3 DEF LoneCore, SeedIsNew, Building, Counted, Copied, Holds, Late
  <2>5. LoneInstance'
    BY <1>4, <2>2 DEF LoneInstance
  <2>6. Cardinality(Gen(instance.V.seed))' < instance'.reseed_count
    BY <1>2, <2>1, <2>2, FS_EmptySet
  <2> QED
    BY <1>1, <2>4, <2>5, <2>6, LoneFinish
<1>7. CASE ReseedC(c)
  <2>1. Gen(instance.V.seed) = {} /\ instance.state = INSTANTIATED
    BY <1>1, <1>7 DEF LoneInv, LoneCore, Building, Counted, Holds
  <2>2. /\ instance'.reseed_count = 1 /\ instance'.reseed_interval = instance.reseed_interval
        /\ instance'.state = instance.state
    BY <1>0, <1>7 DEF ReseedC, Context
  <2>3. drbgPc'[c] = "genAlg"
    BY <1>0, <1>7, GotoType DEF ReseedC, DrbgPc
  <2>4. 1 <= RESEED_MAX_SHORT
    BY DrbgAssumption
  <2>5. LoneCore(c)'
    BY <2>1, <2>2, <2>3, <2>4 DEF LoneCore, SeedIsNew, Building, Counted, Copied, Holds, Late
  <2>6. instance.reseed_interval = RESEED_MAX_SHORT
    BY <2>1 DEF LoneInv, LoneInstance
  <2>7. LoneInstance'
    BY <1>4, <2>2, <2>6 DEF LoneInstance
  <2>8. Cardinality(Gen(instance.V.seed))' < instance'.reseed_count
    BY <1>2, <2>1, <2>2, FS_EmptySet
  <2> QED
    BY <1>1, <2>5, <2>7, <2>8, LoneFinish
<1> QED
  BY <1>5, <1>6, <1>7

LEMMA LoneCopies ==
  ASSUME SeededNext, LoneInv, alone, NEW c \in DrbgCores, StepIsSeeded(c), LoneTypes', CopyV(c) \/ HashV(c)
  PROVE  LoneInv'
<1>0. DrbgTypes /\ call[c] \in Call /\ instance.V \in Block
  BY FieldTypes DEF SeededNext, SeededInv
<1>1. CASE CopyV(c)
  <2>0. /\ UNCHANGED <<instance, entropyI, served, generated, alone>>
        /\ drbgPc[c] = "copyV" /\ drbgPc[c] # "idle" /\ drbgPc[c] \notin Late
    BY <1>1 DEF CopyV, Quiet, Ghosts, At, Late
  <2> DEFINE new == [call[c] EXCEPT !.data = instance.V]
  <2>1. new \in Call /\ new.data = instance.V
    BY <1>0 DEF Call
  <2>2. call' = [call EXCEPT ![c] = new] /\ DrbgGoto(c, "compare")
    BY <1>1 DEF CopyV
  <2> HIDE DEF new
  <2>3. call'[c].data = instance.V
    BY <1>0, <2>1, <2>2, CallType
  <2>4. drbgPc'[c] = "compare"
    BY <1>0, <2>2, GotoType DEF DrbgPc
  <2>5. instance.state = INSTANTIATED /\ instance.reseed_count <= RESEED_MAX_SHORT
    BY <2>0 DEF LoneInv, LoneCore, Counted, Holds
  <2>6. LoneCore(c)'
    BY <2>0, <2>3, <2>4, <2>5 DEF LoneCore, SeedIsNew, Building, Counted, Copied, Holds, Late
  <2> QED
    BY <2>0, <2>4, <2>6, LoneMove
<1>2. CASE HashV(c)
  <2> DEFINE new == [call[c] EXCEPT !.h = instance.V]
  <2>0. /\ UNCHANGED <<instance, entropyI, served, generated, alone>>
        /\ drbgPc[c] = "hash" /\ drbgPc[c] # "idle" /\ DrbgGoto(c, "add")
        /\ call' = [call EXCEPT ![c] = new]
    BY <1>2 DEF HashV, Quiet, Ghosts, At
  <2>1. new \in Call /\ new.h = instance.V /\ new.data = call[c].data
    BY <1>0 DEF Call
  <2> HIDE DEF new
  <2>2. call'[c].h = instance.V /\ call'[c].data = call[c].data
    BY <1>0, <2>0, <2>1, CallType
  <2>3. drbgPc'[c] = "add"
    BY <1>0, <2>0, GotoType DEF DrbgPc
  <2>4. /\ instance.state = INSTANTIATED /\ call[c].data = instance.V
        /\ Cardinality(Gen(instance.V.seed)) <= instance.reseed_count
    BY <2>0 DEF LoneInv, LoneCore, Counted, Copied, Holds, Late
  <2>5. Gen(instance.V.seed)' = Gen(instance.V.seed)
    BY <2>0 DEF Gen
  <2>6. LoneCore(c)'
    BY <2>0, <2>2, <2>3, <2>4, <2>5 DEF LoneCore, SeedIsNew, Building, Counted, Copied, Holds, Late
  <2> QED
    BY <2>0, <2>3, <2>6, LoneMove DEF Late
<1> QED
  BY <1>1, <1>2

\* One request more from the seed of V; the count follows later, but leaves room for it.
LEMMA LoneEmits ==
  ASSUME SeededNext, LoneInv, alone, NEW c \in DrbgCores, StepIsSeeded(c), LoneTypes', Emit(c)
  PROVE  LoneInv'
<1>0. DrbgTypes /\ instance \in Context /\ call[c] \in Call /\ instance.V.seed \in Nat
      /\ instance.reseed_count \in Nat
  BY FieldTypes DEF SeededNext, SeededInv, DrbgTypes
<1> DEFINE request == [seed |-> call[c].data.seed, nth |-> call[c].nth]
<1>1. /\ drbgPc[c] = "emit" /\ DrbgGoto(c, "hash") /\ UNCHANGED <<entropyI, call, served, alone>>
      /\ instance' = [instance EXCEPT !.comp = call[c].data]
      /\ generated' = generated \cup {request}
  BY DEF Emit, Quiet, At
<1>2. /\ instance'.V = instance.V /\ instance'.state = instance.state
      /\ instance'.reseed_count = instance.reseed_count
      /\ instance'.reseed_interval = instance.reseed_interval
  BY <1>0, <1>1 DEF Context
<1>3. /\ instance.state = INSTANTIATED /\ instance.reseed_count <= RESEED_MAX_SHORT
      /\ call[c].data = instance.V
  BY <1>1 DEF LoneInv, LoneCore, Counted, Copied, Holds
<1>4. drbgPc[c] \notin Late /\ drbgPc[c] # "idle"
  BY <1>1 DEF Late
<1>5. Cardinality(Gen(instance.V.seed)) < instance.reseed_count
  BY <1>3, <1>4, SomeoneCounts
<1>6. drbgPc'[c] = "hash"
  BY <1>0, <1>1, GotoType DEF DrbgPc
<1>7. request.seed = instance.V.seed
  BY <1>3
<1> HIDE DEF request
<1>8. /\ Gen(instance.V.seed)' = Gen(instance.V.seed) \cup {request}
      /\ \A s : s # instance.V.seed => Gen(s)' = Gen(s)
  BY <1>1, <1>2, <1>7 DEF Gen
<1>9. Cardinality(Gen(instance.V.seed))' <= instance.reseed_count
  <2>1. IsFiniteSet(Gen(instance.V.seed)) /\ Cardinality(Gen(instance.V.seed)) \in Nat
    BY GenFacts DEF LoneInv
  <2>2. \/ Cardinality(Gen(instance.V.seed) \cup {request}) = Cardinality(Gen(instance.V.seed))
        \/ Cardinality(Gen(instance.V.seed) \cup {request}) = Cardinality(Gen(instance.V.seed)) + 1
    BY <2>1, FS_AddElement
  <2> QED
    BY <1>0, <1>5, <1>8, <2>1, <2>2
<1>10. LoneInstance'
  <2>1. ASSUME NEW s \in Nat PROVE Cardinality(Gen(s))' <= RESEED_MAX_SHORT
    <3>1. CASE s = instance.V.seed
      <4>1. Gen(s)' = Gen(instance.V.seed)'
        BY <1>2, <3>1 DEF Gen
      <4>2. Cardinality(Gen(instance.V.seed))' \in Nat
        BY <1>2, GenFacts, <1>8, FS_AddElement, FS_CardinalityType DEF LoneInv
      <4> QED
        BY <1>0, <1>3, <1>9, <4>1, <4>2, DrbgAssumption
    <3>2. CASE s # instance.V.seed
      BY <1>8, <3>2 DEF LoneInv, LoneInstance
    <3> QED
      BY <3>1, <3>2
  <2> QED
    BY <1>1, <1>2, <2>1 DEF LoneInv, LoneInstance
<1>11. LoneCore(c)'
  BY <1>1, <1>2, <1>3, <1>6, <1>9 DEF LoneCore, SeedIsNew, Building, Counted, Copied, Holds, Late
<1> QED
  BY <1>1, <1>4, <1>6, <1>10, <1>11, LoneFinish DEF Late

\* V moves past the number that was made from it.
LEMMA LoneAdds ==
  ASSUME SeededNext, LoneInv, alone, NEW c \in DrbgCores, StepIsSeeded(c), LoneTypes', AddV(c)
  PROVE  LoneInv'
<1>0. DrbgTypes /\ instance \in Context /\ call[c] \in Call /\ instance.V \in Block
      /\ instance.V.seed \in Nat /\ instance.V.step \in Nat /\ instance.reseed_count \in Nat
  BY FieldTypes DEF SeededNext, SeededInv, DrbgTypes
<1> DEFINE new == [call[c] EXCEPT !.count = instance.reseed_count]
           next == Updated(instance.V)
<1>1. /\ drbgPc[c] = "add" /\ DrbgGoto(c, "bump") /\ UNCHANGED <<entropyI, served, generated, alone>>
      /\ call' = [call EXCEPT ![c] = new]
  BY DEF AddV, Quiet, Ghosts, At
<1>2. /\ call[c].h = instance.V /\ call[c].data = instance.V /\ instance.state = INSTANTIATED
      /\ Cardinality(Gen(instance.V.seed)) <= instance.reseed_count
  BY <1>1 DEF LoneInv, LoneCore, Counted, Copied, Holds, Late
<1>3. instance' = [instance EXCEPT !.V = next]
  BY <1>2 DEF AddV
<1>4. next \in Block /\ next.seed = instance.V.seed /\ next.step = instance.V.step + 1
  BY <1>0 DEF Updated, Block
<1>5. new \in Call /\ new.data = call[c].data /\ new.count = instance.reseed_count
  BY <1>0 DEF Call
<1> HIDE DEF new, next
<1>6. /\ instance'.V = next /\ instance'.state = instance.state
      /\ instance'.reseed_count = instance.reseed_count
      /\ instance'.reseed_interval = instance.reseed_interval
  BY <1>0, <1>3, <1>4 DEF Context
<1>7. call'[c].data = instance.V /\ call'[c].count = instance.reseed_count
  BY <1>0, <1>1, <1>2, <1>5, CallType
<1>8. drbgPc'[c] = "bump"
  BY <1>0, <1>1, GotoType DEF DrbgPc
<1>12. Gen(instance.V.seed)' = Gen(instance.V.seed)
  BY <1>1, <1>4, <1>6 DEF Gen
<1>14. LoneInstance'
  <2>1. instance'.V.seed < entropyI'
    BY <1>1, <1>4, <1>6 DEF LoneInv, LoneInstance
  <2>2. \A s \in Nat : Cardinality(Gen(s))' <= RESEED_MAX_SHORT
    BY <1>1 DEF LoneInv, LoneInstance, Gen
  <2> QED
    BY <1>6, <2>1, <2>2 DEF LoneInv, LoneInstance
<1>16. Counted(c)'
  BY <1>2, <1>6, <1>7, <1>8, <1>12 DEF Counted, Holds, Late
<1>17. LoneCore(c)'
  BY <1>8, <1>16 DEF LoneCore, SeedIsNew, Building, Copied, Holds
<1> QED
  BY <1>1, <1>8, <1>14, <1>17, LoneFinish DEF Late

\* The request is counted.
LEMMA LoneBumps ==
  ASSUME SeededNext, LoneInv, alone, NEW c \in DrbgCores, StepIsSeeded(c), LoneTypes', Bump(c)
  PROVE  LoneInv'
<1>0. DrbgTypes /\ instance \in Context /\ call[c].count \in Nat /\ instance.reseed_count \in Nat
  BY FieldTypes DEF SeededNext, SeededInv, DrbgTypes
<1>1. /\ drbgPc[c] = "bump" /\ Give(c, TRUE) /\ UNCHANGED <<entropyI, served, generated, alone>>
      /\ instance' = [instance EXCEPT !.reseed_count = call[c].count + 1]
  BY DEF Bump, Quiet, Ghosts, At
<1>2. /\ instance'.V = instance.V /\ instance'.state = instance.state
      /\ instance'.reseed_count = call[c].count + 1
      /\ instance'.reseed_interval = instance.reseed_interval
  BY <1>0, <1>1 DEF Context
<1>3. drbgPc'[c] = "return" /\ call'[c].data = call[c].data
  BY <1>0, <1>1, GiveType
<1>4. /\ Cardinality(Gen(instance.V.seed)) <= instance.reseed_count
      /\ call[c].count = instance.reseed_count
  BY <1>1 DEF LoneInv, LoneCore, Counted, Copied, Holds, Late
<1>5. Gen(instance.V.seed)' = Gen(instance.V.seed)
  BY <1>1, <1>2 DEF Gen
<1>6. Cardinality(Gen(instance.V.seed))' < instance'.reseed_count
  <2>1. Cardinality(Gen(instance.V.seed)) \in Nat
    BY GenFacts DEF LoneInv
  <2> QED
    BY <1>0, <1>2, <1>4, <1>5, <2>1
<1>7. LoneInstance'
  BY <1>1, <1>2 DEF LoneInv, LoneInstance, Gen
<1>8. LoneCore(c)'
  BY <1>1, <1>2, <1>3, <1>4 DEF LoneCore, SeedIsNew, Building, Counted, Copied, Holds, Late
<1> QED
  BY <1>1, <1>6, <1>7, <1>8, LoneFinish

\* A call that ends leaves the instance alone.
LEMMA LoneReturns ==
  ASSUME SeededNext, LoneInv, alone, NEW c \in DrbgCores, StepIsSeeded(c), LoneTypes', DrbgReturn(c)
  PROVE  LoneInv'
<1>0. DrbgTypes
  BY DEF SeededNext, SeededInv
<1>1. /\ drbgPc[c] = "return" /\ DrbgGoto(c, "idle") /\ UNCHANGED <<instance, entropyI, generated, alone>>
  BY DEF DrbgReturn, Quiet, At
<1>2. LoneInstance'
  BY <1>1 DEF LoneInv, LoneInstance, Gen
<1>3. drbgPc'[c] = "idle"
  BY <1>0, <1>1, GotoType DEF DrbgPc
<1>4. LoneCore(c)'
  BY <1>3 DEF LoneCore, SeedIsNew, Building, Counted, Copied, Holds, Late
<1>5. instance.state = INSTANTIATED => Cardinality(Gen(instance.V.seed)) < instance.reseed_count
  BY <1>1, SomeoneCounts DEF Late
<1>6. Gen(instance.V.seed)' = Gen(instance.V.seed)
  BY <1>1 DEF Gen
<1> QED
  BY <1>1, <1>2, <1>4, <1>5, <1>6, LoneFinish

\* A call that begins while another one runs ends what is said of lone calls.
LEMMA LoneBegins ==
  ASSUME SeededNext, LoneInv, NEW c \in DrbgCores, StepIsSeeded(c), LoneTypes', GetPrng(c)
  PROVE  LoneInv'
<1> SUFFICES ASSUME alone' PROVE
      /\ \A a, d \in DrbgCores : drbgPc'[a] # "idle" /\ drbgPc'[d] # "idle" => a = d
      /\ LoneInstance' /\ LoneCount'
      /\ \A d \in DrbgCores : LoneCore(d)'
  BY DEF LoneInv
<1>1. /\ alone /\ \A d \in DrbgCores : drbgPc[d] = "idle"
      /\ DrbgGoto(c, "check") /\ UNCHANGED <<instance, entropyI, served, generated>>
  BY DEF GetPrng, Ghosts, At
<1>2. drbgPc'[c] = "check" /\ \A d \in DrbgCores \ {c} : drbgPc'[d] = "idle"
  BY <1>1, GotoType DEF SeededNext, SeededInv, DrbgPc
<1>3. LoneInstance'
  BY <1>1 DEF LoneInv, LoneInstance, Gen
<1>4. LoneCount'
  <2>1. \A d \in DrbgCores : ~Holds(d, Late)
    BY <1>1 DEF Holds, Late
  <2> QED
    BY <1>1, <2>1 DEF LoneInv, LoneCount, Gen
<1>5. ASSUME NEW d \in DrbgCores PROVE LoneCore(d)'
  <2>1. drbgPc'[d] \in {"check", "idle"}
    BY <1>2
  <2> QED
    BY <2>1 DEF LoneCore, SeedIsNew, Building, Counted, Copied, Holds, Late
<1> QED
  BY <1>2, <1>3, <1>4, <1>5

LEMMA LoneStep ==
  ASSUME SeededNext, LoneInv, [DrbgNext]_drbgVars
  PROVE  LoneInv'
<1>1. ASSUME NEW c \in DrbgCores, GetPrng(c) \/ DrbgStep(c) PROVE LoneInv'
  <2>1. StepIsSeeded(c)
    BY <1>1, EntropyIsSeeded, BuildIsSeeded, CheckIsSeeded, NumberIsSeeded, EndsAreSeeded
       DEF SeededNext, DrbgStep
  <2>2. LoneTypes' /\ (alone' => alone)
    BY <1>1, StepTypes DEF LoneInv
  <2>3. CASE ~alone
    BY <2>2, <2>3 DEF LoneInv
  <2>4. CASE GetPrng(c)
    BY <2>1, <2>2, <2>4, LoneBegins
  <2>5. CASE alone /\ DrbgStep(c)
    <3>1. CASE ReseedV(c)
      <4>1. CASE instance.state = INSTANTIATED /\ SetV(c, "reseedV", "reseedC")
        BY <2>1, <2>2, <2>5, <4>1, LoneSetV
      <4>2. CASE drbgPc[c] = "reseedV" /\ Give(c, FALSE) /\ Quiet /\ Ghosts /\ UNCHANGED <<instance, entropyI>>
        BY <2>1, <2>2, <2>5, <4>2, LoneChecks
      <4> QED
        BY <3>1, <4>1, <4>2 DEF ReseedV, At
    <3>2. CASE SetV(c, "setV", "setC")
      <4>1. drbgPc[c] # "reseedV"
        BY <3>2 DEF SetV, At
      <4> QED
        BY <2>1, <2>2, <2>5, <3>2, <4>1, LoneSetV
    <3> QED
      BY <2>1, <2>2, <2>5, <3>1, <3>2, LoneChecks, LoneEntropy, LoneBuilds, LoneCopies, LoneEmits, LoneAdds,
         LoneBumps, LoneReturns DEF DrbgStep
  <2> QED
    BY <1>1, <2>3, <2>4, <2>5
<1>2. CASE UNCHANGED drbgVars
  BY <1>2 DEF drbgVars, LoneInv, LoneTypes, LoneInstance, LoneCount, LoneCore, SeedIsNew, Building, Counted,
              Copied, Gen, Holds
<1> QED
  BY <1>1, <1>2 DEF DrbgNext

LEMMA LoneStart == DrbgInit => LoneInv
<1> SUFFICES ASSUME DrbgInit PROVE LoneInv
  OBVIOUS
<1>1. \A c \in DrbgCores : drbgPc[c] = "idle"
  BY DEF DrbgInit
<1>2. served = {} /\ generated = {} /\ entropyI = 1 /\ alone = TRUE
  BY DEF DrbgInit
<1>3. LoneTypes
  BY <1>2, FS_EmptySet DEF LoneTypes
<1>4. instance.V.seed = 0 /\ instance.state # INSTANTIATED
  BY DEF DrbgInit, NoBlock, Zero, UNINSTANTIATED, INSTANTIATED
<1>5. \A s : Cardinality(Gen(s)) = 0
  BY <1>2, FS_EmptySet DEF Gen
<1>6. LoneInstance /\ LoneCount
  BY <1>2, <1>4, <1>5, DrbgAssumption DEF LoneInstance, LoneCount
<1>7. \A c \in DrbgCores : LoneCore(c)
  BY <1>1 DEF LoneCore, SeedIsNew, Building, Counted, Copied, Holds, Late
<1> QED
  BY <1>1, <1>3, <1>6, <1>7 DEF LoneInv

\* As long as calls do not overlap, no seed serves more requests than the reseed interval, although the test
\* comes before the request and the count after it, in another function (hash_drbg_generate()).
THEOREM SeedsAreUsedUp == DrbgSpec => []SeedIsUsedUp
<1>1. LoneInv => SeedIsUsedUp
  <2> SUFFICES ASSUME LoneInv, alone, NEW s \in {g.seed : g \in generated}
               PROVE  Cardinality({g \in generated : g.seed = s}) <= RESEED_MAX_SHORT
    BY DEF SeedIsUsedUp
  <2>1. s \in Nat
    BY DEF LoneInv, LoneTypes, Seed
  <2>2. Cardinality(Gen(s)) <= RESEED_MAX_SHORT
    BY <2>1 DEF LoneInv, LoneInstance
  <2> QED
    BY <2>2 DEF Gen
<1> QED
  BY <1>1, SeededStart, SeededStep, LoneStart, LoneStep, PTL DEF DrbgSpec

-----------------------------------------------------------------------------
(* The bytes: sha256.c, the hex strings, hash_df() and byte_add().         *)

\* A set of naturals that is not empty has a least one.
LEMMA LeastNatural ==
  ASSUME NEW S, S \subseteq Nat, S # {}
  PROVE  \E n \in S : \A m \in S : n <= m
<1> DEFINE R == OpToRel(<, Nat)
<1>1. IsWellFoundedOn(R, Nat)
  BY NatLessThanWellFounded
<1>2. \A a, b \in Nat : a < b => <<a, b>> \in R
  BY DEF OpToRel
<1> HIDE DEF R
<1>3. PICK n \in S : \A m \in S : ~ (<<m, n>> \in R)
  BY <1>1, WFMin
<1>4. ASSUME NEW m \in S PROVE n <= m
  <2>1. m \in Nat /\ n \in Nat
    OBVIOUS
  <2>2. ~ (m < n)
    BY <1>2, <1>3, <2>1
  <2> QED
    BY <2>1, <2>2
<1> QED
  BY <1>4

\* What a recursive function computes: v[i] comes from v[i - 1] and i.
Recursion(v, n, D, b, F) ==
  /\ v \in [0..n -> D]
  /\ v[0] = b
  /\ \A i \in 1..n : v[i] = F[<<v[i - 1], i>>]

\* Such a function exists, whatever its step is.
LEMMA RecursionExists ==
  ASSUME NEW n \in Nat, NEW D, NEW b \in D, NEW F \in [D \X (1..n) -> D]
  PROVE  \E v : Recursion(v, n, D, b, F)
<1> DEFINE Wrong == {k \in 0..n : ~ \E v : Recursion(v, k, D, b, F)}
<1>1. SUFFICES ASSUME Wrong # {} PROVE FALSE
  OBVIOUS
<1>2. PICK k \in Wrong : \A m \in Wrong : k <= m
  <2>1. Wrong \subseteq Nat
    OBVIOUS
  <2> HIDE DEF Wrong
  <2> QED
    BY <1>1, <2>1, LeastNatural
<1>3. k # 0
  <2>1. SUFFICES ASSUME k = 0 PROVE FALSE
    OBVIOUS
  <2> DEFINE w == [i \in 0..0 |-> b]
  <2>2. Recursion(w, 0, D, b, F)
    BY DEF Recursion
  <2> QED
    BY <2>1, <2>2
<1>4. k \in 1..n /\ k - 1 \in 0..n /\ k - 1 \notin Wrong
  BY <1>2, <1>3
<1>5. PICK v : Recursion(v, k - 1, D, b, F)
  BY <1>4
<1> DEFINE w == [i \in 0..k |-> IF i = k THEN F[<<v[k - 1], k>>] ELSE v[i]]
<1>6. v \in [0..(k - 1) -> D] /\ v[0] = b /\ \A i \in 1..(k - 1) : v[i] = F[<<v[i - 1], i>>]
  BY <1>5 DEF Recursion
<1>7. F[<<v[k - 1], k>>] \in D
  <2>1. v[k - 1] \in D
    BY <1>4, <1>6
  <2> QED
    BY <1>4, <2>1
<1>8. w \in [0..k -> D]
  BY <1>4, <1>6, <1>7
<1>9. w[0] = b
  BY <1>4, <1>6
<1>10. ASSUME NEW i \in 1..k PROVE w[i] = F[<<w[i - 1], i>>]
  <2>1. w[i - 1] = v[i - 1]
    BY <1>4
  <2>2. CASE i = k
    BY <2>1, <2>2
  <2>3. CASE i # k
    BY <1>4, <1>6, <2>1, <2>3
  <2> QED
    BY <2>2, <2>3
<1>11. Recursion(w, k, D, b, F)
  BY <1>8, <1>9, <1>10 DEF Recursion
<1> QED
  BY <1>11

-----------------------------------------------------------------------------
\* The value of an array, byte by byte.
LEMMA ValueSteps ==
  ASSUME NEW n \in Nat, NEW bytes \in [1..n -> Nat]
  PROVE  \E v \in [0..n -> Nat] : /\ v[0] = 0
                                  /\ \A i \in 1..n : v[i] = 256 * v[i - 1] + bytes[i]
                                  /\ ValueOf(bytes) = v[n]
<1> DEFINE F == [p \in Nat \X (1..n) |-> 256 * p[1] + bytes[p[2]]]
           Step(v) == [i \in 0..n |-> IF i = 0 THEN 0 ELSE 256 * v[i - 1] + bytes[i]]
<1>0. F \in [Nat \X (1..n) -> Nat]
  OBVIOUS
<1>1. PICK u : Recursion(u, n, Nat, 0, F)
  <2> HIDE DEF F
  <2> QED
    BY <1>0, RecursionExists
<1>2. u \in [0..n -> Nat] /\ u[0] = 0 /\ \A i \in 1..n : u[i] = F[<<u[i - 1], i>>]
  BY <1>1 DEF Recursion
<1>3. ASSUME NEW i \in 1..n PROVE u[i] = 256 * u[i - 1] + bytes[i]
  <2>1. u[i - 1] \in Nat
    BY <1>2
  <2> QED
    BY <1>2, <2>1
<1>4. u = Step(u)
  BY <1>2, <1>3
<1> DEFINE V == CHOOSE v : v = Step(v)
<1>5. V = Step(V)
  BY <1>4
<1>6. Len(bytes) = n
  OBVIOUS
<1>7. ValueOf(bytes) = V[n]
  BY <1>6 DEF ValueOf
<1> HIDE DEF V, F
<1>8. V[0] = 0 /\ \A i \in 1..n : V[i] = 256 * V[i - 1] + bytes[i]
  BY <1>5
<1>9. V \in [0..n -> Nat]
  <2>1. SUFFICES ASSUME NEW i \in 0..n PROVE V[i] \in Nat
    BY <1>5
  <2> DEFINE Wrong == {k \in 0..n : V[k] \notin Nat}
  <2>2. ASSUME Wrong # {} PROVE FALSE
    <3>1. Wrong \subseteq Nat
      OBVIOUS
    <3>2. PICK k \in Wrong : \A m \in Wrong : k <= m
      <4> HIDE DEF Wrong
      <4> QED
        BY <2>2, <3>1, LeastNatural
    <3>3. k \in 1..n
      BY <1>8
    <3>4. k - 1 \in 0..n /\ k - 1 \notin Wrong
      BY <3>2, <3>3
    <3>5. V[k - 1] \in Nat
      BY <3>4
    <3> QED
      BY <1>8, <3>2, <3>3, <3>5
  <2> QED
    BY <2>2
<1> QED
  BY <1>7, <1>8, <1>9

\* The bytes that the first blocks fill.
LEMMA FillingSteps ==
  ASSUME NEW n \in Nat, NEW df, Len(df) = n, \A i \in 1..n : df[i].copied \in Nat
  PROVE  \E v \in [0..n -> Nat] : /\ v[0] = 0
                                  /\ \A i \in 1..n : v[i] = v[i - 1] + df[i].copied
                                  /\ Filling(df) = v[n]
<1> DEFINE F == [p \in Nat \X (1..n) |-> p[1] + df[p[2]].copied]
           Step(v) == [i \in 0..n |-> IF i = 0 THEN 0 ELSE v[i - 1] + df[i].copied]
<1>0. F \in [Nat \X (1..n) -> Nat]
  OBVIOUS
<1>1. PICK u : Recursion(u, n, Nat, 0, F)
  <2> HIDE DEF F
  <2> QED
    BY <1>0, RecursionExists
<1>2. u \in [0..n -> Nat] /\ u[0] = 0 /\ \A i \in 1..n : u[i] = F[<<u[i - 1], i>>]
  BY <1>1 DEF Recursion
<1>3. ASSUME NEW i \in 1..n PROVE u[i] = u[i - 1] + df[i].copied
  <2>1. u[i - 1] \in Nat
    BY <1>2
  <2> QED
    BY <1>2, <2>1
<1>4. u = Step(u)
  BY <1>2, <1>3
<1> DEFINE V == CHOOSE v : v = Step(v)
<1>5. V = Step(V)
  BY <1>4
<1>7. Filling(df) = V[n]
  BY DEF Filling
<1> HIDE DEF V, F
<1>8. V[0] = 0 /\ \A i \in 1..n : V[i] = V[i - 1] + df[i].copied
  BY <1>5
<1>9. V \in [0..n -> Nat]
  <2>1. SUFFICES ASSUME NEW i \in 0..n PROVE V[i] \in Nat
    BY <1>5
  <2> DEFINE Wrong == {k \in 0..n : V[k] \notin Nat}
  <2>2. ASSUME Wrong # {} PROVE FALSE
    <3>1. Wrong \subseteq Nat
      OBVIOUS
    <3>2. PICK k \in Wrong : \A m \in Wrong : k <= m
      <4> HIDE DEF Wrong
      <4> QED
        BY <2>2, <3>1, LeastNatural
    <3>3. k \in 1..n
      BY <1>8
    <3>4. k - 1 \in 0..n /\ k - 1 \notin Wrong
      BY <3>2, <3>3
    <3>5. V[k - 1] \in Nat
      BY <3>4
    <3>6. df[k].copied \in Nat
      BY <3>3
    <3>7. V[k] = V[k - 1] + df[k].copied
      BY <1>8, <3>3
    <3>8. V[k] \in Nat
      BY <3>5, <3>6, <3>7
    <3> QED
      BY <3>2, <3>8
  <2> QED
    BY <2>2
<1> QED
  BY <1>7, <1>8, <1>9

-----------------------------------------------------------------------------
(* Blocks one behind the other.                                            *)

Piece == [1..64 -> Byte]

\* Byte k of blocks of 64 bytes.
ByteOf(blocks, k) == blocks[((k - 1) \div 64) + 1][((k - 1) % 64) + 1]

Joining(a, m, b, n) == [i \in 1..(m + n) |-> IF i <= m THEN a[i] ELSE b[i - m]]

IsBytes(a, n) == a \in [1..n -> Byte]

\* The bytes of one array after those of another.
LEMMA Joined ==
  ASSUME NEW m \in Nat, NEW n \in Nat, NEW a, NEW b, IsBytes(a, m), IsBytes(b, n)
  PROVE  /\ a \o b = Joining(a, m, b, n)
         /\ IsBytes(a \o b, m + n) /\ Len(a \o b) = m + n
<1>1. a \in Seq(Byte) /\ b \in Seq(Byte) /\ Len(a) = m /\ Len(b) = n
  BY DEF IsBytes
<1>2. /\ a \o b \in Seq(Byte) /\ Len(a \o b) = m + n
      /\ \A i \in 1..(m + n) : (a \o b)[i] = IF i <= m THEN a[i] ELSE b[i - m]
  BY <1>1, ConcatProperties
<1> DEFINE joined == a \o b
<1> HIDE DEF joined
<1>3. joined \in [1..(m + n) -> Byte]
  BY <1>2, LenProperties DEF joined
<1>4. joined = [i \in 1..(m + n) |-> joined[i]]
  BY <1>3
<1>5. \A i \in 1..(m + n) : joined[i] = IF i <= m THEN a[i] ELSE b[i - m]
  BY <1>2 DEF joined
<1>6. joined = [i \in 1..(m + n) |-> IF i <= m THEN a[i] ELSE b[i - m]]
  BY <1>4, <1>5, Zenon
<1> QED
  BY <1>2, <1>3, <1>6 DEF joined, Joining, IsBytes

\* The blocks, one after the other.
LEMMA Flattened ==
  ASSUME NEW n \in Nat, n > 0, NEW blocks \in [1..n -> Piece]
  PROVE  FlattenSeq(blocks) = [k \in 1..(64 * n) |-> ByteOf(blocks, k)]
<1> DEFINE FirstBytes(i) == [k \in 1..(64 * i) |-> ByteOf(blocks, k)]
           Step(v) == [i \in 1..n |-> IF i = 1 THEN blocks[i] ELSE v[i - 1] \o blocks[i]]
           w == [i \in 1..n |-> FirstBytes(i)]
<1>1. FirstBytes(1) = blocks[1]
  <2>1. \A k \in 1..64 : ((k - 1) \div 64) + 1 = 1 /\ ((k - 1) % 64) + 1 = k
    OBVIOUS
  <2>2. blocks[1] \in Piece
    OBVIOUS
  <2>3. blocks[1] = [k \in 1..64 |-> blocks[1][k]]
    BY <2>2, Zenon DEF Piece
  <2>4. \A k \in 1..64 : ByteOf(blocks, k) = blocks[1][k]
    BY <2>1 DEF ByteOf
  <2>5. [k \in 1..64 |-> ByteOf(blocks, k)] = blocks[1]
    BY <2>3, <2>4, Zenon
  <2>6. 64 * 1 = 64
    OBVIOUS
  <2> QED
    BY <2>5, <2>6
<1>2. ASSUME NEW i \in 2..n PROVE FirstBytes(i) = FirstBytes(i - 1) \o blocks[i]
  <2>1. FirstBytes(i - 1) \in [1..(64 * (i - 1)) -> Byte]
    <3>1. SUFFICES ASSUME NEW k \in 1..(64 * (i - 1)) PROVE ByteOf(blocks, k) \in Byte
      OBVIOUS
    <3>2. ((k - 1) \div 64) + 1 \in 1..n /\ ((k - 1) % 64) + 1 \in 1..64
      OBVIOUS
    <3>3. blocks[((k - 1) \div 64) + 1] \in Piece
      BY <3>2
    <3> QED
      BY <3>2, <3>3, Zenon DEF ByteOf, Piece
  <2>2. blocks[i] \in [1..64 -> Byte]
    <3>1. blocks[i] \in Piece
      OBVIOUS
    <3> QED
      BY <3>1 DEF Piece
  <2> DEFINE m == 64 * (i - 1)
             joined == [k \in 1..(m + 64) |-> IF k <= m THEN FirstBytes(i - 1)[k] ELSE blocks[i][k - m]]
  <2>3. FirstBytes(i - 1) \o blocks[i] = joined
    <3>1. m \in Nat /\ 64 \in Nat
      OBVIOUS
    <3>2. FirstBytes(i - 1) \in [1..m -> Byte]
      BY <2>1
    <3>3. IsBytes(FirstBytes(i - 1), m) /\ IsBytes(blocks[i], 64)
      BY <2>2, <3>2 DEF IsBytes
    <3> HIDE DEF FirstBytes, m
    <3>4. FirstBytes(i - 1) \o blocks[i] = Joining(FirstBytes(i - 1), m, blocks[i], 64)
      BY <3>1, <3>3, Joined
    <3> QED
      BY <3>4 DEF Joining
  <2>4. m + 64 = 64 * i
    OBVIOUS
  <2>5. ASSUME NEW k \in 1..(64 * i), k > m PROVE ByteOf(blocks, k) = blocks[i][k - m]
    <3>1. ((k - 1) \div 64) + 1 = i /\ ((k - 1) % 64) + 1 = k - m
      BY <2>5
    <3> QED
      BY <3>1 DEF ByteOf
  <2>6. ASSUME NEW k \in 1..(64 * i) PROVE joined[k] = ByteOf(blocks, k)
    BY <2>4, <2>5, <2>6
  <2>7. joined = FirstBytes(i)
    BY <2>4, <2>6
  <2> QED
    BY <2>3, <2>7
<1>3. w = Step(w)
  <2>1. SUFFICES ASSUME NEW i \in 1..n
                 PROVE  w[i] = IF i = 1 THEN blocks[i] ELSE w[i - 1] \o blocks[i]
    BY Zenon
  <2>2. CASE i = 1
    BY <1>1, <2>2
  <2>3. CASE i # 1
    <3>1. i \in 2..n /\ i - 1 \in 1..n
      BY <2>3
    <3>2. w[i - 1] = FirstBytes(i - 1) /\ w[i] = FirstBytes(i)
      BY <3>1
    <3> HIDE DEF w, FirstBytes
    <3> QED
      BY <1>2, <2>3, <3>1, <3>2
  <2> QED
    BY <2>2, <2>3
<1> DEFINE V == CHOOSE v : v = Step(v)
<1>4. V = Step(V)
  BY <1>3
<1>5. FlattenSeq(blocks) = V[n]
  <2>1. Len(blocks) = n /\ Len(blocks) # 0
    OBVIOUS
  <2> QED
    BY <2>1 DEF FlattenSeq
<1> HIDE DEF V, w
<1>6. V[1] = blocks[1] /\ \A i \in 2..n : V[i] = V[i - 1] \o blocks[i]
  <2>1. \A i \in 1..n : V[i] = IF i = 1 THEN blocks[i] ELSE V[i - 1] \o blocks[i]
    BY <1>4, Zenon
  <2>2. 1 \in 1..n /\ \A i \in 2..n : i \in 1..n /\ i # 1
    OBVIOUS
  <2> QED
    BY <2>1, <2>2, Zenon
<1> DEFINE Wrong == {k \in 1..n : V[k] # FirstBytes(k)}
<1>7. ASSUME Wrong # {} PROVE FALSE
  <2>1. Wrong \subseteq Nat
    OBVIOUS
  <2>2. PICK k \in Wrong : \A m \in Wrong : k <= m
    <3> HIDE DEF Wrong
    <3> QED
      BY <1>7, <2>1, LeastNatural
  <2>0. V[1] = FirstBytes(1)
    BY <1>1, <1>6
  <2>3. k \in 2..n
    <3>1. k \in 1..n /\ V[k] # FirstBytes(k)
      BY <2>2
    <3> HIDE DEF FirstBytes, Wrong
    <3> QED
      BY <2>0, <3>1
  <2>4. k - 1 \in 1..n /\ k - 1 \notin Wrong
    BY <2>2, <2>3
  <2>5. V[k - 1] = FirstBytes(k - 1)
    BY <2>4
  <2>6. V[k] # FirstBytes(k)
    BY <2>2
  <2> HIDE DEF FirstBytes, Wrong
  <2> QED
    BY <1>2, <1>6, <2>3, <2>5, <2>6
<1>8. n \in 1..n /\ n \notin Wrong
  <2> HIDE DEF Wrong
  <2> QED
    BY <1>7
<1>9. V[n] = FirstBytes(n)
  <2> HIDE DEF FirstBytes
  <2> QED
    BY <1>8
<1> QED
  BY <1>5, <1>9

\* A piece of an array of bytes.
LEMMA Cut ==
  ASSUME NEW m \in Nat, NEW a, IsBytes(a, m), NEW p \in 1..(m + 1), NEW q \in (p - 1)..m
  PROVE  /\ IsBytes(SubSeq(a, p, q), q - p + 1) /\ Len(SubSeq(a, p, q)) = q - p + 1
         /\ \A i \in 1..(q - p + 1) : SubSeq(a, p, q)[i] = a[p + i - 1]
<1>1. \A i \in p..q : a[i] \in Byte
  BY DEF IsBytes
<1>2. p \in Int /\ q \in Int /\ q - p + 1 \in Nat
  OBVIOUS
<1>3. /\ SubSeq(a, p, q) \in Seq(Byte)
      /\ Len(SubSeq(a, p, q)) = IF p <= q THEN q - p + 1 ELSE 0
      /\ \A i \in 1..(q - p + 1) : SubSeq(a, p, q)[i] = a[p + i - 1]
  BY <1>1, <1>2, SubSeqProperties
<1>4. Len(SubSeq(a, p, q)) = q - p + 1
  BY <1>2, <1>3
<1> DEFINE cut == SubSeq(a, p, q)
<1> HIDE DEF cut
<1>5. cut \in [1..(q - p + 1) -> Byte]
  BY <1>3, <1>4, LenProperties DEF cut
<1> QED
  BY <1>3, <1>4, <1>5 DEF cut, IsBytes

Ctx == [data : Piece, datalen : 0..63, bitlen : Nat, blocks : Seq(Piece)]

\* How many bytes a context holds, and byte k of them.
Length(ctx) == 64 * Len(ctx.blocks) + ctx.datalen
Stream(ctx, k) ==
  IF k <= 64 * Len(ctx.blocks) THEN ByteOf(ctx.blocks, k) ELSE ctx.data[k - 64 * Len(ctx.blocks)]

\* Division by the length of a block.
LEMMA Sixty ==
  ASSUME NEW t \in Nat
  PROVE  t \div 64 \in Nat /\ t = 64 * (t \div 64) + (t % 64) /\ t % 64 \in 0..63
<1>1. t \div 64 \in Nat
  BY SMT
<1>2. t % 64 \in 0..63
  BY SMT
<1>3. t = 64 * (t \div 64) + (t % 64)
  BY SMT
<1> QED
  BY <1>1, <1>2, <1>3

\* What Store() makes of the bytes that it has, those of the buffer and the new ones.
Pieces(all, full) == [k \in 1..full |-> SubSeq(all, 64 * k - 63, 64 * k)]
Rest(all, full, t) == SubSeq(all, 64 * full + 1, t)
Whole(t, full) == full = t \div 64

\* The pieces and the rest are the bytes in their order.
LEMMA Split ==
  ASSUME NEW t \in Nat, NEW all, IsBytes(all, t), NEW full, Whole(t, full)
  PROVE  /\ Pieces(all, full) \in [1..full -> Piece]
         /\ \A j \in 1..(64 * full) : ByteOf(Pieces(all, full), j) = all[j]
         /\ IsBytes(Rest(all, full, t), t % 64) /\ Len(Rest(all, full, t)) = t % 64
         /\ \A j \in 1..(t % 64) : Rest(all, full, t)[j] = all[64 * full + j]
<1> DEFINE block == [k \in 1..full |-> SubSeq(all, 64 * k - 63, 64 * k)]
           rest  == SubSeq(all, 64 * full + 1, t)
<1>1. full \in Nat /\ t = 64 * full + (t % 64) /\ t % 64 \in 0..63
  <2>1. t \div 64 \in Nat /\ t = 64 * (t \div 64) + (t % 64) /\ t % 64 \in 0..63
    BY Sixty
  <2> QED
    BY <2>1 DEF Whole
<1>2. ASSUME NEW k \in 1..full
      PROVE  /\ SubSeq(all, 64 * k - 63, 64 * k) \in Piece
             /\ \A i \in 1..64 : SubSeq(all, 64 * k - 63, 64 * k)[i] = all[64 * (k - 1) + i]
  <2> DEFINE p == 64 * k - 63
             q == 64 * k
  <2>1. p \in 1..(t + 1) /\ q \in (p - 1)..t /\ q - p + 1 = 64
    BY <1>1
  <2>2. \A i \in 1..64 : p + i - 1 = 64 * (k - 1) + i
    BY <2>1
  <2> HIDE DEF p, q
  <2>3. /\ IsBytes(SubSeq(all, p, q), q - p + 1)
        /\ \A i \in 1..(q - p + 1) : SubSeq(all, p, q)[i] = all[p + i - 1]
    BY <2>1, Cut
  <2>4. ASSUME NEW i \in 1..64 PROVE SubSeq(all, p, q)[i] = all[64 * (k - 1) + i]
    <3>1. i \in 1..(q - p + 1)
      BY <2>1
    <3>2. SubSeq(all, p, q)[i] = all[p + i - 1]
      BY <2>3, <3>1
    <3> QED
      BY <2>2, <3>2
  <2>5. SubSeq(all, p, q) \in Piece
    BY <2>1, <2>3 DEF IsBytes, Piece
  <2> QED
    BY <2>4, <2>5 DEF p, q
<1>3. block \in [1..full -> Piece]
  BY <1>2
<1>4. ASSUME NEW j \in 1..(64 * full) PROVE ByteOf(block, j) = all[j]
  <2> DEFINE k == ((j - 1) \div 64) + 1
             i == ((j - 1) % 64) + 1
  <2>1. k \in 1..full /\ i \in 1..64 /\ 64 * (k - 1) + i = j
    BY <1>1
  <2>2. ByteOf(block, j) = block[k][i]
    BY DEF ByteOf
  <2> HIDE DEF k, i
  <2>3. block[k] = SubSeq(all, 64 * k - 63, 64 * k)
    BY <2>1
  <2> HIDE DEF block
  <2>4. block[k][i] = all[64 * (k - 1) + i]
    BY <1>2, <2>1, <2>3
  <2> QED
    BY <2>1, <2>2, <2>4
<1>5. /\ IsBytes(rest, t % 64) /\ Len(rest) = t % 64
      /\ \A j \in 1..(t % 64) : rest[j] = all[64 * full + j]
  <2> DEFINE p == 64 * full + 1
             left == t % 64
  <2>1. p \in 1..(t + 1) /\ t \in (p - 1)..t /\ t - p + 1 = left
    BY <1>1
  <2>2. \A j \in 1..left : p + j - 1 = 64 * full + j
    BY <1>1
  <2> HIDE DEF p, left
  <2>3. /\ IsBytes(SubSeq(all, p, t), t - p + 1) /\ Len(SubSeq(all, p, t)) = t - p + 1
        /\ \A i \in 1..(t - p + 1) : SubSeq(all, p, t)[i] = all[p + i - 1]
    BY <2>1, Cut
  <2>4. \A j \in 1..left : SubSeq(all, p, t)[j] = all[64 * full + j]
    BY <2>1, <2>2, <2>3
  <2>5. rest = SubSeq(all, p, t)
    BY DEF p
  <2> HIDE DEF rest
  <2> QED
    BY <2>1, <2>3, <2>4, <2>5 DEF left
<1> QED
  BY <1>3, <1>4, <1>5 DEF Pieces, Rest

\* Store() appends its bytes to those that the context holds.
LEMMA Stored ==
  ASSUME NEW ctx \in Ctx, NEW n \in Nat, NEW bytes, IsBytes(bytes, n)
  PROVE  /\ Store(ctx, bytes) \in Ctx
         /\ Store(ctx, bytes).bitlen = ctx.bitlen
         /\ Length(Store(ctx, bytes)) = Length(ctx) + n
         /\ \A k \in 1..Length(ctx) : Stream(Store(ctx, bytes), k) = Stream(ctx, k)
         /\ \A j \in 1..n : Stream(Store(ctx, bytes), Length(ctx) + j) = bytes[j]
<1> DEFINE L == ctx.datalen
           B == Len(ctx.blocks)
           held  == SubSeq(ctx.data, 1, L)
           all   == held \o bytes
           full  == Len(all) \div 64
           block == [k \in 1..full |-> SubSeq(all, 64 * k - 63, 64 * k)]
           rest  == SubSeq(all, 64 * full + 1, Len(all))
           under == IF full > 0 THEN block[full] ELSE ctx.data
           tail  == SubSeq(under, Len(rest) + 1, 64)
           c     == Store(ctx, bytes)
           left  == (L + n) % 64
<1>1. /\ L \in 0..63 /\ B \in Nat /\ ctx.blocks \in [1..B -> Piece] /\ ctx.blocks \in Seq(Piece)
      /\ ctx.data \in Piece /\ ctx.bitlen \in Nat
  BY LenProperties DEF Ctx
<1> HIDE DEF L, B
<1>2. c = [ctx EXCEPT !.blocks = ctx.blocks \o block, !.datalen = Len(rest), !.data = rest \o tail]
  BY DEF Store, sha256_transform, L
<1>3. /\ IsBytes(held, L) /\ Len(held) = L
      /\ \A i \in 1..L : held[i] = ctx.data[i]
  <2>1. IsBytes(ctx.data, 64)
    BY <1>1 DEF Piece, IsBytes
  <2>2. 64 \in Nat
    OBVIOUS
  <2> DEFINE one == 1
             d   == ctx.data
  <2>3. one \in 1..(64 + 1) /\ L \in (one - 1)..64 /\ L - one + 1 = L /\ \A i \in 1..L : one + i - 1 = i
    BY <1>1
  <2> HIDE DEF one, d
  <2>4. IsBytes(d, 64)
    BY <2>1 DEF d
  <2>5. /\ IsBytes(SubSeq(d, one, L), L - one + 1) /\ Len(SubSeq(d, one, L)) = L - one + 1
        /\ \A i \in 1..(L - one + 1) : SubSeq(d, one, L)[i] = d[one + i - 1]
    BY <2>2, <2>3, <2>4, Cut, SMTT(30)
  <2>6. held = SubSeq(d, one, L)
    BY DEF d, one
  <2> HIDE DEF held
  <2>7. /\ IsBytes(held, L) /\ Len(held) = L
        /\ \A i \in 1..L : held[i] = d[i]
    BY <2>3, <2>5, <2>6
  <2> QED
    BY <2>7 DEF d
<1>4. /\ all = Joining(held, L, bytes, n) /\ IsBytes(all, L + n) /\ Len(all) = L + n
  <2>1. L \in Nat
    <3>1. L \in 0..63
      BY <1>1, Zenon
    <3> QED
      BY <3>1, SMT
  <2> HIDE DEF held
  <2> QED
    BY <1>3, <2>1, Joined
<1>5. /\ L + n \in Nat /\ full \in Nat /\ full = (L + n) \div 64
      /\ left \in 0..63 /\ L + n = 64 * full + left
  <2>1. L + n \in Nat
    BY <1>1
  <2>2. full = (L + n) \div 64
    BY <1>4
  <2>3. /\ (L + n) \div 64 \in Nat /\ (L + n) % 64 \in 0..63
        /\ L + n = 64 * ((L + n) \div 64) + ((L + n) % 64)
    BY <2>1, Sixty
  <2> HIDE DEF full
  <2> QED
    BY <2>1, <2>2, <2>3
<1> HIDE DEF left
<1>6. /\ block \in [1..full -> Piece]
      /\ \A j \in 1..(64 * full) : ByteOf(block, j) = all[j]
      /\ IsBytes(rest, left) /\ Len(rest) = left
      /\ \A j \in 1..left : rest[j] = all[64 * full + j]
  <2> DEFINE t == L + n
  <2>1. t \in Nat /\ IsBytes(all, t) /\ Whole(t, full) /\ Len(all) = t
    BY <1>4, <1>5 DEF Whole
  <2>2. block = Pieces(all, full) /\ rest = Rest(all, full, t)
    BY <2>1 DEF Pieces, Rest
  <2> HIDE DEF t, all, full, block, rest
  <2> QED
    BY <2>1, <2>2, Split DEF t, left
<1> HIDE DEF all, full, block, rest
<1>7. IsBytes(tail, 64 - left)
  <2>1. IsBytes(under, 64)
    <3>1. CASE full > 0
      <4>1. full \in 1..full
        BY <1>5, <3>1
      <4>2. block[full] \in Piece
        BY <1>6, <4>1
      <4> QED
        BY <3>1, <4>2 DEF Piece, IsBytes
    <3>2. CASE ~(full > 0)
      BY <1>1, <3>2 DEF Piece, IsBytes
    <3> QED
      BY <3>1, <3>2
  <2>0. Len(rest) = left
    BY <1>6
  <2> DEFINE p == Len(rest) + 1
             size == 64
  <2>2. p \in 1..(size + 1) /\ size \in (p - 1)..size /\ size \in Nat /\ size - p + 1 = 64 - left
    <3>1. p = left + 1
      BY <2>0
    <3> HIDE DEF p
    <3> QED
      BY <1>5, <3>1
  <2>3. tail = SubSeq(under, p, size)
    OBVIOUS
  <2>4. IsBytes(under, size)
    BY <2>1
  <2> HIDE DEF p, under, size, tail
  <2>5. IsBytes(SubSeq(under, p, size), size - p + 1)
    BY <2>2, <2>4, Cut
  <2> QED
    BY <2>2, <2>3, <2>5
<1> HIDE DEF tail
<1>8. /\ rest \o tail \in Piece
      /\ \A j \in 1..left : (rest \o tail)[j] = rest[j]
  <2> DEFINE more == 64 - left
  <2>1. left \in Nat /\ more \in Nat /\ left + more = 64
    BY <1>5
  <2> HIDE DEF more
  <2>2. rest \o tail = Joining(rest, left, tail, more) /\ IsBytes(rest \o tail, left + more)
    BY <1>6, <1>7, <2>1, Joined DEF more
  <2>3. \A j \in 1..left : j \in 1..(left + more) /\ j <= left
    BY <2>1
  <2>4. \A j \in 1..left : Joining(rest, left, tail, more)[j] = rest[j]
    BY <2>3 DEF Joining
  <2>5. rest \o tail \in Piece
    BY <2>1, <2>2 DEF IsBytes, Piece
  <2> QED
    BY <2>2, <2>4, <2>5
<1>9. /\ ctx.blocks \o block \in Seq(Piece) /\ Len(ctx.blocks \o block) = B + full
      /\ \A i \in 1..(B + full) : (ctx.blocks \o block)[i]
                                     = IF i <= B THEN ctx.blocks[i] ELSE block[i - B]
  <2>0. full \in Nat /\ block \in [1..full -> Piece]
    BY <1>5, <1>6
  <2>1. block \in Seq(Piece) /\ Len(block) = full
    BY <2>0
  <2> QED
    BY <1>1, <2>1, ConcatProperties DEF B
<1>10. /\ c.blocks = ctx.blocks \o block /\ c.datalen = left /\ c.data = rest \o tail
       /\ c.bitlen = ctx.bitlen /\ c \in Ctx
  <2>1. DOMAIN ctx = {"data", "datalen", "bitlen", "blocks"}
    BY DEF Ctx
  <2>2. c.blocks = ctx.blocks \o block /\ c.datalen = Len(rest) /\ c.data = rest \o tail
        /\ c.bitlen = ctx.bitlen
    BY <1>2, <2>1
  <2>3. Len(rest) \in 0..63
    BY <1>5, <1>6
  <2>4. c \in Ctx
    BY <1>1, <1>2, <1>8, <1>9, <2>3, Zenon DEF Ctx
  <2> QED
    BY <1>6, <2>2, <2>4
<1> HIDE DEF c
<1>11. Length(ctx) = 64 * B + L /\ Length(c) = 64 * (B + full) + left
  BY <1>9, <1>10 DEF Length, L, B
<1>12. Length(c) = Length(ctx) + n
  BY <1>1, <1>5, <1>11
<1>13. ASSUME NEW k \in 1..(64 * B) PROVE Stream(c, k) = Stream(ctx, k)
  <2> DEFINE i == ((k - 1) \div 64) + 1
  <2>1. i \in 1..B /\ i \in 1..(B + full) /\ i <= B /\ k <= 64 * (B + full) /\ k <= 64 * B
    BY <1>1, <1>5
  <2>2. Stream(c, k) = ByteOf(c.blocks, k) /\ Stream(ctx, k) = ByteOf(ctx.blocks, k)
    BY <1>9, <1>10, <2>1 DEF Stream, B
  <2>3. c.blocks[i] = ctx.blocks[i]
    <3> HIDE DEF i
    <3> QED
      BY <1>9, <1>10, <2>1
  <2> QED
    BY <2>2, <2>3 DEF ByteOf
<1>14. ASSUME NEW j \in 1..(L + n) PROVE Stream(c, 64 * B + j) = all[j]
  <2> DEFINE k == 64 * B + j
  <2>1. CASE j <= 64 * full
    <3> DEFINE i == ((j - 1) \div 64) + 1
    <3>1. /\ ((k - 1) \div 64) + 1 = B + i /\ (k - 1) % 64 = (j - 1) % 64 /\ i \in 1..full
          /\ k <= 64 * (B + full)
      BY <1>1, <1>5, <2>1
    <3>2. B + i \in 1..(B + full) /\ ~(B + i <= B) /\ (B + i) - B = i
      BY <1>1, <1>5, <3>1
    <3>3. Stream(c, k) = ByteOf(c.blocks, k)
      BY <1>9, <1>10, <3>1 DEF Stream, B
    <3>4. c.blocks[B + i] = block[i]
      <4> HIDE DEF i
      <4> QED
        BY <1>9, <1>10, <3>2
    <3>5. ByteOf(c.blocks, k) = ByteOf(block, j)
      BY <3>1, <3>4 DEF ByteOf
    <3>6. j \in 1..(64 * full)
      BY <1>5, <2>1
    <3> QED
      BY <1>6, <3>3, <3>5, <3>6
  <2>2. CASE j > 64 * full
    <3> DEFINE i == j - 64 * full
    <3>1. i \in 1..left /\ 64 * full + i = j /\ k - 64 * (B + full) = i /\ ~(k <= 64 * (B + full))
      BY <1>1, <1>5, <2>2
    <3>2. Stream(c, k) = c.data[i]
      BY <1>9, <1>10, <3>1 DEF Stream, B
    <3> HIDE DEF i
    <3>3. c.data[i] = rest[i] /\ rest[i] = all[64 * full + i]
      BY <1>6, <1>8, <1>10, <3>1
    <3> QED
      BY <3>1, <3>2, <3>3
  <2> QED
    BY <1>5, <2>1, <2>2
<1>15. \A j \in 1..(L + n) : all[j] = IF j <= L THEN held[j] ELSE bytes[j - L]
  BY <1>4 DEF Joining
<1>16. ASSUME NEW k \in 1..Length(ctx) PROVE Stream(c, k) = Stream(ctx, k)
  <2>1. CASE k <= 64 * B
    <3>1. k \in 1..(64 * B)
      BY <1>1, <1>11, <2>1
    <3> QED
      BY <1>13, <3>1
  <2>2. CASE k > 64 * B
    <3> DEFINE j == k - 64 * B
    <3>1. j \in 1..(L + n) /\ j \in 1..L /\ 64 * B + j = k /\ ~(k <= 64 * B)
      BY <1>1, <1>11, <2>2
    <3>2. Stream(ctx, k) = ctx.data[j]
      BY <3>1 DEF Stream, B
    <3> HIDE DEF j
    <3>3. Stream(c, k) = all[j]
      BY <1>14, <3>1
    <3>4. j <= L
      BY <1>1, <3>1
    <3> HIDE DEF held
    <3>5. all[j] = held[j] /\ held[j] = ctx.data[j]
      BY <1>3, <1>15, <3>1, <3>4
    <3> QED
      BY <3>2, <3>3, <3>5
  <2> QED
    BY <1>1, <1>11, <2>1, <2>2
<1>17. ASSUME NEW j \in 1..n PROVE Stream(c, Length(ctx) + j) = bytes[j]
  <2>1. L + j \in 1..(L + n) /\ ~(L + j <= L) /\ (L + j) - L = j /\ Length(ctx) + j = 64 * B + (L + j)
    BY <1>1, <1>11
  <2> DEFINE i == L + j
  <2>2. i \in 1..(L + n) /\ ~(i <= L) /\ i - L = j /\ Length(ctx) + j = 64 * B + i
    BY <2>1
  <2> HIDE DEF i
  <2> QED
    BY <1>14, <1>15, <2>2
<1> QED
  BY <1>10, <1>12, <1>16, <1>17 DEF c

\* Each byte of the length is one.
LEMMA LengthBytes ==
  ASSUME NEW bitlen \in Nat, NEW i \in 0..7
  PROVE  LengthByte(bitlen, i) \in Byte
<1>1. CASE i < 4
  BY <1>1 DEF LengthByte, Byte
<1>2. CASE ~(i < 4)
  <2>1. 56 - 8 * 4 = 24 /\ 56 - 8 * 5 = 16 /\ 56 - 8 * 6 = 8 /\ 56 - 8 * 7 = 0
    OBVIOUS
  <2>2. 2 ^ 24 = 16777216 /\ 2 ^ 16 = 65536 /\ 2 ^ 8 = 256 /\ 2 ^ 0 = 1
    BY SMT
  <2>3. (bitlen \div 16777216) % 256 \in 0..255 /\ (bitlen \div 65536) % 256 \in 0..255
        /\ (bitlen \div 256) % 256 \in 0..255 /\ (bitlen \div 1) % 256 \in 0..255
    BY SMT
  <2>4. i \in {4, 5, 6, 7}
    BY <1>2
  <2> QED
    BY <1>2, <2>1, <2>2, <2>3, <2>4 DEF LengthByte, Byte
<1> QED
  BY <1>1, <1>2

\* The bytes of the padding before the length.
LEMMA Padding ==
  ASSUME NEW zeros \in Nat
  PROVE  LET pad == <<128>> \o [k \in 1..zeros |-> 0]
         IN /\ IsBytes(pad, zeros + 1)
            /\ pad[1] = 128
            /\ \A j \in 2..(zeros + 1) : pad[j] = 0
<1> DEFINE a == <<128>>
           b == [k \in 1..zeros |-> 0]
           one == 1
<1>1. IsBytes(a, one)
  BY DEF IsBytes, Byte
<1>2. IsBytes(b, zeros)
  BY DEF IsBytes, Byte
<1>3. one \in Nat
  OBVIOUS
<1>4. a[1] = 128 /\ \A k \in 1..zeros : b[k] = 0
  OBVIOUS
<1> HIDE DEF a, b, one
<1>5. a \o b = Joining(a, one, b, zeros) /\ IsBytes(a \o b, one + zeros)
  BY <1>1, <1>2, <1>3, Joined
<1>6. \A i \in 1..(one + zeros) : (a \o b)[i] = IF i <= one THEN a[i] ELSE b[i - one]
  BY <1>5 DEF Joining
<1>7. one = 1
  BY DEF one
<1> DEFINE joined == a \o b
<1>8. joined[1] = 128
  <2>1. 1 \in 1..(one + zeros) /\ 1 <= one
    BY <1>7
  <2> HIDE DEF joined
  <2>2. joined[1] = a[1]
    BY <1>6, <2>1 DEF joined
  <2> QED
    BY <1>4, <2>2
<1>9. ASSUME NEW j \in 2..(zeros + 1) PROVE joined[j] = 0
  <2>1. j \in 1..(one + zeros) /\ ~(j <= one) /\ j - one \in 1..zeros
    BY <1>7
  <2> HIDE DEF joined
  <2>2. joined[j] = b[j - one]
    BY <1>6, <2>1 DEF joined
  <2> QED
    BY <1>4, <2>1, <2>2
<1>10. IsBytes(a \o b, zeros + 1)
  BY <1>5, <1>7
<1> QED
  BY <1>8, <1>9, <1>10 DEF a, b

\* Byte k of the padded message of n bytes in m blocks (FIPS 180-4).
Fips(bytes, n, m, k) ==
  IF k <= n THEN bytes[k]
  ELSE IF k = n + 1 THEN 128
  ELSE IF k <= 64 * m - 8 THEN 0
  ELSE LengthByte(8 * n, k - (64 * m - 8) - 1)

Padded(ctx, bytes, n) ==
  LET m == Len(ctx.blocks)
  IN /\ m \in Nat /\ 64 * m >= n + 9 /\ 64 * m < n + 9 + 64
     /\ \A k \in 1..(64 * m) : ByteOf(ctx.blocks, k) = Fips(bytes, n, m, k)

Holding(ctx, bytes, n) ==
  /\ ctx.bitlen = 8 * n
  /\ Length(ctx) = n
  /\ \A k \in 1..n : Stream(ctx, k) = bytes[k]

\* sha256_finalize() makes blocks of the message as FIPS 180-4 pads it.
LEMMA Finalized ==
  ASSUME NEW ctx \in Ctx, NEW n \in Nat, NEW bytes, Holding(ctx, bytes, n)
  PROVE  sha256_finalize(ctx) \in Ctx /\ Padded(sha256_finalize(ctx), bytes, n)
<1> DEFINE L == ctx.datalen
           B == Len(ctx.blocks)
           zeros  == IF L < 56 THEN 55 - L ELSE 119 - L
           pad    == <<128>> \o [k \in 1..zeros |-> 0]
           padded == Store(ctx, pad)
           M      == Len(padded.blocks)
           front  == SubSeq(padded.data, 1, 56)
           back   == [i \in 1..8 |-> LengthByte(ctx.bitlen, i - 1)]
           block  == front \o back
           c      == sha256_finalize(ctx)
<1>1. /\ L \in 0..63 /\ B \in Nat /\ ctx.bitlen \in Nat
  BY LenProperties DEF Ctx
<1>2. c = sha256_transform([padded EXCEPT !.data = block], <<block>>)
  BY DEF sha256_finalize
<1>3. n = 64 * B + L
  BY DEF Holding, Length
<1> HIDE DEF L, B
<1>4. zeros \in Nat /\ zeros \in 0..63
  BY <1>1
<1>5. /\ IsBytes(pad, zeros + 1) /\ pad[1] = 128
      /\ \A j \in 2..(zeros + 1) : pad[j] = 0
  <2> HIDE DEF zeros
  <2> QED
    BY <1>4, Padding
<1> DEFINE z == zeros + 1
<1>6. z \in Nat /\ z \in 1..64 /\ IsBytes(pad, z)
      /\ (n + z = 64 * B + 56 \/ n + z = 64 * B + 120)
      /\ pad[1] = 128 /\ \A j \in 2..z : pad[j] = 0
  <2>1. z = 56 - L \/ z = 120 - L
    BY <1>1
  <2> HIDE DEF zeros
  <2> QED
    BY <1>1, <1>3, <1>4, <1>5, <2>1
<1> HIDE DEF pad, zeros, z, c
<1>7. /\ padded \in Ctx /\ padded.bitlen = ctx.bitlen /\ Length(padded) = n + z
      /\ \A k \in 1..n : Stream(padded, k) = Stream(ctx, k)
      /\ \A j \in 1..z : Stream(padded, n + j) = pad[j]
  <2>1. Length(ctx) = n
    BY DEF Holding
  <2> HIDE DEF padded
  <2> QED
    BY <1>6, <2>1, Stored DEF padded
<1> HIDE DEF padded
<1>8. /\ M \in Nat /\ padded.datalen \in 0..63 /\ padded.data \in Piece
      /\ padded.blocks \in Seq(Piece) /\ padded.blocks \in [1..M -> Piece]
      /\ Length(padded) = 64 * M + padded.datalen
  BY <1>7, LenProperties DEF Ctx, Length
<1> HIDE DEF M
<1>9. n + z = 64 * M + 56
  <2> DEFINE l == padded.datalen
  <2>1. n + z = 64 * M + l /\ l \in 0..63
    BY <1>7, <1>8
  <2> HIDE DEF l
  <2>2. n + z = 64 * M + l /\ l \in 0..63 /\ M \in Nat /\ B \in Nat /\ n \in Nat /\ z \in Nat
        /\ (n + z = 64 * B + 56 \/ n + z = 64 * B + 120)
    BY <1>1, <1>6, <1>8, <2>1
  <2> QED
    BY <2>2
<1>10. /\ IsBytes(front, 56) /\ \A i \in 1..56 : front[i] = padded.data[i]
  <2> DEFINE one == 1
             most == 56
             size == 64
  <2>1. /\ one \in 1..(size + 1) /\ most \in (one - 1)..size /\ most - one + 1 = most /\ size \in Nat
        /\ \A i \in 1..most : one + i - 1 = i
    OBVIOUS
  <2>2. IsBytes(padded.data, size)
    BY <1>8 DEF Piece, IsBytes
  <2>3. front = SubSeq(padded.data, one, most)
    OBVIOUS
  <2> HIDE DEF one, most, size, front
  <2>4. /\ IsBytes(SubSeq(padded.data, one, most), most - one + 1)
        /\ \A i \in 1..(most - one + 1) : SubSeq(padded.data, one, most)[i] = padded.data[one + i - 1]
    BY <2>1, <2>2, Cut
  <2>5. IsBytes(front, most) /\ \A i \in 1..most : front[i] = padded.data[i]
    BY <2>1, <2>3, <2>4
  <2> QED
    BY <2>5 DEF most
<1>11. /\ IsBytes(back, 8) /\ \A i \in 1..8 : back[i] = LengthByte(8 * n, i - 1)
  <2>1. \A i \in 1..8 : LengthByte(ctx.bitlen, i - 1) \in Byte
    BY <1>1, LengthBytes
  <2>2. ctx.bitlen = 8 * n
    BY DEF Holding
  <2> QED
    BY <2>1, <2>2 DEF IsBytes
<1> HIDE DEF front, back
<1>12. /\ block \in Piece
       /\ \A i \in 1..56 : block[i] = padded.data[i]
       /\ \A i \in 57..64 : block[i] = LengthByte(8 * n, i - 57)
  <2> DEFINE before == 56
             after == 8
  <2>0. before \in Nat /\ after \in Nat /\ IsBytes(front, before) /\ IsBytes(back, after)
    BY <1>10, <1>11
  <2>1. before + after = 64
    OBVIOUS
  <2> HIDE DEF before, after
  <2>2. block = Joining(front, before, back, after) /\ IsBytes(block, before + after)
    BY <2>0, Joined
  <2> HIDE DEF block
  <2>3. \A i \in 1..64 : block[i] = IF i <= 56 THEN front[i] ELSE back[i - 56]
    BY <2>1, <2>2 DEF Joining, before
  <2>4. block \in Piece
    BY <2>1, <2>2 DEF IsBytes, Piece
  <2>5. ASSUME NEW i \in 57..64 PROVE block[i] = LengthByte(8 * n, i - 57)
    <3>1. i \in 1..64 /\ ~(i <= 56) /\ i - 56 \in 1..8 /\ i - 56 - 1 = i - 57
      OBVIOUS
    <3> QED
      BY <1>11, <2>3, <3>1
  <2>6. ASSUME NEW i \in 1..56 PROVE block[i] = padded.data[i]
    <3>1. i \in 1..64 /\ i <= 56
      OBVIOUS
    <3> QED
      BY <1>10, <2>3, <3>1
  <2> QED
    BY <2>4, <2>5, <2>6
<1> HIDE DEF block
<1>13. /\ c \in Ctx /\ c.blocks = padded.blocks \o <<block>>
  <2>1. padded.blocks \o <<block>> \in Seq(Piece)
    BY <1>8, <1>12
  <2>2. c = [padded EXCEPT !.data = block, !.blocks = padded.blocks \o <<block>>]
    BY <1>2, <1>7, Zenon DEF sha256_transform, Ctx
  <2> QED
    BY <1>7, <1>12, <2>1, <2>2 DEF Ctx
<1>14. /\ Len(c.blocks) = M + 1
       /\ \A i \in 1..M : c.blocks[i] = padded.blocks[i]
       /\ c.blocks[M + 1] = block
  <2>1. /\ padded.blocks \in Seq(Piece)
        /\ <<block>> \in Seq(Piece) /\ Len(<<block>>) = 1 /\ <<block>>[1] = block
    BY <1>8, <1>12
  <2> DEFINE new == <<block>>
             old == padded.blocks
  <2>2. new \in Seq(Piece) /\ old \in Seq(Piece) /\ Len(new) = 1 /\ new[1] = block /\ M = Len(old)
        /\ c.blocks = old \o new /\ M \in Nat
    BY <1>8, <1>13, <2>1 DEF M
  <2> HIDE DEF new, old
  <2>3. /\ Len(old \o new) = M + 1
        /\ \A i \in 1..(M + 1) : (old \o new)[i] = IF i <= M THEN old[i] ELSE new[i - M]
    <3>1. /\ Len(old \o new) = Len(old) + Len(new)
          /\ \A i \in 1..(Len(old) + Len(new)) : (old \o new)[i]
                                                   = IF i <= Len(old) THEN old[i] ELSE new[i - Len(old)]
      BY <2>2, ConcatProperties
    <3>2. Len(old) = M /\ Len(new) = 1
      BY <2>2
    <3> QED
      BY <3>1, <3>2
  <2>4. /\ \A i \in 1..M : i \in 1..(M + 1) /\ i <= M
        /\ M + 1 \in 1..(M + 1) /\ ~(M + 1 <= M) /\ (M + 1) - M = 1
    BY <2>2
  <2>5. /\ \A i \in 1..M : (old \o new)[i] = old[i]
        /\ (old \o new)[M + 1] = new[1]
    BY <2>3, <2>4
  <2> QED
    BY <2>2, <2>3, <2>5 DEF old
<1>15. ASSUME NEW k \in 1..(64 * (M + 1))
       PROVE  ByteOf(c.blocks, k) = Fips(bytes, n, M + 1, k)
  <2>1. CASE k <= n + z
    <3>1. ByteOf(c.blocks, k) = Stream(padded, k)
      <4>1. CASE k <= 64 * M
        <5> DEFINE i == ((k - 1) \div 64) + 1
        <5>1. i \in 1..M
          BY <1>8, <4>1
        <5>2. c.blocks[i] = padded.blocks[i]
          <6> HIDE DEF i
          <6> QED
            BY <1>14, <5>1
        <5> QED
          BY <4>1, <5>2 DEF Stream, ByteOf, M
      <4>2. CASE k > 64 * M
        <5>1. /\ ((k - 1) \div 64) + 1 = M + 1 /\ ((k - 1) % 64) + 1 = k - 64 * M
              /\ k - 64 * M \in 1..56
          BY <1>8, <1>9, <2>1, <4>2
        <5>2. ByteOf(c.blocks, k) = block[k - 64 * M]
          BY <1>14, <5>1 DEF ByteOf
        <5>3. ~(k <= 64 * M)
          BY <1>8, <4>2
        <5>4. Stream(padded, k) = padded.data[k - 64 * M]
          BY <5>3 DEF Stream, M
        <5> QED
          BY <1>12, <5>1, <5>2, <5>4
      <4> QED
        BY <1>8, <4>1, <4>2
    <3>2. CASE k <= n
      <4>1. k \in 1..n
        BY <3>2
      <4>2. Stream(ctx, k) = bytes[k]
        BY <4>1 DEF Holding
      <4> QED
        BY <1>7, <3>1, <3>2, <4>1, <4>2 DEF Fips
    <3>3. CASE k > n
      <4> DEFINE j == k - n
      <4>1. j \in 1..z /\ n + j = k /\ ~(k <= n) /\ (k = n + 1 <=> j = 1) /\ (j # 1 => j \in 2..z)
            /\ k <= 64 * (M + 1) - 8
        BY <1>6, <1>8, <1>9, <2>1, <3>3
      <4> HIDE DEF j
      <4>2. ByteOf(c.blocks, k) = pad[j]
        BY <1>7, <3>1, <4>1
      <4>3. pad[j] = IF j = 1 THEN 128 ELSE 0
        BY <1>6, <4>1
      <4> QED
        BY <4>1, <4>2, <4>3 DEF Fips
    <3> QED
      BY <3>2, <3>3
  <2>2. CASE k > n + z
    <3>1. /\ ((k - 1) \div 64) + 1 = M + 1 /\ ((k - 1) % 64) + 1 = k - 64 * M
          /\ k - 64 * M \in 57..64
      BY <1>6, <1>8, <1>9, <2>2
    <3>2. ByteOf(c.blocks, k) = block[k - 64 * M]
      BY <1>14, <3>1 DEF ByteOf
    <3>3. block[k - 64 * M] = LengthByte(8 * n, (k - 64 * M) - 57)
      BY <1>12, <3>1
    <3>4. /\ (k - 64 * M) - 57 = k - (64 * (M + 1) - 8) - 1
          /\ ~(k <= n) /\ k # n + 1 /\ ~(k <= 64 * (M + 1) - 8)
      BY <1>6, <1>8, <1>9, <2>2
    <3> QED
      BY <3>2, <3>3, <3>4 DEF Fips
  <2> QED
    BY <1>6, <2>1, <2>2
<1>16. 64 * (M + 1) >= n + 9 /\ 64 * (M + 1) < n + 9 + 64 /\ M + 1 \in Nat
  BY <1>6, <1>8, <1>9
<1>17. Padded(c, bytes, n)
  BY <1>14, <1>15, <1>16 DEF Padded
<1> QED
  BY <1>13, <1>17 DEF c

\* The value of eight bytes is that of the length.
Short(bitlen) == bitlen < 2 ^ 31

\* Eight bytes made by LengthByte() have the value of a length that is short enough.
LEMMA LengthValue ==
  ASSUME NEW L \in Nat, Short(L), NEW b, IsBytes(b, 8),
         \A i \in 1..8 : b[i] = LengthByte(L, i - 1)
  PROVE  ValueOf(b) = L
<1>1. b[1] = 0 /\ b[2] = 0 /\ b[3] = 0 /\ b[4] = 0
  BY DEF LengthByte
<1> DEFINE q5 == L \div 2 ^ 24
           q6 == L \div 2 ^ 16
           q7 == L \div 2 ^ 8
           q8 == L \div 2 ^ 0
<1>2. /\ b[5] = q5 % 256 /\ b[6] = q6 % 256 /\ b[7] = q7 % 256 /\ b[8] = q8 % 256
  <2>1. /\ 56 - 8 * (5 - 1) = 24 /\ 56 - 8 * (6 - 1) = 16 /\ 56 - 8 * (7 - 1) = 8 /\ 56 - 8 * (8 - 1) = 0
        /\ ~(5 - 1 < 4) /\ ~(6 - 1 < 4) /\ ~(7 - 1 < 4) /\ ~(8 - 1 < 4)
    OBVIOUS
  <2>2. /\ b[5] = LengthByte(L, 5 - 1) /\ b[6] = LengthByte(L, 6 - 1)
        /\ b[7] = LengthByte(L, 7 - 1) /\ b[8] = LengthByte(L, 8 - 1)
    OBVIOUS
  <2>3. b[5] = q5 % 256
    BY <2>1, <2>2, Zenon DEF LengthByte
  <2>4. b[6] = q6 % 256
    BY <2>1, <2>2, Zenon DEF LengthByte
  <2>5. b[7] = q7 % 256
    BY <2>1, <2>2, Zenon DEF LengthByte
  <2>6. b[8] = q8 % 256
    BY <2>1, <2>2, Zenon DEF LengthByte
  <2> QED
    BY <2>3, <2>4, <2>5, <2>6, Zenon
<1>3. /\ q5 \in 0..127 /\ q6 \in Nat /\ q7 \in Nat /\ q8 = L
  BY SMT DEF Short
<1>4. /\ q6 = 256 * q5 + (q6 % 256) /\ q7 = 256 * q6 + (q7 % 256) /\ q8 = 256 * q7 + (q8 % 256)
  BY SMT
<1>5. q5 % 256 = q5
  <2> HIDE DEF q5
  <2> QED
    BY <1>3
<1> HIDE DEF q5, q6, q7, q8
<1>7. b \in [1..8 -> Nat]
  <2>1. Byte \subseteq Nat
    BY DEF Byte
  <2>2. b \in [1..8 -> Byte]
    BY DEF IsBytes
  <2> QED
    BY <2>1, <2>2
<1>8. PICK v \in [0..8 -> Nat] : /\ v[0] = 0
                                 /\ \A i \in 1..8 : v[i] = 256 * v[i - 1] + b[i]
                                 /\ ValueOf(b) = v[8]
  <2> DEFINE eight == 8
  <2>1. eight \in Nat /\ b \in [1..eight -> Nat]
    BY <1>7
  <2> HIDE DEF eight
  <2>2. \E v \in [0..eight -> Nat] : /\ v[0] = 0
                                     /\ \A i \in 1..eight : v[i] = 256 * v[i - 1] + b[i]
                                     /\ ValueOf(b) = v[eight]
    BY <2>1, ValueSteps
  <2> QED
    BY <2>2 DEF eight
<1>9. /\ v[1] = 256 * v[0] + b[1] /\ v[2] = 256 * v[1] + b[2] /\ v[3] = 256 * v[2] + b[3]
      /\ v[4] = 256 * v[3] + b[4] /\ v[5] = 256 * v[4] + b[5] /\ v[6] = 256 * v[5] + b[6]
      /\ v[7] = 256 * v[6] + b[7] /\ v[8] = 256 * v[7] + b[8]
  BY <1>8
<1>10. v[4] = 0
  BY <1>1, <1>8, <1>9
<1>11. v[5] = q5
  BY <1>2, <1>3, <1>5, <1>9, <1>10
<1>12. v[6] = q6
  BY <1>2, <1>4, <1>9, <1>11
<1>13. v[7] = q7
  BY <1>2, <1>4, <1>9, <1>12
<1>14. v[8] = L
  BY <1>2, <1>3, <1>4, <1>9, <1>13
<1> QED
  BY <1>8, <1>14

-----------------------------------------------------------------------------

ShaTypes ==
  /\ sha \in Ctx
  /\ shaPc \in {"idle", "open", "done"}
  /\ Len(message) \in 0..MaxMessage /\ IsBytes(message, Len(message))

HashFollows ==
  /\ shaPc = "open" => Holding(sha, message, Len(message))
  /\ shaPc = "done" => Padded(sha, message, Len(message))

SumFollows ==
  sum # NoSum => \E x \in [1..3 -> AddBytes], m \in 1..3 : \E y \in [1..m -> AddBytes] :
    sum = [x |-> x, y |-> y, result |-> byte_add(x, y)]

ShaInv == ShaTypes /\ HashFollows /\ SumFollows

\* A context after sha256_init() holds nothing.
LEMMA Cleared ==
  ASSUME NEW ctx \in Ctx
  PROVE  LET c == sha256_init([ctx EXCEPT !.data = [i \in 1..64 |-> Junk]])
         IN c \in Ctx /\ \A bytes : Holding(c, bytes, 0)
<1> DEFINE junk == [i \in 1..64 |-> Junk]
           c == sha256_init([ctx EXCEPT !.data = junk])
<1>1. junk \in Piece
  BY DEF Piece, Junk, Byte
<1> HIDE DEF junk
<1>2. 0 \in 0..63 /\ 0 \in Nat /\ <<>> \in Seq(Piece)
  OBVIOUS
<1> DEFINE cleared == [ctx EXCEPT !.data = junk]
<1>3. cleared \in Ctx
  BY <1>1, Zenon DEF Ctx
<1>4. c = [cleared EXCEPT !.datalen = 0, !.bitlen = 0, !.blocks = <<>>]
  BY DEF sha256_init
<1> HIDE DEF cleared, c
<1>5. c \in Ctx /\ c.bitlen = 0 /\ c.datalen = 0 /\ c.blocks = <<>> /\ Len(c.blocks) = 0
  <2>1. c \in Ctx
    BY <1>2, <1>3, <1>4, Zenon DEF Ctx
  <2>2. c.bitlen = 0 /\ c.datalen = 0 /\ c.blocks = <<>>
    BY <1>3, <1>4 DEF Ctx
  <2> QED
    BY <2>1, <2>2
<1>6. Length(c) = 0
  BY <1>5 DEF Length
<1>7. \A bytes : Holding(c, bytes, 0)
  BY <1>5, <1>6 DEF Holding
<1> QED
  BY <1>5, <1>7 DEF c, junk

\* The invariant holds at the start,
LEMMA ShaStarts == ShaInit => ShaInv
<1> SUFFICES ASSUME ShaInit PROVE ShaInv
  OBVIOUS
<1>1. sha \in Ctx
  <2> DEFINE junk == [i \in 1..64 |-> Junk]
  <2>1. junk \in Piece /\ 0 \in 0..63 /\ 0 \in Nat /\ <<>> \in Seq(Piece)
    BY DEF Piece, Junk, Byte
  <2>2. sha = [data |-> junk, datalen |-> 0, bitlen |-> 0, blocks |-> <<>>]
    BY DEF ShaInit
  <2> HIDE DEF junk
  <2> QED
    BY <2>1, <2>2 DEF Ctx
<1>2. Len(message) = 0 /\ IsBytes(message, 0) /\ 0 \in 0..MaxMessage
  BY ShaAssumption DEF ShaInit, IsBytes
<1>3. shaPc = "idle" /\ sum = NoSum
  BY DEF ShaInit
<1> QED
  BY <1>1, <1>2, <1>3 DEF ShaInv, ShaTypes, HashFollows, SumFollows

LEMMA OpenKeeps ==
  ASSUME ShaInv, ShaOpen
  PROVE  ShaInv'
<1>1. sha' \in Ctx /\ Holding(sha', message', 0)
  BY Cleared DEF ShaInv, ShaTypes, ShaOpen
<1>2. Len(message') = 0 /\ IsBytes(message', 0) /\ 0 \in 0..MaxMessage
  BY ShaAssumption DEF ShaOpen, IsBytes
<1>3. shaPc' = "open" /\ sum' = sum
  BY DEF ShaOpen
<1>4. SumFollows'
  BY <1>3, Zenon DEF ShaInv, SumFollows
<1>5. ShaTypes' /\ HashFollows'
  BY <1>1, <1>2, <1>3 DEF ShaTypes, HashFollows
<1> QED
  BY <1>4, <1>5 DEF ShaInv

LEMMA UpdateKeeps ==
  ASSUME ShaInv, NEW n \in UpdateSizes, ShaUpdate(n)
  PROVE  ShaInv'
<1> DEFINE l == Len(message)
           bytes == [k \in 1..n |-> MessageByte(l + k)]
           stored == Store(sha, bytes)
<1>1. /\ n \in Nat /\ l \in Nat /\ l + n \in 0..MaxMessage /\ sha \in Ctx /\ IsBytes(message, l)
      /\ Holding(sha, message, l)
  BY ShaAssumption DEF ShaInv, ShaTypes, HashFollows, ShaUpdate
<1>2. message' = message \o bytes /\ sha' = sha256_update(sha, bytes) /\ shaPc' = "open" /\ sum' = sum
  BY DEF ShaUpdate
<1>3. IsBytes(bytes, n) /\ Len(bytes) = n
  <2>1. ASSUME NEW k \in 1..n PROVE MessageByte(l + k) \in Byte
    <3> DEFINE at == l + k
    <3>1. at \in Nat
      BY <1>1
    <3> HIDE DEF at
    <3>2. (37 * at) % 256 \in 0..255
      BY <3>1
    <3> QED
      BY <3>2 DEF MessageByte, Byte, at
  <2> QED
    BY <1>1, <2>1 DEF IsBytes
<1> HIDE DEF l, bytes, stored
<1>4. message' = Joining(message, l, bytes, n) /\ IsBytes(message', l + n) /\ Len(message') = l + n
  BY <1>1, <1>2, <1>3, Joined
<1>5. /\ stored \in Ctx /\ stored.bitlen = sha.bitlen /\ Length(stored) = Length(sha) + n
      /\ \A k \in 1..Length(sha) : Stream(stored, k) = Stream(sha, k)
      /\ \A j \in 1..n : Stream(stored, Length(sha) + j) = bytes[j]
  BY <1>1, <1>3, Stored DEF stored
<1>6. sha' = [stored EXCEPT !.bitlen = @ + 8 * n]
  BY <1>2, <1>3 DEF sha256_update, stored
<1>7. sha.bitlen = 8 * l /\ Length(sha) = l /\ \A k \in 1..l : Stream(sha, k) = message[k]
  BY <1>1 DEF Holding
<1>8. /\ sha' \in Ctx /\ sha'.bitlen = 8 * (l + n) /\ sha'.blocks = stored.blocks
      /\ sha'.datalen = stored.datalen /\ sha'.data = stored.data
  <2>1. stored.bitlen + 8 * n = 8 * (l + n) /\ 8 * (l + n) \in Nat
    BY <1>1, <1>5, <1>7
  <2>2. sha' = [stored EXCEPT !.bitlen = 8 * (l + n)]
    BY <1>6, <2>1
  <2> DEFINE bits == 8 * (l + n)
  <2> HIDE DEF bits
  <2> QED
    BY <1>5, <2>1, <2>2 DEF Ctx, bits
<1>9. Length(sha') = l + n
  BY <1>5, <1>7, <1>8 DEF Length
<1>10. ASSUME NEW k \in 1..(l + n) PROVE Stream(sha', k) = message'[k]
  <2>1. Stream(sha', k) = Stream(stored, k)
    BY <1>8 DEF Stream
  <2>2. message'[k] = IF k <= l THEN message[k] ELSE bytes[k - l]
    BY <1>4 DEF Joining
  <2>3. CASE k <= l
    <3>1. k \in 1..l
      BY <1>1, <2>3
    <3> QED
      BY <1>5, <1>7, <2>1, <2>2, <2>3, <3>1
  <2>4. CASE k > l
    <3> DEFINE j == k - l
    <3>1. j \in 1..n /\ l + j = k /\ ~(k <= l)
      BY <1>1, <2>4
    <3>2. message'[k] = bytes[j]
      BY <2>2, <3>1
    <3> HIDE DEF j
    <3>3. Stream(stored, l + j) = bytes[j]
      BY <1>5, <1>7, <3>1
    <3> QED
      BY <2>1, <3>1, <3>2, <3>3
  <2> QED
    BY <1>1, <2>3, <2>4
<1>11. Holding(sha', message', l + n)
  BY <1>8, <1>9, <1>10 DEF Holding
<1>12. ShaTypes' /\ HashFollows'
  BY <1>1, <1>2, <1>4, <1>8, <1>11 DEF ShaTypes, HashFollows
<1>13. SumFollows'
  BY <1>2, Zenon DEF ShaInv, SumFollows
<1> QED
  BY <1>12, <1>13 DEF ShaInv

LEMMA FinalizeKeeps ==
  ASSUME ShaInv, ShaFinalize
  PROVE  ShaInv'
<1> DEFINE l == Len(message)
<1>1. /\ l \in 0..MaxMessage /\ l \in Nat /\ sha \in Ctx
      /\ IsBytes(message, l) /\ Holding(sha, message, l)
  BY ShaAssumption DEF ShaInv, ShaTypes, HashFollows, ShaFinalize
<1>2. sha' = sha256_finalize(sha) /\ message' = message /\ shaPc' = "done" /\ sum' = sum
  BY DEF ShaFinalize
<1>3. sha' \in Ctx /\ Padded(sha', message, l)
  <2> HIDE DEF l
  <2> QED
    BY <1>1, <1>2, Finalized
<1>4. ShaTypes' /\ HashFollows'
  BY <1>1, <1>2, <1>3 DEF ShaTypes, HashFollows
<1>5. SumFollows'
  BY <1>2, Zenon DEF ShaInv, SumFollows
<1> QED
  BY <1>4, <1>5 DEF ShaInv

LEMMA AddKeeps ==
  ASSUME ShaInv, NEW x \in [1..3 -> AddBytes],
         NEW y \in [1..1 -> AddBytes] \cup [1..2 -> AddBytes] \cup [1..3 -> AddBytes], Add(x, y)
  PROVE  ShaInv'
<1>1. sha' = sha /\ message' = message /\ shaPc' = shaPc
      /\ sum' = [x |-> x, y |-> y, result |-> byte_add(x, y)]
  BY DEF Add
<1>2. ShaTypes' /\ HashFollows'
  BY <1>1 DEF ShaInv, ShaTypes, HashFollows
<1>3. \E m \in 1..3 : y \in [1..m -> AddBytes]
  <2>1. 1 \in 1..3 /\ 2 \in 1..3 /\ 3 \in 1..3
    OBVIOUS
  <2> QED
    BY <2>1, Zenon
<1>4. SumFollows'
  BY <1>1, <1>3, Zenon DEF SumFollows
<1> QED
  BY <1>2, <1>4 DEF ShaInv

LEMMA ReturnKeeps ==
  ASSUME ShaInv, ShaReturn
  PROVE  ShaInv'
<1>1. sha' \in Ctx
  <2>1. sha' = sha256_init([sha EXCEPT !.data = [i \in 1..64 |-> Junk]])
    BY Zenon DEF ShaReturn, ShaInv, ShaTypes, Ctx, sha256_init
  <2> QED
    BY <2>1, Cleared DEF ShaInv, ShaTypes
<1>2. Len(message') = 0 /\ IsBytes(message', 0) /\ 0 \in 0..MaxMessage
  BY ShaAssumption DEF ShaReturn, IsBytes
<1>3. shaPc' = "idle" /\ sum' = NoSum
  BY DEF ShaReturn
<1> QED
  BY <1>1, <1>2, <1>3 DEF ShaInv, ShaTypes, HashFollows, SumFollows, NoSum

\* and every step of the driver keeps it.
LEMMA ShaKeeps == ShaInv /\ [ShaNext]_shaVars => ShaInv'
<1> SUFFICES ASSUME ShaInv, [ShaNext]_shaVars PROVE ShaInv'
  OBVIOUS
<1>1. CASE ShaOpen
  BY <1>1, OpenKeeps
<1>2. CASE \E n \in UpdateSizes : ShaUpdate(n)
  BY <1>2, UpdateKeeps
<1>3. CASE ShaFinalize
  BY <1>3, FinalizeKeeps
<1>4. CASE \E x \in [1..3 -> AddBytes] :
             \E y \in [1..1 -> AddBytes] \cup [1..2 -> AddBytes] \cup [1..3 -> AddBytes] : Add(x, y)
  BY <1>4, AddKeeps
<1>5. CASE ShaReturn
  BY <1>5, ReturnKeeps
<1>6. CASE UNCHANGED shaVars
  BY <1>6 DEF shaVars, ShaInv, ShaTypes, HashFollows, SumFollows
<1> QED
  BY <1>1, <1>2, <1>3, <1>4, <1>5, <1>6 DEF ShaNext

\* Blocks that hold the padded message are what the property asks for.
LEMMA PaddedIsFips ==
  ASSUME ShaInv, shaPc = "done"
  PROVE  BlocksAreFips
<1> DEFINE n == Len(message)
           m == Len(sha.blocks)
           all == FlattenSeq(sha.blocks)
           zeros == SubSeq(all, n + 2, Len(all) - 8)
           length == SubSeq(all, Len(all) - 7, Len(all))
           byte(k) == Fips(message, n, m, k)
           t == 64 * m
<1>1. /\ n \in Nat /\ n \in 0..MaxMessage /\ IsBytes(message, n)
      /\ m \in Nat /\ sha.blocks \in [1..m -> Piece]
      /\ t >= n + 9 /\ t < n + 9 + 64
      /\ \A k \in 1..t : ByteOf(sha.blocks, k) = byte(k)
  BY ShaAssumption, LenProperties DEF ShaInv, ShaTypes, HashFollows, Padded, Ctx
<1>2. all = [k \in 1..t |-> ByteOf(sha.blocks, k)]
  <2>1. m > 0
    BY <1>1
  <2> DEFINE blocks == sha.blocks
  <2>2. blocks \in [1..m -> Piece] /\ m \in Nat
    BY <1>1
  <2> HIDE DEF m, blocks
  <2>3. FlattenSeq(blocks) = [k \in 1..(64 * m) |-> ByteOf(blocks, k)]
    BY <2>1, <2>2, Flattened
  <2> QED
    BY <2>3 DEF blocks
<1> HIDE DEF all, n, m, byte
<1>3. /\ IsBytes(all, t) /\ Len(all) = t /\ t \in Nat /\ t % 64 = 0
      /\ \A k \in 1..t : all[k] = byte(k)
  <2>1. ASSUME NEW k \in 1..t PROVE ByteOf(sha.blocks, k) \in Byte
    <3> DEFINE i == ((k - 1) \div 64) + 1
               j == ((k - 1) % 64) + 1
    <3>1. i \in 1..m /\ j \in 1..64
      BY <1>1
    <3> HIDE DEF i, j
    <3>2. sha.blocks[i] \in Piece
      BY <1>1, <3>1
    <3>3. sha.blocks[i][j] \in Byte
      BY <3>1, <3>2 DEF Piece
    <3> QED
      BY <3>3 DEF ByteOf, i, j
  <2>2. t \in Nat /\ t % 64 = 0
    BY <1>1
  <2> HIDE DEF t
  <2>3. IsBytes(all, t)
    BY <1>2, <2>1 DEF IsBytes
  <2>4. Len(all) = t
    BY <2>2, <2>3 DEF IsBytes
  <2>5. \A k \in 1..t : all[k] = byte(k)
    BY <1>1, <1>2
  <2> QED
    BY <2>2, <2>3, <2>4, <2>5
<1> HIDE DEF t
<1>4. SubSeq(all, 1, n) = message
  <2> DEFINE one == 1
  <2>1. one \in 1..(t + 1) /\ n \in (one - 1)..t /\ n - one + 1 = n /\ \A i \in 1..n : one + i - 1 = i
    BY <1>1, <1>3
  <2> HIDE DEF one
  <2> DEFINE cut == SubSeq(all, one, n)
  <2>2. /\ IsBytes(cut, n - one + 1)
        /\ \A i \in 1..(n - one + 1) : cut[i] = all[one + i - 1]
    BY <1>3, <2>1, Cut
  <2> HIDE DEF cut
  <2>3. ASSUME NEW i \in 1..n PROVE cut[i] = message[i]
    <3>1. i \in 1..t /\ i <= n
      BY <1>1, <1>3
    <3>2. byte(i) = message[i]
      BY <3>1 DEF byte, Fips
    <3>3. cut[i] = all[i]
      BY <2>1, <2>2
    <3> QED
      BY <1>3, <3>1, <3>2, <3>3
  <2>4. cut \in [1..n -> Byte] /\ message \in [1..n -> Byte]
    BY <1>1, <2>1, <2>2 DEF IsBytes
  <2>5. cut = message
    <3>1. cut = [i \in 1..n |-> cut[i]] /\ message = [i \in 1..n |-> message[i]]
      BY <2>4, Zenon
    <3>2. [i \in 1..n |-> cut[i]] = [i \in 1..n |-> message[i]]
      BY <2>3, Zenon
    <3> QED
      BY <3>1, <3>2
  <2> QED
    BY <2>5 DEF cut, one
<1>5. all[n + 1] = 128
  <2>1. n + 1 \in 1..t /\ ~(n + 1 <= n)
    BY <1>1, <1>3
  <2> QED
    BY <1>3, <2>1 DEF byte, Fips
<1>6. \A i \in DOMAIN zeros : zeros[i] = 0
  <2> DEFINE p == n + 2
             q == t - 8
  <2>1. p \in 1..(t + 1) /\ q \in (p - 1)..t
    BY <1>1, <1>3
  <2>2. zeros = SubSeq(all, p, q)
    BY <1>3
  <2>3. \A i \in 1..(q - p + 1) :
          /\ p + i - 1 \in 1..t /\ ~(p + i - 1 <= n) /\ p + i - 1 # n + 1 /\ p + i - 1 <= t - 8
    BY <1>1, <1>3
  <2> HIDE DEF p, q, zeros
  <2>4. /\ IsBytes(SubSeq(all, p, q), q - p + 1)
        /\ \A i \in 1..(q - p + 1) : SubSeq(all, p, q)[i] = all[p + i - 1]
    BY <1>3, <2>1, Cut
  <2>5. DOMAIN zeros = 1..(q - p + 1)
    BY <2>2, <2>4 DEF IsBytes
  <2>6. ASSUME NEW i \in 1..(q - p + 1) PROVE zeros[i] = 0
    <3> DEFINE k == p + i - 1
    <3>1. k \in 1..t /\ ~(k <= n) /\ k # n + 1 /\ k <= t - 8
      BY <2>3
    <3>2. zeros[i] = all[k]
      BY <2>2, <2>4
    <3> HIDE DEF k
    <3>3. byte(k) = 0
      BY <3>1 DEF byte, Fips, t
    <3> QED
      BY <1>3, <3>1, <3>2, <3>3
  <2> QED
    BY <2>5, <2>6
<1>7. ValueOf(length) = 8 * n
  <2> DEFINE p == t - 7
             eight == 8
  <2>1. /\ p \in 1..(t + 1) /\ t \in (p - 1)..t /\ t - p + 1 = eight /\ eight = 8
    BY <1>1, <1>3
  <2>2. length = SubSeq(all, p, t)
    BY <1>3
  <2>3. p = t - 7
    OBVIOUS
  <2> HIDE DEF p, length, eight
  <2>4. /\ IsBytes(SubSeq(all, p, t), t - p + 1)
        /\ \A i \in 1..(t - p + 1) : SubSeq(all, p, t)[i] = all[p + i - 1]
    BY <1>3, <2>1, Cut
  <2>5. IsBytes(length, 8)
    BY <2>1, <2>2, <2>4
  <2> DEFINE L == 8 * n
  <2>6. ASSUME NEW i \in 1..8 PROVE length[i] = LengthByte(L, i - 1)
    <3> DEFINE k == p + i - 1
    <3>1. k \in 1..t /\ ~(k <= n) /\ k # n + 1 /\ ~(k <= t - 8) /\ k - (t - 8) - 1 = i - 1
      BY <1>1, <1>3, <2>3
    <3>2. length[i] = all[k]
      BY <2>1, <2>2, <2>4
    <3> HIDE DEF k
    <3>3. byte(k) = LengthByte(8 * n, k - (t - 8) - 1)
      BY <3>1 DEF byte, Fips, t
    <3> QED
      BY <1>3, <3>1, <3>2, <3>3
  <2>7. L \in Nat /\ Short(L)
    BY <1>1, ShaAssumption, SMT DEF Short
  <2> HIDE DEF L
  <2>8. ValueOf(length) = L
    BY <2>5, <2>6, <2>7, LengthValue
  <2> QED
    BY <2>8 DEF L
<1>8. Len(all) % 64 = 0 /\ Len(all) >= n + 9 /\ Len(all) < n + 9 + 64
  BY <1>1, <1>3
<1> QED
  BY <1>4, <1>5, <1>6, <1>7, <1>8, Zenon DEF BlocksAreFips, all, n

\* Whatever pieces a message comes in, of any length below 2^28 bytes, sha256_update() and
\* sha256_finalize() hand sha256_transform() the blocks that FIPS 180-4 asks for.
THEOREM BlocksFips == ShaSpec => []BlocksAreFips
<1>1. ShaInv => BlocksAreFips
  <2>1. CASE shaPc = "done"
    BY <2>1, PaddedIsFips
  <2>2. CASE shaPc # "done"
    BY <2>2 DEF BlocksAreFips
  <2> QED
    BY <2>1, <2>2
<1> QED
  BY <1>1, ShaStarts, ShaKeeps, PTL DEF ShaSpec

\* hex_to_bytes() undoes bytes_to_hex(), and each refuses an array that is one byte short.
LEMMA HexUndone ==
  ASSUME NEW n \in Nat, NEW in, IsBytes(in, n)
  PROVE  LET hex == bytes_to_hex(in, 2 * n + 1)
         IN /\ bytes_to_hex(in, 2 * n) = <<-1>>
            /\ hex_to_bytes(hex, Len(hex), n) = in
            /\ n > 0 => hex_to_bytes(hex, Len(hex), n - 1) = <<-1>>
<1> DEFINE hex == bytes_to_hex(in, 2 * n + 1)
           two == 2 * n
           back == [i \in 1..n |-> 16 * hex[2 * i - 1] + hex[2 * i]]
<1>1. Len(in) = n /\ \A i \in 1..n : in[i] \in 0..255
  BY DEF IsBytes, Byte
<1>2. hex = [i \in 1..two |-> IF i % 2 = 1 THEN in[(i + 1) \div 2] \div 16 ELSE in[i \div 2] % 16]
  <2>1. ~ (2 * n + 1 > 2 * n + 1)
    OBVIOUS
  <2> QED
    BY <1>1, <2>1 DEF bytes_to_hex
<1>0. bytes_to_hex(in, 2 * n) = <<-1>>
  <2>1. 2 * n + 1 > 2 * n
    OBVIOUS
  <2> QED
    BY <1>1, <2>1 DEF bytes_to_hex
<1>3. two \in Nat /\ two % 2 = 0 /\ two \div 2 = n
  OBVIOUS
<1> HIDE DEF hex
<1>4. Len(hex) = two
  <2> HIDE DEF two
  <2> QED
    BY <1>2, <1>3
<1>5. ASSUME NEW i \in 1..n PROVE hex[2 * i - 1] = in[i] \div 16 /\ hex[2 * i] = in[i] % 16
  <2> DEFINE a == 2 * i - 1
             b == 2 * i
  <2>1. /\ a \in 1..two /\ b \in 1..two /\ a % 2 = 1 /\ b % 2 = 0 /\ (a + 1) \div 2 = i /\ b \div 2 = i
    OBVIOUS
  <2> HIDE DEF a, b, two
  <2>2. hex[a] = in[i] \div 16
    BY <1>2, <2>1
  <2>3. hex[b] = in[i] % 16
    BY <1>2, <2>1
  <2> QED
    BY <2>2, <2>3 DEF a, b
<1>6. ASSUME NEW j \in 1..two PROVE hex[j] \in 0..15
  <2>1. PICK i \in 1..n : j = 2 * i - 1 \/ j = 2 * i
    <3> DEFINE i == (j + 1) \div 2
    <3>1. i \in 1..n /\ (j = 2 * i - 1 \/ j = 2 * i)
      OBVIOUS
    <3> QED
      BY <3>1
  <2>2. in[i] \in 0..255
    BY <1>1, <2>1
  <2>3. in[i] \div 16 \in 0..15 /\ in[i] % 16 \in 0..15
    BY <2>2
  <2> QED
    BY <1>5, <2>1, <2>3
<1>7. ASSUME NEW i \in 1..n PROVE back[i] = in[i]
  <2>1. in[i] \in 0..255
    BY <1>1
  <2>2. 16 * (in[i] \div 16) + (in[i] % 16) = in[i]
    BY <2>1
  <2> QED
    BY <1>5, <2>2
<1>8. back = in
  <2>1. in \in [1..n -> Byte]
    BY DEF IsBytes
  <2>2. in = [i \in 1..n |-> in[i]]
    BY <2>1, Zenon
  <2>3. [i \in 1..n |-> back[i]] = [i \in 1..n |-> in[i]]
    BY <1>7, Zenon
  <2> HIDE DEF hex
  <2>4. back = [i \in 1..n |-> back[i]]
    BY Zenon
  <2> HIDE DEF back
  <2> QED
    BY <2>2, <2>3, <2>4, Zenon
<1>9. ASSUME NEW outlen \in Nat
      PROVE  hex_to_bytes(hex, Len(hex), outlen) = IF n > outlen THEN <<-1>> ELSE back
  <2>1. hex_to_bytes(hex, Len(hex), outlen)
          = IF two % 2 = 1 \/ two \div 2 > outlen \/ \E i \in 1..two : hex[i] > 15
            THEN <<-1>> ELSE [i \in 1..(two \div 2) |-> 16 * hex[2 * i - 1] + hex[2 * i]]
    <3> DEFINE l == Len(hex)
    <3>1. l = two /\ l \in Nat /\ l <= l
      BY <1>3, <1>4
    <3>2. hex_to_bytes(hex, l, outlen)
          = IF l % 2 = 1 \/ l \div 2 > outlen \/ \E i \in 1..l : hex[i] > 15
            THEN <<-1>> ELSE [i \in 1..(l \div 2) |-> 16 * hex[2 * i - 1] + hex[2 * i]]
      BY <3>1, Zenon DEF hex_to_bytes
    <3> HIDE DEF two
    <3> QED
      BY <3>1, <3>2, Zenon
  <2>2. ~ \E i \in 1..two : hex[i] > 15
    <3>1. \A d \in 0..15 : ~ (d > 15)
      OBVIOUS
    <3> QED
      BY <1>6, <3>1, Zenon
  <2>3. ~(two % 2 = 1)
    BY <1>3
  <2> HIDE DEF two
  <2> QED
    BY <1>3, <2>1, <2>2, <2>3, Zenon
<1>10. hex_to_bytes(hex, Len(hex), n) = in
  <2>1. ~(n > n)
    OBVIOUS
  <2> HIDE DEF back
  <2> QED
    BY <1>8, <1>9, <2>1
<1>11. ASSUME n > 0 PROVE hex_to_bytes(hex, Len(hex), n - 1) = <<-1>>
  <2> DEFINE less == n - 1
  <2>1. less \in Nat /\ n > less
    BY <1>11
  <2> HIDE DEF back, less
  <2>2. hex_to_bytes(hex, Len(hex), less) = <<-1>>
    BY <1>9, <2>1
  <2> QED
    BY <2>2 DEF less
<1> QED
  BY <1>0, <1>10, <1>11 DEF hex

-----------------------------------------------------------------------------

\* hash_df() fills what it was asked for, and counts its blocks.
LEMMA DfFills ==
  ASSUME NEW n \in 0..(255 * 32)
  PROVE  /\ Filling(hash_df(n)) = n
         /\ \A i, j \in DOMAIN hash_df(n) : hash_df(n)[i].counter = hash_df(n)[j].counter => i = j
<1> DEFINE len == (n + 31) \div 32
           df == hash_df(n)
           last == IF n % 32 = 0 THEN 32 ELSE n % 32
<1>1. len \in Nat /\ (len = 0 <=> n = 0) /\ (len > 0 => n = 32 * (len - 1) + last) /\ last \in Nat
  <2>1. n \in Nat /\ n % 32 \in 0..31 /\ n = 32 * (n \div 32) + (n % 32) /\ n \div 32 \in Nat
    OBVIOUS
  <2>2. len = IF n % 32 = 0 THEN n \div 32 ELSE (n \div 32) + 1
    OBVIOUS
  <2> HIDE DEF len
  <2> QED
    BY <2>1, <2>2
<1>2. df = [i \in 1..len |-> [counter |-> i,
                             copied |-> IF i # len \/ n % 32 = 0 THEN 32 ELSE n % 32]]
  <2>1. ~(n > 255 * 32)
    OBVIOUS
  <2> QED
    BY <2>1, Zenon DEF hash_df
<1> HIDE DEF len, df, last
<1>3. /\ Len(df) = len /\ DOMAIN df = 1..len
      /\ \A i \in 1..len : df[i].counter = i /\ df[i].copied = IF i = len THEN last ELSE 32
  <2>1. Len(df) = len /\ DOMAIN df = 1..len
    BY <1>1, <1>2
  <2>2. ASSUME NEW i \in 1..len
        PROVE  df[i].counter = i /\ df[i].copied = IF i = len THEN last ELSE 32
    BY <1>2 DEF last
  <2> QED
    BY <2>1, <2>2
<1>4. \A i \in 1..len : df[i].copied \in Nat
  BY <1>1, <1>3
<1>5. PICK v \in [0..len -> Nat] : /\ v[0] = 0
                                   /\ \A i \in 1..len : v[i] = v[i - 1] + df[i].copied
                                   /\ Filling(df) = v[len]
  BY <1>1, <1>3, <1>4, FillingSteps
<1> DEFINE Wrong == {k \in 0..len : k < len /\ v[k] # 32 * k}
<1>6. ASSUME Wrong # {} PROVE FALSE
  <2>1. Wrong \subseteq Nat
    OBVIOUS
  <2>2. PICK k \in Wrong : \A m \in Wrong : k <= m
    <3> HIDE DEF Wrong
    <3> QED
      BY <1>6, <2>1, LeastNatural
  <2>3. k \in 1..len /\ k < len /\ v[k] # 32 * k
    BY <1>1, <1>5, <2>2
  <2>4. k - 1 \in 0..len /\ k - 1 \notin Wrong /\ k - 1 < len
    BY <1>1, <2>2, <2>3
  <2>5. v[k - 1] = 32 * (k - 1)
    BY <2>4
  <2>6. v[k] = v[k - 1] + 32
    BY <1>3, <1>5, <2>3
  <2> QED
    BY <2>3, <2>5, <2>6
<1>7. Filling(df) = n
  <2>1. CASE len = 0
    BY <1>1, <1>5, <2>1
  <2>2. CASE len # 0
    <3>1. len \in 1..len /\ len - 1 \in 0..len /\ len - 1 < len
      BY <1>1, <2>2
    <3>2. v[len - 1] = 32 * (len - 1)
      BY <1>6, <3>1
    <3>3. v[len] = v[len - 1] + last
      BY <1>3, <1>5, <3>1
    <3> QED
      BY <1>1, <1>5, <2>2, <3>2, <3>3
  <2> QED
    BY <2>1, <2>2
<1>8. \A i, j \in DOMAIN df : df[i].counter = df[j].counter => i = j
  BY <1>3, Zenon
<1> QED
  BY <1>7, <1>8 DEF df

-----------------------------------------------------------------------------

\* v counts up the value of the bytes.
Digits(v, bytes, n) ==
  /\ v[0] = 0
  /\ \A i \in 1..n : v[i] = 256 * v[i - 1] + bytes[i]
  /\ ValueOf(bytes) = v[n]

\* There is such a count of every array.
LEMMA DigitsAre ==
  ASSUME NEW n \in Nat, NEW bytes, IsBytes(bytes, n)
  PROVE  \E v : Digits(v, bytes, n)
<1>1. bytes \in [1..n -> Nat]
  <2>1. Byte \subseteq Nat /\ bytes \in [1..n -> Byte]
    BY DEF IsBytes, Byte
  <2> QED
    BY <2>1
<1>2. PICK v \in [0..n -> Nat] : /\ v[0] = 0
                                 /\ \A i \in 1..n : v[i] = 256 * v[i - 1] + bytes[i]
                                 /\ ValueOf(bytes) = v[n]
  BY <1>1, ValueSteps
<1>3. Digits(v, bytes, n)
  BY <1>2 DEF Digits
<1> QED
  BY <1>3

\* The value of two bytes.
LEMMA TwoDigits ==
  ASSUME NEW v, NEW x, v[0] = 0, v[1] = 256 * v[0] + x[1], v[2] = 256 * v[1] + x[2],
         x[1] \in 0..255, x[2] \in 0..255
  PROVE  v[2] = 256 * x[1] + x[2]
<1>1. v[1] = x[1]
  OBVIOUS
<1> QED
  BY <1>1

\* The value of three bytes.
LEMMA ThreeBytes ==
  ASSUME NEW x, IsBytes(x, 3)
  PROVE  /\ ValueOf(x) = 65536 * x[1] + 256 * x[2] + x[3]
         /\ x[1] \in 0..255 /\ x[2] \in 0..255 /\ x[3] \in 0..255
<1> DEFINE n == 3
<1>1. x[1] \in 0..255 /\ x[2] \in 0..255 /\ x[3] \in 0..255
  BY DEF IsBytes, Byte
<1>2. n \in Nat /\ IsBytes(x, n)
  OBVIOUS
<1> HIDE DEF n
<1>3. \E v : Digits(v, x, n)
  BY <1>2, DigitsAre
<1>4. \E v : /\ v[0] = 0 /\ v[1] = 256 * v[0] + x[1] /\ v[2] = 256 * v[1] + x[2]
            /\ v[3] = 256 * v[2] + x[3] /\ ValueOf(x) = v[3]
  BY <1>3 DEF n, Digits
<1>5. PICK v : /\ v[0] = 0 /\ v[1] = 256 * v[0] + x[1] /\ v[2] = 256 * v[1] + x[2]
               /\ v[3] = 256 * v[2] + x[3] /\ ValueOf(x) = v[3]
  BY <1>4
<1>6. v[2] = 256 * x[1] + x[2]
  BY <1>1, <1>5, TwoDigits, ZenonT(60)
<1>7. v[3] = 256 * (256 * x[1] + x[2]) + x[3]
  BY <1>5, <1>6, Zenon
<1>8. v[3] = 65536 * x[1] + 256 * x[2] + x[3]
  <2> DEFINE a == x[1]
             b == x[2]
             c == x[3]
             d == v[3]
  <2>1. a \in 0..255 /\ b \in 0..255 /\ c \in 0..255 /\ d = 256 * (256 * a + b) + c
    BY <1>1, <1>7
  <2> HIDE DEF a, b, c, d
  <2>2. d = 65536 * a + 256 * b + c
    BY <2>1, SMT
  <2> QED
    BY <2>2, SMT DEF a, b, c, d
<1> QED
  BY <1>1, <1>5, <1>8, SMT

\* A shorter operand is one with zeros in front.
At3(y, m, i) == IF i - (3 - m) >= 1 THEN y[i - (3 - m)] ELSE 0

\* The value of the shorter operand of byte_add(), digit by digit.
LEMMA ShorterValue ==
  ASSUME NEW m \in 1..3, NEW y, IsBytes(y, m)
  PROVE  /\ ValueOf(y) = 65536 * At3(y, m, 1) + 256 * At3(y, m, 2) + At3(y, m, 3)
         /\ At3(y, m, 1) \in 0..255 /\ At3(y, m, 2) \in 0..255 /\ At3(y, m, 3) \in 0..255
<1>1. \A i \in 1..m : y[i] \in 0..255
  BY DEF IsBytes, Byte
<1>3. \E v : Digits(v, y, m)
  <2>1. m \in Nat
    OBVIOUS
  <2> QED
    BY <2>1, DigitsAre
<1>4. CASE m = 1
  <2>1. At3(y, m, 1) = 0 /\ At3(y, m, 2) = 0 /\ At3(y, m, 3) = y[1] /\ y[1] \in 0..255
    BY <1>1, <1>4 DEF At3
  <2>2. \E v : v[0] = 0 /\ v[1] = 256 * v[0] + y[1] /\ ValueOf(y) = v[1]
    BY <1>3, <1>4 DEF Digits
  <2>3. ValueOf(y) = y[1]
    BY <2>1, <2>2
  <2> QED
    BY <2>1, <2>3, SMT
<1>5. CASE m = 2
  <2>1. /\ At3(y, m, 1) = 0 /\ At3(y, m, 2) = y[1] /\ At3(y, m, 3) = y[2]
        /\ y[1] \in 0..255 /\ y[2] \in 0..255
    BY <1>1, <1>5 DEF At3
  <2>2. \E v : v[0] = 0 /\ v[1] = 256 * v[0] + y[1] /\ v[2] = 256 * v[1] + y[2] /\ ValueOf(y) = v[2]
    BY <1>3, <1>5 DEF Digits
  <2>3. ValueOf(y) = 256 * y[1] + y[2]
    BY <2>1, <2>2, TwoDigits
  <2> QED
    BY <2>1, <2>3, SMT
<1>6. CASE m = 3
  <2>1. /\ ValueOf(y) = 65536 * y[1] + 256 * y[2] + y[3]
        /\ y[1] \in 0..255 /\ y[2] \in 0..255 /\ y[3] \in 0..255
    BY <1>6, ThreeBytes
  <2>2. At3(y, m, 1) = y[1] /\ At3(y, m, 2) = y[2] /\ At3(y, m, 3) = y[3]
    BY <1>6 DEF At3
  <2> QED
    BY <2>1, <2>2, SMT
<1> QED
  BY <1>4, <1>5, <1>6

\* The carries of an addition of three bytes.
LEMMA Carries ==
  ASSUME NEW m \in 1..3, NEW x, IsBytes(x, 3), NEW y, IsBytes(y, m)
  PROVE  LET r == byte_add(x, y)
         IN /\ IsBytes(r, 3)
            /\ \E c \in [1..4 -> 0..1] :
                 /\ c[4] = 0
                 /\ \A i \in 1..3 : x[i] + At3(y, m, i) + c[i + 1] = 256 * c[i] + r[i]
<1> DEFINE n == Len(x)
           o == n - Len(y)
           Y(i) == IF i - o >= 1 THEN y[i - o] ELSE 0
           Step(c) == [i \in 1..(n + 1) |->
                        IF i = n + 1 THEN 0 ELSE IF x[i] + Y(i) + c[i + 1] > 255 THEN 1 ELSE 0]
           c3 == IF x[3] + Y(3) + 0 > 255 THEN 1 ELSE 0
           c2 == IF x[2] + Y(2) + c3 > 255 THEN 1 ELSE 0
           c1 == IF x[1] + Y(1) + c2 > 255 THEN 1 ELSE 0
           w == [i \in 1..4 |-> IF i = 4 THEN 0 ELSE IF i = 3 THEN c3 ELSE IF i = 2 THEN c2 ELSE c1]
           V == CHOOSE c : c = Step(c)
           r == byte_add(x, y)
<1>0. r = [i \in 1..n |-> (x[i] + Y(i) + V[i + 1]) % 256]
  BY Zenon DEF byte_add
<1>3. n = 3 /\ n + 1 = 4 /\ o = 3 - m
  <2>1. Len(x) = 3 /\ Len(y) = m
    BY DEF IsBytes
  <2> QED
    BY <2>1
<1> HIDE DEF n, o
<1>1. w = Step(w)
  <2>1. w[4] = 0 /\ w[3] = c3 /\ w[2] = c2 /\ w[1] = c1
    OBVIOUS
  <2> HIDE DEF w, Y
  <2>2. ASSUME NEW i \in 1..4
        PROVE  w[i] = IF i = n + 1 THEN 0 ELSE IF x[i] + Y(i) + w[i + 1] > 255 THEN 1 ELSE 0
    <3>1. CASE i = 4
      BY <1>3, <2>1, <3>1
    <3>2. CASE i = 3
      BY <1>3, <2>1, <3>2
    <3>3. CASE i = 2
      BY <1>3, <2>1, <3>3
    <3>4. CASE i = 1
      BY <1>3, <2>1, <3>4
    <3> QED
      BY <3>1, <3>2, <3>3, <3>4
  <2>3. w = [i \in 1..4 |-> w[i]]
    BY DEF w
  <2>4. [i \in 1..4 |-> w[i]] = Step(w)
    BY <1>3, <2>2, Zenon
  <2> QED
    BY <2>3, <2>4
<1>2. V = Step(V)
  BY <1>1
<1>4. \A i \in 1..3 : Y(i) = At3(y, m, i)
  BY <1>3 DEF At3
<1> HIDE DEF V, r, Y
<1>5. V[4] = 0 /\ \A i \in 1..3 : V[i] = IF x[i] + Y(i) + V[i + 1] > 255 THEN 1 ELSE 0
  BY <1>2, <1>3
<1>6. V \in [1..4 -> 0..1]
  BY <1>2, <1>3
<1>7. ASSUME NEW i \in 1..3 PROVE x[i] + Y(i) + V[i + 1] = 256 * V[i] + r[i] /\ r[i] \in Byte
  <2>1. x[i] \in 0..255
    BY DEF IsBytes, Byte
  <2>2. Y(i) \in 0..255
    <3>1. i \in {1, 2, 3}
      OBVIOUS
    <3> QED
      BY <1>4, <3>1, ShorterValue
  <2>3. V[i + 1] \in 0..1
    BY <1>6
  <2> DEFINE a == x[i]
             b == Y(i)
             d == V[i + 1]
             s == a + b + d
  <2>4. s \in 0..511
    <3>1. a \in 0..255 /\ b \in 0..255 /\ d \in 0..1
      BY <2>1, <2>2, <2>3
    <3> HIDE DEF a, b, d
    <3> QED
      BY <3>1
  <2>5. r[i] = s % 256 /\ V[i] = IF s > 255 THEN 1 ELSE 0
    BY <1>0, <1>3, <1>5
  <2> HIDE DEF s
  <2>6. s = 256 * V[i] + r[i] /\ r[i] \in 0..255
    <3> DEFINE c == V[i]
               e == r[i]
    <3>1. e = s % 256 /\ c = IF s > 255 THEN 1 ELSE 0
      BY <2>5
    <3> HIDE DEF c, e
    <3>2. s = 256 * c + e /\ e \in 0..255
      BY <2>4, <3>1, SMT
    <3> QED
      BY <3>2 DEF c, e
  <2> QED
    BY <2>6 DEF s, Byte
<1>8. IsBytes(r, 3)
  BY <1>0, <1>3, <1>7 DEF IsBytes
<1>9. \A i \in 1..3 : x[i] + At3(y, m, i) + V[i + 1] = 256 * V[i] + r[i]
  BY <1>4, <1>7
<1> QED
  BY <1>5, <1>6, <1>8, <1>9 DEF r

\* byte_add() adds modulo 2^24 when X has three bytes.
LEMMA SumIsModular ==
  ASSUME NEW m \in 1..3, NEW x, IsBytes(x, 3), NEW y, IsBytes(y, m)
  PROVE  ValueOf(byte_add(x, y)) = (ValueOf(x) + ValueOf(y)) % (2 ^ 24)
<1> DEFINE r == byte_add(x, y)
<1>1. /\ IsBytes(r, 3)
      /\ \E c \in [1..4 -> 0..1] :
           /\ c[4] = 0
           /\ \A i \in 1..3 : x[i] + At3(y, m, i) + c[i + 1] = 256 * c[i] + r[i]
  BY Carries
<1> HIDE DEF r
<1>2. PICK c \in [1..4 -> 0..1] :
           /\ c[4] = 0
           /\ \A i \in 1..3 : x[i] + At3(y, m, i) + c[i + 1] = 256 * c[i] + r[i]
  BY <1>1
<1> DEFINE x1 == x[1]
           x2 == x[2]
           x3 == x[3]
           y1 == At3(y, m, 1)
           y2 == At3(y, m, 2)
           y3 == At3(y, m, 3)
           r1 == r[1]
           r2 == r[2]
           r3 == r[3]
           c1 == c[1]
           c2 == c[2]
           c3 == c[3]
           vx == ValueOf(x)
           vy == ValueOf(y)
           vr == ValueOf(r)
<1>3. /\ x1 + y1 + c2 = 256 * c1 + r1 /\ x2 + y2 + c3 = 256 * c2 + r2 /\ x3 + y3 + 0 = 256 * c3 + r3
      /\ c1 \in 0..1 /\ c2 \in 0..1 /\ c3 \in 0..1
  <2>1. /\ x1 + y1 + c[1 + 1] = 256 * c1 + r1 /\ x2 + y2 + c[2 + 1] = 256 * c2 + r2
        /\ x3 + y3 + c[3 + 1] = 256 * c3 + r3
    <3>1. 1 \in 1..3 /\ 2 \in 1..3 /\ 3 \in 1..3
      OBVIOUS
    <3> QED
      BY <1>2, <3>1, Zenon
  <2>2. 1 + 1 = 2 /\ 2 + 1 = 3 /\ 3 + 1 = 4 /\ c[4] = 0
    BY <1>2
  <2>3. c1 \in 0..1 /\ c2 \in 0..1 /\ c3 \in 0..1
    BY <1>2
  <2> QED
    BY <2>1, <2>2, <2>3, Zenon
<1>4. /\ vx = 65536 * x1 + 256 * x2 + x3 /\ x1 \in 0..255 /\ x2 \in 0..255 /\ x3 \in 0..255
      /\ vr = 65536 * r1 + 256 * r2 + r3 /\ r1 \in 0..255 /\ r2 \in 0..255 /\ r3 \in 0..255
  BY <1>1, ThreeBytes, SMT
<1>5. vy = 65536 * y1 + 256 * y2 + y3 /\ y1 \in 0..255 /\ y2 \in 0..255 /\ y3 \in 0..255
  BY ShorterValue, SMT
<1> HIDE DEF x1, x2, x3, y1, y2, y3, r1, r2, r3, c1, c2, c3, vx, vy, vr
<1>6. /\ vx + vy = 16777216 * c1 + vr /\ c1 \in 0..1
      /\ 0 <= vr /\ vr < 16777216 /\ vr \in Int /\ vx + vy \in Int
  <2>1. /\ x1 \in Int /\ x2 \in Int /\ x3 \in Int /\ y1 \in Int /\ y2 \in Int /\ y3 \in Int
        /\ r1 \in Int /\ r2 \in Int /\ r3 \in Int /\ c1 \in Int /\ c2 \in Int /\ c3 \in Int
        /\ c1 \in 0..1
    BY <1>3, <1>4, <1>5, SMT
  <2>2. x3 + y3 = 256 * c3 + r3 /\ x1 + y1 + c2 = 256 * c1 + r1 /\ x2 + y2 + c3 = 256 * c2 + r2
    BY <1>3, <2>1, SMT
  <2>3. /\ vx = 65536 * x1 + 256 * x2 + x3
        /\ vy = 65536 * y1 + 256 * y2 + y3
        /\ vr = 65536 * r1 + 256 * r2 + r3
    BY <1>4, <1>5, SMT
  <2>4. /\ 0 <= r1 /\ r1 <= 255 /\ 0 <= r2 /\ r2 <= 255 /\ 0 <= r3 /\ r3 <= 255
    BY <1>4, SMT
  <2>5. 65536 * (x1 + y1 + c2) = 16777216 * c1 + 65536 * r1
    BY <2>1, <2>2, SMT
  <2>6. 256 * (x2 + y2 + c3) = 65536 * c2 + 256 * r2
    BY <2>1, <2>2, SMT
  <2>7. vx + vy = 16777216 * c1 + vr
    BY <2>1, <2>2, <2>3, <2>5, <2>6, SMT
  <2>8. 0 <= vr /\ vr < 16777216 /\ vr \in Int
    BY <2>1, <2>3, <2>4, SMT
  <2>9. vx + vy \in Int
    BY <2>1, <2>3, SMT
  <2> QED
    BY <2>1, <2>7, <2>8, <2>9, SMT
<1>7. 2 ^ 24 = 16777216
  BY SMT
<1>8. vr = (vx + vy) % 16777216
  <2>1. CASE c1 = 0
    BY <2>1, <1>6, SMT
  <2>2. CASE c1 = 1
    BY <2>2, <1>6, SMT
  <2> QED
    BY <2>1, <2>2, <1>6, SMT
<1>9. vr = (vx + vy) % (2 ^ 24)
  BY <1>7, <1>8, SMT
<1> QED
  BY <1>9, SMT DEF vx, vy, vr, r

\* The invariant gives the helpers bytes to work on.
LEMMA HelpersHold ==
  ASSUME ShaInv, MaxMessage <= 255 * 32
  PROVE  HelpersAreExact
<1>1. ASSUME shaPc = "done"
      PROVE  LET hex == bytes_to_hex(message, 2 * Len(message) + 1)
                 df  == hash_df(Len(message))
             IN /\ bytes_to_hex(message, 2 * Len(message)) = <<-1>>
                /\ hex_to_bytes(hex, Len(hex), Len(message)) = message
                /\ message # <<>> => hex_to_bytes(hex, Len(hex), Len(message) - 1) = <<-1>>
                /\ Filling(df) = Len(message)
                /\ \A i, j \in DOMAIN df : df[i].counter = df[j].counter => i = j
  <2> DEFINE n == Len(message)
             hex == bytes_to_hex(message, 2 * n + 1)
  <2> HIDE DEF n, hex
  <2>0. IsBytes(message, n) /\ n \in Nat /\ n <= MaxMessage
    BY DEF ShaInv, ShaTypes, n
  <2>1. n \in Nat /\ n \in 0..(255 * 32) /\ IsBytes(message, n)
    <3>1. MaxMessage \in Int
      BY ShaAssumption, SMT
    <3> QED
      BY <2>0, <3>1, SMT
  <2>2. ASSUME message # <<>> PROVE n > 0
    <3>1. message \in Seq(Byte)
      BY <2>1, SMT DEF IsBytes
    <3>2. n # 0
      BY <2>2, <3>1, EmptySeq, Zenon DEF n
    <3> QED
      BY <2>1, <3>2, SMT
  <2>3. /\ bytes_to_hex(message, 2 * n) = <<-1>>
        /\ hex_to_bytes(hex, Len(hex), n) = message
        /\ n > 0 => hex_to_bytes(hex, Len(hex), n - 1) = <<-1>>
    BY <2>1, HexUndone DEF hex
  <2>4. /\ Filling(hash_df(n)) = n
        /\ \A i, j \in DOMAIN hash_df(n) : hash_df(n)[i].counter = hash_df(n)[j].counter => i = j
    BY <2>1, DfFills
  <2> QED
    BY <2>2, <2>3, <2>4, Zenon DEF n, hex
<1>2. ASSUME sum # NoSum PROVE ValueOf(sum.result) = (ValueOf(sum.x) + ValueOf(sum.y)) % (2 ^ 24)
  <2>1. PICK x \in [1..3 -> AddBytes], m \in 1..3 :
               \E y \in [1..m -> AddBytes] : sum = [x |-> x, y |-> y, result |-> byte_add(x, y)]
    BY <1>2 DEF ShaInv, SumFollows
  <2>2. PICK y \in [1..m -> AddBytes] : sum = [x |-> x, y |-> y, result |-> byte_add(x, y)]
    BY <2>1
  <2>3. AddBytes \subseteq Byte
    BY ShaAssumption DEF Byte
  <2>4. IsBytes(x, 3) /\ IsBytes(y, m)
    BY <2>1, <2>2, <2>3 DEF IsBytes
  <2>5. ValueOf(byte_add(x, y)) = (ValueOf(x) + ValueOf(y)) % (2 ^ 24)
    BY <2>1, <2>4, SumIsModular
  <2>6. sum.x = x /\ sum.y = y /\ sum.result = byte_add(x, y)
    BY <2>2
  <2> QED
    BY <2>5, <2>6
<1> QED
  BY <1>1, <1>2, Zenon DEF HelpersAreExact

\* hex_to_bytes() undoes bytes_to_hex() and each refuses an array that is too small; hash_df() fills every
\* length it accepts, 255 blocks at most, from blocks of different counters; byte_add() carries through
\* every byte, also into those that a shorter operand does not have.
THEOREM HelpersExact ==
  ASSUME MaxMessage <= 255 * 32
  PROVE  ShaSpec => []HelpersAreExact
<1>1. ShaInv => HelpersAreExact
  BY HelpersHold
<1> QED
  BY <1>1, ShaStarts, ShaKeeps, PTL DEF ShaSpec

=============================================================================
