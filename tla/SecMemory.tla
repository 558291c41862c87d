----------------------------- MODULE SecMemory -----------------------------
(***************************************************************************)
(* The memory of the SEC driver: the heap of common/alloc.c, which never   *)
(* takes a block back, its users, and the job descriptors built in it by   *)
(* drivers/fsl_sec/src/jobdesc.c.  The functions run one after the other   *)
(* here; JobRing has their interleavings and what becomes of a job.        *)
(* Memory counts in units of 16 bytes, a descriptor in words of 4.         *)
(***************************************************************************)
EXTENDS Integers, Sequences, FiniteSets

CONSTANTS
  HeapSizes,     \* sizes of the heap (65536 in the code)
  SecCalls       \* bound: calls of the driver

ASSUME SecMemoryAssumption == HeapSizes \subseteq Nat /\ SecCalls \in Nat

VARIABLES
  heap,        \* start, begin and end of the allocator
  secBlocks,   \* history: the blocks handed out
  jobdesc,     \* the descriptors kept in static pointers, and the one of the last key
  desc,        \* the contents of each descriptor
  secJob,      \* the call under way: the block of every buffer it has asked for
  secCalls

secMemVars == <<heap, secBlocks, jobdesc, desc, secJob, secCalls>>

NULL == -1
HeapAddr == 8
Align(address) == ((address + 3) \div 4) * 4   \* 64 bytes

NoJob == [kind |-> "none", step |-> 1, at |-> <<>>]
StaticKinds == {"instantiate", "rng", "rand_byte"}

\* alloc_init(), at a boot with a heap of some size.
SecMemInit ==
  /\ \E size \in HeapSizes : heap = [start |-> HeapAddr, begin |-> HeapAddr, end |-> HeapAddr + size]
  /\ secBlocks = {}
  /\ jobdesc = [kind \in StaticKinds |-> NULL]
  /\ desc = <<>>
  /\ secJob = NoJob
  /\ secCalls = 0

-----------------------------------------------------------------------------
\* __alloc(): the last unit of the heap is never handed out; all sizes are small, no sum wraps.
New(size) == IF Align(heap.start) + size >= heap.end THEN NULL ELSE Align(heap.start)

__alloc(size) ==
  /\ heap' = IF New(size) = NULL THEN heap ELSE [heap EXCEPT !.start = New(size) + size]
  /\ secBlocks' = IF New(size) = NULL THEN secBlocks ELSE secBlocks \cup {[at |-> New(size), size |-> size]}

\* The buffers of a call and their sizes: init_job_ring(), instantiate_rng(), _get_RNG() with
\* hw_rng_generate(), get_hw_unq_key_blob_hw().
Buffers ==
  [ring        |-> << [name |-> "input", size |-> 32], [name |-> "output", size |-> 48] >>,
   instantiate |-> << [name |-> "instantiate", size |-> 17] >>,
   rng         |-> << [name |-> "rand_byte", size |-> 4], [name |-> "rng", size |-> 17] >>,
   key         |-> << [name |-> "key_data", size |-> 1], [name |-> "in_data", size |-> 1],
                      [name |-> "out_data", size |-> 4], [name |-> "key", size |-> 17] >>]

Buffer == Buffers[secJob.kind][secJob.step]
Allocating == secJob.kind # "none" /\ secJob.step <= Len(Buffers[secJob.kind])
Ends == secJob' = NoJob

CallSec(kind) ==
  /\ secJob = NoJob
  /\ secCalls < SecCalls
  /\ secJob' = [kind |-> kind, step |-> 1, at |-> <<>>]
  /\ secCalls' = secCalls + 1
  /\ UNCHANGED <<heap, secBlocks, jobdesc, desc>>

Got(block) == secJob' = [secJob EXCEPT !.step = @ + 1, !.at = Append(@, block)]

\* A buffer of a static pointer is asked for until there is one.
Keep ==
  /\ Allocating /\ Buffer.name \in StaticKinds
  /\ jobdesc[Buffer.name] # NULL
  /\ Got(jobdesc[Buffer.name])
  /\ UNCHANGED <<heap, secBlocks, jobdesc, desc, secCalls>>

\* No memory ends the call, but for the rings: init_job_ring() clears and uses what it got.
alloc ==
  /\ Allocating
  /\ Buffer.name \in StaticKinds => jobdesc[Buffer.name] = NULL
  /\ __alloc(Buffer.size)
  /\ IF New(Buffer.size) = NULL /\ secJob.kind # "ring"
     THEN Ends /\ UNCHANGED jobdesc
     ELSE /\ Got(New(Buffer.size))
          /\ jobdesc' = IF Buffer.name \in StaticKinds
                        THEN [jobdesc EXCEPT ![Buffer.name] = New(Buffer.size)] ELSE jobdesc
  /\ UNCHANGED <<desc, secCalls>>

-----------------------------------------------------------------------------
(* Descriptors.  The low 7 bits of the first word count the words; a word  *)
(* is a symbol with the length or the half of an address that is in it.    *)

DESC_LEN_MASK == 127
MAX_DESC_SIZE_WORDS == 64
Word(name) == <<name, 0>>

\* desc_init() clears the first word, not what an earlier job left behind it.
desc_init(old) == [len |-> 0, word |-> old.word]

desc_add_word(d, word) ==
  [len |-> (d.len + 1) % (DESC_LEN_MASK + 1), word |-> [d.word EXCEPT ![d.len] = word]]

\* Mutant: a pointer counts as one word.
desc_add_ptrMutant(d, ptr) ==
  [len |-> (d.len + 1) % (DESC_LEN_MASK + 1),
   word |-> [d.word EXCEPT ![d.len] = <<"high", ptr>>, ![d.len + 1] = <<"low", ptr>>]]

desc_add_ptr(d, ptr) ==
  [len |-> (d.len + 2) % (DESC_LEN_MASK + 1),
   word |-> [d.word EXCEPT ![d.len] = <<"high", ptr>>, ![d.len + 1] = <<"low", ptr>>]]

cnstr_rng_instantiate_jobdesc(d) ==
  LET started == desc_add_word(desc_add_word(desc_init(d), Word("header")), Word("instantiate"))
      cleared == desc_add_word(desc_add_word(desc_add_word(started, Word("wait")),
                                             Word("clear_written")), Word("clear_mode"))
  IN  desc_add_word(cleared, Word("secure_keys"))

cnstr_rng_jobdesc(d, out) ==
  desc_add_ptr(desc_add_word(desc_add_word(desc_add_word(
    desc_init(d), Word("header")), Word("generate")), <<"store", 1>>), out)

\* Its debug output reads 15 words, two more than there are.
cnstr_hw_encap_blob_jobdesc(d, key, in, out) ==
  LET keyed   == desc_add_ptr(desc_add_word(desc_add_word(desc_init(d), Word("header")), <<"key", 1>>), key)
      sourced == desc_add_word(desc_add_ptr(desc_add_word(keyed, Word("in")), in), <<"length", 1>>)
      stored  == desc_add_word(desc_add_ptr(desc_add_word(sourced, Word("out")), out), <<"length", 4>>)
  IN  desc_add_word(stored, Word("operation"))

\* A descriptor whose memory nobody has written.
Blank == [len |-> 0, word |-> [i \in 0..(MAX_DESC_SIZE_WORDS - 1) |-> Word("free")]]
Contents(block) == IF block \in DOMAIN desc THEN desc[block] ELSE Blank

\* The call fills its descriptor, which run_descriptor_jr() passes to the ring, and returns.
Submit ==
  /\ secJob.kind # "none" /\ ~Allocating
  /\ IF secJob.kind = "ring" THEN UNCHANGED desc
     ELSE LET at    == secJob.at
              block == at[Len(at)]
              built == CASE secJob.kind = "instantiate" -> cnstr_rng_instantiate_jobdesc(Contents(block))
                         [] secJob.kind = "rng" -> cnstr_rng_jobdesc(Contents(block), at[1])
                         [] secJob.kind = "key" ->
                              cnstr_hw_encap_blob_jobdesc(Contents(block), at[1], at[2], at[3])
          IN  desc' = [b \in DOMAIN desc \cup {block} |-> IF b = block THEN built ELSE desc[b]]
  /\ Ends
  /\ UNCHANGED <<heap, secBlocks, jobdesc, secCalls>>

SecMemNext ==
  \/ \E kind \in DOMAIN Buffers : CallSec(kind)
  \/ Keep \/ alloc \/ Submit

SecMemSpec == SecMemInit /\ [][SecMemNext]_secMemVars

-----------------------------------------------------------------------------
\* What the SEC reads of a descriptor, and the pointers in it with the lengths the commands give.
Read(d) == [i \in 0..(d.len - 1) |-> d.word[i]]
Pointers(d) ==
  {<<Read(d)[i][2], IF i + 1 < d.len /\ Read(d)[i + 1][1] = "length" THEN Read(d)[i + 1][2] ELSE Read(d)[i - 2][2]>> :
     i \in {i \in DOMAIN Read(d) : Read(d)[i][1] = "low"}}

Units(block) == block.at..(block.at + block.size - 1)

\* Blocks lie in the heap, aligned, none over another; and a descriptor, however often its memory was used
\* before, reads as whole commands: every word up to its length was written, and each pointer is to a
\* block that is as long as the command says and is not the descriptor itself.
DescriptorsHoldTogether ==
  /\ \A block \in secBlocks :
       /\ Units(block) \subseteq heap.begin..(heap.end - 1)
       /\ block.at % 4 = 0
       /\ \A other \in secBlocks : block # other => Units(block) \cap Units(other) = {}
  /\ \A b \in DOMAIN desc :
       LET words == Read(desc[b])
       IN  /\ words[0] = Word("header")
           /\ \A i \in DOMAIN words :
                /\ words[i] # Word("free")
                /\ words[i][1] = "high" <=> i + 1 \in DOMAIN words /\ words[i + 1] = <<"low", words[i][2]>>
           /\ \A p \in Pointers(desc[b]) :
                p[1] # b /\ \E block \in secBlocks : block.at = p[1] /\ block.size >= p[2]
=============================================================================
