--------------------------- MODULE SecurityProofs ---------------------------
(***************************************************************************)
(* Proofs about the fuses (Sfp), the dispatcher of the trusted OS (Spd),   *)
(* the bring-up of the SEC engine (SecBoot) and its memory (SecMemory).    *)
(***************************************************************************)
EXTENDS Sfp, Spd, SecBoot, SecMemory, FiniteSetTheorems, SequenceTheorems, WellFoundedInduction, TLAPS

-----------------------------------------------------------------------------
(* The fuses (Sfp).                                                        *)


\* The guard of each field looks at the mirror and not at the fuses, and the burn is the last step of a
\* boot.  The invariant carries what the guards establish from the reset to the burn: a field that is
\* blown has the value of its fuses in the mirror, and the device was found not write-protected.
\* The boot is between the reset and the burn.
Provisioning == sfpPc \notin {"reset", "end"}

MirrorIsFunction == DOMAIN mirror = SfpFields /\ DOMAIN fuses = SfpFields
MirrorAgrees ==
  Provisioning => \A f \in SfpFields \ {"otpmk"} : fuses[f] # {} => mirror[f] = fuses[f]
NotProtected == Provisioning => "wp" \notin fuses["sc"]

SettleInv == MirrorIsFunction /\ MirrorAgrees /\ NotProtected

LEMMA FieldsAreNamed ==
  /\ {"srkh", "dcv0", "dcv1", "drv0", "drv1", "otpmk", "mc", "dbg", "sc"} \subseteq SfpFields
  /\ \A i \in OemUids : oem_uid[i] \in SfpFields
BY DEF SfpFields

\* Writing fields that the mirror shows empty leaves every blown field alone.
LEMMA WriteKeepsInv ==
  ASSUME NEW fields, SettleInv, Provisioning, UNCHANGED fuses,
         mirror' = Written(fields), \A f \in fields : mirror[f] = {}
  PROVE  SettleInv'
<1>1. MirrorIsFunction'
  BY DEF SettleInv, MirrorIsFunction, Written
<1>2. MirrorAgrees'
  <2>1. ASSUME NEW f \in SfpFields \ {"otpmk"}, fuses[f] # {}
        PROVE  mirror'[f] = fuses[f]
    <3>1. mirror[f] = fuses[f]
      BY <2>1 DEF SettleInv, MirrorAgrees
    <3>2. f \notin fields
      BY <2>1, <3>1
    <3> QED
      BY <3>1, <3>2 DEF Written
  <2> QED
    BY <2>1 DEF MirrorAgrees
<1>3. NotProtected'
  BY DEF SettleInv, NotProtected
<1> QED
  BY <1>1, <1>2, <1>3 DEF SettleInv

\* A step that leaves the fuses and the mirror alone keeps the invariant.
LEMMA IdleKeepsInv ==
  ASSUME SettleInv, Provisioning, UNCHANGED <<fuses, mirror>>
  PROVE  SettleInv'
BY DEF SettleInv, MirrorIsFunction, MirrorAgrees, NotProtected

LEMMA ProgramKeepsInv ==
  ASSUME NEW fields, NEW blownError, NEW writeError, NEW next, SettleInv, Provisioning,
         UNCHANGED fuses, Program(fields, blownError, writeError, next)
  PROVE  SettleInv'
<1>1. CASE Blown(fields)
  BY <1>1, IdleKeepsInv DEF Program
<1>2. CASE ~Blown(fields)
  <2>1. mirror' = mirror \/ mirror' = Written(fields)
    BY <1>2 DEF Program
  <2>2. \A f \in fields : mirror[f] = {}
    BY <1>2 DEF Blown
  <2> QED
    BY <2>1, <2>2, IdleKeepsInv, WriteKeepsInv
<1> QED
  BY <1>1, <1>2

\* The unique ids are written from the first on, up to the first one that is blown or fails.
LEMMA OemuidKeepsInv == ASSUME SettleInv, prog_oemuid PROVE SettleInv'
<1> DEFINE wanted == {i \in OemUids : oem_uid[i] \in fuse_hdr.flags}
           bad    == {i \in wanted : mirror[oem_uid[i]] # {}}
           before(n) == {oem_uid[i] : i \in {j \in wanted : j < n}}
<1>1. Provisioning /\ UNCHANGED fuses
  BY DEF prog_oemuid, Provisioning
<1>2. PICK n \in OemUids \cup {5} : /\ mirror' = Written(before(n))
                                    /\ \A m \in bad : n <= m
  <2>1. CASE \E n \in bad : mirror' = Written(before(n)) /\ \A m \in bad : n <= m
    BY <2>1
  <2>2. CASE \E n \in wanted : mirror' = Written(before(n)) /\ \A m \in bad : n < m
    <3>1. PICK n \in wanted : mirror' = Written(before(n)) /\ \A m \in bad : n < m
      BY <2>2
    <3>2. \A m \in bad : n <= m
      BY <3>1 DEF OemUids
    <3> QED
      BY <3>1, <3>2
  <2>3. CASE bad = {} /\ mirror' = Written(before(5))
    BY <2>3
  <2> QED
    BY <2>1, <2>2, <2>3 DEF prog_oemuid
<1>3. \A f \in before(n) : mirror[f] = {}
  <2>1. SUFFICES ASSUME NEW j \in wanted, j < n PROVE mirror[oem_uid[j]] = {}
    OBVIOUS
  <2>2. j \notin bad
    BY <1>2, <2>1 DEF OemUids
  <2> QED
    BY <2>2
<1> HIDE DEF before
<1> QED
  BY <1>1, <1>2, <1>3, WriteKeepsInv

LEMMA StepKeepsInv == ASSUME SettleInv, [SfpNext]_sfpVars PROVE SettleInv'
<1>1. CASE provision_fuses
  <2>1. UNCHANGED fuses /\ mirror' = fuses
    BY <1>1 DEF provision_fuses
  <2>2. Provisioning' => "wp" \notin fuses["sc"]
    BY <1>1 DEF provision_fuses, Provisioning
  <2> QED
    BY <2>1, <2>2 DEF SettleInv, MirrorIsFunction, MirrorAgrees, NotProtected
<1>2. CASE prog_srkh
  BY <1>2, ProgramKeepsInv, IdleKeepsInv DEF prog_srkh, Provisioning
<1>3. CASE prog_oemuid
  BY <1>3, OemuidKeepsInv
<1>4. CASE ProgDcv
  BY <1>4, ProgramKeepsInv, IdleKeepsInv DEF ProgDcv, Provisioning
<1>5. CASE ProgDrv
  <2>1. Provisioning /\ UNCHANGED fuses
    BY <1>5 DEF ProgDrv, Provisioning
  <2>2. CASE UNCHANGED mirror
    BY <2>1, <2>2, IdleKeepsInv
  <2>3. CASE ~Blown({"drv0", "drv1"}) /\ mirror' = Written({"drv0", "drv1"})
    BY <2>1, <2>3, WriteKeepsInv DEF Blown
  <2> QED
    BY <1>5, <2>2, <2>3 DEF ProgDrv
<1>6. CASE prog_otpmk
  <2>1. Provisioning /\ UNCHANGED fuses
    BY <1>6 DEF prog_otpmk, Provisioning
  <2>2. CASE UNCHANGED mirror
    BY <2>1, <2>2, IdleKeepsInv
  <2>3. CASE \E key \in OtpmkKeys : mirror' = [mirror EXCEPT !["otpmk"] = key]
    BY <2>1, <2>3 DEF SettleInv, MirrorIsFunction, MirrorAgrees, NotProtected
  <2> QED
    BY <1>6, <2>2, <2>3 DEF prog_otpmk
<1>7. CASE prog_ospr1
  BY <1>7, ProgramKeepsInv, IdleKeepsInv DEF prog_ospr1, Provisioning
<1>8. CASE prog_syscfg
  BY <1>8, ProgramKeepsInv, IdleKeepsInv DEF prog_syscfg, Provisioning
<1>9. CASE BurnFuses
  <2>1. ~Provisioning' /\ UNCHANGED mirror
    BY <1>9 DEF BurnFuses, Provisioning, error_handler, Proceed
  <2>2. DOMAIN fuses' = SfpFields
    BY <1>9 DEF BurnFuses, Burnt, CutShort, SettleInv, MirrorIsFunction
  <2> QED
    BY <2>1, <2>2 DEF SettleInv, MirrorIsFunction, MirrorAgrees, NotProtected
<1>10. CASE UNCHANGED sfpVars
  BY <1>10 DEF sfpVars, SettleInv, MirrorIsFunction, MirrorAgrees, NotProtected, Provisioning
<1> QED
  BY <1>1, <1>2, <1>3, <1>4, <1>5, <1>6, <1>7, <1>8, <1>9, <1>10 DEF SfpNext

\* What the property says of one step.
StepSettles ==
  /\ \A f \in SfpFields \ {"otpmk"} : fuses[f] # {} => fuses'[f] = fuses[f]
  /\ "wp" \in fuses["sc"] => fuses' = fuses

LEMMA BurnSettles == ASSUME SettleInv, SfpNext PROVE StepSettles
<1>1. CASE BurnFuses
  <2>1. Provisioning
    BY <1>1 DEF BurnFuses, Provisioning
  <2>2. "wp" \notin fuses["sc"]
    BY <2>1 DEF SettleInv, NotProtected
  <2>3. ASSUME NEW f \in SfpFields \ {"otpmk"}, fuses[f] # {} PROVE fuses'[f] = fuses[f]
    <3>1. mirror[f] = fuses[f]
      BY <2>1, <2>3 DEF SettleInv, MirrorAgrees
    <3>2. Burnt[f] = fuses[f] /\ Torn(f) = fuses[f]
      BY <3>1 DEF Burnt, Torn
    <3>3. fuses'[f] \in {fuses[f], Burnt[f], Torn(f)}
      BY <1>1 DEF BurnFuses, Burnt, CutShort
    <3> QED
      BY <3>2, <3>3
  <2> QED
    BY <2>2, <2>3 DEF StepSettles
<1>2. CASE ~BurnFuses
  <2>1. UNCHANGED fuses
    BY <1>2 DEF SfpNext, provision_fuses, prog_srkh, prog_oemuid, ProgDcv, ProgDrv, prog_otpmk,
                prog_ospr1, prog_syscfg
  <2> QED
    BY <2>1 DEF StepSettles
<1> QED
  BY <1>1, <1>2

\* Over any sequence of boots and scripts, with resets at any time and burns that stop in the middle of any
\* field, provision_fuses() never changes a field of which a bit is blown, the
\* key apart, nor any field of a device that is write-protected.
THEOREM FusesAreWrittenOnce == SfpSpec => FusesSettle
<1>1. SfpInit => SettleInv
  BY DEF SfpInit, SettleInv, MirrorIsFunction, MirrorAgrees, NotProtected, Provisioning, Unblown
<1>2. SettleInv /\ [SfpNext]_sfpVars => SettleInv'
  BY StepKeepsInv
<1>3. SettleInv /\ [SfpNext]_sfpVars => [StepSettles]_sfpVars
  BY BurnSettles
<1>4. FusesSettle <=> [][StepSettles]_sfpVars
  BY PTL DEF FusesSettle, StepSettles
<1> QED
  BY <1>1, <1>2, <1>3, <1>4, PTL DEF SfpSpec

\* OtpmkIsCodeWord needs what otpmk_make_code_word_256() computes for every 256 bits: inverting a bit flips
\* the digits of its own number in the exclusive or, and the parity.
\* The numbers of a key whose binary digit n is one, and whether they are odd in number.
Ones(bits, n) == {i \in bits : (i \div n) % 2 = 1}
Odd(bits) == Cardinality(bits) % 2
Digits == {1, 2, 4, 8, 16, 32, 64, 128}
KeyBits == 0..255

LEMMA KeyIsFinite ==
  ASSUME NEW bits \in SUBSET KeyBits
  PROVE  IsFiniteSet(bits) /\ Cardinality(bits) \in Nat
<1>1. IsFiniteSet(KeyBits)
  <2>1. 0 \in Int /\ 255 \in Int
    OBVIOUS
  <2> QED
    BY <2>1, FS_Interval, Zenon DEF KeyBits
<1>2. IsFiniteSet(bits)
  BY <1>1, FS_Subset
<1> QED
  BY <1>2, FS_CardinalityType

\* Inverting a bit changes whether their number is odd.
LEMMA ToggleCounts ==
  ASSUME NEW bits, IsFiniteSet(bits), NEW b
  PROVE  Odd(Toggle(bits, b)) = (Odd(bits) + 1) % 2
<1>1. Cardinality(bits) \in Nat
  BY FS_CardinalityType
<1>2. CASE b \in bits
  <2>1. Toggle(bits, b) = bits \ {b}
    BY <1>2 DEF Toggle
  <2>2. Cardinality(bits \ {b}) = Cardinality(bits) - 1
    BY <1>2, FS_RemoveElement
  <2> QED
    BY <1>1, <2>1, <2>2 DEF Odd
<1>3. CASE b \notin bits
  <2>1. Toggle(bits, b) = bits \cup {b}
    BY <1>3 DEF Toggle
  <2>2. Cardinality(bits \cup {b}) = Cardinality(bits) + 1
    BY <1>3, FS_AddElement
  <2> QED
    BY <1>1, <2>1, <2>2 DEF Odd
<1> QED
  BY <1>2, <1>3

LEMMA ToggleKeeps ==
  ASSUME NEW bits \in SUBSET KeyBits, NEW b \in KeyBits
  PROVE  Toggle(bits, b) \in SUBSET KeyBits
BY DEF Toggle

\* It counts for the digits that the bit's own number has.
LEMMA OnesToggle ==
  ASSUME NEW bits \in SUBSET KeyBits, NEW b \in KeyBits, NEW n \in Digits
  PROVE  Odd(Ones(Toggle(bits, b), n)) = (Odd(Ones(bits, n)) + ((b \div n) % 2)) % 2
<1>1. Ones(bits, n) \in SUBSET KeyBits
  BY DEF Ones
<1>2. IsFiniteSet(Ones(bits, n)) /\ Cardinality(Ones(bits, n)) \in Nat
  BY <1>1, KeyIsFinite
<1> DEFINE one == (b \div n) % 2
           odd == Odd(Ones(bits, n))
<1>. odd \in {0, 1}
  BY <1>2 DEF Odd
<1>3. CASE one = 1
  <2>1. Ones(Toggle(bits, b), n) = Toggle(Ones(bits, n), b)
    BY <1>3, Zenon DEF Ones, Toggle
  <2>2. Odd(Ones(Toggle(bits, b), n)) = (odd + 1) % 2
    BY <1>2, <2>1, ToggleCounts, Zenon
  <2> HIDE DEF one, odd
  <2>3. Odd(Ones(Toggle(bits, b), n)) = (odd + one) % 2
    BY <1>3, <2>2
  <2> QED
    BY <2>3 DEF one, odd
<1>4. CASE one # 1
  <2>1. Ones(Toggle(bits, b), n) = Ones(bits, n)
    BY <1>4, Zenon DEF Ones, Toggle
  <2>2. one = 0
    BY <1>4 DEF KeyBits, Digits
  <2>3. Odd(Ones(Toggle(bits, b), n)) = odd
    BY <2>1, Zenon
  <2> HIDE DEF one, odd
  <2>4. Odd(Ones(Toggle(bits, b), n)) = (odd + one) % 2
    BY <2>2, <2>3
  <2> QED
    BY <2>4 DEF one, odd
<1> QED
  BY <1>3, <1>4

LEMMA OddIsDigit ==
  ASSUME NEW bits \in SUBSET KeyBits, NEW n
  PROVE  Odd(bits) \in {0, 1} /\ Odd(Ones(bits, n)) \in {0, 1}
<1>1. Ones(bits, n) \in SUBSET KeyBits
  BY DEF Ones
<1>2. Cardinality(bits) \in Nat /\ Cardinality(Ones(bits, n)) \in Nat
  BY <1>1, KeyIsFinite
<1> QED
  BY <1>2 DEF Odd

LEMMA XorIs ==
  ASSUME NEW bits \in SUBSET KeyBits
  PROVE  XorOf(bits) =
           Odd(Ones(bits, 1)) + 2 * Odd(Ones(bits, 2)) + 4 * Odd(Ones(bits, 4)) + 8 * Odd(Ones(bits, 8))
             + 16 * Odd(Ones(bits, 16)) + 32 * Odd(Ones(bits, 32)) + 64 * Odd(Ones(bits, 64))
             + 128 * Odd(Ones(bits, 128))
<1> DEFINE digit(n) == n * Odd(Ones(bits, n))
<1>1. XorOf(bits) = digit(1) + digit(2) + digit(4) + digit(8) + digit(16) + digit(32) + digit(64) + digit(128)
  BY Zenon DEF XorOf, Odd, Ones
<1>2. /\ Odd(Ones(bits, 1)) \in {0, 1} /\ Odd(Ones(bits, 2)) \in {0, 1} /\ Odd(Ones(bits, 4)) \in {0, 1}
      /\ Odd(Ones(bits, 8)) \in {0, 1} /\ Odd(Ones(bits, 16)) \in {0, 1} /\ Odd(Ones(bits, 32)) \in {0, 1}
      /\ Odd(Ones(bits, 64)) \in {0, 1} /\ Odd(Ones(bits, 128)) \in {0, 1}
  BY OddIsDigit
<1> QED
  BY <1>1, <1>2

\* A number below 256 is its binary digits.
LEMMA DigitsOf ==
  ASSUME NEW p1 \in {0, 1}, NEW p2 \in {0, 1}, NEW p4 \in {0, 1}, NEW p8 \in {0, 1}, NEW p16 \in {0, 1},
         NEW p32 \in {0, 1}, NEW p64 \in {0, 1}, NEW p128 \in {0, 1}, NEW x,
         x = p1 + 2 * p2 + 4 * p4 + 8 * p8 + 16 * p16 + 32 * p32 + 64 * p64 + 128 * p128
  PROVE  /\ x \in KeyBits
         /\ (x \div 1) % 2 = p1 /\ (x \div 2) % 2 = p2 /\ (x \div 4) % 2 = p4 /\ (x \div 8) % 2 = p8
         /\ (x \div 16) % 2 = p16 /\ (x \div 32) % 2 = p32 /\ (x \div 64) % 2 = p64 /\ (x \div 128) % 2 = p128
BY DEF KeyBits

LEMMA XorDigits ==
  ASSUME NEW bits \in SUBSET KeyBits
  PROVE  /\ XorOf(bits) \in KeyBits
         /\ \A n \in Digits : (XorOf(bits) \div n) % 2 = Odd(Ones(bits, n))
<1>1. \A n \in Digits : Odd(Ones(bits, n)) \in {0, 1}
  BY OddIsDigit
<1> DEFINE odd(n) == Odd(Ones(bits, n))
<1>2. /\ odd(1) \in {0, 1} /\ odd(2) \in {0, 1} /\ odd(4) \in {0, 1} /\ odd(8) \in {0, 1}
      /\ odd(16) \in {0, 1} /\ odd(32) \in {0, 1} /\ odd(64) \in {0, 1} /\ odd(128) \in {0, 1}
  BY <1>1 DEF Digits
<1>3. XorOf(bits) = odd(1) + 2 * odd(2) + 4 * odd(4) + 8 * odd(8) + 16 * odd(16) + 32 * odd(32)
                      + 64 * odd(64) + 128 * odd(128)
  BY XorIs
<1> HIDE DEF odd
<1>4. /\ XorOf(bits) \in KeyBits
      /\ (XorOf(bits) \div 1) % 2 = odd(1) /\ (XorOf(bits) \div 2) % 2 = odd(2)
      /\ (XorOf(bits) \div 4) % 2 = odd(4) /\ (XorOf(bits) \div 8) % 2 = odd(8)
      /\ (XorOf(bits) \div 16) % 2 = odd(16) /\ (XorOf(bits) \div 32) % 2 = odd(32)
      /\ (XorOf(bits) \div 64) % 2 = odd(64) /\ (XorOf(bits) \div 128) % 2 = odd(128)
  BY <1>2, <1>3, DigitsOf
<1> QED
  BY <1>4 DEF Digits, odd

LEMMA XorIsZero ==
  ASSUME NEW bits \in SUBSET KeyBits, \A n \in Digits : Odd(Ones(bits, n)) = 0
  PROVE  XorOf(bits) = 0
BY XorIs DEF Digits

\* What is left of the digits after the inversions: none.
LEMMA WordIsCode ==
  ASSUME NEW bits \in SUBSET KeyBits, NEW code_bit, code_bit = XorOf(bits), NEW word,
         word = IF code_bit < 252 THEN Toggle(bits, code_bit) ELSE Toggle(Toggle(bits, code_bit - 4), 4)
  PROVE  /\ word \in SUBSET KeyBits
         /\ \A n \in Digits : Odd(Ones(word, n)) = 0
         /\ Odd(word) = (Odd(bits) + IF code_bit < 252 THEN 1 ELSE 0) % 2
<1>1. /\ code_bit \in KeyBits
      /\ \A n \in Digits : (code_bit \div n) % 2 = Odd(Ones(bits, n))
  BY XorDigits
<1>2. IsFiniteSet(bits) /\ Odd(bits) \in {0, 1} /\ \A n \in Digits : Odd(Ones(bits, n)) \in {0, 1}
  BY KeyIsFinite, OddIsDigit
<1>3. CASE code_bit < 252
  <2>1. word = Toggle(bits, code_bit)
    BY <1>3
  <2>2. word \in SUBSET KeyBits
    BY <1>1, <2>1, ToggleKeeps
  <2>3. Odd(word) = (Odd(bits) + 1) % 2
    BY <1>2, <2>1, ToggleCounts
  <2>4. ASSUME NEW n \in Digits PROVE Odd(Ones(word, n)) = 0
    <3>1. Odd(Ones(word, n)) = (Odd(Ones(bits, n)) + ((code_bit \div n) % 2)) % 2
      BY <1>1, <2>1, OnesToggle
    <3>2. Odd(Ones(word, n)) = (Odd(Ones(bits, n)) + Odd(Ones(bits, n))) % 2
      BY <1>1, <3>1
    <3> QED
      BY <1>2, <3>2
  <2> QED
    BY <1>3, <2>2, <2>3, <2>4
<1>4. CASE ~(code_bit < 252)
  <2> DEFINE first == code_bit - 4
             half == Toggle(bits, first)
  <2>1. code_bit \in 252..255 /\ first \in KeyBits /\ 4 \in KeyBits
    BY <1>1, <1>4 DEF KeyBits
  <2>2. word = Toggle(half, 4)
    BY <1>4
  <2>3. half \in SUBSET KeyBits /\ word \in SUBSET KeyBits
    BY <2>1, <2>2, ToggleKeeps
  <2>4. Odd(word) = Odd(bits)
    <3>1. Odd(half) = (Odd(bits) + 1) % 2
      BY <1>2, ToggleCounts
    <3>2. Odd(word) = (Odd(half) + 1) % 2
      BY <2>2, <2>3, KeyIsFinite, ToggleCounts
    <3> QED
      BY <1>2, <3>1, <3>2
  <2>5. ASSUME NEW n \in Digits PROVE Odd(Ones(word, n)) = 0
    <3>1. Odd(Ones(half, n)) = (Odd(Ones(bits, n)) + ((first \div n) % 2)) % 2
      BY <2>1, OnesToggle
    <3> HIDE DEF half
    <3>2. Odd(Ones(word, n)) = (Odd(Ones(half, n)) + ((4 \div n) % 2)) % 2
      BY <2>1, <2>2, <2>3, OnesToggle
    <3>3. (((first \div n) % 2) + ((4 \div n) % 2)) % 2 = (code_bit \div n) % 2
      <4>1. CASE n = 4
        BY <2>1, <4>1
      <4>2. CASE n \in {1, 2}
        BY <2>1, <4>2
      <4>3. CASE n \in {8, 16}
        BY <2>1, <4>3
      <4>4. CASE n \in {32, 64, 128}
        BY <2>1, <4>4
      <4> QED
        BY <4>1, <4>2, <4>3, <4>4 DEF Digits
    <3>4. (code_bit \div n) % 2 = Odd(Ones(bits, n))
      BY <1>1
    <3>5. (first \div n) % 2 \in {0, 1} /\ (4 \div n) % 2 \in {0, 1}
      BY <2>1 DEF Digits
    <3> DEFINE a == (first \div n) % 2
               b == (4 \div n) % 2
               o == Odd(Ones(bits, n))
    <3>6. /\ Odd(Ones(word, n)) = (((o + a) % 2) + b) % 2 /\ (a + b) % 2 = o
          /\ a \in {0, 1} /\ b \in {0, 1} /\ o \in {0, 1}
      BY <1>2, <3>1, <3>2, <3>3, <3>4, <3>5
    <3> HIDE DEF a, b, o
    <3> QED
      BY <3>6
  <2>6. (Odd(bits) + IF code_bit < 252 THEN 1 ELSE 0) % 2 = Odd(bits)
    BY <1>2, <1>4
  <2> QED
    BY <2>3, <2>4, <2>5, <2>6
<1> QED
  BY <1>3, <1>4

\* Of any 256 bits the driver makes a code word, which has the minimal bits if it was asked to have them.
LEMMA RandomIsCode ==
  ASSUME NEW random \in SUBSET KeyBits, NEW minimal \in BOOLEAN
  PROVE  /\ IsCodeWord(otpmk_make_code_word_256(random, minimal))
         /\ minimal => OTPMK_MIM_BITS \subseteq otpmk_make_code_word_256(random, minimal)
<1> DEFINE bits     == IF minimal THEN random \cup OTPMK_MIM_BITS ELSE random
           code_bit == XorOf(bits)
           one      == code_bit < 252
           word     == IF one THEN Toggle(bits, code_bit) ELSE Toggle(Toggle(bits, code_bit - 4), 4)
           parity   == (Cardinality(bits) + IF one THEN 1 ELSE 0) % 2
           key      == IF parity = 1 THEN Toggle(word, 0) ELSE word
<1>1. otpmk_make_code_word_256(random, minimal) = key
  BY Zenon DEF otpmk_make_code_word_256
<1>2. bits \in SUBSET KeyBits /\ Cardinality(bits) \in Nat /\ code_bit \in KeyBits
  <2>1. OTPMK_MIM_BITS \subseteq KeyBits
    BY DEF OTPMK_MIM_BITS, KeyBits
  <2>2. bits \in SUBSET KeyBits
    BY <2>1
  <2> HIDE DEF bits
  <2> QED
    BY <2>2, KeyIsFinite, XorDigits
<1>3. minimal => OTPMK_MIM_BITS \subseteq bits
  OBVIOUS
<1> HIDE DEF bits
<1>4. /\ word \in SUBSET KeyBits
      /\ \A n \in Digits : Odd(Ones(word, n)) = 0
      /\ Odd(word) = (Odd(bits) + IF one THEN 1 ELSE 0) % 2
  BY <1>2, WordIsCode
<1>5. minimal => OTPMK_MIM_BITS \subseteq key
  <2>1. \A set, b : b \notin OTPMK_MIM_BITS /\ OTPMK_MIM_BITS \subseteq set => OTPMK_MIM_BITS \subseteq Toggle(set, b)
    BY DEF Toggle
  <2>2. 4 \notin OTPMK_MIM_BITS /\ 0 \notin OTPMK_MIM_BITS
    BY DEF OTPMK_MIM_BITS
  <2>3. one => code_bit \notin OTPMK_MIM_BITS
    BY <1>2 DEF OTPMK_MIM_BITS, KeyBits
  <2>4. ~one => code_bit - 4 \notin OTPMK_MIM_BITS
    BY <1>2 DEF OTPMK_MIM_BITS, KeyBits
  <2> HIDE DEF code_bit, one, parity
  <2> QED
    BY <1>3, <2>1, <2>2, <2>3, <2>4, Zenon
<1>6. Odd(word) = parity /\ parity \in {0, 1}
  <2> DEFINE more == IF one THEN 1 ELSE 0
  <2>1. more \in {0, 1}
    OBVIOUS
  <2> HIDE DEF more, one, code_bit, word
  <2>2. Odd(word) = (Odd(bits) + more) % 2 /\ parity = (Cardinality(bits) + more) % 2
    BY <1>4 DEF more
  <2> HIDE DEF parity
  <2> QED
    BY <1>2, <2>1, <2>2 DEF Odd
<1> HIDE DEF word, parity, code_bit
<1>7. key \in SUBSET KeyBits /\ Odd(key) = 0 /\ \A n \in Digits : Odd(Ones(key, n)) = 0
  <2>1. CASE parity = 1
    <3>1. key = Toggle(word, 0) /\ 0 \in KeyBits
      BY <2>1 DEF KeyBits
    <3>2. key \in SUBSET KeyBits
      BY <1>4, <3>1, ToggleKeeps
    <3>3. Odd(key) = (Odd(word) + 1) % 2
      BY <1>4, <3>1, KeyIsFinite, ToggleCounts
    <3>4. ASSUME NEW n \in Digits PROVE Odd(Ones(key, n)) = 0
      <4>1. Odd(Ones(key, n)) = (Odd(Ones(word, n)) + ((0 \div n) % 2)) % 2
        BY <1>4, <3>1, OnesToggle
      <4>2. (0 \div n) % 2 = 0
        BY DEF Digits
      <4> QED
        BY <1>4, <4>1, <4>2
    <3>5. Odd(key) = 0
      BY <1>6, <2>1, <3>3
    <3> QED
      BY <3>2, <3>4, <3>5
  <2>2. CASE parity = 0
    BY <1>4, <1>6, <2>2
  <2> QED
    BY <1>6, <2>1, <2>2
<1> HIDE DEF key
<1>8. IsCodeWord(key)
  BY <1>7, XorIsZero DEF IsCodeWord, Odd
<1> QED
  BY <1>1, <1>5, <1>8

LEMMA NothingIsCode == IsCodeWord({})
<1>1. {} \in SUBSET KeyBits /\ \A n \in Digits : Ones({}, n) = {}
  BY DEF Ones
<1>2. Cardinality({}) = 0
  BY FS_EmptySet
<1>3. Odd({}) = 0
  BY <1>2 DEF Odd
<1> QED
  BY <1>1, <1>2, <1>3, XorIsZero DEF IsCodeWord, Odd

LEMMA MinimalIsCode == IsCodeWord(OTPMK_MIM_BITS)
<1> DEFINE one   == Toggle({}, 252)
           two   == Toggle(one, 253)
           three == Toggle(two, 254)
           four  == Toggle(three, 255)
<1>1. OTPMK_MIM_BITS = four
  BY DEF OTPMK_MIM_BITS, Toggle
<1>2. {} \in SUBSET KeyBits /\ {252, 253, 254, 255} \subseteq KeyBits
  BY DEF KeyBits
<1>3. Odd({}) = 0 /\ \A n \in Digits : Odd(Ones({}, n)) = 0
  BY FS_EmptySet DEF Odd, Ones
<1>4. ASSUME NEW bits \in SUBSET KeyBits, NEW b \in KeyBits, NEW n \in Digits
      PROVE  /\ Toggle(bits, b) \in SUBSET KeyBits
             /\ Odd(Toggle(bits, b)) = (Odd(bits) + 1) % 2
             /\ Odd(Ones(Toggle(bits, b), n)) = (Odd(Ones(bits, n)) + ((b \div n) % 2)) % 2
  BY KeyIsFinite, ToggleKeeps, ToggleCounts, OnesToggle
<1>5. /\ one \in SUBSET KeyBits /\ two \in SUBSET KeyBits /\ three \in SUBSET KeyBits /\ four \in SUBSET KeyBits
  BY <1>2, ToggleKeeps
<1>6. ASSUME NEW n \in Digits
      PROVE  Odd(four) = 0 /\ Odd(Ones(four, n)) = 0
  <2>1. Odd(one) = 1 /\ Odd(Ones(one, n)) = (252 \div n) % 2
    <3>1. /\ Odd(one) = (0 + 1) % 2
          /\ Odd(Ones(one, n)) = (0 + ((252 \div n) % 2)) % 2
      BY <1>2, <1>3, <1>4
    <3> HIDE DEF one
    <3> QED
      BY <3>1 DEF Digits
  <2>2. /\ Odd(two) = (1 + 1) % 2
        /\ Odd(Ones(two, n)) = (((252 \div n) % 2) + ((253 \div n) % 2)) % 2
    BY <1>2, <1>4, <1>5, <2>1
  <2>3. /\ Odd(three) = (((1 + 1) % 2) + 1) % 2
        /\ Odd(Ones(three, n)) =
             (((((252 \div n) % 2) + ((253 \div n) % 2)) % 2) + ((254 \div n) % 2)) % 2
    BY <1>2, <1>4, <1>5, <2>2
  <2>4. /\ Odd(four) = (((((1 + 1) % 2) + 1) % 2) + 1) % 2
        /\ Odd(Ones(four, n)) =
             (((((((252 \div n) % 2) + ((253 \div n) % 2)) % 2) + ((254 \div n) % 2)) % 2)
               + ((255 \div n) % 2)) % 2
    BY <1>2, <1>4, <1>5, <2>3
  <2> HIDE DEF one, two, three, four
  <2> QED
    BY <2>4 DEF Digits
<1>7. 1 \in Digits
  BY DEF Digits
<1> HIDE DEF one, two, three, four
<1> QED
  BY <1>1, <1>5, <1>6, <1>7, XorIsZero DEF IsCodeWord, Odd

\* Until the key is programmed the mirror has the key of the fuses; from then to the burn it has a code word
\* that contains what is in the fuses, so the burn makes the fuses that code word.
BeforeKey == {"srkh", "oemuid", "dcv", "drv", "otpmk"}
AfterKey == {"ospr1", "syscfg", "progfb"}
KeyInv ==
  /\ fuse_hdr.otpmk \in OtpmkModes
  /\ keySpoilt \/ IsCodeWord(fuses["otpmk"])
  /\ sfpPc \in BeforeKey => mirror["otpmk"] = fuses["otpmk"]
  /\ sfpPc \in AfterKey =>
       keySpoilt \/ (IsCodeWord(mirror["otpmk"]) /\ fuses["otpmk"] \subseteq mirror["otpmk"])
  /\ scratch4 = ERROR_OTPMK_HAMMING_ERROR => fuse_hdr.otpmk \in {"user", "user_min"}

\* A step that does not touch the key: to the next field, or to the end with an error of its own.
OtherField(places) ==
  /\ UNCHANGED <<fuses, fuse_hdr, keySpoilt>>
  /\ mirror'["otpmk"] = mirror["otpmk"]
  /\ sfpPc \in places /\ sfpPc' \in places \cup {"end"}
  /\ scratch4' = scratch4 \/ scratch4' # ERROR_OTPMK_HAMMING_ERROR

LEMMA OtherFieldKeepsKey ==
  ASSUME KeyInv, NEW places \in {BeforeKey, AfterKey}, OtherField(places)
  PROVE  KeyInv'
<1>1. "end" \notin BeforeKey \cup AfterKey /\ BeforeKey \cap AfterKey = {}
  BY DEF BeforeKey, AfterKey
<1>2. /\ UNCHANGED <<fuses, fuse_hdr, keySpoilt>>
      /\ mirror'["otpmk"] = mirror["otpmk"]
      /\ sfpPc \in places /\ sfpPc' \in places \cup {"end"}
      /\ scratch4' = scratch4 \/ scratch4' # ERROR_OTPMK_HAMMING_ERROR
  BY DEF OtherField
<1> QED
  BY <1>1, <1>2, Zenon DEF KeyInv

LEMMA WrittenKeepsKey ==
  ASSUME NEW fields, "otpmk" \notin fields
  PROVE  Written(fields)["otpmk"] = mirror["otpmk"]
BY FieldsAreNamed DEF Written

LEMMA ProgramIsOtherField ==
  ASSUME NEW places, NEW fields, NEW blownError, NEW writeError, NEW next,
         Program(fields, blownError, writeError, next), "otpmk" \notin fields,
         sfpPc \in places, next \in places, UNCHANGED <<fuses, fuse_hdr, keySpoilt>>,
         blownError # ERROR_OTPMK_HAMMING_ERROR, writeError # ERROR_OTPMK_HAMMING_ERROR
  PROVE  OtherField(places)
<1>1. Written(fields)["otpmk"] = mirror["otpmk"]
  BY WrittenKeepsKey
<1>2. CASE Blown(fields)
  BY <1>2, Zenon DEF Program, error_handler, OtherField
<1>3. CASE ~Blown(fields)
  <2>1. PICK fails \in SfpFaults :
          /\ mirror' = IF fails THEN mirror ELSE Written(fields)
          /\ IF fails /\ Written(fields) # mirror THEN error_handler(writeError) ELSE Proceed(next)
    BY <1>3, Zenon DEF Program
  <2>2. mirror'["otpmk"] = mirror["otpmk"]
    BY <1>1, <2>1
  <2> QED
    BY <2>1, <2>2, Zenon DEF error_handler, Proceed, OtherField
<1> QED
  BY <1>2, <1>3

LEMMA SkipIsOtherField ==
  ASSUME NEW places, NEW next, Proceed(next), UNCHANGED <<fuses, mirror, fuse_hdr, keySpoilt>>,
         sfpPc \in places, next \in places
  PROVE  OtherField(places)
BY DEF Proceed, OtherField

LEMMA SrkhKeepsKey ==
  ASSUME KeyInv, prog_srkh
  PROVE  KeyInv'
<1>1. /\ UNCHANGED <<fuses, fuse_hdr, keySpoilt>>
      /\ sfpPc \in BeforeKey /\ "oemuid" \in BeforeKey /\ "otpmk" \notin {"srkh"}
  BY DEF prog_srkh, BeforeKey
<1>2. /\ ERROR_SRKH_ALREADY_BLOWN # ERROR_OTPMK_HAMMING_ERROR
      /\ ERROR_SRKH_WRITE # ERROR_OTPMK_HAMMING_ERROR
  BY DEF ERROR_SRKH_ALREADY_BLOWN, ERROR_SRKH_WRITE, ERROR_OTPMK_HAMMING_ERROR
<1>3. \/ Program({"srkh"}, ERROR_SRKH_ALREADY_BLOWN, ERROR_SRKH_WRITE, "oemuid")
      \/ Proceed("oemuid") /\ UNCHANGED mirror
  BY DEF prog_srkh
<1>4. OtherField(BeforeKey)
  BY <1>1, <1>2, <1>3, ProgramIsOtherField, SkipIsOtherField
<1> QED
  BY <1>4, OtherFieldKeepsKey

LEMMA OemuidKeepsKey ==
  ASSUME KeyInv, prog_oemuid
  PROVE  KeyInv'
<1> DEFINE wanted == {i \in OemUids : oem_uid[i] \in fuse_hdr.flags}
           bad    == {i \in wanted : mirror[oem_uid[i]] # {}}
           before(n) == {oem_uid[i] : i \in {j \in wanted : j < n}}
<1>1. /\ UNCHANGED <<fuses, fuse_hdr, keySpoilt>>
      /\ sfpPc \in BeforeKey /\ "dcv" \in BeforeKey
  BY DEF prog_oemuid, BeforeKey
<1>2. \A n : Written(before(n))["otpmk"] = mirror["otpmk"]
  <2>1. \A i \in OemUids : oem_uid[i] # "otpmk"
    BY DEF OemUids, oem_uid
  <2>2. \A n : "otpmk" \notin before(n)
    BY <2>1
  <2> HIDE DEF before
  <2> QED
    BY <2>2, WrittenKeepsKey
<1>3. /\ ERROR_OEMUID_ALREADY_BLOWN # ERROR_OTPMK_HAMMING_ERROR
      /\ ERROR_OEMUID_WRITE # ERROR_OTPMK_HAMMING_ERROR
  BY DEF ERROR_OEMUID_ALREADY_BLOWN, ERROR_OEMUID_WRITE, ERROR_OTPMK_HAMMING_ERROR
<1>4. \/ \E n : mirror' = Written(before(n)) /\ error_handler(ERROR_OEMUID_ALREADY_BLOWN)
      \/ \E n : mirror' = Written(before(n)) /\ error_handler(ERROR_OEMUID_WRITE)
      \/ mirror' = Written(before(5)) /\ Proceed("dcv")
  BY Zenon DEF prog_oemuid
<1> HIDE DEF before
<1>5. OtherField(BeforeKey)
  BY <1>1, <1>2, <1>3, <1>4, Zenon DEF error_handler, Proceed, OtherField
<1> QED
  BY <1>5, OtherFieldKeepsKey

LEMMA DebugKeepsKey ==
  ASSUME KeyInv, ProgDcv \/ ProgDrv
  PROVE  KeyInv'
<1>1. "drv" \in BeforeKey /\ "otpmk" \in BeforeKey /\ "otpmk" \notin {"dcv0", "dcv1"} /\ "otpmk" \notin {"drv0", "drv1"}
  BY DEF BeforeKey
<1>2. /\ ERROR_DCV_ALREADY_BLOWN # ERROR_OTPMK_HAMMING_ERROR
      /\ ERROR_DCV_WRITE # ERROR_OTPMK_HAMMING_ERROR
      /\ ERROR_DRV_ALREADY_BLOWN # ERROR_OTPMK_HAMMING_ERROR
      /\ ERROR_DRV_HAMMING_ERROR # ERROR_OTPMK_HAMMING_ERROR
  BY DEF ERROR_DCV_ALREADY_BLOWN, ERROR_DCV_WRITE, ERROR_DRV_ALREADY_BLOWN, ERROR_DRV_HAMMING_ERROR,
         ERROR_OTPMK_HAMMING_ERROR
<1>3. CASE ProgDcv
  <2>1. UNCHANGED <<fuses, fuse_hdr, keySpoilt>> /\ sfpPc \in BeforeKey
    BY <1>3 DEF ProgDcv, BeforeKey
  <2>2. \/ Program({"dcv0", "dcv1"}, ERROR_DCV_ALREADY_BLOWN, ERROR_DCV_WRITE, "drv")
        \/ Proceed("drv") /\ UNCHANGED mirror
    BY <1>3 DEF ProgDcv
  <2> QED
    BY <1>1, <1>2, <2>1, <2>2, ProgramIsOtherField, SkipIsOtherField, OtherFieldKeepsKey
<1>4. CASE ProgDrv
  <2>1. UNCHANGED <<fuses, fuse_hdr, keySpoilt>> /\ sfpPc \in BeforeKey
    BY <1>4 DEF ProgDrv, BeforeKey
  <2>2. mirror'["otpmk"] = mirror["otpmk"]
    BY <1>1, <1>4, WrittenKeepsKey DEF ProgDrv
  <2>3. \/ Proceed("otpmk")
        \/ error_handler(ERROR_DRV_ALREADY_BLOWN)
        \/ error_handler(ERROR_DRV_HAMMING_ERROR)
    BY <1>4 DEF ProgDrv
  <2>4. OtherField(BeforeKey)
    BY <1>1, <1>2, <2>1, <2>2, <2>3, Zenon DEF error_handler, Proceed, OtherField
  <2> QED
    BY <2>4, OtherFieldKeepsKey
<1> QED
  BY <1>3, <1>4

LEMMA LastFieldsKeepKey ==
  ASSUME KeyInv, prog_ospr1 \/ prog_syscfg
  PROVE  KeyInv'
<1>1. "syscfg" \in AfterKey /\ "progfb" \in AfterKey
  BY DEF AfterKey
<1>2. /\ ERROR_OSPR1_ALREADY_BLOWN # ERROR_OTPMK_HAMMING_ERROR
      /\ ERROR_OSPR1_WRITE # ERROR_OTPMK_HAMMING_ERROR
      /\ ERROR_SC_ALREADY_BLOWN # ERROR_OTPMK_HAMMING_ERROR
      /\ ERROR_SC_WRITE # ERROR_OTPMK_HAMMING_ERROR
  BY DEF ERROR_OSPR1_ALREADY_BLOWN, ERROR_OSPR1_WRITE, ERROR_SC_ALREADY_BLOWN, ERROR_SC_WRITE,
         ERROR_OTPMK_HAMMING_ERROR
<1>3. CASE prog_ospr1
  <2> DEFINE fields == fuse_hdr.flags \cap (IF SfpVersion34 THEN {"mc", "dbg"} ELSE {"dbg"})
  <2>1. UNCHANGED <<fuses, fuse_hdr, keySpoilt>> /\ sfpPc \in AfterKey /\ "otpmk" \notin fields
    BY <1>3 DEF prog_ospr1, AfterKey
  <2>2. \/ Program(fields, ERROR_OSPR1_ALREADY_BLOWN, ERROR_OSPR1_WRITE, "syscfg")
        \/ Proceed("syscfg") /\ UNCHANGED mirror
    BY <1>3 DEF prog_ospr1
  <2> HIDE DEF fields
  <2> QED
    BY <1>1, <1>2, <2>1, <2>2, ProgramIsOtherField, SkipIsOtherField, OtherFieldKeepsKey
<1>4. CASE prog_syscfg
  <2>1. UNCHANGED <<fuses, fuse_hdr, keySpoilt>> /\ sfpPc \in AfterKey /\ "otpmk" \notin {"sc"}
    BY <1>4 DEF prog_syscfg, AfterKey
  <2>2. \/ Program({"sc"}, ERROR_SC_ALREADY_BLOWN, ERROR_SC_WRITE, "progfb")
        \/ Proceed("progfb") /\ UNCHANGED mirror
    BY <1>4 DEF prog_syscfg
  <2> QED
    BY <1>1, <1>2, <2>1, <2>2, ProgramIsOtherField, SkipIsOtherField, OtherFieldKeepsKey
<1> QED
  BY <1>3, <1>4

\* What the modes of the key write.
LEMMA KeysAreCodes ==
  ASSUME fuse_hdr.otpmk \in OtpmkModes \ {"none", "user", "user_min"}, NEW key \in OtpmkKeys
  PROVE  IsCodeWord(key) /\ (fuse_hdr.otpmk # "random" => OTPMK_MIM_BITS \subseteq key)
<1>1. fuse_hdr.otpmk \in {"min", "random", "random_min"}
  BY DEF OtpmkModes
<1>2. \A r \in OtpmkRandoms : r \in SUBSET KeyBits
  BY SfpAssumption DEF KeyBits
<1>3. CASE fuse_hdr.otpmk = "min"
  BY <1>3, MinimalIsCode DEF OtpmkKeys
<1>4. CASE fuse_hdr.otpmk = "random"
  <2>1. PICK r \in OtpmkRandoms : key = otpmk_make_code_word_256(r, FALSE)
    BY <1>4 DEF OtpmkKeys
  <2>2. FALSE \in BOOLEAN
    OBVIOUS
  <2> QED
    BY <1>2, <1>4, <2>1, <2>2, RandomIsCode
<1>5. CASE fuse_hdr.otpmk = "random_min"
  <2>1. PICK r \in OtpmkRandoms : key = otpmk_make_code_word_256(r, TRUE)
    BY <1>5 DEF OtpmkKeys
  <2>2. TRUE \in BOOLEAN
    OBVIOUS
  <2> QED
    BY <1>2, <1>5, <2>1, <2>2, RandomIsCode
<1> QED
  BY <1>1, <1>3, <1>4, <1>5

LEMMA OtpmkKeepsKey ==
  ASSUME SettleInv, KeyInv, prog_otpmk
  PROVE  KeyInv'
<1>1. /\ UNCHANGED <<fuses, fuse_hdr>> /\ sfpPc = "otpmk" /\ mirror["otpmk"] = fuses["otpmk"]
      /\ fuse_hdr.otpmk \in OtpmkModes
  BY DEF prog_otpmk, KeyInv, BeforeKey
<1>2. "ospr1" \notin BeforeKey /\ "end" \notin BeforeKey \cup AfterKey
  BY DEF BeforeKey, AfterKey
<1>3. CASE fuse_hdr.otpmk = "none"
  <2>1. Proceed("ospr1") /\ UNCHANGED <<mirror, keySpoilt>>
    BY <1>3 DEF prog_otpmk
  <2> QED
    BY <1>1, <1>2, <2>1 DEF KeyInv, Proceed
<1>4. CASE \/ error_handler(ERROR_OTPMK_ALREADY_BLOWN) /\ UNCHANGED <<mirror, keySpoilt>>
           \/ error_handler(ERROR_OTPMK_USER_MIN) /\ UNCHANGED <<mirror, keySpoilt>>
  BY <1>1, <1>2, <1>4
     DEF KeyInv, error_handler, ERROR_OTPMK_ALREADY_BLOWN, ERROR_OTPMK_USER_MIN, ERROR_OTPMK_HAMMING_ERROR
<1>5. ASSUME fuse_hdr.otpmk # "none",
             ~(fuse_hdr.otpmk \in {"min", "random", "user"} /\ mirror["otpmk"] # {}),
             ~(fuse_hdr.otpmk = "user_min" /\ ~(OTPMK_MIM_BITS \subseteq fuse_hdr.value["otpmk"])),
             NEW key \in OtpmkKeys, mirror' = [mirror EXCEPT !["otpmk"] = key],
             keySpoilt' = (keySpoilt \/ ~(fuses["otpmk"] \subseteq OTPMK_MIM_BITS)),
             IF IsCodeWord(key) THEN Proceed("ospr1") ELSE error_handler(ERROR_OTPMK_HAMMING_ERROR)
      PROVE  KeyInv'
  <2>1. mirror'["otpmk"] = key
    BY <1>5, FieldsAreNamed DEF SettleInv, MirrorIsFunction
  <2>2. fuse_hdr.otpmk \in {"user", "user_min"} => key = fuse_hdr.value["otpmk"]
    BY <1>5 DEF OtpmkKeys
  <2>3. fuse_hdr.otpmk \in {"user", "user_min"} \/ (IsCodeWord(key) /\ (fuse_hdr.otpmk # "random" => OTPMK_MIM_BITS \subseteq key))
    BY <1>1, <1>5, KeysAreCodes
  <2>4. keySpoilt' \/ fuses["otpmk"] \subseteq key
    <3>1. CASE fuse_hdr.otpmk \in {"min", "random", "user"}
      BY <1>1, <1>5, <3>1
    <3>2. CASE fuse_hdr.otpmk \in {"random_min", "user_min"}
      BY <1>5, <2>2, <2>3, <3>2
    <3> QED
      BY <1>1, <1>5, <3>1, <3>2 DEF OtpmkModes
  <2>5. keySpoilt' \/ IsCodeWord(fuses["otpmk"])
    BY <1>5 DEF KeyInv
  <2>6. CASE IsCodeWord(key)
    <3>1. sfpPc' = "ospr1" /\ scratch4' = scratch4
      BY <1>5, <2>6 DEF Proceed
    <3> QED
      BY <1>1, <1>2, <2>1, <2>4, <2>5, <2>6, <3>1, Zenon DEF KeyInv
  <2>7. CASE ~IsCodeWord(key)
    <3>1. sfpPc' = "end"
      BY <1>5, <2>7 DEF error_handler
    <3> QED
      BY <1>1, <1>2, <2>3, <2>5, <2>7, <3>1, Zenon DEF KeyInv
  <2> QED
    BY <2>6, <2>7
<1> QED
  BY <1>3, <1>4, <1>5, Zenon DEF prog_otpmk

LEMMA BurnKeepsKey ==
  ASSUME KeyInv, BurnFuses
  PROVE  KeyInv'
<1>1. /\ sfpPc \in AfterKey /\ UNCHANGED <<mirror, fuse_hdr>>
      /\ sfpPc' = "end" /\ (scratch4' = scratch4 \/ scratch4' = ERROR_PROGFB_CMD)
  BY DEF BurnFuses, AfterKey, error_handler, Proceed
<1>2. "end" \notin BeforeKey \cup AfterKey /\ ERROR_PROGFB_CMD # ERROR_OTPMK_HAMMING_ERROR
  BY DEF BeforeKey, AfterKey, ERROR_PROGFB_CMD, ERROR_OTPMK_HAMMING_ERROR
<1>3. /\ keySpoilt => keySpoilt'
      /\ keySpoilt' \/ fuses'["otpmk"] \in {fuses["otpmk"], fuses["otpmk"] \cup mirror["otpmk"]}
  BY FieldsAreNamed DEF BurnFuses, Burnt
<1>4. keySpoilt' \/ IsCodeWord(fuses'["otpmk"])
  <2>1. CASE fuses'["otpmk"] = fuses["otpmk"]
    BY <1>3, <2>1 DEF KeyInv
  <2>2. CASE fuses'["otpmk"] = fuses["otpmk"] \cup mirror["otpmk"]
    <3>1. keySpoilt \/ (IsCodeWord(mirror["otpmk"]) /\ fuses["otpmk"] \cup mirror["otpmk"] = mirror["otpmk"])
      BY <1>1 DEF KeyInv
    <3> QED
      BY <1>3, <2>2, <3>1
  <2> QED
    BY <1>3, <2>1, <2>2
<1> QED
  BY <1>1, <1>2, <1>4, Zenon DEF KeyInv

LEMMA BootKeepsKey ==
  ASSUME KeyInv, provision_fuses
  PROVE  KeyInv'
<1>1. /\ UNCHANGED <<fuses, keySpoilt>> /\ mirror' = fuses /\ fuse_hdr' \in FuseScripts
      /\ sfpPc' \in {"end", "srkh"} /\ scratch4' \in {0, ERROR_FUSE_BARKER}
  BY DEF provision_fuses
<1>2. sfpPc' \notin AfterKey /\ scratch4' # ERROR_OTPMK_HAMMING_ERROR
  BY <1>1 DEF AfterKey, ERROR_FUSE_BARKER, ERROR_OTPMK_HAMMING_ERROR
<1>3. fuse_hdr'.otpmk \in OtpmkModes
  BY <1>1, SfpAssumption
<1> QED
  BY <1>1, <1>2, <1>3 DEF KeyInv

\* For every 256 bits of the generator, every sequence of scripts and every failed write or burn: the key
\* in the fuses is a code word unless a *_MIN script met a key with more than the minimal bits or a burn
\* ended in the middle of the key, and the
\* controller refuses none that the driver made (otpmk_make_code_word_256() and prog_otpmk() of sfp.c).
THEOREM KeyIsCodeWord == SfpSpec => []OtpmkIsCodeWord
<1>1. SfpInit => KeyInv
  BY NothingIsCode, FieldsAreNamed
     DEF SfpInit, KeyInv, Unblown, OtpmkModes, BeforeKey, AfterKey, ERROR_OTPMK_HAMMING_ERROR
<1>2. SettleInv /\ KeyInv /\ [SfpNext]_sfpVars => KeyInv'
  <2>1. KeyInv /\ UNCHANGED sfpVars => KeyInv'
    BY DEF sfpVars, KeyInv
  <2> QED
    BY <2>1, SrkhKeepsKey, OemuidKeepsKey, DebugKeepsKey, LastFieldsKeepKey, OtpmkKeepsKey, BurnKeepsKey,
       BootKeepsKey DEF SfpNext
<1>3. KeyInv => OtpmkIsCodeWord
  BY DEF KeyInv, OtpmkIsCodeWord
<1>4. SfpInit => SettleInv
  BY DEF SfpInit, SettleInv, MirrorIsFunction, MirrorAgrees, NotProtected, Provisioning, Unblown
<1> QED
  BY <1>1, <1>2, <1>3, <1>4, StepKeepsInv, PTL DEF SfpSpec

-----------------------------------------------------------------------------
(* The dispatcher of the trusted OS (Spd).                                 *)

\* WorldsStayApart needs to know where the registers of the world that does not run are: those of the
\* trusted OS are in its saved context whenever the core is not in the trusted OS, also while the core is
\* off, and those of the normal world while the trusted OS serves a call.  EntersThroughVector holds when
\* the normal world waits for a core before it starts the next one: then one core at a time uses the
\* shared entry point information.  Without that it does not (run secondary_entry).
SpdPc == {"reset", "setup", "enter", "init", "booted", "normal", "secure", "off"}
SpdEntries == {"none", "image", "ones", "cpu_on_entry", "fast_smc_entry", "yield_smc_entry"}
SpdRegs == {"none", "secure", "normal", "off", "restart"} \X Nat
SpdContext == [el1 : SpdRegs, elr : SpdEntries, x0 : Int]

SpdTypeOK ==
  /\ loadable \in BOOLEAN
  /\ sp_ep_info \in SpdEntries
  /\ sp_vectors \in BOOLEAN
  /\ spdPc \in [AllSpdCores -> SpdPc]
  /\ el1 \in [AllSpdCores -> SpdRegs]
  /\ core_context \in [AllSpdCores -> [Worlds -> SpdContext]]
  /\ worldRegs \in [AllSpdCores -> [Worlds -> SpdRegs]]
  /\ spdCalls \in [AllSpdCores -> Nat]
  /\ spdOffs \in Nat

\* A step of core c.
CoreStep(c) ==
  \/ spd_init(c) \/ sp_setup_n_init(c) \/ secure_el1os_enter_sp(c) \/ EntryDone(c) \/ EnterNormalWorld(c)
  \/ WriteRegs(c) \/ smc_trstd_os_handler(c) \/ CallDone(c) \/ SpdCoreOff(c) \/ _mon_core_restart(c)

LEMMA ZeroIsACore == 0 \in AllSpdCores /\ SpdCores \subseteq AllSpdCores /\ 0 \notin SpdCores
BY SpdAssumption DEF AllSpdCores

LEMMA ResetIsType == ResetRegs \in SpdRegs
BY DEF ResetRegs, SpdRegs

LEMMA SpdTypeInit == SpdInit => SpdTypeOK
<1> DEFINE empty == [el1 |-> ResetRegs, elr |-> "none", x0 |-> 0]
<1>1. SpdInit => core_context = [c \in AllSpdCores |-> [w \in Worlds |-> empty]]
  BY DEF SpdInit
<1>2. SpdInit => core_context \in [AllSpdCores -> [Worlds -> SpdContext]]
  <2>1. empty \in SpdContext
    BY ResetIsType DEF SpdContext, SpdEntries
  <2> HIDE DEF empty
  <2> QED
    BY <1>1, <2>1
<1>3. SpdInit => /\ el1 \in [AllSpdCores -> SpdRegs]
                 /\ worldRegs \in [AllSpdCores -> [Worlds -> SpdRegs]]
  BY ResetIsType DEF SpdInit
<1>4. SpdInit => spdCalls \in [AllSpdCores -> Nat] /\ spdOffs \in Nat
  BY DEF SpdInit
<1>6. SpdInit => loadable \in BOOLEAN /\ sp_vectors \in BOOLEAN
  BY Zenon DEF SpdInit
<1>5. SpdInit => sp_ep_info \in SpdEntries /\ spdPc \in [AllSpdCores -> SpdPc]
  BY DEF SpdInit, SpdEntries, SpdPc
<1> QED
  BY <1>2, <1>3, <1>4, <1>5, <1>6 DEF SpdTypeOK

LEMMA ContextTypes ==
  ASSUME SpdTypeOK, NEW c \in AllSpdCores
  PROVE  /\ Initialised(c) \in [Worlds -> SpdContext]
         /\ \A w \in Worlds : Saved(c, w) \in [Worlds -> SpdContext]
<1>1. core_context[c] \in [Worlds -> SpdContext] /\ el1[c] \in SpdRegs /\ sp_ep_info \in SpdEntries
  BY DEF SpdTypeOK
<1>2. [el1 |-> ResetRegs, elr |-> sp_ep_info, x0 |-> 0] \in SpdContext
  BY <1>1, ResetIsType DEF SpdContext
<1>3. Initialised(c) \in [Worlds -> SpdContext]
  BY <1>1, <1>2 DEF Initialised
<1>4. ASSUME NEW w \in Worlds PROVE Saved(c, w) \in [Worlds -> SpdContext]
  <2>1. [core_context[c][w] EXCEPT !.el1 = el1[c]] \in SpdContext
    BY <1>1 DEF SpdContext
  <2> QED
    BY <1>1, <2>1 DEF Saved
<1> QED
  BY <1>3, <1>4

\* Registers that a world of core c leaves.
LEMMA RegsTypes ==
  ASSUME SpdTypeOK, NEW c \in AllSpdCores, NEW w \in Worlds, NEW regs \in SpdRegs
  PROVE  /\ [worldRegs EXCEPT ![c][w] = regs] \in [AllSpdCores -> [Worlds -> SpdRegs]]
         /\ [el1 EXCEPT ![c] = regs] \in [AllSpdCores -> SpdRegs]
<1>1. worldRegs[c] \in [Worlds -> SpdRegs]
  BY DEF SpdTypeOK
<1>2. [worldRegs[c] EXCEPT ![w] = regs] \in [Worlds -> SpdRegs]
  BY <1>1
<1> QED
  BY <1>2 DEF SpdTypeOK

LEMMA SpdTypeNext == ASSUME SpdTypeOK, [SpdNext]_spdVars PROVE SpdTypeOK'
<1>1. ASSUME NEW c \in AllSpdCores, spd_init(c) PROVE SpdTypeOK'
  BY <1>1 DEF spd_init, SpdTypeOK, SpdGoto, SpdPc, SpdEntries
<1>2. ASSUME NEW c \in AllSpdCores, sp_setup_n_init(c) PROVE SpdTypeOK'
  BY <1>2 DEF sp_setup_n_init, SpdTypeOK, SpdGoto, SpdPc, SpdEntries
<1>3. ASSUME NEW c \in AllSpdCores, secure_el1os_enter_sp(c) PROVE SpdTypeOK'
  <2>1. Initialised(c)["secure"].el1 \in SpdRegs
    BY ContextTypes DEF Worlds, SpdContext
  <2> QED
    BY <1>3, <2>1, ContextTypes, ResetIsType
       DEF secure_el1os_enter_sp, SpdTypeOK, SpdGoto, SpdPc, SetContexts, Restore, Worlds
<1>4. ASSUME NEW c \in AllSpdCores, EntryDone(c) PROVE SpdTypeOK'
  BY <1>4, ContextTypes DEF EntryDone, SpdTypeOK, SpdGoto, SpdPc, SetContexts, Worlds
<1>5. ASSUME NEW c \in AllSpdCores, EnterNormalWorld(c) PROVE SpdTypeOK'
  <2> DEFINE contexts == [core_context[c] EXCEPT !["normal"] = [el1 |-> ResetRegs, elr |-> "none", x0 |-> 0]]
  <2>1. contexts \in [Worlds -> SpdContext] /\ contexts["normal"].el1 \in SpdRegs
    BY ResetIsType DEF SpdTypeOK, Worlds, SpdContext, SpdEntries
  <2>2. SetContexts(c, contexts) /\ Restore(c, contexts, "normal")
    BY <1>5 DEF EnterNormalWorld
  <2> HIDE DEF contexts
  <2> QED
    BY <1>5, <2>1, <2>2, ResetIsType
       DEF EnterNormalWorld, SpdTypeOK, SpdGoto, SpdPc, SetContexts, Restore, Worlds
<1>6. ASSUME NEW c \in AllSpdCores, WriteRegs(c) PROVE SpdTypeOK'
  <2>1. PICK world \in Worlds : /\ el1' = [el1 EXCEPT ![c] = <<world, spdCalls[c]>>]
                               /\ worldRegs' = [worldRegs EXCEPT ![c][world] = <<world, spdCalls[c]>>]
    BY <1>6 DEF WriteRegs, Worlds
  <2>2. <<world, spdCalls[c]>> \in SpdRegs
    BY DEF SpdTypeOK, SpdRegs, Worlds
  <2>3. PICK regs \in SpdRegs : regs = <<world, spdCalls[c]>>
    BY <2>2
  <2>4. /\ el1' \in [AllSpdCores -> SpdRegs]
        /\ worldRegs' \in [AllSpdCores -> [Worlds -> SpdRegs]]
    BY <2>1, <2>3, RegsTypes
  <2> QED
    BY <1>6, <2>4 DEF WriteRegs, SpdTypeOK
<1>7. ASSUME NEW c \in AllSpdCores, smc_trstd_os_handler(c) PROVE SpdTypeOK'
  <2>1. CASE ~sp_vectors
    <3>1. [Saved(c, "normal") EXCEPT !["normal"].x0 = SMC_UNIMPLEMENTED] \in [Worlds -> SpdContext]
      <4>1. Saved(c, "normal") \in [Worlds -> SpdContext]
        BY ContextTypes DEF Worlds
      <4>2. Saved(c, "normal")["normal"] \in SpdContext
        BY <4>1 DEF Worlds
      <4>3. [Saved(c, "normal")["normal"] EXCEPT !.x0 = SMC_UNIMPLEMENTED] \in SpdContext
        BY <4>2 DEF SpdContext, SMC_UNIMPLEMENTED
      <4> QED
        BY <4>1, <4>3
    <3> DEFINE contexts == [Saved(c, "normal") EXCEPT !["normal"].x0 = SMC_UNIMPLEMENTED]
    <3>2. SetContexts(c, contexts)
      BY <1>7, <2>1 DEF smc_trstd_os_handler
    <3>3. core_context' \in [AllSpdCores -> [Worlds -> SpdContext]]
      <4> HIDE DEF contexts
      <4>1. contexts \in [Worlds -> SpdContext]
        BY <3>1 DEF contexts
      <4> QED
        BY <3>2, <4>1 DEF SpdTypeOK, SetContexts
    <3> QED
      <4>1. spdCalls' \in [AllSpdCores -> Nat]
        BY <1>7, <2>1 DEF smc_trstd_os_handler, SpdTypeOK
      <4> QED
        BY <1>7, <2>1, <3>3, <4>1 DEF smc_trstd_os_handler, SpdTypeOK
  <2>2. CASE sp_vectors
    <3>1. PICK entry \in {"fast_smc_entry", "yield_smc_entry"} :
            LET contexts == [Saved(c, "normal") EXCEPT !["secure"].elr = entry]
            IN  /\ SetContexts(c, contexts)
                /\ Restore(c, contexts, "secure")
                /\ SpdGoto(c, "secure")
      BY <1>7, <2>2 DEF smc_trstd_os_handler
    <3> DEFINE contexts == [Saved(c, "normal") EXCEPT !["secure"].elr = entry]
    <3>2. contexts \in [Worlds -> SpdContext]
      BY ContextTypes DEF Worlds, SpdContext, SpdEntries
    <3>3. contexts["secure"].el1 \in SpdRegs
      BY <3>2 DEF Worlds, SpdContext
    <3> HIDE DEF contexts
    <3> QED
      BY <1>7, <3>1, <3>2, <3>3
         DEF contexts, smc_trstd_os_handler, SpdTypeOK, SpdGoto, SpdPc, SetContexts, Restore
  <2> QED
    BY <2>1, <2>2 DEF SpdTypeOK
<1>8. ASSUME NEW c \in AllSpdCores, CallDone(c) PROVE SpdTypeOK'
  <2> DEFINE contexts == [Saved(c, "secure") EXCEPT !["normal"].x0 = spdCalls[c]]
  <2>1. contexts \in [Worlds -> SpdContext] /\ contexts["normal"].el1 \in SpdRegs
    <3>1. Saved(c, "secure") \in [Worlds -> SpdContext] /\ spdCalls[c] \in Int
      BY ContextTypes DEF SpdTypeOK, Worlds
    <3>2. [Saved(c, "secure")["normal"] EXCEPT !.x0 = spdCalls[c]] \in SpdContext
      BY <3>1 DEF Worlds, SpdContext
    <3>3. contexts \in [Worlds -> SpdContext]
      BY <3>1, <3>2
    <3>4. contexts["normal"] \in SpdContext
      <4> HIDE DEF contexts
      <4> QED
        BY <3>3 DEF Worlds
    <3> HIDE DEF contexts
    <3> QED
      BY <3>3, <3>4 DEF SpdContext
  <2>2. SetContexts(c, contexts) /\ Restore(c, contexts, "normal")
    BY <1>8 DEF CallDone
  <2> HIDE DEF contexts
  <2> QED
    <3>1. core_context' \in [AllSpdCores -> [Worlds -> SpdContext]] /\ el1' \in [AllSpdCores -> SpdRegs]
      BY <2>1, <2>2 DEF SpdTypeOK, SetContexts, Restore
    <3>2. spdPc' \in [AllSpdCores -> SpdPc]
      BY <1>8 DEF CallDone, SpdTypeOK, SpdGoto, SpdPc
    <3> QED
      BY <1>8, <3>1, <3>2 DEF CallDone, SpdTypeOK
<1>9. ASSUME NEW c \in AllSpdCores, SpdCoreOff(c) PROVE SpdTypeOK'
  <2>1. <<"off", spdCalls[c]>> \in SpdRegs
    BY DEF SpdTypeOK, SpdRegs
  <2> QED
    BY <1>9, <2>1 DEF SpdCoreOff, SpdTypeOK, SpdGoto, SpdPc
<1>10. ASSUME NEW c \in AllSpdCores, _mon_core_restart(c) PROVE SpdTypeOK'
  <2>1. PICK regs \in {el1[c], <<"restart", spdCalls[c]>>} :
          /\ el1' = [el1 EXCEPT ![c] = regs]
          /\ worldRegs' = [worldRegs EXCEPT ![c]["normal"] = regs]
    BY <1>10 DEF _mon_core_restart
  <2>2. regs \in SpdRegs
    BY DEF SpdTypeOK, SpdRegs
  <2>3. "normal" \in Worlds
    BY DEF Worlds
  <2>4. /\ el1' \in [AllSpdCores -> SpdRegs]
        /\ worldRegs' \in [AllSpdCores -> [Worlds -> SpdRegs]]
    BY <2>1, <2>2, <2>3, RegsTypes
  <2>5. spdPc' \in [AllSpdCores -> SpdPc]
    BY <1>10 DEF _mon_core_restart, SpdTypeOK, SpdGoto, SpdPc
  <2> QED
    BY <1>10, <2>4, <2>5 DEF _mon_core_restart, SpdTypeOK
<1>11. CASE NoLoadable
  BY <1>11 DEF NoLoadable, SpdTypeOK, SpdGoto, SpdPc
<1>12. CASE UNCHANGED spdVars
  BY <1>12 DEF spdVars, SpdTypeOK
<1> QED
  BY <1>1, <1>2, <1>3, <1>4, <1>5, <1>6, <1>7, <1>8, <1>9, <1>10, <1>11, <1>12 DEF SpdNext

-----------------------------------------------------------------------------
(* The order of the start, and the vectors of the trusted OS.              *)

\* The boot core is through with the start before a secondary begins its own.
BootFirst == \A c \in SpdCores : spdPc[c] # "reset" => spdPc[0] \in {"normal", "secure", "off"}

\* After the start of the boot core there are vectors exactly when there is a trusted OS.
VectorsTold ==
  /\ spdPc[0] \in {"setup", "enter", "init"} => loadable
  /\ sp_vectors => loadable
  /\ spdPc[0] \in {"booted", "normal", "secure", "off"} => (loadable => sp_vectors)

BootInv == BootFirst /\ VectorsTold

\* What a step of core c does to the places, to the shared entry point and to the vectors.
LEMMA StepPlaces ==
  ASSUME SpdTypeOK, NEW c \in AllSpdCores, CoreStep(c)
  PROVE  /\ loadable' = loadable
         /\ \A d \in AllSpdCores \ {c} : spdPc'[d] = spdPc[d] /\ core_context'[d] = core_context[d]
         /\ spdPc'[c] # "reset"
         /\ spdPc[c] = "reset" => /\ spd_init(c) /\ spdPc'[c] = "setup"
                                  /\ sp_ep_info' = IF c = 0 THEN "image" ELSE "ones"
         /\ spdPc[c] # "reset" => ~spd_init(c)
         /\ spdPc[c] \in {"normal", "secure", "off"} => spdPc'[c] \in {"normal", "secure", "off"}
         /\ spdPc[c] \in {"normal", "secure", "off", "booted"} =>
              sp_ep_info' = sp_ep_info /\ spdPc'[c] \in {"normal", "secure", "off"}
         /\ spdPc[c] = "setup" => \/ spdPc'[c] = "booted" /\ sp_ep_info' = sp_ep_info /\ c # 0
                                  \/ /\ spdPc'[c] = "enter"
                                     /\ sp_ep_info' = IF c = 0 THEN sp_ep_info ELSE "cpu_on_entry"
         /\ spdPc[c] = "enter" => /\ spdPc'[c] = "init" /\ sp_ep_info' = sp_ep_info
                                  /\ core_context'[c]["secure"].elr = sp_ep_info
         /\ spdPc[c] = "init" => /\ spdPc'[c] \in {"init", "booted"} /\ sp_ep_info' = sp_ep_info
                                 /\ spdPc'[c] = "init" => core_context'[c] = core_context[c]
         /\ sp_vectors' = (sp_vectors \/ (c = 0 /\ spdPc[c] = "init" /\ spdPc'[c] = "booted"))
<1> USE DEF SpdTypeOK, SpdGoto, SpdPc
<1>1. CASE spd_init(c)
  BY <1>1 DEF spd_init
<1>2. CASE sp_setup_n_init(c)
  BY <1>2 DEF sp_setup_n_init, spd_init
<1>3. CASE secure_el1os_enter_sp(c)
  <2>1. Initialised(c)["secure"].elr = sp_ep_info
    BY DEF Initialised, Worlds
  <2>2. core_context' = [core_context EXCEPT ![c] = Initialised(c)]
    BY <1>3 DEF secure_el1os_enter_sp, SetContexts
  <2> QED
    BY <1>3, <2>1, <2>2 DEF secure_el1os_enter_sp, spd_init
<1>4. CASE EntryDone(c)
  BY <1>4 DEF EntryDone, SetContexts, spd_init
<1>5. CASE EnterNormalWorld(c)
  BY <1>5 DEF EnterNormalWorld, SetContexts, spd_init
<1>6. CASE WriteRegs(c)
  <2>1. /\ spdPc[c] \in {"normal", "secure", "init"} /\ spdPc' = spdPc /\ core_context' = core_context
        /\ sp_ep_info' = sp_ep_info /\ sp_vectors' = sp_vectors /\ loadable' = loadable
    BY <1>6 DEF WriteRegs
  <2> QED
    BY <2>1 DEF spd_init
<1>7. CASE smc_trstd_os_handler(c)
  BY <1>7 DEF smc_trstd_os_handler, SetContexts, spd_init
<1>8. CASE CallDone(c)
  BY <1>8 DEF CallDone, SetContexts, spd_init
<1>9. CASE SpdCoreOff(c) \/ _mon_core_restart(c)
  BY <1>9 DEF SpdCoreOff, _mon_core_restart, spd_init
<1> QED
  BY <1>1, <1>2, <1>3, <1>4, <1>5, <1>6, <1>7, <1>8, <1>9 DEF CoreStep

LEMMA BootInvNext == ASSUME SpdTypeOK, SpdTypeOK', BootInv, [SpdNext]_spdVars PROVE BootInv'
<1>1. ASSUME NEW c \in AllSpdCores, CoreStep(c) PROVE BootInv'
  <2>1. BootFirst'
    <3>1. CASE spdPc[c] = "reset" /\ c # 0
      <4>1. PICK d \in AllSpdCores : d # c /\ spdPc[d] \in {"normal", "secure"}
        BY <1>1, <3>1, StepPlaces DEF spd_init
      <4>2. spdPc[0] \in {"normal", "secure", "off"}
        BY <4>1, ZeroIsACore DEF BootInv, BootFirst, AllSpdCores
      <4> QED
        BY <1>1, <3>1, <4>2, StepPlaces, ZeroIsACore DEF BootFirst
    <3>2. CASE c = 0
      BY <1>1, <3>2, StepPlaces, ZeroIsACore DEF BootInv, BootFirst
    <3>3. CASE spdPc[c] # "reset" /\ c # 0
      <4>1. spdPc[0] \in {"normal", "secure", "off"} /\ spdPc'[0] = spdPc[0]
        BY <1>1, <3>3, StepPlaces, ZeroIsACore DEF BootInv, BootFirst, AllSpdCores
      <4> QED
        BY <4>1 DEF BootFirst
    <3> QED
      BY <3>1, <3>2, <3>3
  <2>2. VectorsTold'
    <3>1. CASE c = 0
      <4>1. spdPc[0] \in SpdPc
        BY ZeroIsACore DEF SpdTypeOK
      <4>2. spdPc[0] = "reset" => loadable
        BY <1>1, <3>1, StepPlaces DEF spd_init
      <4> QED
        BY <1>1, <3>1, <4>1, <4>2, StepPlaces DEF BootInv, VectorsTold, SpdPc
    <3>2. CASE c # 0
      <4>1. spdPc'[0] = spdPc[0] /\ sp_vectors' = sp_vectors /\ loadable' = loadable
        BY <1>1, <3>2, StepPlaces, ZeroIsACore DEF SpdTypeOK
      <4> QED
        BY <4>1 DEF BootInv, VectorsTold
    <3> QED
      BY <3>1, <3>2
  <2> QED
    BY <2>1, <2>2 DEF BootInv
<1>2. CASE NoLoadable
  <2>1. /\ spdPc[0] = "reset" /\ ~loadable /\ loadable' = loadable /\ sp_vectors' = sp_vectors
        /\ spdPc'[0] = "normal"
    BY <1>2, ZeroIsACore DEF NoLoadable, SpdGoto, SpdTypeOK
  <2> QED
    BY <2>1 DEF BootInv, BootFirst, VectorsTold
<1>3. CASE UNCHANGED spdVars
  BY <1>3 DEF spdVars, BootInv, BootFirst, VectorsTold
<1> QED
  BY <1>1, <1>2, <1>3 DEF SpdNext, CoreStep

-----------------------------------------------------------------------------
(* The registers of the world that does not run.                           *)

InSecure(c) == spdPc[c] \in {"init", "secure"}

\* The running world has its registers, the other one's are saved.
RegsOf(c) ==
  /\ InSecure(c) => el1[c] = worldRegs[c]["secure"]
  /\ ~InSecure(c) => core_context[c]["secure"].el1 = worldRegs[c]["secure"]
  /\ spdPc[c] \in {"reset", "normal"} => el1[c] = worldRegs[c]["normal"]
  /\ spdPc[c] = "secure" => core_context[c]["normal"].el1 = worldRegs[c]["normal"]

\* A core has made no call before its start is complete, and the last answer stays in its context.
AnswerOf(c) ==
  /\ spdPc[c] \notin {"normal", "secure", "off"} => spdCalls[c] = 0
  /\ spdPc[c] \in {"normal", "off"} /\ spdCalls[c] > 0
       => core_context[c]["normal"].x0 = IF loadable THEN spdCalls[c] ELSE SMC_UNIMPLEMENTED
  /\ spdPc[c] = "secure" => loadable

WorldsInv == SpdTypeOK /\ BootInv /\ \A c \in AllSpdCores : RegsOf(c) /\ AnswerOf(c)

\* What another core does leaves the facts about this one alone.
LEMMA OtherCore ==
  ASSUME NEW c \in AllSpdCores, NEW d \in AllSpdCores, c # d, SpdTypeOK,
         RegsOf(d), AnswerOf(d), CoreStep(c)
  PROVE  RegsOf(d)' /\ AnswerOf(d)'
<1>1. /\ spdPc'[d] = spdPc[d] /\ el1'[d] = el1[d] /\ core_context'[d] = core_context[d]
      /\ worldRegs'[d] = worldRegs[d] /\ spdCalls'[d] = spdCalls[d] /\ loadable' = loadable
  <2>1. CASE spd_init(c) \/ sp_setup_n_init(c) \/ secure_el1os_enter_sp(c)
    BY <2>1 DEF SpdTypeOK, SpdGoto, SetContexts, Restore, spd_init, sp_setup_n_init, secure_el1os_enter_sp
  <2>2. CASE EntryDone(c) \/ EnterNormalWorld(c) \/ WriteRegs(c)
    BY <2>2 DEF SpdTypeOK, SpdGoto, SetContexts, Restore, EntryDone, EnterNormalWorld, WriteRegs
  <2>3. CASE smc_trstd_os_handler(c)
    BY <2>3 DEF SpdTypeOK, SpdGoto, SetContexts, Restore, smc_trstd_os_handler
  <2>4. CASE CallDone(c) \/ SpdCoreOff(c) \/ _mon_core_restart(c)
    BY <2>4 DEF SpdTypeOK, SpdGoto, SetContexts, Restore, CallDone, SpdCoreOff, _mon_core_restart
  <2> QED
    BY <2>1, <2>2, <2>3, <2>4 DEF CoreStep
<1> QED
  BY <1>1 DEF RegsOf, AnswerOf, InSecure

\* A core that makes a call finds vectors exactly when there is a trusted OS.
LEMMA CallerIsTold ==
  ASSUME SpdTypeOK, BootInv, NEW c \in AllSpdCores, spdPc[c] = "normal"
  PROVE  sp_vectors <=> loadable
<1>1. spdPc[0] \in {"normal", "secure", "off"}
  BY DEF BootInv, BootFirst, AllSpdCores
<1> QED
  BY <1>1 DEF BootInv, VectorsTold, SpdTypeOK

LEMMA OwnCore ==
  ASSUME NEW c \in AllSpdCores, SpdTypeOK, BootInv, RegsOf(c), AnswerOf(c), CoreStep(c)
  PROVE  RegsOf(c)' /\ AnswerOf(c)'
<1> USE DEF RegsOf, AnswerOf, InSecure, SpdGoto, SetContexts, Restore, Worlds
<1>1. CASE spd_init(c)
  BY <1>1 DEF spd_init, SpdTypeOK
<1>2. CASE sp_setup_n_init(c)
  BY <1>2 DEF sp_setup_n_init, SpdTypeOK
<1>3. CASE secure_el1os_enter_sp(c)
  <2>1. Initialised(c)["secure"].el1 = ResetRegs
    BY DEF Initialised, SpdTypeOK
  <2> QED
    BY <1>3, <2>1 DEF secure_el1os_enter_sp, SpdTypeOK
<1>4. CASE EntryDone(c)
  <2>1. Saved(c, "secure")["secure"].el1 = el1[c]
    BY DEF Saved, SpdTypeOK, SpdContext
  <2> QED
    BY <1>4, <2>1 DEF EntryDone, SpdTypeOK
<1>5. CASE EnterNormalWorld(c)
  BY <1>5 DEF EnterNormalWorld, SpdTypeOK
<1>6. CASE WriteRegs(c)
  BY <1>6 DEF WriteRegs, SpdTypeOK
<1>7. CASE smc_trstd_os_handler(c)
  <2>1. CASE ~sp_vectors
    <3> DEFINE contexts == [Saved(c, "normal") EXCEPT !["normal"].x0 = SMC_UNIMPLEMENTED]
    <3>1. /\ contexts["secure"] = core_context[c]["secure"]
          /\ contexts["normal"].x0 = SMC_UNIMPLEMENTED
      BY DEF Saved, SpdTypeOK, SpdContext
    <3>2. SetContexts(c, contexts)
      BY <1>7, <2>1 DEF smc_trstd_os_handler
    <3>3. ~loadable /\ loadable' = loadable
      BY <1>7, <2>1, CallerIsTold DEF smc_trstd_os_handler
    <3> HIDE DEF contexts
    <3> QED
      BY <1>7, <2>1, <3>1, <3>2, <3>3 DEF smc_trstd_os_handler, SpdTypeOK
  <2>2. CASE sp_vectors
    <3>1. PICK entry \in {"fast_smc_entry", "yield_smc_entry"} :
            LET contexts == [Saved(c, "normal") EXCEPT !["secure"].elr = entry]
            IN  SetContexts(c, contexts) /\ Restore(c, contexts, "secure") /\ SpdGoto(c, "secure")
      BY <1>7, <2>2 DEF smc_trstd_os_handler
    <3> DEFINE contexts == [Saved(c, "normal") EXCEPT !["secure"].elr = entry]
    <3>2. /\ contexts["secure"].el1 = core_context[c]["secure"].el1
          /\ contexts["normal"].el1 = el1[c]
      BY DEF Saved, SpdTypeOK, SpdContext
    <3>3. SetContexts(c, contexts) /\ Restore(c, contexts, "secure") /\ SpdGoto(c, "secure")
      BY <3>1
    <3>4. loadable /\ loadable' = loadable
      BY <1>7, <2>2, CallerIsTold DEF smc_trstd_os_handler
    <3> HIDE DEF contexts
    <3> QED
      BY <1>7, <3>2, <3>3, <3>4 DEF smc_trstd_os_handler, SpdTypeOK
  <2> QED
    BY <2>1, <2>2 DEF SpdTypeOK
<1>8. CASE CallDone(c)
  <2> DEFINE contexts == [Saved(c, "secure") EXCEPT !["normal"].x0 = spdCalls[c]]
  <2>1. /\ contexts["secure"].el1 = el1[c]
        /\ contexts["normal"].el1 = core_context[c]["normal"].el1
        /\ contexts["normal"].x0 = spdCalls[c]
    BY DEF Saved, SpdTypeOK, SpdContext
  <2>2. SetContexts(c, contexts) /\ Restore(c, contexts, "normal")
    BY <1>8 DEF CallDone
  <2> HIDE DEF contexts
  <2> QED
    BY <1>8, <2>1, <2>2 DEF CallDone, SpdTypeOK
<1>9. CASE SpdCoreOff(c)
  BY <1>9 DEF SpdCoreOff, SpdTypeOK
<1>10. CASE _mon_core_restart(c)
  <2>1. PICK regs \in {el1[c], <<"restart", spdCalls[c]>>} :
          /\ el1' = [el1 EXCEPT ![c] = regs]
          /\ worldRegs' = [worldRegs EXCEPT ![c]["normal"] = regs]
    BY <1>10 DEF _mon_core_restart
  <2>2. /\ spdPc[c] = "off" /\ spdPc'[c] = "normal"
        /\ core_context' = core_context /\ spdCalls' = spdCalls /\ loadable' = loadable
    BY <1>10 DEF _mon_core_restart, SpdTypeOK
  <2>3. worldRegs'[c]["secure"] = worldRegs[c]["secure"] /\ worldRegs'[c]["normal"] = el1'[c]
    BY <2>1 DEF SpdTypeOK
  <2> QED
    BY <2>2, <2>3
<1> QED
  BY <1>1, <1>2, <1>3, <1>4, <1>5, <1>6, <1>7, <1>8, <1>9, <1>10 DEF CoreStep

LEMMA WorldsInvNext == ASSUME WorldsInv, [SpdNext]_spdVars PROVE WorldsInv'
<1>1. SpdTypeOK' /\ BootInv'
  BY SpdTypeNext, BootInvNext DEF WorldsInv
<1>2. ASSUME NEW c \in AllSpdCores, NEW d \in AllSpdCores, CoreStep(c)
      PROVE  RegsOf(d)' /\ AnswerOf(d)'
  <2>1. CASE c = d
    BY <1>2, <2>1, OwnCore DEF WorldsInv
  <2>2. CASE c # d
    BY <1>2, <2>2, OtherCore DEF WorldsInv
  <2> QED
    BY <2>1, <2>2
<1>3. CASE NoLoadable
  <2>1. /\ el1' = el1 /\ worldRegs' = worldRegs /\ core_context' = core_context
        /\ spdCalls' = spdCalls /\ loadable' = loadable
        /\ spdPc[0] = "reset" /\ spdPc' = [spdPc EXCEPT ![0] = "normal"]
    BY <1>3 DEF NoLoadable, SpdGoto
  <2>2. ASSUME NEW c \in AllSpdCores PROVE RegsOf(c)' /\ AnswerOf(c)'
    BY <2>1 DEF WorldsInv, SpdTypeOK, RegsOf, AnswerOf, InSecure
  <2> QED
    BY <1>1, <2>2 DEF WorldsInv
<1>4. CASE UNCHANGED spdVars
  BY <1>1, <1>4 DEF spdVars, WorldsInv, RegsOf, AnswerOf, InSecure
<1> QED
  BY <1>1, <1>2, <1>3, <1>4 DEF SpdNext, CoreStep, WorldsInv

LEMMA BootInvInit == SpdInit => BootInv
<1>1. SpdInit => ~sp_vectors /\ \A c \in AllSpdCores : spdPc[c] = "reset"
  BY DEF SpdInit
<1> QED
  BY <1>1, ZeroIsACore DEF BootInv, BootFirst, VectorsTold

\* Whatever the cores do, each world finds its EL1 registers as it left them: the saves and restores
\* of smc_trstd_os_handler() and spd_init() never mix the worlds or the cores, and a core that was turned
\* off comes back with the registers of its trusted OS where the next call looks for them.
THEOREM RegistersStayApart == SpdSpec => []WorldsStayApart
<1>1. SpdInit => WorldsInv
  <2>1. SpdInit => \A c \in AllSpdCores : RegsOf(c) /\ AnswerOf(c)
    BY DEF SpdInit, RegsOf, AnswerOf, InSecure, Worlds
  <2> QED
    BY <2>1, SpdTypeInit, BootInvInit DEF WorldsInv
<1>2. WorldsInv /\ [SpdNext]_spdVars => WorldsInv'
  BY WorldsInvNext
<1>3. WorldsInv => WorldsStayApart
  BY DEF WorldsInv, RegsOf, AnswerOf, InSecure, WorldsStayApart
<1> QED
  BY <1>1, <1>2, <1>3, PTL DEF SpdSpec

-----------------------------------------------------------------------------
(* The entry point of the trusted OS, when cores are started one by one.   *)

OneStarts == \A c, d \in AllSpdCores : Starting(c) /\ Starting(d) => c = d

\* The shared entry point is that of the core that is starting.
SharedEntryIsMine ==
  \A c \in AllSpdCores :
    /\ spdPc[c] = "setup" => sp_ep_info = IF c = 0 THEN "image" ELSE "ones"
    /\ spdPc[c] = "enter" => sp_ep_info = IF c = 0 THEN "image" ELSE "cpu_on_entry"

EntryInv == SpdTypeOK /\ BootInv /\ OneStarts /\ SharedEntryIsMine /\ EntersThroughVector

\* The facts that only the start of core c can disturb.
EntryOf(c) ==
  /\ spdPc[c] = "setup" => sp_ep_info = IF c = 0 THEN "image" ELSE "ones"
  /\ spdPc[c] = "enter" => sp_ep_info = IF c = 0 THEN "image" ELSE "cpu_on_entry"
  /\ spdPc[c] = "init" => core_context[c]["secure"].elr = IF c = 0 THEN "image" ELSE "cpu_on_entry"

\* spd_init() begins on a core only when no other core is in it.
LEMMA NoneStarts ==
  ASSUME SpdOneByOne, SpdTypeOK, BootInv, NEW c \in AllSpdCores, spd_init(c)
  PROVE  \A d \in AllSpdCores : ~Starting(d)
<1>1. CASE c = 0
  <2>1. spdPc[0] = "reset" /\ \A d \in SpdCores : spdPc[d] = "reset"
    BY <1>1 DEF spd_init, BootInv, BootFirst
  <2> QED
    BY <2>1 DEF Starting, AllSpdCores
<1>2. CASE c # 0
  <2>1. PICK d \in AllSpdCores : spdPc[d] \in {"normal", "secure"}
    BY <1>2 DEF spd_init
  <2>2. spdPc[0] \in {"normal", "secure", "off"}
    BY <2>1 DEF BootInv, BootFirst, AllSpdCores
  <2>3. \A e \in SpdCores : ~Starting(e)
    BY <1>2 DEF spd_init
  <2> QED
    BY <2>2, <2>3 DEF Starting, AllSpdCores
<1> QED
  BY <1>1, <1>2

LEMMA EntryStep ==
  ASSUME SpdOneByOne, EntryInv, NEW c \in AllSpdCores, CoreStep(c)
  PROVE  OneStarts' /\ \A d \in AllSpdCores : EntryOf(d)'
<1>1. spdPc[c] \in SpdPc /\ SpdTypeOK /\ BootInv /\ OneStarts /\ \A d \in AllSpdCores : EntryOf(d)
  BY DEF EntryInv, SpdTypeOK, SharedEntryIsMine, EntersThroughVector, EntryOf
<1>2. Starting(c)' => Starting(c) \/ spd_init(c)
  BY <1>1, StepPlaces DEF Starting, SpdPc
<1>3. ASSUME Starting(c) \/ spd_init(c), NEW d \in AllSpdCores, d # c PROVE ~Starting(d)
  BY <1>1, <1>3, NoneStarts DEF OneStarts
<1>4. \A d \in AllSpdCores : d # c => spdPc'[d] = spdPc[d] /\ core_context'[d] = core_context[d]
  BY <1>1, StepPlaces
<1>5. OneStarts'
  BY <1>2, <1>3, <1>4 DEF OneStarts, EntryInv, Starting
<1>6. EntryOf(c)'
  BY <1>1, StepPlaces DEF EntryOf, SpdPc
<1>7. ASSUME NEW d \in AllSpdCores, d # c PROVE EntryOf(d)'
  <2>1. CASE Starting(c) \/ spd_init(c)
    BY <1>3, <1>4, <1>7, <2>1 DEF EntryOf, Starting
  <2>2. CASE ~Starting(c) /\ ~spd_init(c)
    <3>1. sp_ep_info' = sp_ep_info
      BY <1>1, <2>2, StepPlaces DEF Starting, SpdPc
    <3> QED
      BY <1>1, <1>4, <1>7, <3>1 DEF EntryOf
  <2> QED
    BY <2>1, <2>2
<1> QED
  BY <1>5, <1>6, <1>7

\* As long as the normal world starts one core at a time, every core enters the trusted OS where it
\* must: sp_ep_info_list[0] needs no lock then.
THEOREM OneByOneEntersThroughVector ==
  ASSUME SpdOneByOne
  PROVE  SpdSpec => []EntersThroughVector
<1>1. SpdInit => EntryInv
  <2>1. SpdInit => \A c \in AllSpdCores : spdPc[c] = "reset"
    BY DEF SpdInit
  <2> QED
    BY <2>1, SpdTypeInit, BootInvInit
       DEF EntryInv, OneStarts, SharedEntryIsMine, EntersThroughVector, Starting
<1>2. EntryInv /\ [SpdNext]_spdVars => EntryInv'
  <2> SUFFICES ASSUME EntryInv, [SpdNext]_spdVars PROVE EntryInv'
    OBVIOUS
  <2>1. SpdTypeOK' /\ BootInv'
    BY SpdTypeNext, BootInvNext DEF EntryInv
  <2>2. CASE UNCHANGED spdVars
    BY <2>1, <2>2
       DEF spdVars, EntryInv, OneStarts, SharedEntryIsMine, EntersThroughVector, Starting
  <2>3. CASE NoLoadable
    <3>1. /\ spdPc' = [spdPc EXCEPT ![0] = "normal"] /\ sp_ep_info' = sp_ep_info
          /\ core_context' = core_context
      BY <2>3 DEF NoLoadable, SpdGoto
    <3>2. \A c \in AllSpdCores : spdPc'[c] = spdPc[c] \/ spdPc'[c] = "normal"
      BY <3>1 DEF EntryInv, SpdTypeOK
    <3> QED
      BY <2>1, <3>1, <3>2 DEF EntryInv, OneStarts, SharedEntryIsMine, EntersThroughVector, Starting
  <2>4. ASSUME NEW c \in AllSpdCores, CoreStep(c) PROVE EntryInv'
    BY <2>1, <2>4, EntryStep DEF EntryInv, EntryOf, SharedEntryIsMine, EntersThroughVector
  <2> QED
    BY <2>2, <2>3, <2>4 DEF SpdNext, CoreStep
<1>3. EntryInv => EntersThroughVector
  BY DEF EntryInv
<1> QED
  BY <1>1, <1>2, <1>3, PTL DEF SpdSpec

-----------------------------------------------------------------------------
(* The bring-up of the SEC engine (SecBoot).                               *)

JobStates == {"run", "ok", "error"}

SecRegisters == [awcache : Int, arcache : Int, ps : BOOLEAN, start : SUBSET Int, tz : SUBSET Int,
                 ring : {"unset", "halted", "started"}]
SecPlaces == {"sec_init", "flush", "reset", "rng", "try", "poll", "end"}
SecCallState == [pc : SecPlaces, polls : Int, delay : Int, job_ring : BOOLEAN, late : Nat, res : {-1, 0, 1}]

SecBootTypes ==
  /\ secEngine \in SecEngines
  /\ secRegs \in SecRegisters
  /\ trng \in [prgm : BOOLEAN, delay : Int, frqmin : Int, frqmax : {0, RTFRQMAX_DISABLE}, raw : BOOLEAN]
  /\ secBoot \in SecCallState
  /\ secTried \in Seq(Int)
  /\ secBoot.job_ring => secRing \in Seq(JobStates)

\* The software has a ring exactly when the reset is over, and has then set it up.
RingIsSet ==
  /\ secBoot.pc \in {"sec_init", "flush", "reset"} => ~secBoot.job_ring
  /\ secBoot.pc \in {"rng", "try", "poll"} \/ secBoot.res = 0 => secBoot.job_ring
  /\ secBoot.pc # "sec_init" /\ Started(secEngine) => DEFAULT_JR \in secRegs.start
  /\ secBoot.job_ring => secRegs.ring = "started" /\ DEFAULT_JR \in secRegs.tz
  /\ secTried # <<>> => secBoot.job_ring /\ secBoot.pc \in {"try", "poll", "end"}

\* The delays tried, and the next one.
DelaysInOrder ==
  /\ Len(secTried) <= 24
  /\ \A i \in 1..Len(secTried) : secTried[i] = RTSDCTL_ENT_DLY_MIN + 400 * (i - 1)
  /\ secBoot.pc \in {"try", "poll"} => secBoot.delay = RTSDCTL_ENT_DLY_MIN + 400 * Len(secTried)
  /\ secBoot.pc = "try" => Len(secTried) <= 23
  /\ secBoot.pc = "poll" => Len(secTried) >= 1

\* The jobs in the ring: the ones given up, and while the driver polls the one it waits for.
JobsCounted ==
  /\ secBoot.pc = "rng" => secRing = <<>>
  /\ secBoot.pc = "try" => Len(secRing) <= secBoot.late
  /\ secBoot.pc \in {"poll", "end"} /\ secBoot.job_ring => Len(secRing) <= secBoot.late + 1
  /\ secBoot.pc = "poll" /\ secBoot.late = 0 => Len(secRing) = 1

Short(n) == \A i \in 1..n : secTried[i] < secEngine.needs

\* What the ring and the answer say of the handle and of the delays.
HandleFollows ==
  /\ secBoot.job_ring => \A i \in 1..Len(secRing) : secRing[i] = "ok" => 0 \in handles
  /\ secBoot.pc # "end" => secBoot.res = 1
  /\ secBoot.pc = "end" => secBoot.res \in {-1, 0}
  /\ secBoot.res = 0 => 0 \in handles
  /\ secBoot.pc = "try" /\ secBoot.late = 0 => 0 \notin handles /\ Short(Len(secTried))
  /\ secBoot.pc = "poll" /\ secBoot.late = 0 =>
       /\ trng.delay = secTried[Len(secTried)] /\ Short(Len(secTried) - 1)
       /\ secRing[1] = "run" => 0 \notin handles
       /\ secRing[1] = "ok" => secEngine.needs <= trng.delay
       /\ secRing[1] = "error" => 0 \notin handles /\ trng.delay < secEngine.needs
  /\ secBoot.pc = "end" /\ secTried # <<>> /\ secBoot.res = -1 =>
       Len(secTried) = 24 /\ (secBoot.late = 0 => Short(24))
  /\ secBoot.pc = "end" /\ secTried # <<>> /\ secBoot.res = 0 /\ secBoot.late = 0 =>
       secEngine.needs <= secTried[Len(secTried)] /\ Short(Len(secTried) - 1)

SecBootInv == SecBootTypes /\ RingIsSet /\ DelaysInOrder /\ JobsCounted /\ HandleFollows
-----------------------------------------------------------------------------
\* Every set of natural numbers has a least element.
LEMMA LeastNatural ==
  ASSUME NEW S, S \subseteq Nat, S # {}
  PROVE  \E n \in S : \A m \in S : n <= m
<1> DEFINE R == OpToRel(<, Nat)
<1>1. IsWellFoundedOn(R, Nat)
  BY NatLessThanWellFounded
<1>2. \A a, b \in Nat : a < b => <<a, b>> \in R
  BY DEF OpToRel
<1> HIDE DEF R
<1>3. PICK n \in S : \A m \in S : ~ (<<m, n>> \in R)
  BY <1>1, WFMin
<1>4. ASSUME NEW m \in S PROVE n <= m
  <2>1. m \in Nat /\ n \in Nat
    OBVIOUS
  <2>2. ~(<<m, n>> \in R)
    BY <1>3
  <2>3. ~(m < n)
    BY <1>2, <2>1, <2>2
  <2> QED
    BY <2>1, <2>3
<1> QED
  BY <1>4

LEMMA SecNumbers ==
  /\ RTSDCTL_ENT_DLY_MIN = 3200 /\ RTSDCTL_ENT_DLY_MAX = 12800 /\ DEFAULT_JR = 3
  /\ DEFAULT_JR \in Int
BY DEF RTSDCTL_ENT_DLY_MIN, RTSDCTL_ENT_DLY_MAX, DEFAULT_JR

\* A cold boot establishes the invariant, and each step of the bring-up preserves it.
LEMMA SecBootStarts == SecBootInit => SecBootInv
<1> SUFFICES ASSUME SecBootInit PROVE SecBootInv
  OBVIOUS
<1>1. secTried = <<>> /\ Len(secTried) = 0 /\ secTried \in Seq(Int)
  BY DEF SecBootInit
<1>2. secBoot = [pc |-> "sec_init", polls |-> 0, delay |-> 0, job_ring |-> FALSE, late |-> 0, res |-> 1]
  BY DEF SecBootInit
<1>3. secBoot.pc = "sec_init" /\ secBoot.job_ring = FALSE /\ secBoot.late = 0 /\ secBoot.res = 1
  BY <1>2
<1>4. SecBootTypes
  <2>1. secRegs \in SecRegisters
    BY DEF SecBootInit, SecRegisters
  <2>2. trng \in [prgm : BOOLEAN, delay : Int, frqmin : Int, frqmax : {0, RTFRQMAX_DISABLE}, raw : BOOLEAN]
    BY DEF SecBootInit
  <2>3. secBoot \in SecCallState
    BY <1>2 DEF SecCallState, SecPlaces
  <2> QED
    BY <1>1, <1>3, <2>1, <2>2, <2>3 DEF SecBootTypes, SecBootInit
<1>5. RingIsSet
  BY <1>1, <1>3 DEF RingIsSet
<1>6. DelaysInOrder
  BY <1>1, <1>3 DEF DelaysInOrder
<1>7. JobsCounted
  BY <1>1, <1>3 DEF JobsCounted
<1>8. HandleFollows
  BY <1>1, <1>3 DEF HandleFollows
<1> QED
  BY <1>4, <1>5, <1>6, <1>7, <1>8 DEF SecBootInv

\* The calls before the first job: nothing is tried, and the handles stay.
LEMMA ConfigureJrKeeps ==
  ASSUME SecBootInv, ConfigureJr
  PROVE  SecBootInv'
<1>1. /\ SecBootTypes /\ RingIsSet /\ DelaysInOrder /\ HandleFollows
      /\ secBoot.pc = "sec_init"
      /\ secBoot' = [secBoot EXCEPT !.pc = "flush", !.polls = SEC_TIMEOUT]
      /\ secEngine' = secEngine /\ trng' = trng /\ handles' = handles /\ secRing' = secRing /\ secTried' = secTried
  BY DEF ConfigureJr, SecAt, SecBootInv
<1>2. secBoot.job_ring = FALSE /\ secBoot.res = 1 /\ secTried = <<>>
  BY <1>1 DEF RingIsSet, HandleFollows, SecBootTypes, SecCallState
<1>3. /\ secBoot' \in SecCallState
      /\ secBoot'.pc = "flush" /\ secBoot'.job_ring = FALSE /\ secBoot'.res = 1
  <2>1. SEC_TIMEOUT \in Int /\ secBoot \in SecCallState
    BY <1>1, SecBootAssumption DEF SecBootTypes
  <2> QED
    BY <1>1, <1>2, <2>1 DEF SecCallState, SecPlaces
<1>4. PICK s \in SUBSET Int : s = start_jr(DEFAULT_JR, secEngine, secRegs.start)
  <2>1. secRegs.start \in SUBSET Int /\ secRegs.start \cup {DEFAULT_JR} \in SUBSET Int
    BY <1>1, SecNumbers DEF SecBootTypes, SecRegisters
  <2> QED
    BY <2>1 DEF start_jr
<1>5. /\ secRegs' \in SecRegisters
      /\ secRegs'.start = s
  <2>1. PICK a \in Int, b \in Int :
          secRegs' = [secRegs EXCEPT !.awcache = a, !.arcache = b, !.ps = TRUE, !.start = s]
    <3>1. PICK a : a = (IF secEngine.soc = "ls2088" THEN 11 ELSE 2)
      OBVIOUS
    <3>2. PICK b : b = (IF secEngine.soc = "ls2088" THEN 6 ELSE secRegs.arcache)
      OBVIOUS
    <3>3. a \in Int /\ b \in Int
      BY <1>1, <3>1, <3>2 DEF SecBootTypes, SecRegisters
    <3>4. secRegs' = [secRegs EXCEPT !.awcache = a, !.arcache = b, !.ps = TRUE, !.start = s]
      BY <1>4, <3>1, <3>2 DEF ConfigureJr
    <3> QED
      BY <3>3, <3>4
  <2> QED
    BY <1>1, <2>1 DEF SecBootTypes, SecRegisters
<1>6. SecBootTypes'
  BY <1>1, <1>3, <1>5 DEF SecBootTypes
<1>7. Started(secEngine) => DEFAULT_JR \in secRegs'.start
  BY <1>4, <1>5 DEF start_jr
<1>8. RingIsSet'
  BY <1>1, <1>2, <1>3, <1>7 DEF RingIsSet, Started
<1>9. DelaysInOrder'
  BY <1>1, <1>2, <1>3 DEF DelaysInOrder
<1>10. JobsCounted'
  BY <1>3 DEF JobsCounted
<1>11. HandleFollows'
  BY <1>3 DEF HandleFollows
<1> QED
  BY <1>6, <1>8, <1>9, <1>10, <1>11 DEF SecBootInv

LEMMA PollRingKeeps ==
  ASSUME SecBootInv, PollRing
  PROVE  SecBootInv'
<1>1. /\ SecBootTypes /\ RingIsSet /\ DelaysInOrder /\ HandleFollows
      /\ secBoot.pc \in {"flush", "reset"} /\ secBoot \in SecCallState
      /\ secEngine' = secEngine /\ secRegs' = secRegs /\ trng' = trng /\ handles' = handles
      /\ secRing' = secRing /\ secTried' = secTried
  BY DEF PollRing, SecAt, SecBootInv, SecBootTypes
<1>2. secBoot.job_ring = FALSE /\ secBoot.res = 1 /\ secTried = <<>>
  BY <1>1 DEF RingIsSet, HandleFollows, SecCallState
<1>3. /\ secBoot' \in SecCallState /\ secBoot'.job_ring = FALSE
      /\ \/ secBoot'.pc \in {"flush", "reset"} /\ secBoot'.res = 1
         \/ secBoot'.pc = "end" /\ secBoot'.res = -1
  <2>1. CASE secBoot.polls = 1
    <3>1. secBoot' = [secBoot EXCEPT !.pc = "end", !.res = -1]
      BY <2>1 DEF PollRing, SecEnds
    <3> QED
      BY <1>1, <1>2, <3>1 DEF SecCallState, SecPlaces
  <2>2. CASE secBoot.polls # 1
    <3>1. PICK p \in Int : p = secBoot.polls - 1
      BY <1>1 DEF SecCallState
    <3>2. secBoot' = [secBoot EXCEPT !.polls = p]
      BY <2>2, <3>1 DEF PollRing
    <3> QED
      BY <1>1, <1>2, <3>1, <3>2 DEF SecCallState, SecPlaces
  <2> QED
    BY <2>1, <2>2
<1>4. SecBootTypes'
  BY <1>1, <1>3 DEF SecBootTypes
<1>5. RingIsSet'
  BY <1>1, <1>2, <1>3 DEF RingIsSet, Started
<1>6. DelaysInOrder'
  BY <1>1, <1>2, <1>3 DEF DelaysInOrder
<1>7. JobsCounted'
  BY <1>3 DEF JobsCounted
<1>8. HandleFollows'
  BY <1>1, <1>2, <1>3 DEF HandleFollows
<1> QED
  BY <1>4, <1>5, <1>6, <1>7, <1>8 DEF SecBootInv

LEMMA FlushedKeeps ==
  ASSUME SecBootInv, Flushed
  PROVE  SecBootInv'
<1>1. /\ SecBootTypes /\ RingIsSet /\ DelaysInOrder /\ HandleFollows
      /\ secBoot.pc = "flush" /\ secBoot \in SecCallState /\ secRegs \in SecRegisters
      /\ secEngine' = secEngine /\ trng' = trng /\ handles' = handles
      /\ secRing' = secRing /\ secTried' = secTried
  BY DEF Flushed, SecAt, SecBootInv, SecBootTypes
<1>2. secBoot.job_ring = FALSE /\ secBoot.res = 1 /\ secTried = <<>>
  BY <1>1 DEF RingIsSet, HandleFollows, SecCallState
<1>3. /\ secBoot' \in SecCallState /\ secBoot'.job_ring = FALSE
      /\ secRegs' \in SecRegisters /\ secRegs'.start = secRegs.start
      /\ \/ secBoot'.pc = "reset" /\ secBoot'.res = 1
         \/ secBoot'.pc = "end" /\ secBoot'.res = -1
  <2>1. CASE secBoot' = [secBoot EXCEPT !.pc = "reset", !.polls = SEC_TIMEOUT]
             /\ secRegs' = [secRegs EXCEPT !.ring = "halted"]
    <3>1. SEC_TIMEOUT \in Int
      BY SecBootAssumption
    <3> QED
      BY <1>1, <1>2, <2>1, <3>1 DEF SecCallState, SecPlaces, SecRegisters
  <2>2. CASE secBoot' = [secBoot EXCEPT !.pc = "end", !.res = -1] /\ secRegs' = secRegs
    BY <1>1, <1>2, <2>2 DEF SecCallState, SecPlaces
  <2> QED
    BY <2>1, <2>2 DEF Flushed, SecEnds
<1>4. SecBootTypes'
  BY <1>1, <1>3 DEF SecBootTypes
<1>5. RingIsSet'
  BY <1>1, <1>2, <1>3 DEF RingIsSet, Started
<1>6. DelaysInOrder'
  BY <1>1, <1>2, <1>3 DEF DelaysInOrder
<1>7. JobsCounted'
  BY <1>3 DEF JobsCounted
<1>8. HandleFollows'
  BY <1>1, <1>2, <1>3 DEF HandleFollows
<1> QED
  BY <1>4, <1>5, <1>6, <1>7, <1>8 DEF SecBootInv

LEMMA ConfigureKeeps ==
  ASSUME SecBootInv, Configure
  PROVE  SecBootInv'
<1>1. /\ SecBootTypes /\ RingIsSet /\ DelaysInOrder /\ HandleFollows
      /\ secBoot.pc = "reset" /\ secBoot \in SecCallState /\ secRegs \in SecRegisters
      /\ secBoot' = [secBoot EXCEPT !.pc = "rng", !.job_ring = TRUE] /\ secRing' = <<>>
      /\ secRegs' = [secRegs EXCEPT !.ring = "started", !.tz = config_tz(DEFAULT_JR, secRegs.tz)]
      /\ secEngine' = secEngine /\ trng' = trng /\ handles' = handles /\ secTried' = secTried
  BY DEF Configure, SecAt, SecBootInv, SecBootTypes
<1>2. secBoot.res = 1 /\ secTried = <<>>
  BY <1>1 DEF RingIsSet, HandleFollows, SecCallState
<1>3. secBoot' \in SecCallState /\ secBoot'.job_ring = TRUE /\ secBoot'.pc = "rng" /\ secBoot'.res = 1
  BY <1>1, <1>2 DEF SecCallState, SecPlaces
<1>4. PICK tz \in SUBSET Int : tz = config_tz(DEFAULT_JR, secRegs.tz) /\ DEFAULT_JR \in tz
  <2>1. secRegs.tz \cup {DEFAULT_JR} \in SUBSET Int
    BY <1>1, SecNumbers DEF SecRegisters
  <2>2. DEFAULT_JR \in 0..3
    BY SecNumbers
  <2> QED
    BY <2>1, <2>2 DEF config_tz
<1>5. secRegs' \in SecRegisters /\ secRegs'.ring = "started" /\ secRegs'.tz = tz /\ secRegs'.start = secRegs.start
  BY <1>1, <1>4 DEF SecRegisters
<1>6. SecBootTypes'
  BY <1>1, <1>3, <1>5 DEF SecBootTypes
<1>7. RingIsSet'
  BY <1>1, <1>2, <1>3, <1>4, <1>5 DEF RingIsSet, Started
<1>8. DelaysInOrder'
  BY <1>1, <1>2, <1>3 DEF DelaysInOrder
<1>9. JobsCounted'
  BY <1>1, <1>3 DEF JobsCounted
<1>10. HandleFollows'
  BY <1>1, <1>2, <1>3 DEF HandleFollows
<1> QED
  BY <1>6, <1>7, <1>8, <1>9, <1>10 DEF SecBootInv

LEMMA HwRngInstantiateKeeps ==
  ASSUME SecBootInv, HwRngInstantiate
  PROVE  SecBootInv'
<1>1. /\ SecBootTypes /\ RingIsSet /\ DelaysInOrder /\ JobsCounted /\ HandleFollows
      /\ secBoot.pc = "rng" /\ secBoot \in SecCallState
      /\ secEngine' = secEngine /\ secRegs' = secRegs /\ trng' = trng /\ handles' = handles
      /\ secRing' = secRing /\ secTried' = secTried
  BY DEF HwRngInstantiate, SecAt, SecBootInv, SecBootTypes
<1>2. secBoot.res = 1 /\ secTried = <<>> /\ secBoot.job_ring = TRUE /\ secRing = <<>> /\ Len(secTried) = 0
  BY <1>1 DEF RingIsSet, HandleFollows, JobsCounted, SecCallState
<1>3. /\ secBoot' \in SecCallState /\ secBoot'.job_ring = TRUE /\ secBoot'.late = secBoot.late
      /\ \/ secBoot'.pc = "end" /\ secBoot'.res = 0 /\ 0 \in handles
         \/ secBoot'.pc = "try" /\ secBoot'.res = 1 /\ secBoot'.delay = RTSDCTL_ENT_DLY_MIN /\ 0 \notin handles
  <2>1. CASE 0 \in handles
    <3>1. secBoot' = [secBoot EXCEPT !.pc = "end", !.res = 0]
      BY <2>1 DEF HwRngInstantiate, SecEnds, is_hw_rng_instantiated
    <3> QED
      BY <1>1, <1>2, <2>1, <3>1 DEF SecCallState, SecPlaces
  <2>2. CASE 0 \notin handles
    <3>1. secBoot' = [secBoot EXCEPT !.pc = "try", !.delay = RTSDCTL_ENT_DLY_MIN]
      BY <2>2 DEF HwRngInstantiate, is_hw_rng_instantiated
    <3>2. RTSDCTL_ENT_DLY_MIN \in Int
      BY SecNumbers
    <3> QED
      BY <1>1, <1>2, <2>2, <3>1, <3>2 DEF SecCallState, SecPlaces
  <2> QED
    BY <2>1, <2>2
<1>4. SecBootTypes'
  <2>1. secRing' \in Seq(JobStates)
    BY <1>1, <1>2 DEF SecBootTypes
  <2> QED
    BY <1>1, <1>3, <2>1 DEF SecBootTypes
<1>5. RingIsSet'
  BY <1>1, <1>2, <1>3 DEF RingIsSet, Started
<1>6. DelaysInOrder'
  <2>1. RTSDCTL_ENT_DLY_MIN + 400 * 0 = RTSDCTL_ENT_DLY_MIN
    BY SecNumbers
  <2> QED
    BY <1>1, <1>2, <1>3, <2>1 DEF DelaysInOrder
<1>7. JobsCounted'
  <2>1. Len(secRing') = 0 /\ secBoot'.late \in Nat
    BY <1>1, <1>2, <1>3 DEF SecCallState
  <2> QED
    BY <1>3, <2>1 DEF JobsCounted
<1>8. HandleFollows'
  <2>1. Short(Len(secTried))'
    BY <1>1, <1>2 DEF Short
  <2>2. Len(secRing') = 0
    BY <1>1, <1>2
  <2> QED
    BY <1>1, <1>2, <1>3, <2>1, <2>2 DEF HandleFollows
<1> QED
  BY <1>4, <1>5, <1>6, <1>7, <1>8 DEF SecBootInv

LEMMA TryKeeps ==
  ASSUME SecBootInv, Try
  PROVE  SecBootInv'
<1>1. /\ SecBootTypes /\ RingIsSet /\ DelaysInOrder /\ JobsCounted /\ HandleFollows
      /\ secBoot.pc = "try" /\ secBoot \in SecCallState /\ secTried \in Seq(Int)
      /\ trng' = kick_trng(secBoot.delay)
      /\ secRing' = Append(secRing, "run") /\ secTried' = Append(secTried, secBoot.delay)
      /\ secBoot' = [secBoot EXCEPT !.pc = "poll", !.delay = secBoot.delay + 400]
      /\ secEngine' = secEngine /\ secRegs' = secRegs /\ handles' = handles
  BY DEF Try, SecAt, SecBootInv, SecBootTypes
<1>2. /\ secBoot.res = 1 /\ secBoot.job_ring = TRUE /\ secRing \in Seq(JobStates)
      /\ Len(secTried) \in 0..23 /\ Len(secRing) \in Nat /\ Len(secRing) <= secBoot.late /\ secBoot.late \in Nat
      /\ secBoot.delay \in Int /\ secBoot.delay = RTSDCTL_ENT_DLY_MIN + 400 * Len(secTried)
  <2>1. secBoot.res = 1 /\ secBoot.job_ring = TRUE
    BY <1>1 DEF RingIsSet, HandleFollows, SecCallState
  <2>2. secRing \in Seq(JobStates) /\ Len(secRing) \in Nat /\ Len(secTried) \in Nat
    BY <1>1, <2>1, LenProperties DEF SecBootTypes
  <2>3. Len(secTried) <= 23 /\ secBoot.delay = RTSDCTL_ENT_DLY_MIN + 400 * Len(secTried)
    BY <1>1 DEF DelaysInOrder
  <2>4. Len(secRing) <= secBoot.late
    BY <1>1 DEF JobsCounted
  <2>5. secBoot.late \in Nat /\ secBoot.delay \in Int
    BY <1>1 DEF SecCallState
  <2>6. Len(secTried) \in 0..23
    <3>1. PICK k \in Nat : k = Len(secTried)
      BY <2>2
    <3>2. k <= 23
      BY <2>3, <3>1
    <3>3. k \in 0..23
      BY <3>2
    <3> QED
      BY <3>1, <3>3
  <2> QED
    BY <2>1, <2>2, <2>3, <2>4, <2>5, <2>6, Zenon
<1>3. PICK n \in 0..23 : n = Len(secTried)
  BY <1>2
<1>4. PICK d \in Int : d = secBoot.delay
  BY <1>2
<1>5. /\ secTried' \in Seq(Int) /\ Len(secTried') = n + 1 /\ secTried'[n + 1] = d
      /\ \A i \in 1..n : secTried'[i] = secTried[i]
  BY <1>1, <1>3, <1>4, AppendProperties
<1>6. PICK m \in Nat : m = Len(secRing)
  BY <1>2
<1>7. /\ secRing' \in Seq(JobStates) /\ Len(secRing') = m + 1 /\ secRing'[m + 1] = "run"
      /\ \A i \in 1..m : secRing'[i] = secRing[i]
  <2>1. "run" \in JobStates
    BY DEF JobStates
  <2> QED
    BY <1>1, <1>2, <1>6, <2>1, AppendProperties
<1>8. /\ secBoot' \in SecCallState /\ secBoot'.pc = "poll" /\ secBoot'.delay = d + 400
      /\ secBoot'.job_ring = TRUE /\ secBoot'.late = secBoot.late /\ secBoot'.res = 1
  <2>1. PICK e \in Int : e = d + 400
    OBVIOUS
  <2>2. secBoot' = [secBoot EXCEPT !.pc = "poll", !.delay = e]
    BY <1>1, <1>4, <2>1
  <2>3. secBoot \in SecCallState /\ secBoot.job_ring = TRUE /\ secBoot.res = 1
    BY <1>1, <1>2
  <2>4. /\ secBoot' \in SecCallState /\ secBoot'.pc = "poll" /\ secBoot'.delay = e
        /\ secBoot'.job_ring = TRUE /\ secBoot'.late = secBoot.late /\ secBoot'.res = 1
    BY <2>2, <2>3 DEF SecCallState, SecPlaces
  <2> QED
    BY <2>1, <2>4
<1>9. /\ trng' \in [prgm : BOOLEAN, delay : Int, frqmin : Int, frqmax : {0, RTFRQMAX_DISABLE}, raw : BOOLEAN]
      /\ trng'.delay = d
  <2>1. PICK q \in Int : q = d \div 4
    OBVIOUS
  <2>2. trng' = [trng EXCEPT !.prgm = FALSE, !.delay = d, !.frqmin = q, !.frqmax = RTFRQMAX_DISABLE, !.raw = TRUE]
    BY <1>1, <1>4, <2>1 DEF kick_trng
  <2> QED
    BY <1>1, <2>2 DEF SecBootTypes
<1>10. SecBootTypes'
  BY <1>1, <1>5, <1>7, <1>8, <1>9 DEF SecBootTypes
<1>11. RingIsSet'
  BY <1>1, <1>8 DEF RingIsSet, Started
<1>12. DelaysInOrder'
  <2>1. \A i \in 1..n : secTried[i] = RTSDCTL_ENT_DLY_MIN + 400 * (i - 1)
    BY <1>1, <1>3 DEF DelaysInOrder
  <2>2. d = RTSDCTL_ENT_DLY_MIN + 400 * n
    BY <1>2, <1>3, <1>4
  <2>3. d = RTSDCTL_ENT_DLY_MIN + 400 * ((n + 1) - 1) /\ d + 400 = RTSDCTL_ENT_DLY_MIN + 400 * (n + 1)
    BY <2>2, SecNumbers
  <2>4. \A i \in 1..(n + 1) : secTried'[i] = RTSDCTL_ENT_DLY_MIN + 400 * (i - 1)
    <3> TAKE i \in 1..(n + 1)
    <3>1. CASE i = n + 1
      BY <1>5, <2>3, <3>1
    <3>2. CASE i \in 1..n
      BY <1>5, <2>1, <3>2
    <3> QED
      BY <3>1, <3>2
  <2> QED
    BY <1>5, <1>8, <2>3, <2>4 DEF DelaysInOrder
<1>13. JobsCounted'
  BY <1>2, <1>6, <1>7, <1>8 DEF JobsCounted
<1>14. HandleFollows'
  <2>1. ASSUME NEW i \in 1..Len(secRing'), secRing'[i] = "ok" PROVE 0 \in handles
    <3>1. \A j \in 1..m : secRing[j] = "ok" => 0 \in handles
      BY <1>1, <1>2, <1>6 DEF HandleFollows
    <3>2. i \in 1..m
      BY <1>7, <2>1
    <3> QED
      BY <1>7, <2>1, <3>1, <3>2
  <2>2. ASSUME secBoot.late = 0
        PROVE  /\ trng'.delay = secTried'[Len(secTried')] /\ Short(Len(secTried) - 1)'
               /\ secRing'[1] = "run" /\ 0 \notin handles
    <3>1. m = 0 /\ secRing'[1] = "run"
      BY <1>2, <1>6, <1>7, <2>2
    <3>2. 0 \notin handles /\ Short(n)
      BY <1>1, <1>3, <2>2 DEF HandleFollows
    <3>3. Short(Len(secTried) - 1)'
      <4>1. Len(secTried') - 1 = n
        BY <1>5
      <4>2. \A i \in 1..n : secTried'[i] < secEngine'.needs
        BY <1>1, <1>5, <3>2 DEF Short
      <4> QED
        BY <4>1, <4>2 DEF Short
    <3> QED
      BY <1>5, <1>9, <3>1, <3>2, <3>3
  <2> QED
    BY <1>1, <1>8, <2>1, <2>2 DEF HandleFollows
<1> QED
  BY <1>10, <1>11, <1>12, <1>13, <1>14 DEF SecBootInv

\* The end of a round: the next delay, or the answer.
LEMMA RoundEnds ==
  ASSUME SecBootInv, secBoot.pc = "poll", NEW ret \in {-1, 0}, NEW late \in Nat, Retry(ret, late)
  PROVE  /\ secBoot' \in SecCallState /\ secBoot'.job_ring = TRUE /\ secBoot'.late = late
         /\ secBoot'.delay = secBoot.delay
         /\ \/ secBoot'.pc = "try" /\ secBoot'.res = 1 /\ ret = -1 /\ Len(secTried) <= 23
            \/ secBoot'.pc = "end" /\ secBoot'.res = ret /\ (ret = -1 => Len(secTried) = 24)
<1>1. /\ secBoot \in SecCallState /\ secBoot.job_ring = TRUE /\ secBoot.res = 1 /\ Len(secTried) \in Nat
  BY LenProperties DEF SecBootInv, SecBootTypes, RingIsSet, HandleFollows, SecCallState
<1>2. Len(secTried) <= 24 /\ secBoot.delay = RTSDCTL_ENT_DLY_MIN + 400 * Len(secTried)
  BY DEF SecBootInv, DelaysInOrder
<1>3. secBoot.delay < RTSDCTL_ENT_DLY_MAX <=> Len(secTried) <= 23
  BY <1>1, <1>2, SecNumbers
<1>4. CASE ret = -1 /\ secBoot.delay < RTSDCTL_ENT_DLY_MAX
  <2>1. secBoot' = [secBoot EXCEPT !.pc = "try", !.late = late]
    BY <1>4 DEF Retry
  <2>2. Len(secTried) <= 23
    BY <1>3, <1>4
  <2> QED
    BY <1>1, <1>4, <2>1, <2>2 DEF SecCallState, SecPlaces
<1>5. CASE ~(ret = -1 /\ secBoot.delay < RTSDCTL_ENT_DLY_MAX)
  <2>1. secBoot' = [secBoot EXCEPT !.pc = "end", !.late = late, !.res = ret]
    BY <1>5 DEF Retry
  <2>2. ret = -1 => Len(secTried) = 24
    <3>1. PICK k \in Nat : k = Len(secTried)
      BY <1>1
    <3>2. k <= 24 /\ (ret = -1 => ~(k <= 23))
      BY <1>2, <1>3, <1>5, <3>1
    <3>3. ret = -1 => k = 24
      BY <3>2
    <3> QED
      BY <3>1, <3>3
  <2> QED
    BY <1>1, <2>1, <2>2 DEF SecCallState, SecPlaces
<1> QED
  BY <1>4, <1>5

LEMMA GiveUpKeeps ==
  ASSUME SecBootInv, GiveUp
  PROVE  SecBootInv'
<1>1. /\ SecBootTypes /\ RingIsSet /\ DelaysInOrder /\ JobsCounted /\ HandleFollows
      /\ secBoot.pc = "poll" /\ secBoot \in SecCallState /\ secBoot.job_ring = TRUE
      /\ Retry(-1, secBoot.late + 1) /\ secRing' = secRing /\ secTried' = secTried
      /\ secEngine' = secEngine /\ secRegs' = secRegs /\ trng' = trng /\ handles' = handles
  BY DEF GiveUp, SecAt, SecBootInv, SecBootTypes, RingIsSet, SecCallState
<1>2. PICK late \in Nat : late = secBoot.late + 1
  BY <1>1 DEF SecCallState
<1>3. /\ secBoot' \in SecCallState /\ secBoot'.job_ring = TRUE /\ secBoot'.late = late
      /\ secBoot'.delay = secBoot.delay
      /\ \/ secBoot'.pc = "try" /\ secBoot'.res = 1 /\ Len(secTried) <= 23
         \/ secBoot'.pc = "end" /\ secBoot'.res = -1 /\ Len(secTried) = 24
  BY <1>1, <1>2, RoundEnds
<1>4. late # 0 /\ secBoot.late \in Nat
  BY <1>1, <1>2 DEF SecCallState
<1>5. Len(secRing) <= late /\ Len(secRing) \in Nat
  <2>1. Len(secRing) <= secBoot.late + 1 /\ secRing \in Seq(JobStates)
    BY <1>1 DEF JobsCounted, SecBootTypes
  <2> QED
    BY <1>2, <2>1, LenProperties
<1>6. SecBootTypes'
  BY <1>1, <1>3 DEF SecBootTypes
<1>7. RingIsSet'
  BY <1>1, <1>3 DEF RingIsSet, Started
<1>8. DelaysInOrder'
  BY <1>1, <1>3 DEF DelaysInOrder
<1>9. JobsCounted'
  BY <1>1, <1>3, <1>5 DEF JobsCounted
<1>10. HandleFollows'
  BY <1>1, <1>3, <1>4 DEF HandleFollows
<1> QED
  BY <1>6, <1>7, <1>8, <1>9, <1>10 DEF SecBootInv

\* The jobs that run_descriptor_jr() takes: all that have ended, or up to the first error.
LEMMA PollTakes ==
  ASSUME secRing \in Seq(JobStates), Poll
  PROVE  \E taken \in 1..Len(secRing), ret \in {-1, 0} :
           /\ secRing' = SubSeq(secRing, taken + 1, Len(secRing))
           /\ Retry(ret, secBoot.late)
           /\ ret = 0 => \A i \in 1..taken : secRing[i] = "ok"
           /\ ret = -1 => secRing[taken] = "error"
<1> DEFINE Ended(n) == (\A i \in 1..n : secRing[i] # "run") /\ (n < Len(secRing) => secRing[n + 1] = "run")
           ended == CHOOSE n \in 1..Len(secRing) : Ended(n)
           bad   == {i \in 1..ended : secRing[i] = "error"}
           taken == IF bad = {} THEN ended ELSE CHOOSE i \in bad : \A j \in bad : i <= j
<1>1. /\ secRing # <<>> /\ secRing[1] # "run"
      /\ secRing' = SubSeq(secRing, taken + 1, Len(secRing))
      /\ Retry(IF bad = {} THEN 0 ELSE -1, secBoot.late)
  BY DEF Poll
<1>2. Len(secRing) \in Nat /\ Len(secRing) >= 1
  BY <1>1, LenProperties, EmptySeq
<1>3. \A i \in 1..Len(secRing) : secRing[i] \in JobStates
  BY ElementOfSeq
<1>4. \E n \in 1..Len(secRing) : Ended(n)
  <2> DEFINE running == {i \in 1..Len(secRing) : secRing[i] = "run"}
  <2>1. CASE running = {}
    <3>1. Ended(Len(secRing))
      BY <1>2, <2>1
    <3> QED
      BY <1>2, <3>1
  <2>2. CASE running # {}
    <3>1. running \subseteq Nat
      BY <1>2
    <3>2. PICK k \in running : \A j \in running : k <= j
      BY <2>2, <3>1, LeastNatural
    <3>3. k \in 1..Len(secRing) /\ secRing[k] = "run" /\ k # 1
      BY <1>1, <3>2
    <3>4. PICK n \in 1..Len(secRing) : n = k - 1
      BY <1>2, <3>3
    <3>5. n + 1 = k
      BY <3>3, <3>4
    <3>6. ASSUME NEW i \in 1..n PROVE secRing[i] # "run"
      <4>1. i \in 1..Len(secRing) /\ ~(k <= i)
        BY <1>2, <3>3, <3>4
      <4> QED
        BY <3>2, <4>1
    <3>7. Ended(n)
      BY <3>3, <3>5, <3>6
    <3> QED
      BY <3>7
  <2> QED
    BY <2>1, <2>2
<1>5. ended \in 1..Len(secRing) /\ Ended(ended)
  BY <1>4
<1> HIDE DEF ended
<1>6. CASE bad = {}
  <2>1. taken = ended
    BY <1>6
  <2>2. ASSUME NEW i \in 1..ended PROVE secRing[i] = "ok"
    <3>1. secRing[i] # "run" /\ secRing[i] # "error"
      BY <1>5, <1>6
    <3>2. i \in 1..Len(secRing)
      BY <1>2, <1>5
    <3> QED
      BY <1>3, <3>1, <3>2 DEF JobStates
  <2>3. Retry(0, secBoot.late)
    BY <1>1, <1>6
  <2>4. secRing' = SubSeq(secRing, ended + 1, Len(secRing))
    BY <1>1, <2>1
  <2> QED
    BY <1>5, <2>2, <2>3, <2>4
<1>7. CASE bad # {}
  <2>1. bad \subseteq Nat
    BY <1>2, <1>5
  <2>2. \E i \in bad : \A j \in bad : i <= j
    BY <1>7, <2>1, LeastNatural
  <2>3. taken \in bad
    BY <1>7, <2>2
  <2>4. PICK t : t = taken
    OBVIOUS
  <2>5. t \in 1..Len(secRing) /\ secRing[t] = "error"
    BY <1>2, <1>5, <2>3, <2>4
  <2>6. Retry(-1, secBoot.late)
    BY <1>1, <1>7
  <2>7. secRing' = SubSeq(secRing, t + 1, Len(secRing))
    BY <1>1, <2>4
  <2> QED
    BY <2>5, <2>6, <2>7
<1> QED
  BY <1>6, <1>7

LEMMA PollKeeps ==
  ASSUME SecBootInv, Poll
  PROVE  SecBootInv'
<1>1. /\ SecBootTypes /\ RingIsSet /\ DelaysInOrder /\ JobsCounted /\ HandleFollows
      /\ secBoot.pc = "poll" /\ secBoot \in SecCallState /\ secBoot.job_ring = TRUE /\ secTried' = secTried
      /\ secEngine' = secEngine /\ secRegs' = secRegs /\ trng' = trng /\ handles' = handles
      /\ secRing # <<>> /\ secRing[1] # "run"
  BY DEF Poll, SecAt, SecBootInv, SecBootTypes, RingIsSet, SecCallState
<1>2. secRing \in Seq(JobStates) /\ secBoot.late \in Nat
  BY <1>1 DEF SecBootTypes, SecCallState
<1>3. PICK taken \in 1..Len(secRing), ret \in {-1, 0} :
        /\ secRing' = SubSeq(secRing, taken + 1, Len(secRing))
        /\ Retry(ret, secBoot.late)
        /\ ret = 0 => \A i \in 1..taken : secRing[i] = "ok"
        /\ ret = -1 => secRing[taken] = "error"
  BY <1>2, PollTakes
<1>4. /\ secBoot' \in SecCallState /\ secBoot'.job_ring = TRUE /\ secBoot'.late = secBoot.late
      /\ secBoot'.delay = secBoot.delay
      /\ \/ secBoot'.pc = "try" /\ secBoot'.res = 1 /\ ret = -1 /\ Len(secTried) <= 23
         \/ secBoot'.pc = "end" /\ secBoot'.res = ret /\ (ret = -1 => Len(secTried) = 24)
  BY <1>1, <1>2, <1>3, RoundEnds
<1>5. PICK l \in Nat : l = Len(secRing)
  BY <1>2, LenProperties
<1>6. taken \in 1..l /\ taken \in Int /\ l \in Int
  BY <1>3, <1>5
<1>7. \A i \in (taken + 1)..l : secRing[i] \in JobStates
  <2>1. \A i \in 1..l : secRing[i] \in JobStates
    BY <1>2, <1>5, ElementOfSeq
  <2> QED
    BY <1>6, <2>1
<1>8. /\ secRing' \in Seq(JobStates)
      /\ Len(secRing') = IF taken + 1 <= l THEN l - (taken + 1) + 1 ELSE 0
      /\ \A i \in 1..(l - (taken + 1) + 1) : secRing'[i] = secRing[(taken + 1) + i - 1]
  <2>1. PICK t \in Int : t = taken + 1
    BY <1>6
  <2>2. secRing' = SubSeq(secRing, t, l)
    BY <1>3, <1>5, <2>1
  <2>3. \A i \in t..l : secRing[i] \in JobStates
    BY <1>7, <2>1
  <2>4. /\ SubSeq(secRing, t, l) \in Seq(JobStates)
        /\ Len(SubSeq(secRing, t, l)) = IF t <= l THEN l - t + 1 ELSE 0
        /\ \A i \in 1..(l - t + 1) : SubSeq(secRing, t, l)[i] = secRing[t + i - 1]
    BY <1>6, <2>3, SubSeqProperties
  <2> QED
    BY <2>1, <2>2, <2>4
<1>9. Len(secRing') = l - taken
  BY <1>6, <1>8
<1>10. \A i \in 1..Len(secRing') : secRing'[i] = secRing[taken + i] /\ taken + i \in 1..l
  <2> TAKE i \in 1..Len(secRing')
  <2>1. i \in 1..(l - taken) /\ i \in 1..(l - (taken + 1) + 1) /\ (taken + 1) + i - 1 = taken + i
    BY <1>6, <1>9
  <2> QED
    BY <1>6, <1>8, <2>1
<1>11. l <= secBoot.late + 1
  BY <1>1, <1>5 DEF JobsCounted
<1>12. Len(secRing') <= secBoot.late
  BY <1>2, <1>6, <1>9, <1>11
<1>13. SecBootTypes'
  BY <1>1, <1>4, <1>8 DEF SecBootTypes
<1>14. RingIsSet'
  BY <1>1, <1>4 DEF RingIsSet, Started
<1>15. DelaysInOrder'
  BY <1>1, <1>4 DEF DelaysInOrder
<1>16. JobsCounted'
  <2>1. Len(secRing') \in Nat /\ Len(secRing') <= secBoot.late + 1
    BY <1>2, <1>6, <1>9, <1>12
  <2> QED
    BY <1>4, <1>12, <2>1 DEF JobsCounted
<1>17. \A i \in 1..l : secRing[i] = "ok" => 0 \in handles
  BY <1>1, <1>5 DEF HandleFollows
<1>18. \A i \in 1..Len(secRing') : secRing'[i] = "ok" => 0 \in handles
  BY <1>10, <1>17
<1>19. ret = 0 => 0 \in handles
  <2>1. ret = 0 => secRing[1] = "ok"
    BY <1>3, <1>6
  <2> QED
    BY <1>6, <1>17, <2>1
<1>20. PICK n \in Nat : n = Len(secTried)
  BY <1>1, LenProperties DEF SecBootTypes
<1>21. n <= 24 /\ n >= 1 /\ \A i \in 1..n : secTried[i] \in Int
  BY <1>1, <1>20, ElementOfSeq DEF DelaysInOrder, SecBootTypes
<1>22. ASSUME secBoot.late = 0
       PROVE  /\ Short(n - 1)
              /\ ret = -1 => 0 \notin handles /\ Short(n)
              /\ ret = 0 => secEngine.needs <= secTried[n]
  <2>1. l = 1 /\ taken = 1
    BY <1>1, <1>5, <1>6, <1>22 DEF JobsCounted
  <2>2. /\ trng.delay = secTried[n] /\ Short(n - 1)
        /\ secRing[1] = "ok" => secEngine.needs <= trng.delay
        /\ secRing[1] = "error" => 0 \notin handles /\ trng.delay < secEngine.needs
    BY <1>1, <1>20, <1>22 DEF HandleFollows
  <2>3. ret = -1 => secRing[1] = "error"
    BY <1>3, <2>1
  <2>4. ret = 0 => secRing[1] = "ok"
    BY <1>3, <2>1
  <2>5. ret = -1 => Short(n)
    <3> SUFFICES ASSUME ret = -1 PROVE \A i \in 1..n : secTried[i] < secEngine.needs
      BY DEF Short
    <3> TAKE i \in 1..n
    <3>1. CASE i = n
      BY <2>2, <2>3, <3>1
    <3>2. CASE i \in 1..(n - 1)
      BY <2>2, <3>2 DEF Short
    <3> QED
      BY <1>21, <3>1, <3>2
  <2> QED
    BY <2>2, <2>3, <2>4, <2>5
<1>23. HandleFollows'
  <2>1. Len(secTried') = n
    BY <1>1, <1>20
  <2>2. \A k : Short(k) => \A i \in 1..k : secTried'[i] < secEngine'.needs
    BY <1>1 DEF Short
  <2>3. CASE secBoot'.pc = "try" /\ secBoot'.res = 1 /\ ret = -1
    <3>1. secBoot.late = 0 => 0 \notin handles /\ Short(Len(secTried))'
      <4>1. secBoot.late = 0 => \A i \in 1..n : secTried'[i] < secEngine'.needs
        BY <1>22, <2>2, <2>3
      <4> QED
        BY <1>22, <2>1, <2>3, <4>1 DEF Short
    <3> QED
      BY <1>1, <1>4, <1>18, <2>3, <3>1 DEF HandleFollows
  <2>4. CASE secBoot'.pc = "end" /\ secBoot'.res = -1 /\ ret = -1 /\ Len(secTried) = 24
    <3>1. secBoot.late = 0 => Short(24)'
      <4>1. n = 24
        BY <1>20, <2>4
      <4>2. secBoot.late = 0 => \A i \in 1..24 : secTried'[i] < secEngine'.needs
        BY <1>22, <2>2, <2>4, <4>1
      <4> QED
        BY <4>2 DEF Short
    <3> QED
      BY <1>1, <1>4, <1>18, <2>4, <3>1 DEF HandleFollows
  <2>5. CASE secBoot'.pc = "end" /\ secBoot'.res = 0 /\ ret = 0
    <3>1. secBoot.late = 0 => secEngine'.needs <= secTried'[Len(secTried')] /\ Short(Len(secTried) - 1)'
      <4>1. secBoot.late = 0 => \A i \in 1..(n - 1) : secTried'[i] < secEngine'.needs
        BY <1>22, <2>2
      <4> QED
        BY <1>1, <1>22, <2>1, <2>5, <4>1 DEF Short
    <3> QED
      BY <1>1, <1>4, <1>18, <1>19, <2>5, <3>1 DEF HandleFollows
  <2> QED
    BY <1>3, <1>4, <2>3, <2>4, <2>5
<1> QED
  BY <1>13, <1>14, <1>15, <1>16, <1>23 DEF SecBootInv

LEMMA SecRunsKeeps ==
  ASSUME SecBootInv, SecRuns
  PROVE  SecBootInv'
<1>1. /\ SecBootTypes /\ RingIsSet /\ DelaysInOrder /\ JobsCounted /\ HandleFollows
      /\ secBoot.pc \in {"try", "poll"} /\ secBoot \in SecCallState /\ secBoot.job_ring = TRUE
      /\ secTried' = secTried /\ secEngine' = secEngine /\ secRegs' = secRegs /\ trng' = trng /\ secBoot' = secBoot
  BY DEF SecRuns, SecAt, SecBootInv, SecBootTypes, RingIsSet, SecCallState
<1>2. /\ secRing \in Seq(JobStates) /\ secEngine.needs \in Int /\ trng.delay \in Int
      /\ secBoot.res = 1
  BY <1>1, SecBootAssumption DEF SecBootTypes, HandleFollows
<1>3. PICK good \in BOOLEAN, n \in 1..Len(secRing) :
        /\ good <=> trng.delay >= secEngine.needs /\ 0 \notin handles
        /\ secRing[n] = "run"
        /\ secRing' = [secRing EXCEPT ![n] = IF good THEN "ok" ELSE "error"]
        /\ handles' = IF good THEN handles \cup {0} ELSE handles
  BY DEF SecRuns
<1>4. PICK end \in JobStates : end = IF good THEN "ok" ELSE "error"
  BY DEF JobStates
<1>5. secRing' = [secRing EXCEPT ![n] = end]
  BY <1>3, <1>4
<1>6. /\ secRing' \in Seq(JobStates) /\ Len(secRing') = Len(secRing)
      /\ \A j \in 1..Len(secRing) : secRing'[j] = IF j = n THEN end ELSE secRing[j]
  BY <1>2, <1>5, ExceptSeq
<1>7. PICK l \in Nat : l = Len(secRing)
  BY <1>2, LenProperties
<1>8. SecBootTypes'
  BY <1>1, <1>6 DEF SecBootTypes
<1>9. RingIsSet'
  BY <1>1 DEF RingIsSet, Started
<1>10. DelaysInOrder'
  BY <1>1 DEF DelaysInOrder
<1>11. JobsCounted'
  BY <1>1, <1>6 DEF JobsCounted
<1>12. ASSUME NEW j \in 1..Len(secRing'), secRing'[j] = "ok" PROVE 0 \in handles'
  <2>1. j \in 1..Len(secRing)
    BY <1>6
  <2>2. CASE j = n
    <3>1. good
      BY <1>4, <1>6, <1>12, <2>1, <2>2
    <3> QED
      BY <1>3, <3>1
  <2>3. CASE j # n
    <3>1. secRing[j] = "ok"
      BY <1>6, <1>12, <2>1, <2>3
    <3>2. 0 \in handles
      BY <1>1, <2>1, <3>1 DEF HandleFollows
    <3> QED
      BY <1>3, <3>2
  <2> QED
    BY <2>2, <2>3
<1>13. ASSUME secBoot.pc = "try", secBoot.late = 0 PROVE FALSE
  <2>1. l <= 0
    BY <1>1, <1>7, <1>13 DEF JobsCounted
  <2>2. n \in 1..l
    BY <1>3, <1>7
  <2> QED
    BY <2>1, <2>2
<1>14. ASSUME secBoot.pc = "poll", secBoot.late = 0
       PROVE  /\ trng.delay = secTried[Len(secTried)] /\ Short(Len(secTried) - 1)
              /\ secRing'[1] = "run" => 0 \notin handles'
              /\ secRing'[1] = "ok" => secEngine.needs <= trng.delay
              /\ secRing'[1] = "error" => 0 \notin handles' /\ trng.delay < secEngine.needs
  <2>1. l = 1 /\ n \in 1..l
    BY <1>1, <1>3, <1>7, <1>14 DEF JobsCounted
  <2>2. n = 1
    BY <2>1
  <2>3. secRing'[1] = end
    BY <1>6, <1>7, <2>1, <2>2
  <2>4. trng.delay = secTried[Len(secTried)] /\ Short(Len(secTried) - 1) /\ 0 \notin handles
    BY <1>1, <1>3, <1>14, <2>2 DEF HandleFollows
  <2>5. CASE good
    <3>1. secEngine.needs <= trng.delay
      BY <1>2, <1>3, <2>5
    <3> QED
      BY <1>4, <2>3, <2>4, <2>5, <3>1
  <2>6. CASE ~good
    <3>1. ~(trng.delay >= secEngine.needs)
      BY <1>3, <2>4, <2>6
    <3>2. trng.delay < secEngine.needs /\ handles' = handles
      BY <1>2, <1>3, <2>6, <3>1
    <3> QED
      BY <1>4, <2>3, <2>4, <2>6, <3>2
  <2> QED
    BY <2>5, <2>6
<1>15. Short(Len(secTried) - 1) => Short(Len(secTried) - 1)'
  BY <1>1 DEF Short
<1>16. HandleFollows'
  <2>1. CASE secBoot.pc = "try"
    BY <1>1, <1>2, <1>12, <1>13, <2>1 DEF HandleFollows
  <2>2. CASE secBoot.pc = "poll"
    BY <1>1, <1>2, <1>12, <1>14, <1>15, <2>2 DEF HandleFollows
  <2> QED
    BY <1>1, <2>1, <2>2
<1> QED
  BY <1>8, <1>9, <1>10, <1>11, <1>16 DEF SecBootInv

LEMMA SecBootKeeps == SecBootInv /\ [SecBootNext]_secBootVars => SecBootInv'
<1> SUFFICES ASSUME SecBootInv, [SecBootNext]_secBootVars PROVE SecBootInv'
  OBVIOUS
<1>1. CASE ConfigureJr
  BY <1>1, ConfigureJrKeeps
<1>2. CASE PollRing
  BY <1>2, PollRingKeeps
<1>3. CASE Flushed
  BY <1>3, FlushedKeeps
<1>4. CASE Configure
  BY <1>4, ConfigureKeeps
<1>5. CASE HwRngInstantiate
  BY <1>5, HwRngInstantiateKeeps
<1>6. CASE Try
  BY <1>6, TryKeeps
<1>7. CASE Poll
  BY <1>7, PollKeeps
<1>8. CASE GiveUp
  BY <1>8, GiveUpKeeps
<1>9. CASE SecRuns
  BY <1>9, SecRunsKeeps
<1>10. CASE UNCHANGED secBootVars
  <2>1. /\ secEngine' = secEngine /\ secRegs' = secRegs /\ trng' = trng /\ handles' = handles
        /\ secRing' = secRing /\ secBoot' = secBoot /\ secTried' = secTried
    BY <1>10 DEF secBootVars
  <2> QED
    BY <2>1 DEF SecBootInv, SecBootTypes, RingIsSet, Started, DelaysInOrder, JobsCounted, HandleFollows, Short
<1> QED
  BY <1>1, <1>2, <1>3, <1>4, <1>5, <1>6, <1>7, <1>8, <1>9, <1>10 DEF SecBootNext

\* The delays tried are the first ones of the loop of hw_rng_instantiate().
LEMMA TriedInOrder ==
  ASSUME SecBootInv
  PROVE  /\ secTried = SubSeq(Delays, 1, Len(secTried))
         /\ Len(secTried) = 24 => secTried = Delays
<1>1. secTried \in Seq(Int) /\ Len(secTried) \in Nat
  BY LenProperties DEF SecBootInv, SecBootTypes
<1>2. PICK n \in Nat : n = Len(secTried)
  BY <1>1
<1>3. n <= 24 /\ \A i \in 1..n : secTried[i] = RTSDCTL_ENT_DLY_MIN + 400 * (i - 1)
  BY <1>2 DEF SecBootInv, DelaysInOrder
<1>4. /\ Delays \in Seq(Int) /\ Len(Delays) = 24
  BY SecNumbers DEF Delays
<1>a. \A i \in 1..n : Delays[i] \in Int /\ secTried[i] = Delays[i]
  <2> TAKE i \in 1..n
  <2>1. i \in 1..24
    BY <1>3
  <2>2. Delays[i] = RTSDCTL_ENT_DLY_MIN + 400 * (i - 1)
    BY <2>1 DEF Delays
  <2>3. secTried[i] = RTSDCTL_ENT_DLY_MIN + 400 * (i - 1)
    BY <1>3
  <2>4. secTried[i] = Delays[i]
    BY <2>2, <2>3
  <2>5. secTried[i] \in Int
    BY <1>1, <1>2, ElementOfSeq
  <2> QED
    BY <2>4, <2>5
<1>5. /\ SubSeq(Delays, 1, n) \in Seq(Int)
      /\ Len(SubSeq(Delays, 1, n)) = IF 1 <= n THEN n - 1 + 1 ELSE 0
      /\ \A i \in 1..(n - 1 + 1) : SubSeq(Delays, 1, n)[i] = Delays[1 + i - 1]
  <2>1. \A i \in 1..n : Delays[i] \in Int
    BY <1>a
  <2>2. 1 \in Int /\ n \in Int
    OBVIOUS
  <2> HIDE DEF Delays
  <2> QED
    BY <2>1, <2>2, SubSeqProperties
<1>6. Len(SubSeq(Delays, 1, n)) = n
  BY <1>5
<1>7. \A i \in 1..n : secTried[i] = SubSeq(Delays, 1, n)[i]
  <2> TAKE i \in 1..n
  <2>1. i \in 1..(n - 1 + 1) /\ 1 + i - 1 = i /\ i \in 1..24
    BY <1>3
  <2> QED
    BY <1>a, <1>5, <2>1
<1>8. secTried = SubSeq(Delays, 1, n)
  BY <1>1, <1>2, <1>5, <1>6, <1>7, SeqEqual
<1>9. ASSUME n = 24 PROVE secTried = Delays
  <2>1. \A i \in 1..n : secTried[i] = Delays[i]
    BY <1>a
  <2> QED
    BY <1>1, <1>2, <1>4, <1>9, <2>1, SeqEqual
<1> QED
  BY <1>2, <1>8, <1>9

\* sec_init() and hw_rng_instantiate() of drivers/fsl_sec, for every engine and any number of polls and
\* of jobs given up: a job is in the ring, and sec_init() succeeds, only with a ring that is emptied,
\* started and secure; success means that handle 0 is instantiated, and failure that all 24 delays are
\* tried and either none was enough or a job was given up; with none given up the least one is taken.
THEOREM EngineIsReady == SecBootSpec => []SecIsReady
<1>1. SecBootInv => SecIsReady
  <2> SUFFICES ASSUME SecBootInv PROVE SecIsReady
    OBVIOUS
  <2>1. /\ SecBootTypes /\ RingIsSet /\ DelaysInOrder /\ JobsCounted /\ HandleFollows /\ secBoot \in SecCallState
    BY DEF SecBootInv, SecBootTypes
  <2>2. secTried = SubSeq(Delays, 1, Len(secTried)) /\ (Len(secTried) = 24 => secTried = Delays)
    BY TriedInOrder
  <2>3. secTried # <<>> \/ secBoot.res = 0 => secBoot.job_ring = TRUE /\ secBoot.pc \in {"rng", "try", "poll", "end"}
    BY <2>1 DEF RingIsSet, SecCallState, SecPlaces
  <2>4. secBoot.job_ring => Len(secRing) <= secBoot.late + 1
    <3> SUFFICES ASSUME secBoot.job_ring PROVE Len(secRing) <= secBoot.late + 1
      OBVIOUS
    <3>1. secBoot.late \in Nat /\ secBoot.pc \in {"rng", "try", "poll", "end"} /\ secRing \in Seq(JobStates)
      BY <2>1 DEF RingIsSet, SecBootTypes, SecCallState, SecPlaces
    <3>2. PICK l \in Nat : l = Len(secRing)
      BY <3>1, LenProperties
    <3>3. secBoot.pc = "rng" => l = 0
      BY <2>1, <3>2 DEF JobsCounted
    <3>4. secBoot.pc = "try" => l <= secBoot.late
      BY <2>1, <3>2 DEF JobsCounted
    <3>5. secBoot.pc \in {"poll", "end"} => l <= secBoot.late + 1
      BY <2>1, <3>2 DEF JobsCounted
    <3> QED
      BY <3>1, <3>2, <3>3, <3>4, <3>5
  <2>5. secTried # <<>> \/ secBoot.res = 0 =>
          /\ secBoot.job_ring /\ secRegs.ring = "started" /\ DEFAULT_JR \in secRegs.tz
          /\ Started(secEngine) => DEFAULT_JR \in secRegs.start
          /\ Len(secRing) <= secBoot.late + 1
    BY <2>1, <2>3, <2>4 DEF RingIsSet
  <2>6. secBoot.res = 0 => 0 \in handles
    BY <2>1 DEF HandleFollows
  <2>7. ASSUME secTried # <<>>, secBoot.res = -1
        PROVE  secTried = Delays /\ (secEngine.needs <= Delays[24] => secBoot.late > 0)
    <3>1. secBoot.pc = "end"
      BY <2>1, <2>7 DEF HandleFollows
    <3>2. Len(secTried) = 24 /\ (secBoot.late = 0 => Short(24))
      BY <2>1, <2>7, <3>1 DEF HandleFollows
    <3>3. secTried = Delays
      BY <2>2, <3>2
    <3>4. secEngine.needs \in Int /\ secBoot.late \in Nat
      BY <2>1, SecBootAssumption DEF SecBootTypes, SecCallState
    <3>5. 24 \in 1..Len(secTried)
      BY <3>2
    <3>6. secTried[24] \in Int
      BY <2>1, <3>5, ElementOfSeq DEF SecBootTypes
    <3>7. secBoot.late = 0 => secTried[24] < secEngine.needs
      <4>1. 24 \in 1..24
        OBVIOUS
      <4> QED
        BY <3>2, <4>1 DEF Short
    <3>8. ASSUME NEW d \in Int, d = secTried[24] PROVE secEngine.needs <= d => secBoot.late > 0
      BY <3>4, <3>7, <3>8
    <3> QED
      BY <3>3, <3>6, <3>8
  <2>8. ASSUME secTried # <<>>, secBoot.res = 0, secBoot.late = 0
        PROVE  /\ secEngine.needs <= secTried[Len(secTried)]
               /\ \A i \in 1..(Len(secTried) - 1) : secTried[i] < secEngine.needs
    <3>1. secBoot.pc = "end"
      BY <2>1, <2>8 DEF HandleFollows
    <3> QED
      BY <2>1, <2>8, <3>1 DEF HandleFollows, Short
  <2> QED
    BY <2>2, <2>5, <2>6, <2>7, <2>8 DEF SecIsReady
<1> QED
  BY <1>1, SecBootStarts, SecBootKeeps, PTL DEF SecBootSpec

-----------------------------------------------------------------------------
(* The memory of the SEC driver (SecMemory), for any heap.                 *)

\* A block of the heap lies behind those that were handed out before it.
Block(at, size) == [at |-> at, size |-> size]
Apart(block, other) == block.at + block.size <= other.at \/ other.at + other.size <= block.at
HeapFollows ==
  /\ heap \in [start : Nat, begin : {HeapAddr}, end : Nat]
  /\ heap.start >= HeapAddr
  /\ secBlocks \subseteq [at : Nat, size : Nat \ {0}]
  /\ \A block \in secBlocks :
       /\ HeapAddr <= block.at /\ block.at % 4 = 0
       /\ block.at + block.size <= heap.start /\ block.at + block.size < heap.end
  /\ \A block, other \in secBlocks : block # other => Apart(block, other)

\* A buffer of a call, or of a static pointer, is a block of the size that was asked for; only the
\* rings may be missing.
StaticSize(kind) == IF kind = "rand_byte" THEN 4 ELSE 17
JobFollows ==
  /\ secJob \in [kind : {"none", "ring", "instantiate", "rng", "key"}, step : Nat, at : Seq(Int)]
  /\ secJob.kind # "none" =>
       secJob.step = Len(secJob.at) + 1 /\ Len(secJob.at) <= Len(Buffers[secJob.kind])
  /\ secJob.kind \in {"instantiate", "rng", "key"} =>
       \A n \in 1..Len(secJob.at) : Block(secJob.at[n], Buffers[secJob.kind][n].size) \in secBlocks
PointersFollow ==
  /\ jobdesc \in [StaticKinds -> Int]
  /\ \A kind \in StaticKinds : jobdesc[kind] # NULL => Block(jobdesc[kind], StaticSize(kind)) \in secBlocks

\* The words of a descriptor up to its length.
Begins(d, words) ==
  /\ DOMAIN d.word = 0..63
  /\ d.len = Len(words)
  /\ \A n \in 1..Len(words) : d.word[n - 1] = words[n]

InstantiateWords ==
  <<<<"header", 0>>, <<"instantiate", 0>>, <<"wait", 0>>, <<"clear_written", 0>>, <<"clear_mode", 0>>,
    <<"secure_keys", 0>>>>
RngWords(out) == <<<<"header", 0>>, <<"generate", 0>>, <<"store", 1>>, <<"high", out>>, <<"low", out>>>>
KeyWords(key, in, out) ==
  <<<<"header", 0>>, <<"key", 1>>, <<"high", key>>, <<"low", key>>,
    <<"in", 0>>, <<"high", in>>, <<"low", in>>, <<"length", 1>>,
    <<"out", 0>>, <<"high", out>>, <<"low", out>>, <<"length", 4>>, <<"operation", 0>>>>

\* A descriptor is one of the three, in a block of its size, and points to blocks of other sizes.
Whole(blocks, b, d) ==
  /\ Block(b, 17) \in blocks
  /\ \/ Begins(d, InstantiateWords)
     \/ \E out \in Int : Block(out, 4) \in blocks /\ Begins(d, RngWords(out))
     \/ \E key, in, out \in Int :
          /\ Block(key, 1) \in blocks /\ Block(in, 1) \in blocks /\ Block(out, 4) \in blocks
          /\ Begins(d, KeyWords(key, in, out))
DescriptorsFollow == \A b \in DOMAIN desc : Whole(secBlocks, b, desc[b])

SecMemInv ==
  HeapFollows /\ JobFollows /\ PointersFollow /\ DescriptorsFollow

-----------------------------------------------------------------------------
\* Where the next block goes.
LEMMA NextBlock ==
  ASSUME HeapFollows, NEW size \in Nat \ {0}
  PROVE  \/ New(size) = NULL
         \/ /\ New(size) \in Nat /\ New(size) # NULL /\ New(size) >= heap.start /\ New(size) % 4 = 0
            /\ New(size) + size < heap.end
<1>1. heap.start \in Nat /\ heap.end \in Nat
  BY DEF HeapFollows
<1>2. Align(heap.start) \in Nat /\ Align(heap.start) >= heap.start /\ Align(heap.start) % 4 = 0
  BY <1>1 DEF Align
<1> QED
  BY <1>1, <1>2 DEF New, NULL

LEMMA AllocKeepsHeap ==
  ASSUME HeapFollows, NEW size \in Nat \ {0}, __alloc(size)
  PROVE  /\ HeapFollows' /\ secBlocks \subseteq secBlocks'
         /\ New(size) # NULL => Block(New(size), size) \in secBlocks'
<1>1. CASE New(size) = NULL
  BY <1>1 DEF __alloc, HeapFollows
<1>2. CASE New(size) # NULL
  <2> DEFINE new == New(size)
  <2>1. /\ new \in Nat /\ new >= heap.start /\ new % 4 = 0 /\ new + size < heap.end
    BY <1>2, NextBlock
  <2>2. /\ heap' = [heap EXCEPT !.start = new + size]
        /\ secBlocks' = secBlocks \cup {Block(new, size)}
    BY <1>2 DEF __alloc, Block
  <2> HIDE DEF new
  <2>3. /\ heap' \in [start : Nat, begin : {HeapAddr}, end : Nat]
        /\ heap'.start = new + size /\ heap'.end = heap.end
    BY <2>1, <2>2 DEF HeapFollows
  <2>4. heap.start \in Nat /\ heap.start >= HeapAddr /\ HeapAddr \in Nat
    BY DEF HeapFollows, HeapAddr
  <2>5. Block(new, size) \in [at : Nat, size : Nat \ {0}] /\ Block(new, size).at = new /\ Block(new, size).size = size
    BY <2>1 DEF Block
  <2>6. secBlocks' \subseteq [at : Nat, size : Nat \ {0}]
    BY <2>2, <2>5 DEF HeapFollows
  <2>7. ASSUME NEW block \in secBlocks
        PROVE  /\ block.at \in Nat /\ block.size \in Nat
               /\ HeapAddr <= block.at /\ block.at % 4 = 0
               /\ block.at + block.size <= heap.start /\ block.at + block.size < heap.end
    BY DEF HeapFollows
  <2>8. \A block \in secBlocks' :
          /\ HeapAddr <= block.at /\ block.at % 4 = 0
          /\ block.at + block.size <= heap'.start /\ block.at + block.size < heap'.end
    <3> SUFFICES ASSUME NEW block \in secBlocks'
                 PROVE  /\ HeapAddr <= block.at /\ block.at % 4 = 0
                        /\ block.at + block.size <= heap'.start /\ block.at + block.size < heap'.end
      OBVIOUS
    <3>1. CASE block \in secBlocks
      <4>1. heap.start <= heap'.start
        BY <2>1, <2>3, <2>4
      <4> QED
        BY <2>3, <2>4, <2>7, <3>1, <4>1
    <3>2. CASE block = Block(new, size)
      BY <2>1, <2>3, <2>4, <2>5, <3>2
    <3> QED
      BY <2>2, <3>1, <3>2
  <2>9. \A block \in secBlocks : Apart(block, Block(new, size)) /\ Apart(Block(new, size), block)
    BY <2>1, <2>4, <2>5, <2>7 DEF Apart
  <2>10. \A block, other \in secBlocks' : block # other => Apart(block, other)
    BY <2>2, <2>9 DEF HeapFollows
  <2>11. heap'.start >= HeapAddr
    BY <2>1, <2>3, <2>4
  <2> QED
    BY <2>2, <2>3, <2>6, <2>8, <2>10, <2>11 DEF HeapFollows, new
<1> QED
  BY <1>1, <1>2

\* Blocks that are in the heap stay there, so what was said of the pointers and descriptors remains true.
LEMMA PointersStay ==
  ASSUME PointersFollow, secBlocks \subseteq secBlocks', UNCHANGED jobdesc
  PROVE  PointersFollow'
BY DEF PointersFollow, Block, StaticSize

LEMMA DescriptorsStay ==
  ASSUME DescriptorsFollow, secBlocks \subseteq secBlocks', UNCHANGED desc
  PROVE  DescriptorsFollow'
<1>1. ASSUME NEW b, NEW d, Whole(secBlocks, b, d)
      PROVE  Whole(secBlocks', b, d)
  BY <1>1, Zenon DEF Whole
<1> QED
  BY <1>1 DEF DescriptorsFollow

-----------------------------------------------------------------------------
\* The constructors of descriptors add a word, or the two of a pointer, behind those that are there.
LEMMA DescriptorCleared ==
  ASSUME NEW d, DOMAIN d.word = 0..63
  PROVE  DOMAIN desc_init(d).word = 0..63 /\ desc_init(d).len = 0
BY DEF desc_init

LEMMA WordAdded ==
  ASSUME NEW d, DOMAIN d.word = 0..63, d.len \in 0..60, NEW word
  PROVE  /\ DOMAIN desc_add_word(d, word).word = 0..63
         /\ desc_add_word(d, word).len = d.len + 1
         /\ desc_add_word(d, word).word[d.len] = word
         /\ \A i \in 0..(d.len - 1) : desc_add_word(d, word).word[i] = d.word[i]
BY DEF desc_add_word, DESC_LEN_MASK

LEMMA PointerAdded ==
  ASSUME NEW d, DOMAIN d.word = 0..63, d.len \in 0..60, NEW ptr
  PROVE  /\ DOMAIN desc_add_ptr(d, ptr).word = 0..63
         /\ desc_add_ptr(d, ptr).len = d.len + 2
         /\ desc_add_ptr(d, ptr).word[d.len] = <<"high", ptr>>
         /\ desc_add_ptr(d, ptr).word[d.len + 1] = <<"low", ptr>>
         /\ \A i \in 0..(d.len - 1) : desc_add_ptr(d, ptr).word[i] = d.word[i]
<1> DEFINE high == [d.word EXCEPT ![d.len] = <<"high", ptr>>]
           both == [high EXCEPT ![d.len + 1] = <<"low", ptr>>]
<1>1. desc_add_ptr(d, ptr) = [len |-> d.len + 2, word |-> both]
  BY DEF desc_add_ptr, DESC_LEN_MASK
<1>2. DOMAIN high = 0..63 /\ high[d.len] = <<"high", ptr>> /\ \A i \in 0..(d.len - 1) : high[i] = d.word[i]
  OBVIOUS
<1> HIDE DEF high
<1>3. /\ DOMAIN both = 0..63 /\ both[d.len + 1] = <<"low", ptr>>
      /\ \A i \in 0..d.len : both[i] = high[i]
  BY <1>2
<1> HIDE DEF both
<1>4. /\ desc_add_ptr(d, ptr).len = d.len + 2 /\ desc_add_ptr(d, ptr).word = both
  BY <1>1
<1> QED
  BY <1>2, <1>3, <1>4

LEMMA InstantiateBuilt ==
  ASSUME NEW d, DOMAIN d.word = 0..63
  PROVE  Begins(cnstr_rng_instantiate_jobdesc(d), InstantiateWords)
<1> DEFINE d0 == desc_init(d)
           d1 == desc_add_word(d0, Word("header"))
           d2 == desc_add_word(d1, Word("instantiate"))
           d3 == desc_add_word(d2, Word("wait"))
           d4 == desc_add_word(d3, Word("clear_written"))
           d5 == desc_add_word(d4, Word("clear_mode"))
           d6 == desc_add_word(d5, Word("secure_keys"))
<1>1. cnstr_rng_instantiate_jobdesc(d) = d6
  BY DEF cnstr_rng_instantiate_jobdesc
<1>2. DOMAIN d0.word = 0..63 /\ d0.len = 0
  BY DescriptorCleared
<1> HIDE DEF d0
<1>3. DOMAIN d1.word = 0..63 /\ d1.len = 1 /\ d1.word[0] = Word("header")
  BY <1>2, WordAdded
<1> HIDE DEF d1
<1>4. DOMAIN d2.word = 0..63 /\ d2.len = 2 /\ d2.word[1] = Word("instantiate") /\ d2.word[0] = d1.word[0]
  BY <1>3, WordAdded
<1> HIDE DEF d2
<1>5. /\ DOMAIN d3.word = 0..63 /\ d3.len = 3 /\ d3.word[2] = Word("wait")
      /\ \A i \in 0..1 : d3.word[i] = d2.word[i]
  BY <1>4, WordAdded
<1> HIDE DEF d3
<1>6. /\ DOMAIN d4.word = 0..63 /\ d4.len = 4 /\ d4.word[3] = Word("clear_written")
      /\ \A i \in 0..2 : d4.word[i] = d3.word[i]
  BY <1>5, WordAdded
<1> HIDE DEF d4
<1>7. /\ DOMAIN d5.word = 0..63 /\ d5.len = 5 /\ d5.word[4] = Word("clear_mode")
      /\ \A i \in 0..3 : d5.word[i] = d4.word[i]
  BY <1>6, WordAdded
<1> HIDE DEF d5
<1>8. /\ DOMAIN d6.word = 0..63 /\ d6.len = 6 /\ d6.word[5] = Word("secure_keys")
      /\ \A i \in 0..4 : d6.word[i] = d5.word[i]
  BY <1>7, WordAdded
<1> HIDE DEF d6
<1>9. /\ d6.word[0] = Word("header") /\ d6.word[1] = Word("instantiate") /\ d6.word[2] = Word("wait")
      /\ d6.word[3] = Word("clear_written") /\ d6.word[4] = Word("clear_mode")
  BY <1>3, <1>4, <1>5, <1>6, <1>7, <1>8
<1> QED
  BY <1>1, <1>8, <1>9 DEF Begins, InstantiateWords, Word

LEMMA RngBuilt ==
  ASSUME NEW d, DOMAIN d.word = 0..63, NEW out
  PROVE  Begins(cnstr_rng_jobdesc(d, out), RngWords(out))
<1> DEFINE d0 == desc_init(d)
           d1 == desc_add_word(d0, Word("header"))
           d2 == desc_add_word(d1, Word("generate"))
           d3 == desc_add_word(d2, <<"store", 1>>)
           d4 == desc_add_ptr(d3, out)
<1>1. cnstr_rng_jobdesc(d, out) = d4
  BY DEF cnstr_rng_jobdesc
<1>2. DOMAIN d0.word = 0..63 /\ d0.len = 0
  BY DescriptorCleared
<1> HIDE DEF d0
<1>3. DOMAIN d1.word = 0..63 /\ d1.len = 1 /\ d1.word[0] = Word("header")
  BY <1>2, WordAdded
<1> HIDE DEF d1
<1>4. DOMAIN d2.word = 0..63 /\ d2.len = 2 /\ d2.word[1] = Word("generate") /\ d2.word[0] = d1.word[0]
  BY <1>3, WordAdded
<1> HIDE DEF d2
<1>5. /\ DOMAIN d3.word = 0..63 /\ d3.len = 3 /\ d3.word[2] = <<"store", 1>>
      /\ \A i \in 0..1 : d3.word[i] = d2.word[i]
  BY <1>4, WordAdded
<1> HIDE DEF d3
<1>6. /\ DOMAIN d4.word = 0..63 /\ d4.len = 5 /\ d4.word[3] = <<"high", out>> /\ d4.word[4] = <<"low", out>>
      /\ \A i \in 0..2 : d4.word[i] = d3.word[i]
  BY <1>5, PointerAdded
<1> HIDE DEF d4
<1>7. d4.word[0] = Word("header") /\ d4.word[1] = Word("generate") /\ d4.word[2] = <<"store", 1>>
  BY <1>3, <1>4, <1>5, <1>6
<1> QED
  BY <1>1, <1>6, <1>7 DEF Begins, RngWords, Word

LEMMA KeyWordsAre ==
  ASSUME NEW key, NEW in, NEW out, NEW k, k = KeyWords(key, in, out)
  PROVE  /\ Len(k) = 13
         /\ k[1] = <<"header", 0>> /\ k[2] = <<"key", 1>> /\ k[3] = <<"high", key>> /\ k[4] = <<"low", key>>
         /\ k[5] = <<"in", 0>> /\ k[6] = <<"high", in>> /\ k[7] = <<"low", in>> /\ k[8] = <<"length", 1>>
         /\ k[9] = <<"out", 0>> /\ k[10] = <<"high", out>> /\ k[11] = <<"low", out>>
         /\ k[12] = <<"length", 4>> /\ k[13] = <<"operation", 0>>
BY DEF KeyWords

LEMMA KeyBuilt ==
  ASSUME NEW d, DOMAIN d.word = 0..63, NEW key, NEW in, NEW out
  PROVE  Begins(cnstr_hw_encap_blob_jobdesc(d, key, in, out), KeyWords(key, in, out))
<1> DEFINE d0 == desc_init(d)
           d1 == desc_add_word(d0, Word("header"))
           d2 == desc_add_word(d1, <<"key", 1>>)
           d3 == desc_add_ptr(d2, key)
           d4 == desc_add_word(d3, Word("in"))
           d5 == desc_add_ptr(d4, in)
           d6 == desc_add_word(d5, <<"length", 1>>)
           d7 == desc_add_word(d6, Word("out"))
           d8 == desc_add_ptr(d7, out)
           d9 == desc_add_word(d8, <<"length", 4>>)
           d10 == desc_add_word(d9, Word("operation"))
<1>1. cnstr_hw_encap_blob_jobdesc(d, key, in, out) = d10
  BY DEF cnstr_hw_encap_blob_jobdesc
<1>2. DOMAIN d0.word = 0..63 /\ d0.len = 0
  BY DescriptorCleared
<1> HIDE DEF d0
<1>3. DOMAIN d1.word = 0..63 /\ d1.len = 1 /\ d1.word[0] = Word("header")
  BY <1>2, WordAdded
<1> HIDE DEF d1
<1>4. DOMAIN d2.word = 0..63 /\ d2.len = 2 /\ d2.word[1] = <<"key", 1>> /\ d2.word[0] = d1.word[0]
  BY <1>3, WordAdded
<1> HIDE DEF d2
<1>5. /\ DOMAIN d3.word = 0..63 /\ d3.len = 4 /\ d3.word[2] = <<"high", key>> /\ d3.word[3] = <<"low", key>>
      /\ \A i \in 0..1 : d3.word[i] = d2.word[i]
  BY <1>4, PointerAdded
<1> HIDE DEF d3
<1>6. /\ DOMAIN d4.word = 0..63 /\ d4.len = 5 /\ d4.word[4] = Word("in")
      /\ \A i \in 0..3 : d4.word[i] = d3.word[i]
  BY <1>5, WordAdded
<1> HIDE DEF d4
<1>7. /\ DOMAIN d5.word = 0..63 /\ d5.len = 7 /\ d5.word[5] = <<"high", in>> /\ d5.word[6] = <<"low", in>>
      /\ \A i \in 0..4 : d5.word[i] = d4.word[i]
  BY <1>6, PointerAdded
<1> HIDE DEF d5
<1>8. /\ DOMAIN d6.word = 0..63 /\ d6.len = 8 /\ d6.word[7] = <<"length", 1>>
      /\ \A i \in 0..6 : d6.word[i] = d5.word[i]
  BY <1>7, WordAdded
<1> HIDE DEF d6
<1>9. /\ DOMAIN d7.word = 0..63 /\ d7.len = 9 /\ d7.word[8] = Word("out")
      /\ \A i \in 0..7 : d7.word[i] = d6.word[i]
  BY <1>8, WordAdded
<1> HIDE DEF d7
<1>10. /\ DOMAIN d8.word = 0..63 /\ d8.len = 11 /\ d8.word[9] = <<"high", out>> /\ d8.word[10] = <<"low", out>>
       /\ \A i \in 0..8 : d8.word[i] = d7.word[i]
  BY <1>9, PointerAdded
<1> HIDE DEF d8
<1>11. /\ DOMAIN d9.word = 0..63 /\ d9.len = 12 /\ d9.word[11] = <<"length", 4>>
       /\ \A i \in 0..10 : d9.word[i] = d8.word[i]
  BY <1>10, WordAdded
<1> HIDE DEF d9
<1>12. /\ DOMAIN d10.word = 0..63 /\ d10.len = 13 /\ d10.word[12] = Word("operation")
       /\ \A i \in 0..11 : d10.word[i] = d9.word[i]
  BY <1>11, WordAdded
<1> HIDE DEF d10
<1>13. /\ d5.word[0] = Word("header") /\ d5.word[1] = <<"key", 1>> /\ d5.word[2] = <<"high", key>>
       /\ d5.word[3] = <<"low", key>> /\ d5.word[4] = Word("in")
  BY <1>3, <1>4, <1>5, <1>6, <1>7
<1>14. \A i \in 0..6 : d10.word[i] = d5.word[i]
  BY <1>8, <1>9, <1>10, <1>11, <1>12
<1>15. /\ d10.word[7] = <<"length", 1>> /\ d10.word[8] = Word("out") /\ d10.word[9] = <<"high", out>>
       /\ d10.word[10] = <<"low", out>> /\ d10.word[11] = <<"length", 4>>
  BY <1>8, <1>9, <1>10, <1>11, <1>12
<1>16. /\ d10.word[0] = <<"header", 0>> /\ d10.word[1] = <<"key", 1>> /\ d10.word[2] = <<"high", key>>
       /\ d10.word[3] = <<"low", key>> /\ d10.word[4] = <<"in", 0>> /\ d10.word[5] = <<"high", in>>
       /\ d10.word[6] = <<"low", in>>
  BY <1>7, <1>13, <1>14 DEF Word
<1>17. /\ d10.word[7] = <<"length", 1>> /\ d10.word[8] = <<"out", 0>> /\ d10.word[12] = <<"operation", 0>>
  BY <1>12, <1>15 DEF Word
<1>18. PICK k : k = KeyWords(key, in, out)
  OBVIOUS
<1>19. \A n \in 1..13 : d10.word[n - 1] = k[n]
  <2> DEFINE word == d10.word
  <2>1. /\ word[0] = k[1] /\ word[1] = k[2] /\ word[2] = k[3] /\ word[3] = k[4] /\ word[4] = k[5]
        /\ word[5] = k[6] /\ word[6] = k[7] /\ word[7] = k[8] /\ word[8] = k[9] /\ word[9] = k[10]
        /\ word[10] = k[11] /\ word[11] = k[12] /\ word[12] = k[13]
    <3>1. /\ k[1] = <<"header", 0>> /\ k[2] = <<"key", 1>> /\ k[3] = <<"high", key>> /\ k[4] = <<"low", key>>
          /\ k[5] = <<"in", 0>> /\ k[6] = <<"high", in>> /\ k[7] = <<"low", in>> /\ k[8] = <<"length", 1>>
          /\ k[9] = <<"out", 0>> /\ k[10] = <<"high", out>> /\ k[11] = <<"low", out>>
          /\ k[12] = <<"length", 4>> /\ k[13] = <<"operation", 0>>
      BY <1>18, KeyWordsAre
    <3> QED
      BY <1>15, <1>16, <1>17, <3>1
  <2> HIDE DEF word
  <2>2. SUFFICES ASSUME NEW n \in 1..13 PROVE word[n - 1] = k[n]
    BY DEF word
  <2> QED
    BY <2>1
<1>20. Len(k) = 13
  BY <1>18, KeyWordsAre
<1> QED
  BY <1>1, <1>12, <1>18, <1>19, <1>20 DEF Begins

-----------------------------------------------------------------------------
\* The buffers a call asks for.
LEMMA BufferSizes ==
  ASSUME NEW kind \in {"ring", "instantiate", "rng", "key"}, NEW n \in 1..Len(Buffers[kind])
  PROVE  /\ Buffers[kind][n].size \in Nat \ {0}
         /\ Buffers[kind][n].name \in StaticKinds => Buffers[kind][n].size = StaticSize(Buffers[kind][n].name)
<1>1. CASE kind = "ring"
  BY <1>1 DEF Buffers, StaticKinds
<1>2. CASE kind = "instantiate"
  BY <1>2 DEF Buffers, StaticKinds, StaticSize
<1>3. CASE kind = "rng"
  BY <1>3 DEF Buffers, StaticKinds, StaticSize
<1>4. CASE kind = "key"
  BY <1>4 DEF Buffers, StaticKinds
<1> QED
  BY <1>1, <1>2, <1>3, <1>4

LEMMA BufferFollows ==
  ASSUME JobFollows, Allocating
  PROVE  /\ secJob.kind \in {"ring", "instantiate", "rng", "key"}
         /\ secJob.step \in 1..Len(Buffers[secJob.kind])
         /\ Buffer.size \in Nat \ {0}
         /\ Buffer.name \in StaticKinds => Buffer.size = StaticSize(Buffer.name)
<1>1. /\ secJob.kind \in {"ring", "instantiate", "rng", "key"}
      /\ secJob.step \in 1..Len(Buffers[secJob.kind])
  BY DEF JobFollows, Allocating
<1> QED
  BY <1>1, BufferSizes DEF Buffer

\* A call that gets a buffer keeps the buffers it has.
LEMMA JobGrows ==
  ASSUME JobFollows, Allocating, NEW block \in Int, Got(block), secBlocks \subseteq secBlocks',
         secJob.kind # "ring" => Block(block, Buffer.size) \in secBlocks'
  PROVE  JobFollows'
<1>1. /\ secJob.kind \in {"ring", "instantiate", "rng", "key"}
      /\ secJob.step \in 1..Len(Buffers[secJob.kind])
      /\ secJob.at \in Seq(Int) /\ secJob.step = Len(secJob.at) + 1
  BY BufferFollows DEF JobFollows
<1>2. /\ secJob' \in [kind : {"none", "ring", "instantiate", "rng", "key"}, step : Nat, at : Seq(Int)]
      /\ secJob'.kind = secJob.kind /\ secJob'.step = secJob.step + 1 /\ secJob'.at = Append(secJob.at, block)
  <2>1. secJob \in [kind : {"none", "ring", "instantiate", "rng", "key"}, step : Nat, at : Seq(Int)]
    BY DEF JobFollows
  <2>2. secJob.step + 1 \in Nat /\ Append(secJob.at, block) \in Seq(Int)
    BY <1>1
  <2> QED
    BY <2>1, <2>2, Zenon DEF Got
<1>3. /\ Len(secJob'.at) = Len(secJob.at) + 1
      /\ \A n \in 1..Len(secJob.at) : secJob'.at[n] = secJob.at[n]
      /\ secJob'.at[Len(secJob.at) + 1] = block
  BY <1>1, <1>2
<1>4. secJob'.step = Len(secJob'.at) + 1 /\ Len(secJob'.at) <= Len(Buffers[secJob'.kind])
  BY <1>1, <1>2, <1>3
<1>5. ASSUME secJob.kind \in {"instantiate", "rng", "key"}, NEW n \in 1..Len(secJob'.at)
      PROVE  Block(secJob'.at[n], Buffers[secJob.kind][n].size) \in secBlocks'
  <2>1. CASE n \in 1..Len(secJob.at)
    BY <1>3, <1>5, <2>1 DEF JobFollows
  <2>2. CASE n = Len(secJob.at) + 1
    BY <1>1, <1>3, <1>5, <2>2 DEF Buffer
  <2>3. Len(secJob.at) \in Nat
    BY <1>1
  <2> QED
    BY <1>3, <2>1, <2>2, <2>3
<1> QED
  BY <1>2, <1>4, <1>5, Zenon DEF JobFollows

LEMMA NoJobFollows ==
  ASSUME Ends
  PROVE  JobFollows'
<1>1. /\ secJob' \in [kind : {"none", "ring", "instantiate", "rng", "key"}, step : Nat, at : Seq(Int)]
      /\ secJob'.kind = "none"
  BY DEF Ends, NoJob
<1> QED
  BY <1>1 DEF JobFollows

-----------------------------------------------------------------------------
LEMMA SecMemStarts == SecMemInit => SecMemInv
<1> SUFFICES ASSUME SecMemInit PROVE SecMemInv
  OBVIOUS
<1>1. HeapFollows
  BY SecMemoryAssumption DEF SecMemInit, HeapFollows, HeapAddr
<1>2. JobFollows
  BY DEF SecMemInit, JobFollows, NoJob
<1>3. PointersFollow
  BY DEF SecMemInit, PointersFollow, StaticKinds, NULL
<1>4. DescriptorsFollow
  BY DEF SecMemInit, DescriptorsFollow
<1> QED
  BY <1>1, <1>2, <1>3, <1>4 DEF SecMemInv

LEMMA CallSecKeeps ==
  ASSUME SecMemInv, NEW kind \in DOMAIN Buffers, CallSec(kind)
  PROVE  SecMemInv'
<1>1. HeapFollows' /\ PointersFollow' /\ DescriptorsFollow'
  BY PointersStay, DescriptorsStay DEF SecMemInv, CallSec, HeapFollows
<1>2. /\ kind \in {"ring", "instantiate", "rng", "key"} /\ Len(Buffers[kind]) \in Nat
  BY DEF Buffers
<1>3. /\ secJob' \in [kind : {"none", "ring", "instantiate", "rng", "key"}, step : Nat, at : Seq(Int)]
      /\ secJob'.kind = kind /\ secJob'.step = 1 /\ secJob'.at = <<>>
  BY <1>2 DEF CallSec
<1>4. JobFollows'
  BY <1>2, <1>3 DEF JobFollows
<1> QED
  BY <1>1, <1>4 DEF SecMemInv

LEMMA KeepKeeps ==
  ASSUME SecMemInv, Keep
  PROVE  SecMemInv'
<1>1. HeapFollows' /\ PointersFollow' /\ DescriptorsFollow'
  BY PointersStay, DescriptorsStay DEF SecMemInv, Keep, HeapFollows
<1>2. /\ Block(jobdesc[Buffer.name], Buffer.size) \in secBlocks /\ jobdesc[Buffer.name] \in Int
  BY BufferFollows DEF SecMemInv, Keep, PointersFollow
<1>3. JobFollows'
  BY <1>2, JobGrows DEF SecMemInv, Keep
<1> QED
  BY <1>1, <1>3 DEF SecMemInv

LEMMA AllocKeeps ==
  ASSUME SecMemInv, alloc
  PROVE  SecMemInv'
<1>1. Allocating /\ JobFollows /\ HeapFollows /\ PointersFollow /\ DescriptorsFollow /\ __alloc(Buffer.size)
  BY DEF SecMemInv, alloc
<1>3. Buffer.size \in Nat \ {0}
  BY <1>1, BufferFollows
<1>4. /\ HeapFollows' /\ secBlocks \subseteq secBlocks'
      /\ New(Buffer.size) # NULL => Block(New(Buffer.size), Buffer.size) \in secBlocks'
  BY <1>1, <1>3, AllocKeepsHeap
<1>5. New(Buffer.size) \in Int
  BY <1>1, <1>3, NextBlock DEF NULL
<1>6. DescriptorsFollow'
  BY <1>1, <1>4, DescriptorsStay DEF alloc
<1>7. CASE New(Buffer.size) = NULL /\ secJob.kind # "ring"
  BY <1>1, <1>4, <1>6, <1>7, NoJobFollows, PointersStay DEF alloc, SecMemInv
<1>8. CASE ~(New(Buffer.size) = NULL /\ secJob.kind # "ring")
  <2>1. /\ Got(New(Buffer.size))
        /\ jobdesc' = IF Buffer.name \in StaticKinds
                      THEN [jobdesc EXCEPT ![Buffer.name] = New(Buffer.size)] ELSE jobdesc
    BY <1>8 DEF alloc
  <2>2. JobFollows'
    BY <1>1, <1>4, <1>5, <1>8, <2>1, JobGrows
  <2>3. CASE Buffer.name \notin StaticKinds
    BY <1>1, <1>4, <1>6, <2>1, <2>2, <2>3, PointersStay DEF SecMemInv
  <2>4. CASE Buffer.name \in StaticKinds
    <3>1. Buffer.size = StaticSize(Buffer.name)
      BY <1>1, <2>4, BufferFollows
    <3>2. jobdesc' = [jobdesc EXCEPT ![Buffer.name] = New(Buffer.size)]
      BY <2>1, <2>4
    <3>3. jobdesc' \in [StaticKinds -> Int]
      BY <1>1, <1>5, <3>2 DEF PointersFollow
    <3>4. ASSUME NEW kind \in StaticKinds, jobdesc'[kind] # NULL
          PROVE  Block(jobdesc'[kind], StaticSize(kind)) \in secBlocks'
      <4>1. CASE kind = Buffer.name
        BY <1>1, <1>4, <2>4, <3>1, <3>2, <3>4, <4>1 DEF PointersFollow
      <4>2. CASE kind # Buffer.name
        BY <1>1, <1>4, <3>2, <3>4, <4>2 DEF PointersFollow
      <4> QED
        BY <4>1, <4>2
    <3>5. PointersFollow'
      BY <3>3, <3>4 DEF PointersFollow, StaticSize, Block
    <3> QED
      BY <1>4, <1>6, <2>2, <3>5 DEF SecMemInv
  <2> QED
    BY <2>3, <2>4
<1> QED
  BY <1>7, <1>8

\* The memory of a block holds what the last job left there, or nothing yet.
LEMMA ContentsAre ==
  ASSUME DescriptorsFollow, NEW block
  PROVE  DOMAIN Contents(block).word = 0..63
<1>1. DOMAIN Blank.word = 0..63
  BY DEF Blank, MAX_DESC_SIZE_WORDS
<1>2. CASE block \in DOMAIN desc
  <2>1. Whole(secBlocks, block, desc[block])
    BY <1>2 DEF DescriptorsFollow
  <2>2. DOMAIN desc[block].word = 0..63
    BY <2>1, Zenon DEF Whole, Begins
  <2> QED
    BY <1>2, <2>2 DEF Contents
<1> QED
  BY <1>1, <1>2 DEF Contents

\* A call that has all its buffers fills the last of them.
LEMMA DescriptorFilled ==
  ASSUME DescriptorsFollow, NEW block, NEW built, Whole(secBlocks, block, built), UNCHANGED secBlocks,
         desc' = [b \in DOMAIN desc \cup {block} |-> IF b = block THEN built ELSE desc[b]]
  PROVE  DescriptorsFollow'
<1> SUFFICES ASSUME NEW b \in DOMAIN desc'
             PROVE  Whole(secBlocks, b, desc'[b])
  BY DEF DescriptorsFollow
<1>1. CASE b = block
  BY <1>1
<1>2. CASE b # block
  <2>1. b \in DOMAIN desc /\ desc'[b] = desc[b]
    BY <1>2
  <2> QED
    BY <2>1 DEF DescriptorsFollow
<1> QED
  BY <1>1, <1>2

LEMMA BuffersAre ==
  ASSUME JobFollows, ~Allocating, secJob.kind \in {"instantiate", "rng", "key"}
  PROVE  /\ Len(secJob.at) = Len(Buffers[secJob.kind])
         /\ \A n \in 1..Len(secJob.at) :
              secJob.at[n] \in Int /\ Block(secJob.at[n], Buffers[secJob.kind][n].size) \in secBlocks
<1>1. /\ secJob.at \in Seq(Int) /\ secJob.step = Len(secJob.at) + 1
      /\ Len(secJob.at) <= Len(Buffers[secJob.kind])
      /\ \A n \in 1..Len(secJob.at) : Block(secJob.at[n], Buffers[secJob.kind][n].size) \in secBlocks
  BY DEF JobFollows
<1>2. Len(Buffers[secJob.kind]) \in Nat
  BY DEF Buffers
<1>3. ~(secJob.step <= Len(Buffers[secJob.kind]))
  BY DEF Allocating
<1>4. Len(secJob.at) \in Nat
  BY <1>1
<1>5. Len(secJob.at) = Len(Buffers[secJob.kind])
  BY <1>1, <1>2, <1>3, <1>4
<1> QED
  BY <1>1, <1>5

LEMMA SubmitKeeps ==
  ASSUME SecMemInv, Submit
  PROVE  SecMemInv'
<1> DEFINE at == secJob.at
           block == at[Len(at)]
           built == CASE secJob.kind = "instantiate" -> cnstr_rng_instantiate_jobdesc(Contents(block))
                      [] secJob.kind = "rng" -> cnstr_rng_jobdesc(Contents(block), at[1])
                      [] secJob.kind = "key" ->
                           cnstr_hw_encap_blob_jobdesc(Contents(block), at[1], at[2], at[3])
<1>1. /\ HeapFollows /\ JobFollows /\ PointersFollow /\ DescriptorsFollow
      /\ UNCHANGED <<heap, secBlocks, jobdesc>> /\ Ends /\ ~Allocating
  BY DEF SecMemInv, Submit
<1>2. HeapFollows' /\ PointersFollow' /\ JobFollows'
  BY <1>1, NoJobFollows, PointersStay DEF HeapFollows
<1>3. CASE secJob.kind = "ring"
  BY <1>1, <1>2, <1>3, DescriptorsStay DEF Submit, SecMemInv
<1>4. CASE secJob.kind # "ring"
  <2>1. desc' = [b \in DOMAIN desc \cup {block} |-> IF b = block THEN built ELSE desc[b]]
    BY <1>4 DEF Submit
  <2>2. secJob.kind \in {"instantiate", "rng", "key"}
    BY <1>1, <1>4 DEF JobFollows, Submit
  <2>3. /\ Len(at) = Len(Buffers[secJob.kind])
        /\ \A n \in 1..Len(at) : at[n] \in Int /\ Block(at[n], Buffers[secJob.kind][n].size) \in secBlocks
    BY <1>1, <2>2, BuffersAre
  <2>4. DOMAIN Contents(block).word = 0..63
    BY <1>1, ContentsAre
  <2> HIDE DEF at
  <2>5. ASSUME secJob.kind = "instantiate" PROVE Whole(secBlocks, block, built)
    <3>1. Len(at) = 1 /\ Block(block, 17) \in secBlocks
      BY <2>3, <2>5 DEF Buffers
    <3>2. built = cnstr_rng_instantiate_jobdesc(Contents(block))
      BY <2>5
    <3> HIDE DEF block, built
    <3>3. Begins(built, InstantiateWords)
      BY <2>4, <3>2, InstantiateBuilt
    <3> QED
      BY <3>1, <3>3, Zenon DEF Whole
  <2>6. ASSUME secJob.kind = "rng" PROVE Whole(secBlocks, block, built)
    <3>1. at[1] \in Int /\ Block(at[1], 4) \in secBlocks /\ Block(block, 17) \in secBlocks
      BY <2>3, <2>6 DEF Buffers
    <3>2. built = cnstr_rng_jobdesc(Contents(block), at[1])
      BY <2>6
    <3> HIDE DEF block, built
    <3>3. Begins(built, RngWords(at[1]))
      BY <2>4, <3>2, RngBuilt
    <3> QED
      BY <3>1, <3>3, Zenon DEF Whole
  <2>7. ASSUME secJob.kind = "key" PROVE Whole(secBlocks, block, built)
    <3>1. /\ at[1] \in Int /\ at[2] \in Int /\ at[3] \in Int
          /\ Block(at[1], 1) \in secBlocks /\ Block(at[2], 1) \in secBlocks /\ Block(at[3], 4) \in secBlocks
          /\ Block(block, 17) \in secBlocks
      BY <2>3, <2>7 DEF Buffers
    <3>2. built = cnstr_hw_encap_blob_jobdesc(Contents(block), at[1], at[2], at[3])
      BY <2>7
    <3> HIDE DEF block, built
    <3>3. Begins(built, KeyWords(at[1], at[2], at[3]))
      BY <2>4, <3>2, KeyBuilt
    <3> QED
      BY <3>1, <3>3, Zenon DEF Whole
  <2> HIDE DEF block, built
  <2>8. Whole(secBlocks, block, built)
    BY <2>2, <2>5, <2>6, <2>7
  <2>9. DescriptorsFollow'
    BY <1>1, <2>1, <2>8, DescriptorFilled
  <2> QED
    BY <1>2, <2>9 DEF SecMemInv
<1> QED
  BY <1>3, <1>4

LEMMA SecMemSteps == SecMemInv /\ [SecMemNext]_secMemVars => SecMemInv'
<1> SUFFICES ASSUME SecMemInv, [SecMemNext]_secMemVars PROVE SecMemInv'
  OBVIOUS
<1>1. ASSUME NEW kind \in DOMAIN Buffers, CallSec(kind) PROVE SecMemInv'
  BY <1>1, CallSecKeeps
<1>2. CASE Keep
  BY <1>2, KeepKeeps
<1>3. CASE alloc
  BY <1>3, AllocKeeps
<1>4. CASE Submit
  BY <1>4, SubmitKeeps
<1>5. CASE UNCHANGED secMemVars
  BY <1>5 DEF secMemVars, SecMemInv, HeapFollows, JobFollows, PointersFollow, DescriptorsFollow
<1> QED
  BY <1>1, <1>2, <1>3, <1>4, <1>5 DEF SecMemNext

-----------------------------------------------------------------------------
\* A descriptor that begins with some words is read as these words.
LEMMA ReadIs ==
  ASSUME NEW d, NEW words, Len(words) \in Nat, Begins(d, words)
  PROVE  /\ DOMAIN Read(d) = 0..(Len(words) - 1) /\ d.len = Len(words)
         /\ \A i \in 0..(Len(words) - 1) : Read(d)[i] = words[i + 1]
BY DEF Read, Begins

\* What a reader of a descriptor relies on.
Reads(d) ==
  /\ Read(d)[0] = Word("header")
  /\ \A i \in DOMAIN Read(d) :
       /\ Read(d)[i] # Word("free")
       /\ Read(d)[i][1] = "high" <=> i + 1 \in DOMAIN Read(d) /\ Read(d)[i + 1] = <<"low", Read(d)[i][2]>>

LEMMA InstantiateReads ==
  ASSUME NEW d, Begins(d, InstantiateWords)
  PROVE  Reads(d) /\ Pointers(d) = {}
<1> DEFINE r == Read(d)
<1>1. /\ DOMAIN r = 0..5
      /\ r[0] = <<"header", 0>> /\ r[1] = <<"instantiate", 0>> /\ r[2] = <<"wait", 0>>
      /\ r[3] = <<"clear_written", 0>> /\ r[4] = <<"clear_mode", 0>> /\ r[5] = <<"secure_keys", 0>>
  <2> DEFINE words == InstantiateWords
  <2>1. /\ Len(words) = 6
        /\ words[1] = <<"header", 0>> /\ words[2] = <<"instantiate", 0>> /\ words[3] = <<"wait", 0>>
        /\ words[4] = <<"clear_written", 0>> /\ words[5] = <<"clear_mode", 0>> /\ words[6] = <<"secure_keys", 0>>
    BY DEF InstantiateWords
  <2>2. Begins(d, words)
    OBVIOUS
  <2> HIDE DEF words
  <2>3. /\ DOMAIN r = 0..(Len(words) - 1) /\ d.len = Len(words)
        /\ \A i \in 0..(Len(words) - 1) : r[i] = words[i + 1]
    <3>1. Len(words) \in Nat
      BY <2>1
    <3> QED
      BY <2>2, <3>1, ReadIs
  <2>4. DOMAIN r = 0..5 /\ \A i \in 0..5 : r[i] = words[i + 1]
    BY <2>1, <2>3
  <2> HIDE DEF r
  <2> QED
    BY <2>1, <2>4
<1> HIDE DEF r
<1>2. \A i \in 0..5 : r[i][1] # "low" /\ r[i][1] # "high" /\ r[i] # <<"free", 0>>
  BY <1>1
<1>3. Pointers(d) = {}
  BY <1>1, <1>2 DEF Pointers, r
<1>4. \A i \in 0..5 : \A x : r[i] # <<"low", x>>
  BY <1>2
<1> QED
  BY <1>1, <1>2, <1>3, <1>4 DEF Reads, Word, r

LEMMA RngReads ==
  ASSUME NEW d, NEW out, Begins(d, RngWords(out))
  PROVE  Reads(d) /\ Pointers(d) = {<<out, 1>>}
<1> DEFINE r == Read(d)
<1>1. /\ DOMAIN r = 0..4 /\ d.len = 5
      /\ r[0] = <<"header", 0>> /\ r[1] = <<"generate", 0>> /\ r[2] = <<"store", 1>>
      /\ r[3] = <<"high", out>> /\ r[4] = <<"low", out>>
  <2> DEFINE words == RngWords(out)
  <2>1. /\ Len(words) = 5
        /\ words[1] = <<"header", 0>> /\ words[2] = <<"generate", 0>> /\ words[3] = <<"store", 1>>
        /\ words[4] = <<"high", out>> /\ words[5] = <<"low", out>>
    BY DEF RngWords
  <2>2. Begins(d, words)
    OBVIOUS
  <2> HIDE DEF words
  <2>3. /\ DOMAIN r = 0..(Len(words) - 1) /\ d.len = Len(words)
        /\ \A i \in 0..(Len(words) - 1) : r[i] = words[i + 1]
    <3>1. Len(words) \in Nat
      BY <2>1
    <3> QED
      BY <2>2, <3>1, ReadIs
  <2>4. DOMAIN r = 0..4 /\ d.len = 5 /\ \A i \in 0..4 : r[i] = words[i + 1]
    BY <2>1, <2>3
  <2> HIDE DEF r
  <2> QED
    BY <2>1, <2>4
<1> HIDE DEF r
<1>2. \A i \in 0..4 : (r[i][1] = "low" <=> i = 4) /\ (r[i][1] = "high" <=> i = 3) /\ r[i] # <<"free", 0>>
  BY <1>1
<1>3. {i \in DOMAIN r : r[i][1] = "low"} = {4}
  BY <1>1, <1>2
<1>4. Pointers(d) = {<<r[4][2], r[2][2]>>}
  BY <1>1, <1>3 DEF Pointers, r
<1>5. Pointers(d) = {<<out, 1>>}
  BY <1>1, <1>4
<1>6. \A i \in 0..3 : (\E x : r[i + 1] = <<"low", x>>) <=> i = 3
  BY <1>1, <1>2
<1> QED
  BY <1>1, <1>2, <1>5, <1>6 DEF Reads, Word, r

LEMMA KeyReads ==
  ASSUME NEW d, NEW key, NEW in, NEW out, Begins(d, KeyWords(key, in, out))
  PROVE  Reads(d) /\ Pointers(d) = {<<key, 1>>, <<in, 1>>, <<out, 4>>}
<1> DEFINE r == Read(d)
<1>1. /\ DOMAIN r = 0..12 /\ d.len = 13
      /\ r[0] = <<"header", 0>> /\ r[1] = <<"key", 1>> /\ r[2] = <<"high", key>> /\ r[3] = <<"low", key>>
      /\ r[4] = <<"in", 0>> /\ r[5] = <<"high", in>> /\ r[6] = <<"low", in>> /\ r[7] = <<"length", 1>>
      /\ r[8] = <<"out", 0>> /\ r[9] = <<"high", out>> /\ r[10] = <<"low", out>>
      /\ r[11] = <<"length", 4>> /\ r[12] = <<"operation", 0>>
  <2>1. PICK words : words = KeyWords(key, in, out)
    OBVIOUS
  <2>2. /\ Len(words) = 13
        /\ words[1] = <<"header", 0>> /\ words[2] = <<"key", 1>> /\ words[3] = <<"high", key>>
        /\ words[4] = <<"low", key>> /\ words[5] = <<"in", 0>> /\ words[6] = <<"high", in>>
        /\ words[7] = <<"low", in>> /\ words[8] = <<"length", 1>> /\ words[9] = <<"out", 0>>
        /\ words[10] = <<"high", out>> /\ words[11] = <<"low", out>> /\ words[12] = <<"length", 4>>
        /\ words[13] = <<"operation", 0>>
    BY <2>1, KeyWordsAre
  <2>3. /\ DOMAIN r = 0..(Len(words) - 1) /\ d.len = Len(words)
        /\ \A i \in 0..(Len(words) - 1) : r[i] = words[i + 1]
    <3>1. Len(words) \in Nat
      BY <2>2
    <3> QED
      BY <2>1, <3>1, ReadIs
  <2> HIDE DEF r
  <2>4. DOMAIN r = 0..12 /\ d.len = 13 /\ \A i \in 0..12 : r[i] = words[i + 1]
    BY <2>2, <2>3
  <2> QED
    BY <2>2, <2>4
<1> HIDE DEF r
<1>2. \A i \in 0..12 : /\ r[i][1] = "low" <=> i \in {3, 6, 10}
                       /\ r[i][1] = "high" <=> i \in {2, 5, 9}
                       /\ r[i] # <<"free", 0>>
  BY <1>1
<1>3. {i \in DOMAIN r : r[i][1] = "low"} = {3, 6, 10}
  BY <1>1, <1>2
<1> DEFINE length(i) == IF i + 1 < d.len /\ r[i + 1][1] = "length" THEN r[i + 1][2] ELSE r[i - 2][2]
<1>5. Pointers(d) = {<<r[i][2], length(i)>> : i \in {3, 6, 10}}
  BY <1>3, Zenon DEF Pointers, r
<1>6. length(3) = 1 /\ length(6) = 1 /\ length(10) = 4
  BY <1>1
<1>7. r[3][2] = key /\ r[6][2] = in /\ r[10][2] = out
  BY <1>1
<1> HIDE DEF length
<1>8. Pointers(d) = {<<key, 1>>, <<in, 1>>, <<out, 4>>}
  BY <1>5, <1>6, <1>7
<1>9. \A i \in 0..12 : i \notin {2, 5, 9} /\ i + 1 \in 0..12 => \A x : r[i + 1] # <<"low", x>>
  BY <1>2
<1>10. \A i \in {2, 5, 9} : i + 1 \in 0..12 /\ r[i + 1] = <<"low", r[i][2]>>
  BY <1>1
<1>11. \A i \in 0..12 : r[i][1] = "high" <=> (i + 1 \in 0..12 /\ r[i + 1] = <<"low", r[i][2]>>)
  BY <1>2, <1>9, <1>10
<1> QED
  BY <1>1, <1>2, <1>8, <1>11 DEF Reads, Word, r

-----------------------------------------------------------------------------
\* Blocks of different sizes are at different places.
LEMMA OtherBlock ==
  ASSUME HeapFollows, NEW b, NEW at, NEW size \in {1, 4}, Block(b, 17) \in secBlocks, Block(at, size) \in secBlocks
  PROVE  at # b /\ \E block \in secBlocks : block.at = at /\ block.size >= size
<1>1. /\ Block(b, 17).at = b /\ Block(b, 17).size = 17 /\ Block(at, size).at = at /\ Block(at, size).size = size
  BY DEF Block
<1>2. b \in Nat /\ at \in Nat
  BY <1>1 DEF HeapFollows
<1>3. Block(b, 17) # Block(at, size)
  BY <1>1
<1>4. b + 17 <= at \/ at + size <= b
  BY <1>1, <1>3, Zenon DEF HeapFollows, Apart
<1> QED
  BY <1>1, <1>2, <1>4

LEMMA BlocksLieApart ==
  ASSUME HeapFollows, NEW block \in secBlocks
  PROVE  /\ Units(block) \subseteq heap.begin..(heap.end - 1)
         /\ block.at % 4 = 0
         /\ \A other \in secBlocks : block # other => Units(block) \cap Units(other) = {}
<1>1. heap.begin = HeapAddr /\ heap.start \in Nat /\ heap.end \in Nat
  BY DEF HeapFollows
<1>2. \A other \in secBlocks :
        /\ other.at \in Nat /\ other.size \in Nat
        /\ HeapAddr <= other.at /\ other.at % 4 = 0 /\ other.at + other.size < heap.end
        /\ block # other => Apart(block, other)
  BY DEF HeapFollows
<1>3. Units(block) \subseteq heap.begin..(heap.end - 1)
  BY <1>1, <1>2 DEF Units, HeapAddr
<1>4. ASSUME NEW other \in secBlocks, block # other, NEW unit \in Units(block) \cap Units(other)
      PROVE  FALSE
  <2>1. Apart(block, other) /\ unit \in Units(block) /\ unit \in Units(other)
    BY <1>2, <1>4
  <2> QED
    BY <1>2, <2>1 DEF Apart, Units
<1> QED
  BY <1>2, <1>3, <1>4

\* The invariant is stronger than the property.
LEMMA SecMemInvIsEnough == SecMemInv => DescriptorsHoldTogether
<1> SUFFICES ASSUME SecMemInv PROVE DescriptorsHoldTogether
  OBVIOUS
<1>1. HeapFollows /\ DescriptorsFollow
  BY DEF SecMemInv
<1>2. ASSUME NEW b \in DOMAIN desc
      PROVE  /\ Reads(desc[b])
             /\ \A p \in Pointers(desc[b]) :
                  p[1] # b /\ \E block \in secBlocks : block.at = p[1] /\ block.size >= p[2]
  <2> DEFINE d == desc[b]
  <2>1. Whole(secBlocks, b, d)
    BY <1>1 DEF DescriptorsFollow
  <2> HIDE DEF d
  <2>2. Block(b, 17) \in secBlocks
    BY <2>1 DEF Whole
  <2> DEFINE Held(p) == p[1] # b /\ \E block \in secBlocks : block.at = p[1] /\ block.size >= p[2]
  <2>3. ASSUME NEW at, NEW size \in {1, 4}, Block(at, size) \in secBlocks
        PROVE  Held(<<at, size>>)
    BY <1>1, <2>2, <2>3, OtherBlock
  <2> HIDE DEF Held
  <2>5. ASSUME NEW out \in Int, Block(out, 4) \in secBlocks, Begins(d, RngWords(out))
        PROVE  Reads(d) /\ \A p \in Pointers(d) : Held(p)
    <3>1. Reads(d) /\ Pointers(d) = {<<out, 1>>}
      BY <2>5, RngReads
    <3>2. Held(<<out, 4>>)
      BY <2>3, <2>5
    <3>3. Held(<<out, 1>>)
      <4>1. PICK block \in secBlocks : out # b /\ block.at = out /\ block.size >= 4
        BY <3>2 DEF Held
      <4>2. block.size \in Nat
        BY <1>1 DEF HeapFollows
      <4>3. block.size >= 1
        BY <4>1, <4>2
      <4> QED
        BY <4>1, <4>3 DEF Held
    <3> QED
      BY <3>1, <3>3
  <2>6. ASSUME NEW key \in Int, NEW in \in Int, NEW out \in Int,
               Block(key, 1) \in secBlocks, Block(in, 1) \in secBlocks, Block(out, 4) \in secBlocks,
               Begins(d, KeyWords(key, in, out))
        PROVE  Reads(d) /\ \A p \in Pointers(d) : Held(p)
    <3>1. Reads(d) /\ Pointers(d) = {<<key, 1>>, <<in, 1>>, <<out, 4>>}
      BY <2>6, KeyReads
    <3>2. Held(<<key, 1>>) /\ Held(<<in, 1>>) /\ Held(<<out, 4>>)
      BY <2>3, <2>6
    <3> QED
      BY <3>1, <3>2
  <2>7. Reads(d) /\ \A p \in Pointers(d) : Held(p)
    <3>1. CASE Begins(d, InstantiateWords)
      BY <3>1, InstantiateReads
    <3> QED
      BY <2>1, <2>5, <2>6, <3>1, Zenon DEF Whole
  <2> QED
    BY <2>7 DEF d, Held
<1>3. ASSUME NEW b \in DOMAIN desc
      PROVE  LET words == Read(desc[b])
             IN  /\ words[0] = Word("header")
                 /\ \A i \in DOMAIN words :
                      /\ words[i] # Word("free")
                      /\ words[i][1] = "high" <=> i + 1 \in DOMAIN words /\ words[i + 1] = <<"low", words[i][2]>>
                 /\ \A p \in Pointers(desc[b]) :
                      p[1] # b /\ \E block \in secBlocks : block.at = p[1] /\ block.size >= p[2]
  BY <1>2, <1>3, Zenon DEF Reads
<1>4. ASSUME NEW block \in secBlocks
      PROVE  /\ Units(block) \subseteq heap.begin..(heap.end - 1)
             /\ block.at % 4 = 0
             /\ \A other \in secBlocks : block # other => Units(block) \cap Units(other) = {}
  BY <1>1, <1>4, BlocksLieApart
<1> QED
  BY <1>3, <1>4, Zenon DEF DescriptorsHoldTogether

\* For a heap of any size and any number of calls: blocks lie in the heap, aligned and apart, and a
\* descriptor that is built in one, whatever an earlier job or a call that ran out of memory left there,
\* is read by the SEC as whole commands with pointers to other blocks that are long enough.
THEOREM DescriptorsAreWhole == SecMemSpec => []DescriptorsHoldTogether
<1>1. SecMemSpec => []SecMemInv
  BY SecMemStarts, SecMemSteps, PTL DEF SecMemSpec
<1> QED
  BY <1>1, SecMemInvIsEnough, PTL
=============================================================================
