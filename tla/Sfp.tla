-------------------------------- MODULE Sfp --------------------------------
(***************************************************************************)
(* Fuse provisioning, drivers/sfp: provision_fuses() reads a script from   *)
(* memory, checks and writes the mirror registers field by field and then  *)
(* burns them.  A fuse field is the set of its bits that are blown; the    *)
(* mirror is loaded from the fuses by a reset, and a boot may find the     *)
(* same script again or another one.  A reset may come at any time, in the *)
(* middle of a burn too.                                                   *)
(***************************************************************************)
EXTENDS Integers, FiniteSets

CONSTANTS
  FuseScripts,    \* the scripts a boot may find
  OtpmkRandoms,   \* what the hardware generator may return, as sets of bits
  SfpFaults,      \* whether a read-back and the burn may fail
  SfpCuts,        \* sets of fields: those that a burn which is cut short has blown
  SfpVersion34,   \* CONFIG_SYS_FSL_SFP_VER_3_4
  SfpBoots        \* bound: number of boots

\* The modes of prog_otpmk(), "none" for each value of the flags that names no other; the generator
\* returns 256 bits.
OtpmkModes == {"none", "min", "random", "random_min", "user", "user_min"}

ASSUME SfpAssumption ==
  /\ SfpFaults \subseteq BOOLEAN /\ SfpVersion34 \in BOOLEAN /\ SfpBoots \in Nat
  /\ \A script \in FuseScripts : script.otpmk \in OtpmkModes
  /\ OtpmkRandoms \subseteq SUBSET (0..255)

VARIABLES
  fuses,      \* the fuses, by field
  mirror,     \* the mirror registers
  sfpPc,      \* which field comes next
  fuse_hdr,   \* the script of this boot
  scratch4,   \* the error code left in DCFG_SCRATCH4
  sfpBoot,    \* boots so far
  keySpoilt   \* history: a *_MIN script met a key with more than the minimal bits, or only a
              \* part of a key was blown

sfpVars == <<fuses, mirror, sfpPc, fuse_hdr, scratch4, sfpBoot, keySpoilt>>

OemUids == 0..4
oem_uid == [i \in OemUids |-> <<"oem0", "oem1", "oem2", "oem3", "oem4">>[i + 1]]
SfpFields == {"srkh", "dcv0", "dcv1", "drv0", "drv1", "otpmk", "mc", "dbg", "sc"}
             \cup {oem_uid[i] : i \in OemUids}

\* Error codes of sfp_error_codes.h.
ERROR_FUSE_BARKER == 1
ERROR_PROGFB_CMD == 3
ERROR_SRKH_ALREADY_BLOWN == 4
ERROR_SRKH_WRITE == 5
ERROR_OEMUID_ALREADY_BLOWN == 6
ERROR_OEMUID_WRITE == 7
ERROR_DCV_ALREADY_BLOWN == 8
ERROR_DCV_WRITE == 9
ERROR_DRV_ALREADY_BLOWN == 10
ERROR_DRV_HAMMING_ERROR == 11
ERROR_OTPMK_ALREADY_BLOWN == 12
ERROR_OTPMK_HAMMING_ERROR == 13
ERROR_OTPMK_USER_MIN == 14
ERROR_OSPR1_ALREADY_BLOWN == 15
ERROR_OSPR1_WRITE == 16
ERROR_SC_ALREADY_BLOWN == 17
ERROR_SC_WRITE == 18

Unblown == [f \in SfpFields |-> {}]

\* OTPMK_MIM_BITS_MASK: bits 252 to 255 of the key.
OTPMK_MIM_BITS == 252..255

\* The exclusive or of the numbers in a set, one binary digit after the other.
XorOf(bits) ==
  LET digit(n) == n * (Cardinality({i \in bits : (i \div n) % 2 = 1}) % 2)
  IN  digit(1) + digit(2) + digit(4) + digit(8) + digit(16) + digit(32) + digit(64) + digit(128)
Toggle(bits, b) == (bits \ {b}) \cup ({b} \ bits)

\* Mutant: the bit that was inverted does not count for the parity.
otpmk_make_code_word_256Mutant(random, minimal) ==
  LET bits     == IF minimal THEN random \cup OTPMK_MIM_BITS ELSE random
      code_bit == XorOf(bits)
      one      == code_bit < 252
      word     == IF one THEN Toggle(bits, code_bit) ELSE Toggle(Toggle(bits, code_bit - 4), 4)
      parity   == Cardinality(bits) % 2
  IN  IF parity = 1 THEN Toggle(word, 0) ELSE word

\* otpmk_make_code_word_256(): the bit the code names is inverted, or two bits that stand for it, and
\* then bit 0 to make the number of bits even.
otpmk_make_code_word_256(random, minimal) ==
  LET bits     == IF minimal THEN random \cup OTPMK_MIM_BITS ELSE random
      code_bit == XorOf(bits)
      one      == code_bit < 252
      word     == IF one THEN Toggle(bits, code_bit) ELSE Toggle(Toggle(bits, code_bit - 4), 4)
      parity   == (Cardinality(bits) + IF one THEN 1 ELSE 0) % 2
  IN  IF parity = 1 THEN Toggle(word, 0) ELSE word

IsCodeWord(bits) == XorOf(bits) = 0 /\ Cardinality(bits) % 2 = 0

SfpInit ==
  /\ fuses = Unblown
  /\ mirror = Unblown
  /\ sfpPc = "reset"
  /\ fuse_hdr = [barker |-> FALSE, flags |-> {}, otpmk |-> "none", value |-> Unblown]
  /\ scratch4 = 0
  /\ sfpBoot = 0
  /\ keySpoilt = FALSE

-----------------------------------------------------------------------------
(* A step ends with the next field, or with error_handler(), which stores  *)
(* the code and lets the boot go on.                                       *)

error_handler(code) == scratch4' = code /\ sfpPc' = "end"
Proceed(next) == sfpPc' = next /\ UNCHANGED scratch4
Flagged(names) == names \cap fuse_hdr.flags # {}
Blown(fields) == \E f \in fields : mirror[f] # {}

\* The mirror registers after the script's values for the fields are written.
Written(fields) == [f \in SfpFields |-> IF f \in fields THEN fuse_hdr.value[f] ELSE mirror[f]]

\* Mutant: fields are written over.
ProgramMutant(fields, blownError, writeError, next) ==
  IF FALSE THEN error_handler(blownError) /\ UNCHANGED mirror
  ELSE \E fails \in SfpFaults :
         /\ mirror' = IF fails THEN mirror ELSE Written(fields)
         /\ IF fails /\ Written(fields) # mirror THEN error_handler(writeError) ELSE Proceed(next)

\* Check that the fields are empty, write them, and read them back.
Program(fields, blownError, writeError, next) ==
  IF Blown(fields) THEN error_handler(blownError) /\ UNCHANGED mirror
  ELSE \E fails \in SfpFaults :
         /\ mirror' = IF fails THEN mirror ELSE Written(fields)
         /\ IF fails /\ Written(fields) # mirror THEN error_handler(writeError) ELSE Proceed(next)

\* A boot, out of a reset at any time: the reset loads the mirror, and provision_fuses() checks the barker and the write protection.
provision_fuses ==
  /\ sfpBoot < SfpBoots
  /\ sfpBoot' = sfpBoot + 1
  /\ mirror' = fuses
  /\ fuse_hdr' \in FuseScripts
  /\ IF ~fuse_hdr'.barker THEN scratch4' = ERROR_FUSE_BARKER /\ sfpPc' = "end"
     ELSE scratch4' = 0 /\ sfpPc' = IF "wp" \in fuses["sc"] THEN "end" ELSE "srkh"
  /\ UNCHANGED <<fuses, keySpoilt>>

prog_srkh ==
  /\ sfpPc = "srkh"
  /\ IF Flagged({"srkh"})
     THEN Program({"srkh"}, ERROR_SRKH_ALREADY_BLOWN, ERROR_SRKH_WRITE, "oemuid")
     ELSE Proceed("oemuid") /\ UNCHANGED mirror
  /\ UNCHANGED <<fuses, fuse_hdr, sfpBoot, keySpoilt>>

\* One unique id after the other: those before the first one that is blown, or fails, stay written.
prog_oemuid ==
  /\ sfpPc = "oemuid"
  /\ LET wanted == {i \in OemUids : oem_uid[i] \in fuse_hdr.flags}
         bad    == {i \in wanted : mirror[oem_uid[i]] # {}}
         before(n) == {oem_uid[i] : i \in {j \in wanted : j < n}}
     IN  \/ \E n \in bad : /\ \A m \in bad : n <= m
                           /\ mirror' = Written(before(n))
                           /\ error_handler(ERROR_OEMUID_ALREADY_BLOWN)
         \/ \E n \in wanted : /\ TRUE \in SfpFaults /\ \A m \in bad : n < m
                              /\ mirror' = Written(before(n))
                              /\ error_handler(ERROR_OEMUID_WRITE)
         \/ bad = {} /\ mirror' = Written(before(5)) /\ Proceed("dcv")
  /\ UNCHANGED <<fuses, fuse_hdr, sfpBoot, keySpoilt>>

\* prog_debug(): one flag of a pair writes both registers of the pair.
ProgDcv ==
  /\ sfpPc = "dcv"
  /\ IF Flagged({"dcv0", "dcv1"})
     THEN Program({"dcv0", "dcv1"}, ERROR_DCV_ALREADY_BLOWN, ERROR_DCV_WRITE, "drv")
     ELSE Proceed("drv") /\ UNCHANGED mirror
  /\ UNCHANGED <<fuses, fuse_hdr, sfpBoot, keySpoilt>>

\* The response value is not read back; the controller checks its hamming code.
ProgDrv ==
  /\ sfpPc = "drv"
  /\ IF ~Flagged({"drv0", "drv1"}) THEN Proceed("otpmk") /\ UNCHANGED mirror
     ELSE IF Blown({"drv0", "drv1"}) THEN error_handler(ERROR_DRV_ALREADY_BLOWN) /\ UNCHANGED mirror
     ELSE /\ mirror' = Written({"drv0", "drv1"})
          /\ \E hamming \in SfpFaults :
               IF hamming THEN error_handler(ERROR_DRV_HAMMING_ERROR) ELSE Proceed("otpmk")
  /\ UNCHANGED <<fuses, fuse_hdr, sfpBoot, keySpoilt>>

\* The key each mode writes; the result of get_rand_bytes_hw() is ignored, so a failed generator
\* leaves the zeros of the memset.
OtpmkKeys ==
  CASE fuse_hdr.otpmk = "min"        -> {OTPMK_MIM_BITS}
    [] fuse_hdr.otpmk = "random"     -> {otpmk_make_code_word_256(r, FALSE) : r \in OtpmkRandoms}
    [] fuse_hdr.otpmk = "random_min" -> {otpmk_make_code_word_256(r, TRUE) : r \in OtpmkRandoms}
    [] OTHER                         -> {fuse_hdr.value["otpmk"]}

\* prog_otpmk(): the *_MIN modes trust that only the minimal bits are blown.
prog_otpmk ==
  /\ sfpPc = "otpmk"
  /\ LET mode == fuse_hdr.otpmk
     IN  IF mode = "none" THEN Proceed("ospr1") /\ UNCHANGED <<mirror, keySpoilt>>
         ELSE IF mode \in {"min", "random", "user"} /\ mirror["otpmk"] # {}
         THEN error_handler(ERROR_OTPMK_ALREADY_BLOWN) /\ UNCHANGED <<mirror, keySpoilt>>
         ELSE IF mode = "user_min" /\ ~(OTPMK_MIM_BITS \subseteq fuse_hdr.value["otpmk"])
         THEN error_handler(ERROR_OTPMK_USER_MIN) /\ UNCHANGED <<mirror, keySpoilt>>
         ELSE \E key \in OtpmkKeys :
                /\ mirror' = [mirror EXCEPT !["otpmk"] = key]
                /\ keySpoilt' = (keySpoilt \/ ~(fuses["otpmk"] \subseteq OTPMK_MIM_BITS))
                /\ IF IsCodeWord(key) THEN Proceed("ospr1") ELSE error_handler(ERROR_OTPMK_HAMMING_ERROR)
  /\ UNCHANGED <<fuses, fuse_hdr, sfpBoot>>

\* prog_ospr1(): the MC field exists from version 3.4 on.
prog_ospr1 ==
  /\ sfpPc = "ospr1"
  /\ IF Flagged({"mc", "dbg"})
     THEN Program(fuse_hdr.flags \cap (IF SfpVersion34 THEN {"mc", "dbg"} ELSE {"dbg"}),
                  ERROR_OSPR1_ALREADY_BLOWN, ERROR_OSPR1_WRITE, "syscfg")
     ELSE Proceed("syscfg") /\ UNCHANGED mirror
  /\ UNCHANGED <<fuses, fuse_hdr, sfpBoot, keySpoilt>>

prog_syscfg ==
  /\ sfpPc = "syscfg"
  /\ IF Flagged({"sc"}) THEN Program({"sc"}, ERROR_SC_ALREADY_BLOWN, ERROR_SC_WRITE, "progfb")
     ELSE Proceed("progfb") /\ UNCHANGED mirror
  /\ UNCHANGED <<fuses, fuse_hdr, sfpBoot, keySpoilt>>

\* SFP_INGR_PROGFB_CMD: the bits of the mirror are blown, on top of those that are.  A burn that is cut
\* short has blown some fields, and all but a bit of the one it was at.
Burnt == [f \in SfpFields |-> fuses[f] \cup mirror[f]]
Torn(f) ==
  LET new == mirror[f] \ fuses[f]
  IN  IF new = {} THEN fuses[f] ELSE Burnt[f] \ {CHOOSE b \in new : TRUE}
CutShort(done, last) ==
  [f \in SfpFields |-> IF f = last THEN Torn(f) ELSE IF f \in done THEN Burnt[f] ELSE fuses[f]]

\* The error that is stored stands for a reset during the burn too: the next boot clears it.
BurnFuses ==
  /\ sfpPc = "progfb"
  /\ \/ fuses' = Burnt /\ Proceed("end")
     \/ /\ TRUE \in SfpFaults /\ error_handler(ERROR_PROGFB_CMD)
        /\ \/ fuses' \in {fuses, Burnt}
           \/ \E done \in SfpCuts, last \in SfpFields : fuses' = CutShort(done, last)
  /\ keySpoilt' = (keySpoilt \/ fuses'["otpmk"] \notin {fuses["otpmk"], Burnt["otpmk"]})
  /\ UNCHANGED <<mirror, fuse_hdr, sfpBoot>>

-----------------------------------------------------------------------------
SfpNext ==
  \/ provision_fuses \/ prog_srkh \/ prog_oemuid \/ ProgDcv \/ ProgDrv \/ prog_otpmk \/ prog_ospr1
  \/ prog_syscfg \/ BurnFuses

SfpSpec == SfpInit /\ [][SfpNext]_sfpVars

-----------------------------------------------------------------------------
\* Over any sequence of boots and scripts, with failed writes, resets and burns that are cut short between
\* them, a field of which anything has been blown keeps its value, the key apart, and a write-protected
\* device keeps them all.
FusesSettle ==
  [][/\ \A f \in SfpFields \ {"otpmk"} : fuses[f] # {} => fuses'[f] = fuses[f]
     /\ "wp" \in fuses["sc"] => fuses' = fuses]_sfpVars

\* The key in the fuses is always a code word, and no random value leads to a key that the controller
\* refuses; unless a *_MIN script was used on a key that held more than the minimal bits, or a burn ended
\* in the middle of the key.
OtpmkIsCodeWord ==
  /\ keySpoilt \/ IsCodeWord(fuses["otpmk"])
  /\ scratch4 = ERROR_OTPMK_HAMMING_ERROR => fuse_hdr.otpmk \in {"user", "user_min"}
=============================================================================
