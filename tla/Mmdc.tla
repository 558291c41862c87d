------------------------------- MODULE Mmdc -------------------------------
(***************************************************************************)
(* The DDR3 controller of the LS1012, mmdc_init() of                       *)
(* drivers/ddr/fsl-mmdc/fsl_mmdc.c, with the settings of                   *)
(* soc-ls1012/platform-rdb/ddr_init.c.  The function is one straight line  *)
(* of register writes, with four waits for the controller (the fifth, for  *)
(* the start bit of mdref, finds it clear: the setting of the board leaves *)
(* it out); a write is what it does to the controller and to the DRAM.     *)
(***************************************************************************)
EXTENDS Integers, Sequences

CONSTANTS
  MmdcRounds   \* bound: rounds of a wait the model tells apart (1000 in the code)

ASSUME MmdcAssumption == MmdcRounds \in Nat

VARIABLES
  mmdcStep,     \* the next write, or the write that is waited for
  mmdcWaits,    \* rounds of the current wait, -1 outside of one
  mmdcBusy,     \* the operation the controller is busy with
  mmdcDone,     \* operations it has finished
  mmdcCon,      \* configuration request: no access of the system gets through
  mmdcSde,      \* the chip select is on
  mmdcMr,       \* mode registers of the DRAM
  mmdcLevel     \* the controller drives write levelling

mmdcVars == <<mmdcStep, mmdcWaits, mmdcBusy, mmdcDone, mmdcCon, mmdcSde, mmdcMr, mmdcLevel>>

\* Writes: a mode register, an operation that is waited for, or the control of the controller.
Load(mr, value) == [what |-> "mode", mr |-> mr, value |-> value]
Run(op) == [what |-> "run", op |-> op]
Control(name) == [what |-> name]

WRITE_LEVELLING == 128   \* MR1 bit 7, in 0x84
READ_PATTERN    == 4     \* MR3 bit 2
MR0 == 6448              \* 0x1930
MR1 == 4
MR2 == 8

\* Mutant: MR1 keeps the mode of write levelling.
mmdc_initMutant ==
  << Control("con_req"), Control("settings"), Control("sde"),                    \* 1-7
     Load(2, MR2), Load(3, 0), Load(1, MR1), Load(0, MR0), Run("zq"),            \* 8
     Load(1, WRITE_LEVELLING + MR1), Control("level"), Run("levelling"),         \* 9a
     Control("con_req"),
     Load(3, READ_PATTERN), Run("gating"), Load(3, 0),                           \* 9b
     Load(3, READ_PATTERN), Run("read"), Load(3, 0),                             \* 9c
     Control("refresh"), Control("release") >>                                   \* 10-13

mmdc_init ==
  << Control("con_req"), Control("settings"), Control("sde"),                    \* 1-7
     Load(2, MR2), Load(3, 0), Load(1, MR1), Load(0, MR0), Run("zq"),            \* 8
     Load(1, WRITE_LEVELLING + MR1), Control("level"), Run("levelling"),         \* 9a
     Load(1, MR1), Control("con_req"),
     Load(3, READ_PATTERN), Run("gating"), Load(3, 0),                           \* 9b
     Load(3, READ_PATTERN), Run("read"), Load(3, 0),                             \* 9c
     Control("refresh"), Control("release") >>                                   \* 10-13

MmdcInit ==
  /\ mmdcStep = 1
  /\ mmdcWaits = -1
  /\ mmdcBusy = "nothing"
  /\ mmdcDone = {}
  /\ mmdcCon = FALSE
  /\ mmdcSde = FALSE
  /\ mmdcMr = [r \in 0..3 |-> 0]
  /\ mmdcLevel = FALSE

MmdcEnded == mmdcStep > Len(mmdc_init)
Write == mmdc_init[mmdcStep]
Writes(what) == ~MmdcEnded /\ mmdcWaits = -1 /\ Write.what = what

\* A mode register is loaded through mdscr, with the request and without write levelling.
LoadMode ==
  /\ Writes("mode")
  /\ mmdcCon' = TRUE
  /\ mmdcLevel' = FALSE
  /\ mmdcMr' = [mmdcMr EXCEPT ![Write.mr] = Write.value]
  /\ mmdcStep' = mmdcStep + 1
  /\ UNCHANGED <<mmdcWaits, mmdcBusy, mmdcDone, mmdcSde>>

\* Every write to mdscr says anew whether write levelling is on.
ControlWrite ==
  /\ \E what \in {"con_req", "settings", "sde", "level", "refresh", "release"} : Writes(what)
  /\ mmdcCon' = IF Write.what \in {"con_req", "level"} THEN TRUE ELSE mmdcCon /\ Write.what # "release"
  /\ mmdcLevel' = IF Write.what \in {"settings", "sde", "refresh"} THEN mmdcLevel ELSE Write.what = "level"
  /\ mmdcSde' = (mmdcSde \/ Write.what = "sde")
  /\ mmdcStep' = mmdcStep + 1
  /\ UNCHANGED <<mmdcWaits, mmdcBusy, mmdcDone, mmdcMr>>

\* set_wait_for_bits_clear(): the write, the look that finds the bits clear, and the look that does not:
\* a round too many is reported and changes nothing.
StartOperation ==
  /\ Writes("run")
  /\ mmdcBusy' = Write.op
  /\ mmdcWaits' = 0
  /\ UNCHANGED <<mmdcStep, mmdcDone, mmdcCon, mmdcSde, mmdcMr, mmdcLevel>>

BitsClear ==
  /\ mmdcWaits >= 0 /\ mmdcBusy = "nothing"
  /\ mmdcWaits' = -1
  /\ mmdcStep' = mmdcStep + 1
  /\ UNCHANGED <<mmdcBusy, mmdcDone, mmdcCon, mmdcSde, mmdcMr, mmdcLevel>>

WaitLonger ==
  /\ mmdcWaits \in 0..(MmdcRounds - 1) /\ mmdcBusy # "nothing"
  /\ mmdcWaits' = mmdcWaits + 1
  /\ UNCHANGED <<mmdcStep, mmdcBusy, mmdcDone, mmdcCon, mmdcSde, mmdcMr, mmdcLevel>>

\* The controller finishes, if it ever does.
OperationEnds ==
  /\ mmdcBusy # "nothing"
  /\ mmdcDone' = mmdcDone \cup {mmdcBusy}
  /\ mmdcBusy' = "nothing"
  /\ UNCHANGED <<mmdcStep, mmdcWaits, mmdcCon, mmdcSde, mmdcMr, mmdcLevel>>

MmdcNext == LoadMode \/ ControlWrite \/ StartOperation \/ BitsClear \/ WaitLonger \/ OperationEnds

MmdcSpec == MmdcInit /\ [][MmdcNext]_mmdcVars

-----------------------------------------------------------------------------
\* A calibration runs while the DRAM is in the mode it measures and in no other, a refresh and an access
\* of the system meet a DRAM in its normal mode, with the parameters of the board, after all calibrations.
CalibrationMode ==
  LET levelling == mmdcMr[1] >= WRITE_LEVELLING
      pattern   == mmdcMr[3] = READ_PATTERN
  IN  /\ mmdcBusy = "levelling" => levelling /\ mmdcLevel /\ ~pattern
      /\ mmdcBusy \in {"gating", "read"} => pattern /\ ~levelling /\ ~mmdcLevel
      /\ mmdcBusy # "nothing" => mmdcSde /\ mmdcCon
      /\ Writes("refresh") \/ MmdcEnded =>
           /\ ~levelling /\ ~pattern /\ ~mmdcLevel
           /\ mmdcMr[0] = MR0 /\ mmdcMr[1] = MR1 /\ mmdcMr[2] = MR2
           /\ {"zq", "levelling", "gating", "read"} \subseteq mmdcDone
      /\ ~mmdcCon /\ mmdcStep > 1 => MmdcEnded
=============================================================================
