------------------------------ MODULE DdrInit ------------------------------
(***************************************************************************)
(* Starting the main DDR memory: dram_init() and init_ddr_sdram() of       *)
(* ddr.c, ddrc_set_regs() and bist() of ddrc.c, and the controllers they   *)
(* program.                                                                *)
(*                                                                         *)
(* One processor runs the code.  A controller initialises its data,        *)
(* becomes idle and sends mode register commands on its own, so it can be  *)
(* late for every poll.  A wait of bounded length either sees its          *)
(* condition or gives up; the wait for a mode register command has no end. *)
(***************************************************************************)
EXTENDS DdrConfig, SequencesExt, FiniteSetsExt

CONSTANT
  DdrSetups     \* what boot can find: [board, rate, slots, nodes, version]
                \* nodes are the controllers the interconnect uses, version the controllers' IP

ASSUME DdrAssumption ==
  \A setup \in DdrSetups :
    /\ setup.nodes \subseteq {0, 1} /\ setup.board.ctrls \in (SUBSET {0, 1}) \ {{}}
    /\ setup.board.a008511 \in BOOLEAN /\ setup.board.a009803 \in BOOLEAN
    /\ setup.board.raw \in BOOLEAN /\ setup.board.slots \in {0..0, 0..1}
    /\ setup.rate \in Nat /\ setup.rate > 1
    /\ \A c \in setup.board.ctrls, j \in setup.board.slots : setup.slots[c][j] \in Ddr4Spd \cup {EmptySlot}

\* An SPD with the right checksums tells the truth.
ASSUME DimmAssumption ==
  \A setup \in DdrSetups : \A c \in setup.board.ctrls, j \in setup.board.slots :
    LET spd == setup.slots[c][j]
    IN spd # EmptySlot /\ spd.mem_type = "DDR4" /\ ddr4_spd_check(spd) => AddressedInFull(spd)

VARIABLES
  ddrSetup,     \* the setup of this boot, <<>> before dram_init()
  ddrPriv,      \* struct ddr_info: [conf, opts, dimms, regs]
  ddrPc,        \* where init_ddr_sdram() is
  ddrCtrl,      \* the controller it sets up
  ddrTodo,      \* mode register writes still to send: <<chip select, step>>
  ddrRet,       \* ret of init_ddr_sdram()
  ddrSize,      \* what dram_init() returns, in units of 16 MB
  ddrHw         \* the controllers

ddrVars == <<ddrSetup, ddrPriv, ddrPc, ddrCtrl, ddrTodo, ddrRet, ddrSize, ddrHw>>

EIO == -1
EINVAL == -3

\* A controller after reset.  ready: its memory was initialised since it was enabled.
ResetCtrl ==
  [bnds |-> [i \in ChipSelects |-> [sa |-> 0, ea |-> 0]], mem_en |-> FALSE, d_init |-> FALSE,
   aped |-> FALSE, bstopre |-> FALSE, md_en |-> FALSE, ready |-> FALSE]

DdrInit ==
  /\ ddrSetup = <<>> /\ ddrPriv = <<>>
  /\ ddrPc = "off" /\ ddrCtrl = 0 /\ ddrTodo = <<>> /\ ddrRet = 0 /\ ddrSize = 0
  /\ ddrHw = [c \in 0..1 |-> ResetCtrl]

Board == ddrSetup.board
Rate == ddrSetup.rate
Erratum == Board.a008511 \/ Board.a009803

\* The controllers that remove_unused_controllers() leaves.
MainCtrls == IF ddrSetup.nodes \cap Board.ctrls = {} THEN Board.ctrls
             ELSE ddrSetup.nodes \cap Board.ctrls
LastCtrl == CHOOSE c \in MainCtrls : \A d \in MainCtrls : d <= c
FirstCtrl == CHOOSE c \in MainCtrls : \A d \in MainCtrls : c <= d

\* A controller not in use has its registers zeroed.
ZeroRegs ==
  [bnds |-> ResetCtrl.bnds, cs |-> [i \in ChipSelects |-> NoSelect],
   ddr_sdram_cfg |-> [RD_EN |-> FALSE, DBW |-> 0],
   ddr_sdram_cfg_2 |-> [AP_EN |-> FALSE, D_INIT |-> FALSE]]
Regs(c) == ddrPriv.regs[c]
Enabled(c) == {i \in ChipSelects : Regs(c).cs[i].cs_n_en}

-----------------------------------------------------------------------------
(* dram_init() and the planning half of init_ddr_sdram() *)

DramInit(setup) ==
  /\ ddrPc = "off"
  /\ ddrSetup' = setup
  /\ ddrPc' = "spd"
  /\ UNCHANGED <<ddrPriv, ddrCtrl, ddrTodo, ddrRet, ddrSize, ddrHw>>

\* parse_spd() of all controllers; dram_init() returns its error.
ParseSpd ==
  /\ ddrPc = "spd"
  /\ LET found == [c \in MainCtrls |-> parse_spd_ctrl(Board, ddrSetup.slots[c])]
     IN IF \A c \in MainCtrls : found[c].ok
        THEN /\ ddrPriv' = [conf |-> [c \in MainCtrls |-> found[c].conf],
                            dimms |-> [c \in MainCtrls |-> found[c].dimm]]
             /\ ddrPc' = "opts"
             /\ UNCHANGED <<ddrRet, ddrSize>>
        ELSE /\ ddrRet' = EINVAL /\ ddrSize' = EINVAL /\ ddrPc' = "done"
             /\ UNCHANGED ddrPriv
  /\ UNCHANGED <<ddrSetup, ddrCtrl, ddrTodo, ddrHw>>

\* populate_memctl_options(): a board without timing for a DIMM hangs in panic().
PopulateOptions ==
  /\ ddrPc = "opts"
  /\ LET pop(c)  == pop_ctrl_opts(Rate, Board, ddrPriv.conf[c], ddrPriv.dimms[c])
         done    == [c \in MainCtrls |-> IF ddrPriv.conf[c].in_use THEN pop(c)
                                         ELSE [ok |-> FALSE, opts |-> NoOpts]]
         conf    == [c \in MainCtrls |-> [ddrPriv.conf[c] EXCEPT !.in_use = done[c].ok]]
         opts    == [c \in MainCtrls |->
                       ddr_board_options(Rate, Board, done[c].opts, conf[c], ddrPriv.dimms[c])]
     IN IF \A c \in MainCtrls :
             BoardTimingKnown(BoardTable(Board, done[c].opts), ddrPriv.dimms[c])
        THEN /\ ddrPriv' = [conf |-> conf, dimms |-> ddrPriv.dimms,
                            opts |-> check_interleaving_options(MainCtrls, opts, conf, ddrPriv.dimms)]
             /\ ddrPc' = "addr"
        ELSE ddrPc' = "hang" /\ UNCHANGED ddrPriv
  /\ UNCHANGED <<ddrSetup, ddrCtrl, ddrTodo, ddrRet, ddrSize, ddrHw>>

\* The end of the highest chip select, from the bounds of those that are enabled.
TopOfMemory(regs) ==
  LET ends == {regs[p[1]].bnds[p[2]].ea : p \in {q \in MainCtrls \X ChipSelects :
                 /\ regs[q[1]].cs[q[2]].cs_n_en
                 /\ regs[q[1]].bnds[q[2]] # [sa |-> 65535, ea |-> 65535]}}
  IN IF ends = {} THEN 1 ELSE 1 + CHOOSE e \in ends : \A f \in ends : f <= e

\* assign_addresses(), then compute_ddrc_regs() of every controller in use.
ComputeRegisters ==
  /\ ddrPc = "addr"
  /\ LET conf == assign_addresses(MainCtrls, ddrPriv.opts, ddrPriv.conf, ddrPriv.dimms, 0)
         Cas(c) == ChooseCasLatency(Rate, ddrPriv.opts[c], ddrPriv.dimms[c])
         regs == [c \in MainCtrls |->
                    IF conf[c].in_use
                    THEN compute_ddrc_regs(Rate, ddrPriv.opts[c], conf[c], ddrPriv.dimms[c])
                    ELSE ZeroRegs]
         bad  == {c \in MainCtrls : conf[c].in_use /\ (Cas(c) = 0 \/ ~check_ddrc_regs(regs[c]))}
     IN IF bad = {}
        THEN /\ ddrPriv' = [conf |-> conf, dimms |-> ddrPriv.dimms, opts |-> ddrPriv.opts,
                            regs |-> regs]
             /\ ddrSize' = TopOfMemory(regs)
             /\ ddrCtrl' = FirstCtrl
             /\ ddrPc' = "set"
             /\ UNCHANGED ddrRet
        ELSE /\ ddrRet' = EINVAL /\ ddrSize' = EINVAL /\ ddrPc' = "done"
             /\ UNCHANGED <<ddrPriv, ddrCtrl>>
  /\ UNCHANGED <<ddrSetup, ddrTodo, ddrHw>>

-----------------------------------------------------------------------------
(* ddrc_set_regs() of controller ddrCtrl *)

\* ddrc_set_regs() returns r: the next controller, or the end of init_ddr_sdram().
ReturnFromSetRegs(r) ==
  /\ ddrRet' = r
  /\ IF ddrCtrl = LastCtrl
     THEN /\ ddrPc' = "done"
          /\ ddrSize' = IF r # 0 THEN r ELSE ddrSize
          /\ UNCHANGED ddrCtrl
     ELSE /\ ddrPc' = "set" /\ ddrCtrl' = ddrCtrl + 1
          /\ UNCHANGED ddrSize

\* Mutant: D_INIT is not held back.
DInitAtStartMutant(c) == Regs(c).ddr_sdram_cfg_2.D_INIT

\* D_INIT stays clear until the controller is idle where an erratum asks for it.
DInitAtStart(c) == ~Erratum /\ Regs(c).ddr_sdram_cfg_2.D_INIT
ParityInUse(c) == Board.a009803 /\ Regs(c).ddr_sdram_cfg_2.AP_EN

SetRegisters ==
  /\ ddrPc = "set"
  /\ ddrHw' = [ddrHw EXCEPT ![ddrCtrl].bnds = Regs(ddrCtrl).bnds, ![ddrCtrl].bstopre = ~Board.a009663,
                            ![ddrCtrl].d_init = DInitAtStart(ddrCtrl),
                            ![ddrCtrl].aped = ParityInUse(ddrCtrl)]
  /\ ddrPc' = "enable"
  /\ UNCHANGED <<ddrSetup, ddrPriv, ddrCtrl, ddrTodo, ddrRet, ddrSize>>

\* MEM_EN, whatever the planned registers say.
EnableController ==
  /\ ddrPc = "enable"
  /\ ddrHw' = [ddrHw EXCEPT ![ddrCtrl].mem_en = TRUE]
  /\ ddrPc' = IF Erratum THEN "idle" ELSE "data"
  /\ UNCHANGED <<ddrSetup, ddrPriv, ddrCtrl, ddrTodo, ddrRet, ddrSize>>

Version520 == Board.a008511 /\ ddrSetup.version = "5.2.0"

\* What erratum A009803 sends to the registers of an RDIMM.
ParityWrites(c) ==
  IF ParityInUse(c) /\ Regs(c).ddr_sdram_cfg.RD_EN
  THEN LET cs == SetToSortSeq(Enabled(c), <) IN [n \in DOMAIN cs |-> <<cs[n], "parity">>]
  ELSE <<>>

\* The three steps in which erratum A008511 sets VREF.
VrefWrites(c) ==
  FlattenSeq([n \in 1..Cardinality(Enabled(c)) |->
    LET cs == SetToSortSeq(Enabled(c), <)[n] IN <<<<cs, "vref0">>, <<cs, "vref1">>, <<cs, "vref2">>>>])

IdleInTime ==
  /\ ddrPc = "idle"
  /\ ddrTodo' = IF Version520 THEN VrefWrites(ddrCtrl) ELSE ParityWrites(ddrCtrl)
  /\ ddrPc' = IF Version520 THEN "vref" ELSE "parity"
  /\ UNCHANGED <<ddrSetup, ddrPriv, ddrCtrl, ddrRet, ddrSize, ddrHw>>

IdleTimeout ==
  /\ ddrPc \in {"idle", "deskew"}
  /\ ReturnFromSetRegs(EIO)
  /\ UNCHANGED <<ddrSetup, ddrPriv, ddrTodo, ddrHw>>

\* Mutant: the loop over the chip selects does not go on.
WriteModeMutant ==
  /\ ddrPc \in {"vref", "parity"} /\ ddrTodo # <<>> /\ ~ddrHw[ddrCtrl].md_en
  /\ ddrHw' = [ddrHw EXCEPT ![ddrCtrl].md_en = TRUE]
  /\ UNCHANGED <<ddrSetup, ddrPriv, ddrPc, ddrCtrl, ddrTodo, ddrRet, ddrSize>>

\* set_wait_for_bits_clear() of the next mode register write.
WriteMode ==
  /\ ddrPc \in {"vref", "parity"} /\ ddrTodo # <<>> /\ ~ddrHw[ddrCtrl].md_en
  /\ ddrHw' = [ddrHw EXCEPT ![ddrCtrl].md_en = TRUE]
  /\ ddrTodo' = Tail(ddrTodo)
  /\ UNCHANGED <<ddrSetup, ddrPriv, ddrPc, ddrCtrl, ddrRet, ddrSize>>

ModesWritten(pc) == ddrPc = pc /\ ddrTodo = <<>> /\ ~ddrHw[ddrCtrl].md_en

RestartDeskew ==
  /\ ModesWritten("vref")
  /\ ddrPc' = "deskew"
  /\ UNCHANGED <<ddrSetup, ddrPriv, ddrCtrl, ddrTodo, ddrRet, ddrSize, ddrHw>>

DeskewInTime ==
  /\ ddrPc = "deskew"
  /\ ddrTodo' = ParityWrites(ddrCtrl)
  /\ ddrPc' = "parity"
  /\ UNCHANGED <<ddrSetup, ddrPriv, ddrCtrl, ddrRet, ddrSize, ddrHw>>

RestoreDInit ==
  /\ ModesWritten("parity")
  /\ ddrHw' = [ddrHw EXCEPT ![ddrCtrl].aped = FALSE,
                            ![ddrCtrl].d_init = Regs(ddrCtrl).ddr_sdram_cfg_2.D_INIT]
  /\ ddrPc' = "data"
  /\ UNCHANGED <<ddrSetup, ddrPriv, ddrCtrl, ddrTodo, ddrRet, ddrSize>>

-----------------------------------------------------------------------------

\* The memory of a controller in units of 64 MB, from the fields of its chip selects.
total_mem_per_ctrl(regs) ==
  MapThenSumSet(LAMBDA i : 2 ^ (regs.cs[i].ba_bits + 2 + regs.cs[i].row_bits + 12
                                + regs.cs[i].bg_bits + regs.cs[i].col_bits + 8
                                + 3 - regs.ddr_sdram_cfg.DBW - 26),
                {i \in ChipSelects : regs.cs[i].cs_n_en})

\* Units of 10 ms the code allows for a pass over total memory, before its own factor.
PassTime(regs, total) ==
  (100 * (total * 2 ^ (3 + regs.ddr_sdram_cfg.DBW))) \div ((Rate * 1000000) \div 2 ^ 20)
DInitTimeout(regs) ==
  4 * PassTime(regs, total_mem_per_ctrl(regs) * (IF regs.cs[0].intlv_en THEN 2 ELSE 1))

\* Mutant: the time-out is not reported.
DInitTimesOutMutant ==
  /\ ddrPc = "data"
  /\ ReturnFromSetRegs(0)
  /\ UNCHANGED <<ddrSetup, ddrPriv, ddrTodo, ddrHw>>

\* The poll of D_INIT: too slow, done at the very end, or a controller without memory.
DInitTimesOut ==
  /\ ddrPc = "data"
  /\ ReturnFromSetRegs(EIO)
  /\ UNCHANGED <<ddrSetup, ddrPriv, ddrTodo, ddrHw>>

DInitDone ==
  /\ ddrPc = "data" /\ ~ddrHw[ddrCtrl].d_init /\ DInitTimeout(Regs(ddrCtrl)) > 0
  /\ ddrHw' = [ddrHw EXCEPT ![ddrCtrl].bstopre = TRUE]
  /\ ddrPc' = "train"
  /\ UNCHANGED <<ddrSetup, ddrPriv, ddrCtrl, ddrTodo, ddrRet, ddrSize>>

TrainingError ==
  /\ ddrPc = "train"
  /\ ReturnFromSetRegs(EIO)
  /\ UNCHANGED <<ddrSetup, ddrPriv, ddrTodo, ddrHw>>

Halved(bnds) == [i \in ChipSelects |-> [sa |-> bnds[i].sa \div 2, ea |-> bnds[i].ea \div 2]]

\* bist(): an interleaved controller tests its own half of the addresses.
StartBist ==
  /\ ddrPc = "train"
  /\ ddrHw' = [ddrHw EXCEPT ![ddrCtrl].bnds = IF Regs(ddrCtrl).cs[0].intlv_en THEN Halved(@) ELSE @]
  /\ ddrPc' = "bist"
  /\ UNCHANGED <<ddrSetup, ddrPriv, ddrCtrl, ddrTodo, ddrRet, ddrSize>>

\* Mutant: the bounds are restored after a test that passed.
EndBistMutant(outcome) ==
  /\ ddrPc = "bist"
  /\ ddrHw' = [ddrHw EXCEPT ![ddrCtrl].bnds = IF outcome = "passed" THEN Regs(ddrCtrl).bnds ELSE @]
  /\ ReturnFromSetRegs(IF outcome \in {"ecc", "failed"} THEN EIO ELSE 0)
  /\ UNCHANGED <<ddrSetup, ddrPriv, ddrTodo>>

\* An ECC error or a failed test is an error, a test that is not over is none.
EndBist(outcome) ==
  /\ ddrPc = "bist"
  /\ ddrHw' = [ddrHw EXCEPT ![ddrCtrl].bnds = IF Regs(ddrCtrl).cs[0].intlv_en THEN Regs(ddrCtrl).bnds
                                               ELSE @]
  /\ ReturnFromSetRegs(IF outcome \in {"ecc", "failed"} THEN EIO ELSE 0)
  /\ UNCHANGED <<ddrSetup, ddrPriv, ddrTodo>>

-----------------------------------------------------------------------------
(* The controllers *)

\* The initialisation of the memory ends and clears D_INIT.
HwDataInit(c) ==
  /\ ddrHw[c].mem_en /\ ddrHw[c].d_init
  /\ ddrHw' = [ddrHw EXCEPT ![c].d_init = FALSE, ![c].ready = TRUE]
  /\ UNCHANGED <<ddrSetup, ddrPriv, ddrPc, ddrCtrl, ddrTodo, ddrRet, ddrSize>>

HwModeSent(c) ==
  /\ ddrHw[c].md_en
  /\ ddrHw' = [ddrHw EXCEPT ![c].md_en = FALSE]
  /\ UNCHANGED <<ddrSetup, ddrPriv, ddrPc, ddrCtrl, ddrTodo, ddrRet, ddrSize>>

DdrCode ==
  \/ ParseSpd \/ PopulateOptions \/ ComputeRegisters
  \/ SetRegisters \/ EnableController \/ IdleInTime \/ IdleTimeout
  \/ WriteMode \/ RestartDeskew \/ DeskewInTime \/ RestoreDInit
  \/ DInitTimesOut \/ DInitDone \/ TrainingError \/ StartBist
  \/ \E outcome \in {"passed", "ecc", "failed", "unfinished"} : EndBist(outcome)

DdrHardware == \E c \in 0..1 : HwDataInit(c) \/ HwModeSent(c)

DdrNext == (\E setup \in DdrSetups : DramInit(setup)) \/ DdrCode \/ DdrHardware

\* Boot runs on and the controllers answer.
DdrFair == WF_ddrVars(DdrCode) /\ \A c \in 0..1 : WF_ddrVars(HwModeSent(c))
DdrSpec == DdrInit /\ [][DdrNext]_ddrVars /\ DdrFair

-----------------------------------------------------------------------------
(* Properties *)

Planned == ddrPc \in {"set", "enable", "idle", "vref", "deskew", "parity", "data", "train", "bist"}

\* The chip selects that decode addresses, and what each decodes.
Mapped == {p \in MainCtrls \X ChipSelects : /\ Regs(p[1]).cs[p[2]].cs_n_en
                                            /\ Regs(p[1]).bnds[p[2]].sa # 65535}
Span(p) == Regs(p[1]).bnds[p[2]].sa .. Regs(p[1]).bnds[p[2]].ea
Density(c) == ddrPriv.dimms[c].rank_density

\* The address map the controllers are given is the memory that is there: chip selects that
\* decode the same addresses have that much memory between them, others do not overlap, no
\* address below the reported size is left out, and the fields of the chip selects give the
\* controller the size its DIMMs have (addr.c, regs.c, and the end in init_ddr_sdram()).
MemoryIsBacked ==
  /\ Planned =>
       /\ \A p \in Mapped :
            Cardinality(Span(p)) = MapThenSumSet(LAMBDA q : Density(q[1]),
                                                 {q \in Mapped : Span(q) = Span(p)})
       /\ \A p, q \in Mapped : Span(p) = Span(q) \/ Span(p) \cap Span(q) = {}
       /\ \A c \in MainCtrls :
            4 * total_mem_per_ctrl(Regs(c)) = Density(c) * Cardinality({p \in Mapped : p[1] = c})
  /\ ddrPc = "done" /\ ddrSize > 0 => UNION {Span(p) : p \in Mapped} = 0..(ddrSize - 1)

\* clocks last at least ps, less the 1 ps that picos_to_mclk() forgives.
Lasts(clocks, ps) == clocks * 2000000 + Rate >= ps * Rate
Shown(low, ext) == low + 16 * ext

\* The write recovery time of a controller in clocks, as TIMING_CFG_1 and _3 give it.
WriteRecovery(c) == Shown(Regs(c).timing_cfg_1.WRREC, Regs(c).timing_cfg_3.EXT_WRREC)
                      - (IF ddrPriv.opts[c].otf_burst_chop_en THEN 2 ELSE 0)

\* Once a time has been cut into fields and extension fields, the controller still waits as
\* long as the DIMM asks for, and boot waits twice as long as a pass over the memory takes
\* (regs.c; "to add plenty of buffer, double the time", ddrc.c).
TimingsCovered ==
  ddrPc = "set" => \A c \in MainCtrls : ddrPriv.conf[c].in_use =>
    LET g == Regs(c)
        d == ddrPriv.dimms[c]
    IN /\ Lasts(Shown(g.timing_cfg_1.PRETOACT, g.timing_cfg_3.EXT_PRETOACT), d.trp_ps)
       /\ Lasts(Shown(g.timing_cfg_1.ACTTOPRE, g.timing_cfg_3.EXT_ACTTOPRE), d.tras_ps)
       /\ Lasts(Shown(g.timing_cfg_1.ACTTORW, g.timing_cfg_3.EXT_ACTTORW), d.trcd_ps)
       /\ Lasts(Shown(g.timing_cfg_1.REFREC, g.timing_cfg_3.EXT_REFREC) + 8, d.trfc1_ps)
       /\ Lasts(WriteRecovery(c), d.twr_ps)
       /\ Lasts(g.timing_cfg_1.ACTTOACT, d.trrds_ps)
       /\ Lasts(g.timing_cfg_8.ACTTOACT_BG, d.trrdl_ps)
       /\ Lasts(g.timing_cfg_2.FOUR_ACT, d.tfaw_ps)
       /\ Lasts(ShownCasLatency(g) \div 2, d.taa_ps)
       /\ 625 * ((DInitTimeout(g) * Rate) \div 1024)      \* 2 ^ 23 transfers a unit, 64 bits wide
            >= total_mem_per_ctrl(g) * 2 ^ (10 + g.ddr_sdram_cfg.DBW)

\* What the mode registers of the memory say.
CasOfMode == <<9, 10, 11, 12, 13, 14, 15, 16, 18, 20, 22, 24>>
RecoveryOfMode == <<10, 12, 14, 16, 18, 20, 24>>
WriteLatencyOfMode == <<9, 10, 11, 12, 14, 16, 18, 20>>

\* The memory and its controller are told the same: CAS latency, write recovery, write
\* latency, parity latency and column to column delay (regs.c derives each one twice).
ModesAgree ==
  ddrPc = "set" => \A c \in MainCtrls : ddrPriv.conf[c].in_use => \A i \in Enabled(c) :
    LET g == Regs(c)
    IN /\ ShownCasLatency(g) = 2 * CasOfMode[g.mr0[i].CL + 1]
       /\ WriteRecovery(c) = RecoveryOfMode[g.mr0[i].WR + 1]
       /\ g.timing_cfg_2.WR_LAT = WriteLatencyOfMode[g.mr2[i].CWL + 1]
       /\ g.timing_cfg_7.PAR_LAT = g.mr5[i].PAR_LAT
       /\ Lasts(g.mr6.TCCD_L + 4, ddrPriv.dimms[c].tccdl_ps)

\* No memory is initialised before the controller has its final settings: no mode register
\* write is left or under way and parity errors are no longer masked (errata A008511 and
\* A009803 in ddrc_set_regs()).
InitUsesFinalSettings ==
  [][\A c \in 0..1 : ~ddrHw[c].ready /\ ddrHw'[c].ready =>
       ~ddrHw[c].aped /\ ~ddrHw[c].md_en /\ (c = ddrCtrl => ddrTodo = <<>>)]_ddrVars

\* Whatever the test of an interleaved controller finds, the controller decodes its planned
\* addresses afterwards; during the test it decodes as much as it has memory (bist()).
BoundsAreRestored ==
  Planned => \A c \in MainCtrls :
    IF ddrPc = "bist" /\ c = ddrCtrl
    THEN Cardinality(UNION {ddrHw[c].bnds[i].sa .. ddrHw[c].bnds[i].ea : i \in Enabled(c)})
           = 4 * total_mem_per_ctrl(Regs(c))
    ELSE ddrHw[c].bnds \in {ResetCtrl.bnds, Regs(c).bnds}

\* When dram_init() reports memory, the controller it set up last runs on initialised memory,
\* with parity checking and its page policy as planned.  (The result of an earlier
\* controller is overwritten in init_ddr_sdram(): for that one this need not hold.)
SuccessIsInitialised ==
  ddrPc = "done" /\ ddrSize > 0 =>
    LET hw == ddrHw[LastCtrl]
    IN hw.mem_en /\ hw.ready /\ ~hw.aped /\ ~hw.md_en /\ hw.bstopre /\ ~hw.d_init

\* dram_init() comes to an end, or to the panic of a board that does not know the DIMM.
DdrEnds == ddrPc = "spd" ~> ddrPc \in {"done", "hang"}
=============================================================================
