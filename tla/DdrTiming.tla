----------------------------- MODULE DdrTiming -----------------------------
(***************************************************************************)
(* The register values of a DDR4 controller: drivers/ddr/nxp-ddr/regs.c    *)
(* and the clock arithmetic of utility.c, as operators.                    *)
(*                                                                         *)
(* A register is the record of its fields, a field keeps its width, and a  *)
(* field the code always sets to one value is left out.  Times are in ps,  *)
(* the data rate r in MT/s (the code has it in T/s).  Chip selects count   *)
(* from 0; a bit mask of chip selects or CAS latencies is a set.           *)
(***************************************************************************)
EXTENDS Integers, Sequences

ChipSelects == 0..3

Larger(a, b) == IF a >= b THEN a ELSE b
Field(value, width) == value % (2 ^ width)
Flag(condition) == IF condition THEN 1 ELSE 0

\* 2 * 10^12 / data rate, to the nearest ps.
get_memory_clk_period_ps(r) ==
  2000000 \div r + Flag(2 * (2000000 % r) >= r)

\* Mutant: rounded down.
picos_to_mclkMutant(r, picos) ==
  LET ns   == (picos \div 1000) * r
      rest == 1000 * (ns % 2000) + (picos % 1000) * r
  IN ns \div 2000 + rest \div 2000000

\* picos * r / (2 * 10^6), rounded up when more than 1 ps is left.  The product is
\* taken in two parts: TLC has 32 bits.
picos_to_mclk(r, picos) ==
  LET ns   == (picos \div 1000) * r
      rest == 1000 * (ns % 2000) + (picos % 1000) * r
  IN ns \div 2000 + rest \div 2000000 + Flag(rest % 2000000 > r)

\* CWL by the period of the clock.
compute_cas_write_latency(r) ==
  LET mclk_ps == get_memory_clk_period_ps(r)
  IN CASE mclk_ps >= 1250 -> 9
       [] mclk_ps \in 1070..1249 -> 10
       [] mclk_ps \in 935..1069 -> 11
       [] mclk_ps \in 833..934 -> 12
       [] mclk_ps \in 750..832 -> 14
       [] mclk_ps \in 681..749 -> 16
       [] OTHER -> 18

-----------------------------------------------------------------------------

\* Chip select i of a controller that has an enabled chip select at or below it.
set_csn_config(i, cs_n_en, popts, pdimm) ==
  [intlv_en  |-> IF i = 0 THEN popts.memctl_interleaving ELSE FALSE,
   cs_n_en   |-> cs_n_en,
   odt_rd    |-> IF cs_n_en THEN popts.cs_local_opts[i].odt_rd_cfg ELSE "NEVER",
   odt_wr    |-> IF cs_n_en THEN popts.cs_local_opts[i].odt_wr_cfg ELSE "NEVER",
   ba_bits   |-> IF cs_n_en THEN Field(pdimm.bank_addr_bits, 2) ELSE 0,
   row_bits  |-> IF cs_n_en THEN Field(pdimm.n_row_addr - 12, 3) ELSE 0,
   bg_bits   |-> IF cs_n_en THEN Field(pdimm.bank_group_bits, 2) ELSE 0,
   col_bits  |-> IF cs_n_en THEN Field(pdimm.n_col_addr - 8, 3) ELSE 0]

\* RWT, WRT, RRT, WWT, ACTPD, PREPD, MRD/MOD
set_timing_cfg_0(r, popts, conf) ==
  LET overlap == conf.cs_in_use = ChipSelects     \* avoid_odt_overlap() = 2
      txp     == Larger(get_memory_clk_period_ps(r) * 4, 6000)
      rwt     == IF popts.trwt_override THEN popts.trwt ELSE IF r > 1900 THEN 3 ELSE 2
  IN [RWT |-> Field(rwt, 2),
      WRT |-> IF overlap THEN 2 ELSE 1,
      RRT |-> IF overlap THEN 2 ELSE 0,
      WWT |-> IF overlap THEN 2 ELSE 1,
      ACT_PD_EXIT |-> Field(picos_to_mclk(r, txp), 4),
      PRE_PD_EXIT |-> Field(picos_to_mclk(r, txp), 4),
      MRS_CYC |-> Field(Larger(24, picos_to_mclk(r, 15000)), 5)]

\* Write recovery in clocks to what DDR4 supports; index 1 is one clock.
wrrec_table == <<10, 10, 10, 10, 10, 10, 10, 10, 10, 10, 12, 12, 14, 14, 16, 16, 18, 18, 20, 20,
                 24, 24, 24, 24>>

\* PRETOACT, ACTTOPRE, ACTTORW, CASLAT, REFREC, WRREC, ACTTOACT, WRTORD
set_timing_cfg_1(r, popts, pdimm, cas_latency) ==
  LET twr   == picos_to_mclk(r, pdimm.twr_ps)
      wrrec == IF twr \in DOMAIN wrrec_table THEN wrrec_table[twr] ELSE twr
      otf   == IF popts.otf_burst_chop_en THEN 2 ELSE 0
  IN [PRETOACT |-> Field(picos_to_mclk(r, pdimm.trp_ps), 4),
      ACTTOPRE |-> Field(picos_to_mclk(r, pdimm.tras_ps), 4),
      ACTTORW  |-> Field(picos_to_mclk(r, pdimm.trcd_ps), 4),
      CASLAT   |-> Field((cas_latency - 1) * 2, 4),
      REFREC   |-> Field(picos_to_mclk(r, pdimm.trfc1_ps) - 8, 4),
      WRREC    |-> Field(wrrec + otf, 4),
      ACTTOACT |-> Field(Larger(picos_to_mclk(r, pdimm.trrds_ps), 4), 4),
      WRTORD   |-> Field(Larger(2, picos_to_mclk(r, 2500)) + otf, 4)]

\* ADD_LAT, WR_LAT, RDTOPRE, WRDATADELAY, CKE_PLS, FOUR_ACT
set_timing_cfg_2(r, popts, additive_latency) ==
  LET otf == IF popts.otf_burst_chop_en THEN 2 ELSE 0
  IN [ADD_LAT  |-> Field(additive_latency, 4),
      WR_LAT   |-> Field(compute_cas_write_latency(r), 5),
      RD_TO_PRE |-> Field(Larger(4, picos_to_mclk(r, 7500)) + otf, 4),
      WR_DATA_DELAY |-> Field(popts.write_data_delay, 4),
      CKE_PLS  |-> Field(Larger(3, picos_to_mclk(r, 5000)), 3),
      FOUR_ACT |-> Field(picos_to_mclk(r, popts.tfaw_window_four_activates_ps), 6)]

\* EXT bits of PRETOACT, ACTTOPRE, ACTTORW, REFREC, CASLAT, ADD_LAT, WRREC
set_timing_cfg_3(r, popts, pdimm, cas_latency, additive_latency) ==
  LET otf == IF popts.otf_burst_chop_en THEN 2 ELSE 0
      Ext(clocks, width) == Field(clocks \div 16, width)
  IN [EXT_PRETOACT |-> Ext(picos_to_mclk(r, pdimm.trp_ps), 1),
      EXT_ACTTOPRE |-> Ext(picos_to_mclk(r, pdimm.tras_ps), 2),
      EXT_ACTTORW  |-> Ext(picos_to_mclk(r, pdimm.trcd_ps), 1),
      EXT_REFREC   |-> Ext(picos_to_mclk(r, pdimm.trfc1_ps) - 8, 5),
      EXT_CASLAT   |-> Ext(2 * cas_latency - 1, 2),
      EXT_ADD_LAT  |-> Ext(additive_latency, 1),
      EXT_WRREC    |-> Ext(picos_to_mclk(r, pdimm.twr_ps) + otf, 1)]

\* Same cs RRT and WWT: BL/2 for fixed BL8, BL/2 + 2 else; the high bits of RWT.
set_timing_cfg_4(popts) ==
  [RRT |-> IF popts.burst_length = "BL8" THEN 0 ELSE 2,
   WWT |-> IF popts.burst_length = "BL8" THEN 0 ELSE 2,
   EXT_RWT |-> IF popts.trwt_override THEN Field(popts.trwt \div 4, 2) ELSE 0]

\* RODT_ON, RODT_OFF, WODT_ON, WODT_OFF
set_timing_cfg_5(cfg_2, cas_latency) ==
  [RODT_ON |-> IF cas_latency >= cfg_2.WR_LAT THEN Field(cas_latency - cfg_2.WR_LAT + 1, 5) ELSE 0,
   RODT_OFF |-> 4, WODT_ON |-> 1, WODT_OFF |-> 4]

\* CKE_RST, CKSRE, CKSRX, PAR_LAT
set_timing_cfg_7(r, cfg2, pdimm) ==
  LET mclk_ps == get_memory_clk_period_ps(r)
      txpr    == Larger(5, picos_to_mclk(r, pdimm.trfc1_ps + 10000))
      tcksre  == Larger(5, picos_to_mclk(r, 10000))
      cks     == IF tcksre <= 19 THEN tcksre - 5 ELSE 15
  IN [CKE_RST |-> IF txpr <= 200 THEN 0 ELSE IF txpr <= 256 THEN 1 ELSE IF txpr <= 512 THEN 2 ELSE 3,
      CKSRE |-> cks,
      CKSRX |-> cks,
      PAR_LAT |-> IF ~cfg2.AP_EN \/ mclk_ps < 833 THEN 0 ELSE IF mclk_ps >= 935 THEN 4 ELSE 5]

\* Same bank group: RWT, WRT, RRT, WWT, ACTTOACT, WRTORD.  The differences are
\* unsigned in the code: one below zero is not below tccdl.
set_timing_cfg_8(r, cfg_2, popts, pdimm, cas_latency) ==
  LET tccdl == picos_to_mclk(r, pdimm.tccdl_ps)
      Short(clocks) == IF clocks \in 0..(tccdl - 1) THEN Field(tccdl - clocks, 4) ELSE 0
      same  == Field(tccdl - (IF popts.burst_length = "BL8" THEN 4 ELSE 2), 4)
  IN [RWT_BG |-> Short(cas_latency + 2 + 4 - cfg_2.WR_LAT),
      WRT_BG |-> Short(cfg_2.WR_LAT + 4 + 1 - cas_latency),
      RRT_BG |-> same,
      WWT_BG |-> same,
      ACTTOACT_BG |-> Field(picos_to_mclk(r, pdimm.trrdl_ps), 4),
      WRTORD_BG |-> Field(Larger(4, picos_to_mclk(r, 7500))
                            + (IF popts.otf_burst_chop_en THEN 2 ELSE 0), 4)]

-----------------------------------------------------------------------------

\* Register control words of an RDIMM: those of the options or of the SPD.
set_ddr_sdram_rcw(popts, pdimm) ==
  IF ~pdimm.registered_dimm THEN <<0, 0>>
  ELSE IF popts.rcw_override THEN <<popts.rcw_1, popts.rcw_2>> ELSE pdimm.rcw

\* MEM_EN, SREN, ECC_EN, RD_EN, DBW, 8_BE, 3T_EN, 2T_EN, BA_INTLV_CTL, HSE, ACC_ECC_EN
set_ddr_sdram_cfg(popts, pdimm) ==
  LET ecc == pdimm.edc_config = 2 /\ popts.ecc_mode
  IN [MEM_EN |-> TRUE,
      SREN   |-> popts.self_refresh_in_sleep,
      ECC_EN |-> ecc,
      RD_EN  |-> pdimm.registered_dimm,
      DBW    |-> popts.data_bus_used,
      EIGHT_BE |-> popts.burst_length = "BL8" \/ popts.data_bus_used = 1,
      THREET_EN |-> popts.threet_en,
      TWOT_EN |-> ~pdimm.registered_dimm /\ popts.twot_en,
      BA_INTLV |-> popts.ba_intlv_ctl,
      HSE    |-> popts.half_strength_driver_enable,
      ACC_ECC_EN |-> popts.data_bus_used # 0 /\ ecc]

\* SR_IE, ODT_CFG, SLOW, X4_EN, QD_EN, OBC_CFG, AP_EN, D_INIT, RCW_EN, MD_EN
set_ddr_sdram_cfg_2(r, popts) ==
  [ODT_CFG |-> IF \E i \in ChipSelects : popts.cs_local_opts[i].odt_rd_cfg # "NEVER"
                                      \/ popts.cs_local_opts[i].odt_wr_cfg # "NEVER"
               THEN 2 ELSE 0,
   SLOW    |-> r < 1249,
   X4_EN   |-> popts.x4_en,
   QD_EN   |-> popts.quad_rank_present,
   OBC_CFG |-> popts.otf_burst_chop_en,
   AP_EN   |-> popts.ap_en,
   D_INIT  |-> popts.ecc_init_using_memctl,
   RCW_EN  |-> popts.registered_dimm_en,
   MD_EN   |-> popts.mirrored_dimm]

set_ddr_sdram_interval(r, popts, pdimm) ==
  [REFINT |-> Field(picos_to_mclk(r, pdimm.refresh_rate_ps), 16), BSTOPRE |-> Field(popts.bstopre, 14)]

\* Mutant: one entry too few at the start.
wr_tableMutant == <<1, 1, 2, 2, 3, 3, 4, 4, 5, 5, 6, 6, 6, 6, 6>>

\* MR0 and MR1 of each chip select.  Index 1 of a table is write recovery 10, CAS latency 9; above
\* 24 clocks, and for a CAS latency outside its table, the defaults stand.  Nothing keeps a write
\* recovery below 10, as up to 1200 MT/s, from an index outside the table: what the code reads
\* there is not specified.
wr_table == <<0, 1, 1, 2, 2, 3, 3, 4, 4, 5, 5, 6, 6, 6, 6>>
cas_latency_table == <<0, 1, 2, 3, 4, 5, 6, 7, 8, 8, 9, 9, 10, 10, 11, 11>>

set_ddr_sdram_mode_1_3_5_7(r, popts, pdimm, cas_latency, additive_latency) ==
  LET wr_mclk == picos_to_mclk(r, pdimm.twr_ps)
      Rtt(i)  == IF popts.rtt_override THEN popts.rtt_override_value
                 ELSE popts.cs_local_opts[i].odt_rtt_norm
  IN [i \in ChipSelects |->
        [RTT |-> Rtt(i),
         AL  |-> IF additive_latency = cas_latency - 2 THEN 2
                 ELSE IF additive_latency = cas_latency - 1 THEN 1 ELSE 0,
         DIC |-> IF popts.quad_rank_present THEN 1 ELSE 0,
         WR  |-> IF wr_mclk <= 24 THEN wr_table[wr_mclk - 9] ELSE 0,
         CL  |-> IF cas_latency \in 9..24 THEN cas_latency_table[cas_latency - 8] ELSE 4,
         BL  |-> CASE popts.burst_length = "BL8" -> 0 [] popts.burst_length = "BC4" -> 2
                   [] OTHER -> 1]]

\* MR2 and MR3: RTT_WR, CWL, write command latency.
set_ddr_sdram_mode_2_4_6_8(r, popts) ==
  LET mclk_ps == get_memory_clk_period_ps(r)
  IN [i \in ChipSelects |->
        [RTT_WR |-> IF popts.rtt_override THEN popts.rtt_wr_override_value
                    ELSE popts.cs_local_opts[i].odt_rtt_wr,
         CWL    |-> Field(compute_cas_write_latency(r) - 9, 3),
         WC_LAT |-> IF mclk_ps >= 1250 THEN 0 ELSE IF mclk_ps >= 833 THEN 1 ELSE 2]]

\* MR5: one rank is parked, the first that is enabled, or all four; a rank after
\* that clears what an earlier one has set.
set_ddr_sdram_mode_9_11_13_15(r, cfg2, cs, conf) ==
  LET mclk_ps   == get_memory_clk_period_ps(r)
      four_cs   == conf.cs_in_use = ChipSelects
      Parks(i)  == cs[i].cs_n_en /\ (four_cs \/ \A k \in 0..(i - 1) : ~cs[k].cs_n_en)
  IN [i \in ChipSelects |->
        [RTT_PARK |-> Parks(i),
         PAR_LAT  |-> IF ~cfg2.AP_EN THEN 0 ELSE IF mclk_ps >= 935 THEN 4 ELSE 5]]

\* MR6: tCCD_L and the range of VREF.
set_ddr_sdram_mode_10_12_14_16(r, popts, pdimm) ==
  [TCCD_L |-> Field(picos_to_mclk(r, pdimm.tccdl_ps) - 4, 3), RANGE_2 |-> popts.vref_range_2]

set_ddr_sdram_clk_cntl(popts) == [CLK_ADJUST |-> Field(popts.clk_adjust, 5)]

\* dq_map: the wiring of each nibble; ECC[4:7] is 0 with accumulated ECC.
set_ddr_dq_mapping(cfg, pdimm) ==
  [n \in 0..17 |-> IF n = 9 /\ cfg.ACC_ECC_EN THEN 0 ELSE Field(pdimm.dq_mapping[n], 6)]

set_ddr_wrlvl_cntl(popts) ==
  [SMPL |-> IF popts.wrlvl_override THEN Field(popts.wrlvl_sample, 4) ELSE 15,
   START |-> IF popts.wrlvl_override THEN Field(popts.wrlvl_start, 5) ELSE 8,
   CNTL_2 |-> popts.wrlvl_ctl_2,
   CNTL_3 |-> popts.wrlvl_ctl_3]

-----------------------------------------------------------------------------

\* The CAS latency: tAA in clocks, then the next one the DIMM supports within 24;
\* 0 is a failure.
ChooseCasLatency(r, popts, pdimm) ==
  LET mclk_ps == get_memory_clk_period_ps(r)
      first   == IF popts.cas_latency_override THEN popts.cas_latency_override_value
                 ELSE (pdimm.taa_ps + mclk_ps - 1) \div mclk_ps
      found   == {n \in pdimm.caslat_x : n \in first..(first + 23)}
      cas     == CHOOSE n \in found : \A k \in found : n <= k
  IN IF found = {} \/ cas * mclk_ps > 18000 THEN 0 ELSE cas

\* The bounds of chip select i in units of 16 MB.
CsBounds(i, conf) ==
  IF i \in conf.cs_in_use
  THEN [sa |-> conf.cs_base_addr[i], ea |-> conf.cs_base_addr[i] + conf.cs_size[i] - 1]
  ELSE [sa |-> 65535, ea |-> 65535]

\* The loop over the chip selects ends at the first without a size; cs_en stays set.
ConfiguredSelects(conf) == {i \in ChipSelects : \A k \in 0..i : conf.cs_size[k] > 0}
NoSelect == [intlv_en |-> FALSE, cs_n_en |-> FALSE, odt_rd |-> "NEVER", odt_wr |-> "NEVER",
             ba_bits |-> 0, row_bits |-> 0, bg_bits |-> 0, col_bits |-> 0]

CsConfigs(popts, conf, pdimm) ==
  [i \in ChipSelects |->
     IF i \in ConfiguredSelects(conf)
     THEN set_csn_config(i, \E k \in 0..i : k \in conf.cs_in_use, popts, pdimm)
     ELSE NoSelect]

CsAllBounds(conf) ==
  [i \in ChipSelects |->
     IF i \in ConfiguredSelects(conf) THEN CsBounds(i, conf) ELSE [sa |-> 0, ea |-> 0]]

\* All the registers of a controller, in the order the code derives one from another.
compute_ddrc_regs(r, popts, conf, pdimm) ==
  LET cas  == ChooseCasLatency(r, popts, pdimm)
      al   == IF popts.additive_latency_override THEN popts.additive_latency_override_value ELSE 0
      cs   == CsConfigs(popts, conf, pdimm)
      t2   == set_timing_cfg_2(r, popts, al)
      cfg  == set_ddr_sdram_cfg(popts, pdimm)
      cfg2 == set_ddr_sdram_cfg_2(r, popts)
  IN [bnds |-> CsAllBounds(conf), cs |-> cs,
      timing_cfg_0 |-> set_timing_cfg_0(r, popts, conf),
      timing_cfg_1 |-> set_timing_cfg_1(r, popts, pdimm, cas),
      timing_cfg_2 |-> t2,
      timing_cfg_3 |-> set_timing_cfg_3(r, popts, pdimm, cas, al),
      timing_cfg_4 |-> set_timing_cfg_4(popts),
      timing_cfg_5 |-> set_timing_cfg_5(t2, cas),
      timing_cfg_7 |-> set_timing_cfg_7(r, cfg2, pdimm),
      timing_cfg_8 |-> set_timing_cfg_8(r, t2, popts, pdimm, cas),
      ddr_sdram_cfg |-> cfg, ddr_sdram_cfg_2 |-> cfg2,
      ddr_sdram_interval |-> set_ddr_sdram_interval(r, popts, pdimm),
      ddr_sdram_rcw |-> set_ddr_sdram_rcw(popts, pdimm),
      mr0 |-> set_ddr_sdram_mode_1_3_5_7(r, popts, pdimm, cas, al),
      mr2 |-> set_ddr_sdram_mode_2_4_6_8(r, popts),
      mr5 |-> set_ddr_sdram_mode_9_11_13_15(r, cfg2, cs, conf),
      mr6 |-> set_ddr_sdram_mode_10_12_14_16(r, popts, pdimm),
      clk_cntl |-> set_ddr_sdram_clk_cntl(popts),
      dq_map |-> set_ddr_dq_mapping(cfg, pdimm),
      wrlvl |-> set_ddr_wrlvl_cntl(popts)]

\* check_ddrc_regs(): 2T timing and a registered DIMM exclude each other.
check_ddrc_regs(regs) == ~(regs.ddr_sdram_cfg.RD_EN /\ regs.ddr_sdram_cfg.TWOT_EN)

\* What print_ddr_info() decodes from a controller: half clocks of CAS latency.
ShownCasLatency(regs) == regs.timing_cfg_1.CASLAT + 2 + 16 * regs.timing_cfg_3.EXT_CASLAT
=============================================================================
