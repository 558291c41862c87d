----------------------------- MODULE DdrConfig -----------------------------
(***************************************************************************)
(* From what is plugged into the DIMM slots to the options and the address *)
(* map of each DDR controller: spd_ddr.c, dimm.c, opts.c, addr.c and the   *)
(* ddr_board_options() of the boards.                                      *)
(*                                                                         *)
(* A byte of an SPD is the record of its fields; masks of ranks, slots,    *)
(* chip selects and CAS latencies are sets.  Memory is counted in units of *)
(* 16 MB, as in the bounds registers.                                      *)
(***************************************************************************)
EXTENDS DdrTiming, FiniteSets

\* struct ddr4_spd by the fields the driver looks at: a byte that it takes apart is several fields, a time
\* is its bytes in medium units and its byte of fine correction, the bits of a CAS latency are a set, and
\* of a checksum it is known whether it is the one the bytes before it have.
SpdByte == 0..255
SpdTime == SpdByte \X (-128..127)
Ddr4Spd ==
  [mem_type : {"DDR3", "DDR4"}, crc : BOOLEAN, mod_crc : BOOLEAN,
   module_type : {"RDIMM", "UDIMM", "SO_DIMM", "LRDIMM"},
   density : 0..15, bank_addr : 0..3, bank_group : 0..3, row : 0..7, col : 0..7,
   package_3ds : BOOLEAN, die_count : 0..7, width : 0..7, ranks : 1..8, bus_width : 0..7, ecc : BOOLEAN,
   timebases : 0..15, caslat : SUBSET (0..23), taa : SpdTime, trcd : SpdTime, trp : SpdTime, tras : 0..(2 ^ 12 - 1),
   trfc1 : 0..(2 ^ 16 - 1), tfaw : 0..(2 ^ 12 - 1), trrds : SpdTime, trrdl : SpdTime, tccdl : SpdTime,
   mapping : [1..18 -> SpdByte],
   raw_card_e0 : BOOLEAN, addr_mapping : BOOLEAN]

\* What parse_spd() finds in a slot besides an SPD.
EmptySlot == [mem_type |-> "none"]

\* A board: its main controllers, slots and tables, what its soc.h selects, and what its
\* ddr_board_options() sets; that function is otherwise the same for all of them.
\* A row of a table is <<n_ranks, datarate_mhz_high, clk_adjust, wrlvl_start, ctl_2, ctl_3>>.
Row1350 == <<2, 1350, 8, 6, \h0708090B, \h0C0D0E09>>
LS2088udimm == <<Row1350, <<2, 1666, 10, 9, \h090A0B0E, \h0F11110C>>,
                 <<2, 1900, 11, 9, \h0A0B0D10, \h1113130E>>, <<2, 2300, 12, 11, \h0C0D0F12, \h14161610>>>>
LS2088qds_udimm == <<Row1350, <<2, 1666, 8, 7, \h08090A0C, \h0D0F100B>>,
                     <<2, 1900, 8, 7, \h09090B0D, \h0E10120B>>, <<2, 2300, 8, 8, \h090A0C0F, \h1012130C>>>>
LS2080udimm == <<Row1350, <<2, 1666, 10, 9, \h090A0B0E, \h0F11110C>>,
                 <<2, 1900, 12, 10, \h0B0C0E11, \h1214140F>>, <<2, 2300, 12, 11, \h0C0D0F12, \h14161610>>>>
LS2080qds_udimm == LS2088qds_udimm
LS2088rdimm == <<Row1350, <<2, 1666, 8, 7, \h08090A0C, \h0D0F100B>>,
                 <<2, 1900, 8, 7, \h09090B0D, \h0E10120B>>, <<2, 2200, 8, 8, \h090A0C0F, \h1012130C>>>>
LS1088udimm == <<<<2, 1666, 8, 8, \h090A0B0E, \h0F10110D>>, <<2, 1900, 4, 7, \h09090B0D, \h0E10120B>>,
                 <<2, 2300, 8, 9, \h0A0C0E11, \h1214160F>>>>
LS1088qds_udimm == <<<<2, 1666, 8, 8, \h0A0A0C0E, \h0F10110C>>, <<2, 1900, 4, 7, \h09090B0D, \h0E10120B>>,
                     <<2, 2300, 8, 9, \h0A0C0D11, \h1214150E>>>>
LS1046udimm == <<Row1350, <<2, 1666, 8, 7, \h08090A0C, \h0D0F100B>>,
                 <<2, 1900, 8, 7, \h09090B0D, \h0E10121B>>, <<2, 2300, 8, 9, \h0A0B0C10, \h1213140E>>>>
LS1043udimm == <<<<1, 1666, 12, 7, \h07090800, 0>>, <<1, 1900, 12, 7, \h07090800, 0>>,
                 <<1, 2200, 12, 7, \h07090800, 0>>>>

\* The LS2088A-RDB, from which the other boards differ in what their records replace.
LS2088 == [ctrls |-> 0..1, slots |-> 0..1, udimm |-> LS2088udimm, rdimm |-> LS2088rdimm,
           raw |-> FALSE, half_strength |-> FALSE, sample |-> 0, by_selects |-> TRUE, range_2 |-> TRUE,
           a008511 |-> TRUE, a009803 |-> TRUE, a009663 |-> TRUE]
LS2088qds == [LS2088 EXCEPT !.udimm = LS2088qds_udimm]
LS2080 == [LS2088 EXCEPT !.udimm = LS2080udimm]
LS2080qds == [LS2088 EXCEPT !.udimm = LS2080qds_udimm]
LS1046 == [LS2088 EXCEPT !.ctrls = 0..0, !.slots = 0..0, !.udimm = LS1046udimm, !.rdimm = LS1046udimm,
                         !.by_selects = FALSE, !.a009663 = FALSE]
LS1088 == [LS1046 EXCEPT !.udimm = LS1088udimm, !.rdimm = LS1088udimm, !.sample = 15]
LS1088qds == [LS1088 EXCEPT !.udimm = LS1088qds_udimm, !.rdimm = LS1088qds_udimm]
LS1043 == [LS1046 EXCEPT !.udimm = LS1043udimm, !.rdimm = LS1043udimm, !.raw = TRUE,
                         !.half_strength = TRUE, !.sample = 15, !.range_2 = FALSE,
                         !.a008511 = FALSE, !.a009803 = FALSE, !.a009663 = TRUE]

-----------------------------------------------------------------------------
(* dimm.c *)

\* A DIMM nobody has described yet: the zeros of struct ddr_info.
NoDimm ==
  [n_ranks |-> 0, rank_density |-> 0, primary_sdram_width |-> 0, device_width |-> 0,
   registered_dimm |-> FALSE, mirrored_dimm |-> FALSE, n_row_addr |-> 0, n_col_addr |-> 0,
   bank_addr_bits |-> 0, bank_group_bits |-> 0, edc_config |-> 0, caslat_x |-> {}, taa_ps |-> 0,
   trcd_ps |-> 0, trp_ps |-> 0, tras_ps |-> 0, trfc1_ps |-> 0, tfaw_ps |-> 0, trrds_ps |-> 0,
   trrdl_ps |-> 0, tccdl_ps |-> 0, twr_ps |-> 0, refresh_rate_ps |-> 0, rcw |-> <<0, 0>>,
   dq_mapping |-> [n \in 0..17 |-> 0]]

\* In units of 16 MB; a code out of range counts as no bits.
compute_ranksize(spd) ==
  LET cap   == IF spd.density <= 7 THEN spd.density + 28 ELSE 0
      bus   == IF spd.bus_width < 4 THEN spd.bus_width + 3 ELSE 0
      width == IF spd.width < 4 THEN spd.width + 2 ELSE 0
      dies  == IF spd.package_3ds THEN spd.die_count ELSE 0
  IN 2 ^ (cap - 3 + bus - width + dies - 24)

\* What a DIMM is besides what its SPD may say: the rows, columns and banks of its devices are as many as
\* their capacity asks for, the bus is 16, 32 or 64 bits wide, and a rank has 64 MB or more.
AddressedInFull(spd) ==
  /\ spd.density <= 7 /\ spd.width <= 3 /\ spd.col <= 6 /\ spd.bus_width \in 1..3
  /\ spd.density + spd.bus_width >= spd.width
  /\ spd.row + spd.col + spd.bank_addr + spd.bank_group
       = spd.density + 3 - spd.width + (IF spd.package_3ds THEN spd.die_count ELSE 0)

spd_to_ps(t) == t[1] * 125 + t[2]

udimm_rc_e_dq == <<12, 44, 21, 53, 21, 53, 11, 44, 21, 53, 11, 53, 11, 44, 11, 53, 21, 54>>

\* The three parts in which cal_dimm_params() fills the description.
Organization(spd) ==
  [n_ranks |-> spd.ranks, rank_density |-> compute_ranksize(spd),
   primary_sdram_width |-> 2 ^ (3 + spd.bus_width), device_width |-> 2 ^ (spd.width + 2)]

Devices(spd) ==
  [registered_dimm |-> spd.module_type = "RDIMM",
   mirrored_dimm |-> spd.module_type # "RDIMM" /\ spd.addr_mapping,
   n_row_addr |-> spd.row + 12, n_col_addr |-> spd.col + 9,
   bank_addr_bits |-> spd.bank_addr, bank_group_bits |-> spd.bank_group,
   edc_config |-> IF spd.ecc THEN 2 ELSE 0]

Timings(spd) ==
  [caslat_x |-> {bit + 7 : bit \in spd.caslat}, taa_ps |-> spd_to_ps(spd.taa),
   trcd_ps |-> spd_to_ps(spd.trcd), trp_ps |-> spd_to_ps(spd.trp), tras_ps |-> spd.tras * 125,
   trfc1_ps |-> spd.trfc1 * 125, tfaw_ps |-> spd.tfaw * 125, trrds_ps |-> spd_to_ps(spd.trrds),
   trrdl_ps |-> spd_to_ps(spd.trrdl), tccdl_ps |-> spd_to_ps(spd.tccdl), twr_ps |-> 15000,
   refresh_rate_ps |-> 7800000,
   dq_mapping |-> [n \in 0..17 |->      \* the SPD of raw card E0 is wrong
     IF spd.module_type # "RDIMM" /\ spd.raw_card_e0 THEN udimm_rc_e_dq[n + 1]
     ELSE spd.mapping[n + 1]]]

\* The bytes of the base section and those of the module section have a checksum of their own.
ddr4_spd_check(spd) == spd.crc /\ spd.mod_crc

\* cal_dimm_params() fills in the description from top to bottom, and what it has filled in before an error
\* stays.
Filled(pdimm, part) == [f \in DOMAIN pdimm |-> IF f \in DOMAIN part THEN part[f] ELSE pdimm[f]]

cal_dimm_params(spd) ==
  LET organized == Filled(NoDimm, Organization(spd))
      built     == Filled(organized, Devices(spd))
  IN IF spd.mem_type # "DDR4" \/ ~ddr4_spd_check(spd) THEN [ok |-> FALSE, dimm |-> NoDimm]
     ELSE IF spd.module_type \notin {"RDIMM", "UDIMM", "SO_DIMM"} THEN [ok |-> FALSE, dimm |-> organized]
     ELSE IF spd.timebases # 0 THEN [ok |-> FALSE, dimm |-> built]
     ELSE [ok |-> TRUE, dimm |-> Filled(built, Timings(spd))]

\* fsl_ddr_get_dimm_params() of the LS1043A-RDB: discrete MT40A512M8HX-093E.
ddr_raw_timing ==
  [n_ranks |-> 1, rank_density |-> 128, primary_sdram_width |-> 32, device_width |-> 0,
   registered_dimm |-> FALSE, mirrored_dimm |-> FALSE, n_row_addr |-> 15, n_col_addr |-> 10,
   bank_addr_bits |-> 0, bank_group_bits |-> 2, edc_config |-> 0,
   caslat_x |-> {9, 11, 12, 13, 14, 15, 16, 18, 19}, taa_ps |-> 13500,
   trcd_ps |-> 13500, trp_ps |-> 13500, tras_ps |-> 33000, trfc1_ps |-> 260000,
   tfaw_ps |-> 21000, trrds_ps |-> 3700, trrdl_ps |-> 5300, tccdl_ps |-> 5355, twr_ps |-> 15000,
   refresh_rate_ps |-> 7800000, rcw |-> <<0, 0>>, dq_mapping |-> [n \in 0..17 |-> 0]]

-----------------------------------------------------------------------------
(* spd_ddr.c *)

NoConf == [in_use |-> FALSE, dimm_in_use |-> {}, cs_in_use |-> {}, base_addr |-> 0, total_mem |-> 0,
           cs_base_addr |-> [i \in ChipSelects |-> 0], cs_size |-> [i \in ChipSelects |-> 0]]

SlotWidth(board) == 4 \div Cardinality(board.slots)

\* The chip selects of a DIMM in slot j; {} is an error.
RanksAt(board, n_ranks, j) ==
  CASE n_ranks = 4 /\ j = 0 -> ChipSelects
    [] n_ranks = 2 -> {j * SlotWidth(board), j * SlotWidth(board) + 1}
    [] n_ranks = 1 -> {j * SlotWidth(board)}
    [] OTHER -> {}

\* One controller: the slots that answer hold the same DIMM, up to the first gap.
parse_spd_ctrl(board, slot) ==
  LET used   == {j \in board.slots : slot[j] # EmptySlot}
      first  == CHOOSE j \in used : \A k \in used : j <= k
      differ == \E k \in used : /\ \A i \in first..k : i \in used
                                /\ slot[k] # slot[first]
      cal    == cal_dimm_params(slot[first])
      cs     == {RanksAt(board, cal.dimm.n_ranks, j) : j \in used}
      conf   == [NoConf EXCEPT !.dimm_in_use = used]
  IN IF board.raw THEN [ok |-> TRUE, dimm |-> ddr_raw_timing,
                        conf |-> [NoConf EXCEPT !.in_use = TRUE, !.dimm_in_use = {0}, !.cs_in_use = {0}]]
     ELSE IF used = {} THEN [ok |-> TRUE, dimm |-> NoDimm, conf |-> NoConf]
     ELSE IF differ THEN [ok |-> FALSE, dimm |-> NoDimm, conf |-> conf]
     ELSE IF ~cal.ok THEN [ok |-> TRUE, dimm |-> cal.dimm, conf |-> conf]
     ELSE [ok |-> {} \notin cs, dimm |-> cal.dimm,
           conf |-> [conf EXCEPT !.in_use = TRUE, !.cs_in_use = UNION cs]]

-----------------------------------------------------------------------------
(* opts.c *)

Odt(rd, wr, norm, rtt_wr) ==
  [odt_rd_cfg |-> rd, odt_wr_cfg |-> wr, odt_rtt_norm |-> norm, odt_rtt_wr |-> rtt_wr]
Off == Odt("NEVER", "NEVER", 0, 0)
Table(o0, o1, o2, o3) ==
  [i \in ChipSelects |-> CASE i = 0 -> o0 [] i = 1 -> o1 [] i = 2 -> o2 [] OTHER -> o3]

\* Termination in ohms, 0 is off.
single_Q ==
  LET even == Odt("NEVER", "CS_AND_OTHER_DIMM", 34, 120)
      odd  == Odt("NEVER", "NEVER", 0, 120)
  IN Table(even, odd, even, odd)
single_D == Table(Odt("NEVER", "ALL", 40, 0), Off, Off, Off)
single_S == Table(Odt("NEVER", "ALL", 40, 0), Off, Off, Off)
dual_DD ==
  LET even == Odt("NEVER", "SAME_DIMM", 120, 0)
      odd  == Odt("OTHER_DIMM", "OTHER_DIMM", 34, 0)
  IN Table(even, odd, even, odd)
dual_SS == LET one == Odt("OTHER_DIMM", "ALL", 34, 120) IN Table(one, Off, one, Off)
dual_D0 == Table(Odt("NEVER", "SAME_DIMM", 40, 0), Off, Off, Off)
dual_0D == Table(Off, Off, Odt("NEVER", "SAME_DIMM", 40, 0), Off)
dual_S0 == Table(Odt("NEVER", "CS", 40, 0), Off, Off, Off)
dual_0S == Table(Off, Off, Odt("NEVER", "CS", 40, 0), Off)
odt_unknown == LET one == Odt("NEVER", "CS", 120, 0) IN Table(one, one, one, one)

\* The table for this population; <<>> is an error.
PickOdt(board, n_ranks, cs_in_use) ==
  IF Cardinality(board.slots) = 1
  THEN CASE n_ranks = 1 -> single_S [] n_ranks = 2 -> single_D [] n_ranks = 4 -> single_Q
         [] n_ranks = 0 -> <<>> [] OTHER -> odt_unknown
  ELSE CASE n_ranks = 4 -> single_Q
         [] n_ranks = 2 /\ cs_in_use = {0, 1, 2, 3} -> dual_DD
         [] n_ranks = 2 /\ cs_in_use = {0, 1} -> dual_D0
         [] n_ranks = 2 /\ cs_in_use = {2, 3} -> dual_0D
         [] n_ranks = 1 /\ cs_in_use = {0, 2} -> dual_SS
         [] n_ranks = 1 /\ cs_in_use = {0} -> dual_S0
         [] n_ranks = 1 /\ cs_in_use = {2} -> dual_0S
         [] n_ranks = 3 \/ n_ranks > 4 -> odt_unknown
         [] OTHER -> <<>>

auto_bank_intlv(cs_in_use) ==
  CASE cs_in_use = {0, 1, 2, 3} -> "CS0_CS1_CS2_CS3" [] cs_in_use = {0, 1} -> "CS0_CS1"
    [] OTHER -> "none"

\* The zeros of struct ddr_info.
NoOpts ==
  [cs_local_opts |-> [i \in ChipSelects |-> Off], registered_dimm_en |-> FALSE,
   mirrored_dimm |-> FALSE, ecc_mode |-> FALSE, ecc_init_using_memctl |-> FALSE,
   self_refresh_in_sleep |-> FALSE, data_bus_width |-> 0, data_bus_used |-> 0, x4_en |-> FALSE,
   ap_en |-> FALSE, bstopre |-> 0, tfaw_window_four_activates_ps |-> 0,
   memctl_interleaving |-> FALSE, ba_intlv_ctl |-> "none", quad_rank_present |-> FALSE,
   rcw_override |-> FALSE, rcw_1 |-> 0, rcw_2 |-> 0, otf_burst_chop_en |-> FALSE,
   burst_length |-> "none", clk_adjust |-> 0, wrlvl_override |-> FALSE, wrlvl_sample |-> 0,
   wrlvl_start |-> 0, wrlvl_ctl_2 |-> 0, wrlvl_ctl_3 |-> 0, half_strength_driver_enable |-> FALSE,
   twot_en |-> FALSE, threet_en |-> FALSE, vref_range_2 |-> FALSE, write_data_delay |-> 0,
   trwt_override |-> FALSE, trwt |-> 0, rtt_override |-> FALSE, rtt_override_value |-> 0,
   rtt_wr_override_value |-> 0, cas_latency_override |-> FALSE, cas_latency_override_value |-> 0,
   additive_latency_override |-> FALSE, additive_latency_override_value |-> 0]

BusWidth(primary_sdram_width) ==
  CASE primary_sdram_width = 64 -> 0 [] primary_sdram_width = 32 -> 1
    [] primary_sdram_width = 16 -> 2 [] OTHER -> -1

\* The options of one controller in use; an error leaves what was set before it.
pop_ctrl_opts(r, board, conf, pdimm) ==
  LET odt  == PickOdt(board, pdimm.n_ranks, conf.cs_in_use)
      bus  == BusWidth(pdimm.primary_sdram_width)
      base == [NoOpts EXCEPT
                 !.cs_local_opts = odt, !.registered_dimm_en = pdimm.registered_dimm,
                 !.mirrored_dimm = pdimm.mirrored_dimm, !.ecc_mode = TRUE,
                 !.ecc_init_using_memctl = TRUE, !.self_refresh_in_sleep = TRUE]
  IN IF odt = <<>> THEN [ok |-> FALSE, opts |-> NoOpts]
     ELSE IF bus = -1 THEN [ok |-> FALSE, opts |-> base]
     ELSE [ok |-> TRUE, opts |-> [base EXCEPT
            !.data_bus_width = bus, !.data_bus_used = bus, !.x4_en = pdimm.device_width = 4,
            !.ap_en = pdimm.registered_dimm,
            !.bstopre = picos_to_mclk(r, pdimm.refresh_rate_ps) \div 4,
            !.tfaw_window_four_activates_ps = pdimm.tfaw_ps,
            !.memctl_interleaving = 0 \in conf.cs_in_use,
            !.ba_intlv_ctl = auto_bank_intlv(conf.cs_in_use),
            !.quad_rank_present = pdimm.n_ranks = 4,
            !.rcw_override = pdimm.registered_dimm,
            !.rcw_1 = IF pdimm.registered_dimm THEN \h000a5a00 ELSE 0,
            !.rcw_2 = IF ~pdimm.registered_dimm \/ r <= 800 THEN 0
                      ELSE IF r <= 1066 THEN \h00100000 ELSE IF r <= 1333 THEN \h00200000
                      ELSE \h00300000,
            !.otf_burst_chop_en = bus = 0,
            !.burst_length = IF bus = 0 THEN "OTF" ELSE "BL8"]]

\* The rows of a board's table for a DIMM, and the one for a rate: the first that is fast
\* enough, else the last.  In that case ctl_2 and ctl_3 are read from the terminator.
RowsFor(table, pdimm) == {k \in DOMAIN table : table[k][1] = pdimm.n_ranks}
BoardTimingKnown(table, pdimm) == RowsFor(table, pdimm) # {}

BoardTiming(r, table, pdimm) ==
  LET rows == RowsFor(table, pdimm)
      fast == {k \in rows : r <= table[k][2]}
  IN IF fast # {} THEN LET k == CHOOSE k \in fast : \A n \in fast : k <= n
                       IN SubSeq(table[k], 3, 6)
     ELSE LET k == CHOOSE k \in rows : \A n \in rows : n <= k
          IN <<table[k][3], table[k][4], 0, 0>>

\* ddr_board_options() of one controller: no row at all is a panic.
BoardTable(board, opts) == IF opts.registered_dimm_en THEN board.rdimm ELSE board.udimm

ddr_board_options(r, board, opts, conf, pdimm) ==
  LET timing == BoardTiming(r, BoardTable(board, opts), pdimm)
  IN [opts EXCEPT
        !.clk_adjust = timing[1], !.wrlvl_start = timing[2], !.wrlvl_ctl_2 = timing[3],
        !.wrlvl_ctl_3 = timing[4], !.half_strength_driver_enable = board.half_strength,
        !.wrlvl_override = TRUE, !.wrlvl_sample = board.sample,
        !.twot_en = board.by_selects /\ r < 2350 /\ conf.cs_in_use = ChipSelects,
        !.vref_range_2 = /\ board.range_2
                         /\ ~(board.by_selects /\ r < 2350 /\ conf.cs_in_use = ChipSelects)]

\* Controllers interleave when exactly two ask for it and they are alike.
check_interleaving_options(ctrls, opts, conf, dimms) ==
  LET first  == CHOOSE c \in ctrls : \A d \in ctrls : c <= d
      asking == {c \in ctrls : opts[c].memctl_interleaving}
      Shape(c) == <<dimms[c].rank_density, dimms[c].n_ranks, dimms[c].n_row_addr,
                    dimms[c].n_col_addr, opts[c].ba_intlv_ctl>>
      valid  == /\ \A c \in asking : 0 \in conf[c].dimm_in_use /\ Shape(c) = Shape(first)
                /\ Cardinality(asking) \in {0, 2}
  IN IF valid THEN opts ELSE [c \in ctrls |-> [opts[c] EXCEPT !.memctl_interleaving = FALSE]]

-----------------------------------------------------------------------------
(* addr.c *)

BankWays(ba_intlv_ctl) ==
  CASE ba_intlv_ctl = "CS0_CS1_CS2_CS3" -> 4 [] ba_intlv_ctl = "CS0_CS1" -> 2 [] OTHER -> 1

dbw_cap_shift(opts) == 2 ^ (opts.data_bus_used - opts.data_bus_width)

\* Two interleaved controllers: each of its chip selects covers the memory of both.
assign_intlv_addr(pdimm, opts, conf, base) ==
  LET mul   == BankWays(opts.ba_intlv_ctl)
      total == 2 * mul * (pdimm.rank_density \div dbw_cap_shift(opts))
  IN [conf EXCEPT !.base_addr = base, !.total_mem = total, !.cs_in_use = 0..(mul - 1),
                  !.cs_base_addr = [i \in ChipSelects |-> IF i < mul THEN base ELSE @[i]],
                  !.cs_size = [i \in ChipSelects |-> IF i < mul THEN total ELSE @[i]]]

\* The loops over the chip selects end at the first that is not in use.
Leading(cs_in_use) == {i \in cs_in_use : 0..i \subseteq cs_in_use}

assign_non_intlv_addr(pdimm, opts, conf, base) ==
  LET density == pdimm.rank_density \div dbw_cap_shift(opts)
      ways    == BankWays(opts.ba_intlv_ctl)
      mapped  == IF ways = 4 THEN ChipSelects ELSE Leading(conf.cs_in_use)
      shared  == {i \in mapped : ways > 1 /\ i < ways}
      Before(i) == IF i \in shared THEN 0 ELSE i
  IN [conf EXCEPT
        !.base_addr = base, !.total_mem = Cardinality(mapped) * density,
        !.cs_base_addr = [i \in ChipSelects |->
                            IF i \in mapped THEN base + Before(i) * density ELSE @[i]],
        !.cs_size = [i \in ChipSelects |->
                       IF i \in shared THEN ways * density ELSE IF i \in mapped THEN density ELSE @[i]]]

\* Mutant: every controller starts at the bottom.
assign_addressesMutant(ctrls, opts, conf, dimms, mem_base) ==
  LET Assign(c, b) == IF opts[c].memctl_interleaving
                      THEN assign_intlv_addr(dimms[c], opts[c], conf[c], b)
                      ELSE assign_non_intlv_addr(dimms[c], opts[c], conf[c], b)
      alike  == \A c \in ctrls : opts[c].memctl_interleaving
      Start(c) == mem_base
  IN [c \in ctrls |-> Assign(c, Start(c))]

\* assign_addresses() of the main controllers, at most 0 and 1, from mem_base on.  The
\* second starts behind the first unless they interleave.
assign_addresses(ctrls, opts, conf, dimms, mem_base) ==
  LET Assign(c, b) == IF opts[c].memctl_interleaving
                      THEN assign_intlv_addr(dimms[c], opts[c], conf[c], b)
                      ELSE assign_non_intlv_addr(dimms[c], opts[c], conf[c], b)
      alike  == \A c \in ctrls : opts[c].memctl_interleaving
      Start(c) == IF c = 0 \/ 0 \notin ctrls \/ alike THEN mem_base
                  ELSE mem_base + Assign(0, mem_base).total_mem
  IN [c \in ctrls |-> Assign(c, Start(c))]
=============================================================================
