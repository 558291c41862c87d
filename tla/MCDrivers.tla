----------------------------- MODULE MCDrivers -----------------------------
(***************************************************************************)
(* The drivers that _ppa_main() and the calls of the normal world run, for *)
(* TLC: one of them, chosen at the start, runs from its state after reset; *)
(* they share no state in the source, and the answers one gives another    *)
(* are inputs that the other takes in all their variants.  So the states   *)
(* of the run are those of its drivers side by side, not their product.    *)
(***************************************************************************)
EXTENDS Tzc, Mmdc, DdrInit, I2c, SecMemory, SecBoot, Sfp, Spd, SdMmc, HashDrbg, Sha256

VARIABLE driver

Drivers == {"tzc", "mmdc", "ddr", "i2c", "sec", "secboot", "sfp", "spd", "sd", "drbg", "sha"}

-----------------------------------------------------------------------------
(* The inputs.                                                             *)

\* What the TZC-400 says of itself: identified or not, filters, regions, address bits.
Tzc(id, filters, regions, width) ==
  [id |-> id, num_filters |-> filters, num_regions |-> regions, addr_width |-> width]
MCTzcBuilds ==
  {Tzc(TRUE, 1, 9, 40), Tzc(TRUE, 3, 9, 40), Tzc(FALSE, 1, 9, 40), Tzc(TRUE, 1, 4, 40), Tzc(TRUE, 1, 9, 32)}

\* DIMMs: a dual-rank x8 UDIMM of 16 GB at DDR4-2400, an RDIMM of x4 devices, one rank, and two that
\* the driver refuses.
U2x8 ==
  [mem_type |-> "DDR4", crc |-> TRUE, mod_crc |-> TRUE, module_type |-> "UDIMM", density |-> 5,
   bus_width |-> 3, width |-> 1, package_3ds |-> FALSE, die_count |-> 0, ranks |-> 2,
   addr_mapping |-> TRUE, raw_card_e0 |-> FALSE, row |-> 4, col |-> 1, bank_addr |-> 0,
   bank_group |-> 2, ecc |-> TRUE, timebases |-> 0, caslat |-> 3..11,
   taa |-> <<110, 0>>, trcd |-> <<110, 0>>, trp |-> <<110, 0>>, tras |-> 256,
   trfc1 |-> 2800, tfaw |-> 168, trrds |-> <<30, -50>>, trrdl |-> <<40, -100>>,
   tccdl |-> <<40, 0>>, mapping |-> [n \in 1..18 |-> n]]
R2x4 == [U2x8 EXCEPT !.module_type = "RDIMM", !.width = 0, !.row = 5, !.addr_mapping = FALSE, !.tfaw = 104]
U1x8 == [U2x8 EXCEPT !.ranks = 1, !.raw_card_e0 = TRUE]
BadCrc == [U2x8 EXCEPT !.mod_crc = FALSE]
LrDimm == [U2x8 EXCEPT !.module_type = "LRDIMM"]
E0 == EmptySlot

\* Boards with their data rate, the DIMMs in their slots, the interleaving of two controllers with
\* nodes 0 and 1, and the version of the controller.
Setup(board, rate, slots, nodes, version) ==
  [board |-> board, rate |-> rate, slots |-> slots, nodes |-> nodes, version |-> version]
Two(a, b, c, d) == [n \in 0..1 |-> [j \in 0..1 |-> <<a, b, c, d>>[2 * n + j + 1]]]
One(a) == [n \in 0..0 |-> [j \in 0..0 |-> a]]
MCSetups ==
  {Setup(LS2088, rate, slots, {0, 1}, "5.2.0") : rate \in {1600, 1866, 2133},
     slots \in {Two(U2x8, E0, U2x8, E0), Two(U2x8, U2x8, U2x8, U2x8), Two(R2x4, E0, R2x4, E0),
                 Two(U2x8, E0, E0, E0), Two(U1x8, E0, U1x8, E0)}}
  \cup {Setup(LS2088, 1866, slots, {0, 1}, "5.2.0") :
     slots \in {Two(E0, U2x8, U2x8, E0), Two(U2x8, E0, R2x4, E0), Two(LrDimm, E0, U2x8, E0),
                 Two(BadCrc, E0, U2x8, E0), Two(U2x8, R2x4, U2x8, E0), Two(E0, U2x8, E0, U2x8)}}
  \cup {Setup(LS2088, 1600, Two(R2x4, R2x4, R2x4, R2x4), nodes, "5.2.1") : nodes \in SUBSET {0, 1}}
  \cup {Setup(LS1046, rate, One(dimm), {0}, version) :
          rate \in {1600, 1800, 2100}, dimm \in {U2x8, R2x4, U1x8, E0}, version \in {"5.2.0", "5.2.1"}}
  \cup {Setup(LS1043, 1600, One(E0), {0}, "5.0"), Setup(LS2088qds, 1600, Two(U2x8, E0, U2x8, E0), {0, 1}, "5.2.0"),
        Setup(LS2080, 1866, Two(U2x8, U2x8, E0, E0), {0}, "5.2.0"),
        Setup(LS2080qds, 2133, Two(R2x4, E0, R2x4, E0), {0, 1}, "5.2.1")}
  \cup {Setup(board, rate, One(U2x8), {0}, "5.2.1") : board \in {LS1088, LS1088qds}, rate \in {1600, 2100}}

\* SD and MMC cards: their sort, whether they are of high capacity and of high speed, and their SCR.
Card(sort, hc, hs, scr) == [sort |-> sort, hc |-> hc, hs |-> hs, scr |-> scr]
MCCards ==
  {Card("none", FALSE, FALSE, 0), Card("sd1", FALSE, TRUE, 1), Card("sd2", TRUE, TRUE, 2),
   Card("mmc3", FALSE, FALSE, 0), Card("mmc4", TRUE, TRUE, 0)}

\* SEC engines: the SoC, virtualised or not, the entropy delay they need, and what an earlier boot stage
\* left: state handles, jobs in the ring.
Engine(soc, inc, por, scfgr, needs, shs, left) ==
  [soc |-> soc, inc |-> inc, por |-> por, scfgr |-> scfgr, needs |-> needs, handles |-> shs, left |-> left]
MCEngines ==
  {Engine("ls1046", TRUE, FALSE, scfgr, needs, {}, <<>>) :
     scfgr \in BOOLEAN, needs \in {3200, 3500, 12000, 12400, 12401}}
  \cup {Engine("ls2088", FALSE, TRUE, FALSE, 4000, shs, <<"error", "run">>) : shs \in SUBSET {0, 1}}

\* Fuse scripts: the fields to blow, the form of the OTPMK, the system configuration, and the key given.
Script(flags, mode, sc, key) ==
  [barker |-> TRUE, flags |-> flags, otpmk |-> mode,
   value |-> [f \in SfpFields |-> IF f = "sc" THEN sc ELSE IF f = "otpmk" THEN key
                               ELSE IF mode = "random" THEN {1} ELSE {2}]]
MCScripts ==
  {Script(SfpFields, "random", {"its"}, {}), Script({"srkh", "oem1", "oem3", "dcv0", "drv1"}, "min", {}, {}),
   Script({"srkh"}, "none", {}, {}), Script({"oem3", "dbg"}, "random_min", {}, {}),
   Script({"mc"}, "user_min", {}, {1, 2, 3, 252, 253, 254, 255}), Script({"sc"}, "user", {"wp"}, {1, 2, 3, 8}),
   [Script({}, "none", {}, {}) EXCEPT !.barker = FALSE]}

\* Where a burn may be cut short: before and after all the others, and between those of a pair.
MCCuts == {{}, SfpFields, {"srkh", "dcv0", "drv0", "oem1"}}

\* Bits of random numbers: asked for, and of the variable they go to.
MCDrbgForms == {<<64, 64>>}

\* Random keys: sets of bits, with the parity bits of the code word in some of them.
MCRandoms == {{}, {1}, {252}, {3, 255}, {0, 7, 247}, {4, 248}, 0..255, {100, 200, 253, 254}}

-----------------------------------------------------------------------------
DriversInit ==
  /\ driver \in Drivers
  /\ TzcInit /\ (driver # "tzc" => tzcBuild = Tzc(TRUE, 1, 9, 40) /\ gate[0] = Closed)
  /\ MmdcInit
  /\ DdrInit
  /\ I2cInit /\ (driver # "i2c" => eeprom.present /\ eeprom.page = 0)
  /\ SecMemInit /\ (driver # "sec" => heap.end = HeapAddr + 95)
  /\ SecBootInit /\ (driver # "secboot" => secEngine = Engine("ls1046", TRUE, FALSE, FALSE, 3200, {}, <<>>))
  /\ SfpInit
  /\ SpdInit /\ (driver # "spd" => loadable)
  /\ SdInit /\ (driver # "sd" => sdCard = CardIs(Card("none", FALSE, FALSE, 0)))
  /\ DrbgInit
  /\ ShaInit

DriversNext ==
  /\ UNCHANGED driver
  /\ \/ /\ driver = "tzc" /\ TzcNext
        /\ UNCHANGED <<mmdcVars, ddrVars, i2cVars, secMemVars, secBootVars, sfpVars, spdVars, sdVars, drbgVars, shaVars>>
     \/ /\ driver = "mmdc" /\ MmdcNext
        /\ UNCHANGED <<tzcVars, ddrVars, i2cVars, secMemVars, secBootVars, sfpVars, spdVars, sdVars, drbgVars, shaVars>>
     \/ /\ driver = "ddr" /\ DdrNext
        /\ UNCHANGED <<tzcVars, mmdcVars, i2cVars, secMemVars, secBootVars, sfpVars, spdVars, sdVars, drbgVars, shaVars>>
     \/ /\ driver = "i2c" /\ I2cNext
        /\ UNCHANGED <<tzcVars, mmdcVars, ddrVars, secMemVars, secBootVars, sfpVars, spdVars, sdVars, drbgVars, shaVars>>
     \/ /\ driver = "sec" /\ SecMemNext
        /\ UNCHANGED <<tzcVars, mmdcVars, ddrVars, i2cVars, secBootVars, sfpVars, spdVars, sdVars, drbgVars, shaVars>>
     \/ /\ driver = "secboot" /\ SecBootNext
        /\ UNCHANGED <<tzcVars, mmdcVars, ddrVars, i2cVars, secMemVars, sfpVars, spdVars, sdVars, drbgVars, shaVars>>
     \/ /\ driver = "sfp" /\ SfpNext
        /\ UNCHANGED <<tzcVars, mmdcVars, ddrVars, i2cVars, secMemVars, secBootVars, spdVars, sdVars, drbgVars, shaVars>>
     \/ /\ driver = "spd" /\ SpdNext
        /\ UNCHANGED <<tzcVars, mmdcVars, ddrVars, i2cVars, secMemVars, secBootVars, sfpVars, sdVars, drbgVars, shaVars>>
     \/ /\ driver = "sd" /\ SdNext
        /\ UNCHANGED <<tzcVars, mmdcVars, ddrVars, i2cVars, secMemVars, secBootVars, sfpVars, spdVars, drbgVars, shaVars>>
     \/ /\ driver = "drbg" /\ DrbgNext
        /\ UNCHANGED <<tzcVars, mmdcVars, ddrVars, i2cVars, secMemVars, secBootVars, sfpVars, spdVars, sdVars, shaVars>>
     \/ /\ driver = "sha" /\ ShaNext
        /\ UNCHANGED <<tzcVars, mmdcVars, ddrVars, i2cVars, secMemVars, secBootVars, sfpVars, spdVars, sdVars, drbgVars>>

driversVars ==
  <<driver, tzcVars, mmdcVars, ddrVars, i2cVars, secMemVars, secBootVars, sfpVars, spdVars, sdVars, drbgVars, shaVars>>

DriversSpec == DriversInit /\ [][DriversNext]_driversVars /\ DdrFair /\ SdFair
=============================================================================
