-------------------------------- MODULE Tzc --------------------------------
(***************************************************************************)
(* The address space controller of the LS1046, drivers/tzc/src/tzc400.c,   *)
(* set up by _set_platform_security() of soc-ls1046/soc.s with the regions *)
(* of soc-ls1046/soc_tzasc.h.  Addresses count pages of 2 MB, the alignment*)
(* of every bound in the list.  A filter follows a request to open or      *)
(* close its gate in its own time.                                         *)
(***************************************************************************)
EXTENDS Integers, Sequences

CONSTANTS
  TzcBuilds   \* what the ID and configuration registers may say

ASSUME TzcAssumption ==
  \A build \in TzcBuilds :
    /\ build.id \in BOOLEAN
    /\ build.num_filters \in 1..4 /\ build.num_regions \in 1..32 /\ build.addr_width \in 22..48

VARIABLES
  tzcBuild,    \* the hardware's configuration
  tzcPc,       \* where arm_tzc400_setup() is
  tzcIndex,    \* the filter or the region it has come to
  gate,        \* per filter: the gate asked for and the gate as it is
  tzcRegion,   \* the region registers, from region 0 on
  tzcAction,   \* what a refused access does
  mux          \* whether the traffic to DRAM goes through the controller

tzcVars == <<tzcBuild, tzcPc, tzcIndex, gate, tzcRegion, tzcAction, mux>>

MAX_NUM_TZC_REGION == 5
TZC400_REGION_S_NONE == 0
TZC400_REGION_S_RDWR == 3

\* tzc400_reg_list; an end is the last page of the region.
tzc400_reg_list ==
  LET Reg(start, end, sec, nsaid) ==
        [filters |-> {0}, start |-> start, end |-> end, sec |-> sec, nsaid |-> nsaid]
  IN  << Reg(0,     2047,  TZC400_REGION_S_NONE, "none"),
         Reg(2015,  2046,  TZC400_REGION_S_RDWR, "none"),
         Reg(2047,  2047,  TZC400_REGION_S_RDWR, "all"),
         Reg(1024,  2014,  TZC400_REGION_S_NONE, "all"),
         Reg(17408, 32767, TZC400_REGION_S_NONE, "all") >>

Filters == 0..(tzcBuild.num_filters - 1)
Closed == [asked |-> FALSE, open |-> FALSE]
Opened == [asked |-> TRUE, open |-> TRUE]

\* An earlier boot stage may have left gates open and regions of its own, in the places the list fills;
\* the places after the list are as after reset, which the driver relies on: it never clears them.
TzcInit ==
  /\ tzcBuild \in TzcBuilds
  /\ tzcPc = "off"
  /\ tzcIndex = 0
  /\ gate \in [Filters -> {Closed, Opened}]
  /\ tzcRegion = [r \in 0..(tzcBuild.num_regions - 1) |->
                    [filters |-> IF r < MAX_NUM_TZC_REGION THEN Filters ELSE {}, start |-> 0, end |-> 32767,
                     sec |-> TZC400_REGION_S_RDWR, nsaid |-> IF r = 0 THEN "all" ELSE "none"]]
  /\ tzcAction = "none"
  /\ mux = FALSE

TzcGoto(next, index) == tzcPc' = next /\ tzcIndex' = index
TzcHangs == TzcGoto("hang", 0)

-----------------------------------------------------------------------------
\* tzc400_init(): another component is a panic.
tzc400_init ==
  /\ tzcPc = "off"
  /\ IF tzcBuild.id THEN TzcGoto("disable", 0) ELSE TzcHangs
  /\ UNCHANGED <<tzcBuild, gate, tzcRegion, tzcAction, mux>>

\* tzc400_set_gate_keeper(): the request repeats the state of the other filters.
AskGate(filter, val) ==
  gate' = [f \in Filters |-> [gate[f] EXCEPT !.asked = IF f = filter THEN val ELSE gate[f].open]]

\* Its wait: on to the next filter when the state of all of them is the one asked for.
GateSettled == \A f \in Filters : gate[f].open = gate[f].asked

NextFilter(again, after) ==
  IF tzcIndex + 1 \in Filters THEN TzcGoto(again, tzcIndex + 1) ELSE TzcGoto(after, 0)

tzc400_disable_filters ==
  /\ tzcPc = "disable"
  /\ AskGate(tzcIndex, FALSE)
  /\ TzcGoto("closing", tzcIndex)
  /\ UNCHANGED <<tzcBuild, tzcRegion, tzcAction, mux>>

\* Mutant: the driver does not wait for the gates.
FilterClosedMutant ==
  /\ tzcPc = "closing"
  /\ NextFilter("disable", "configure")
  /\ UNCHANGED <<tzcBuild, gate, tzcRegion, tzcAction, mux>>

FilterClosed ==
  /\ tzcPc = "closing"
  /\ GateSettled
  /\ NextFilter("disable", "configure")
  /\ UNCHANGED <<tzcBuild, gate, tzcRegion, tzcAction, mux>>

\* The assertions of tzc400_configure_region(); all bounds of the list are aligned.
Configurable(region, reg) ==
  /\ reg.filters \subseteq Filters
  /\ region < tzcBuild.num_regions
  /\ reg.end < 2^(tzcBuild.addr_width - 21)
  /\ reg.start <= reg.end
  /\ reg.sec <= TZC400_REGION_S_RDWR

tzc400_configure_region ==
  /\ tzcPc = "configure"
  /\ LET reg == tzc400_reg_list[tzcIndex + 1]
     IN  IF Configurable(tzcIndex, reg)
         THEN /\ tzcRegion' = [tzcRegion EXCEPT ![tzcIndex] = reg]
              /\ IF tzcIndex + 1 < MAX_NUM_TZC_REGION
                 THEN TzcGoto("configure", tzcIndex + 1) /\ UNCHANGED tzcAction
                 ELSE TzcGoto("enable", 0) /\ tzcAction' = "error"
         ELSE TzcHangs /\ UNCHANGED <<tzcRegion, tzcAction>>
  /\ UNCHANGED <<tzcBuild, gate, mux>>

\* A filter that is open already is a panic.
tzc400_enable_filters ==
  /\ tzcPc = "enable"
  /\ IF gate[tzcIndex].open THEN TzcHangs /\ UNCHANGED gate
     ELSE AskGate(tzcIndex, TRUE) /\ TzcGoto("opening", tzcIndex)
  /\ UNCHANGED <<tzcBuild, tzcRegion, tzcAction, mux>>

FilterOpened ==
  /\ tzcPc = "opening"
  /\ GateSettled
  /\ NextFilter("enable", "mux")
  /\ UNCHANGED <<tzcBuild, gate, tzcRegion, tzcAction, mux>>

enable_mux_tzasc ==
  /\ tzcPc = "mux"
  /\ mux' = TRUE
  /\ TzcGoto("done", 0)
  /\ UNCHANGED <<tzcBuild, gate, tzcRegion, tzcAction>>

\* The hardware closes or opens a gate.
GateMoves ==
  /\ \E f \in Filters :
       /\ gate[f].open # gate[f].asked
       /\ gate' = [gate EXCEPT ![f].open = gate[f].asked]
  /\ UNCHANGED <<tzcBuild, tzcPc, tzcIndex, tzcRegion, tzcAction, mux>>

arm_tzc400_setup ==
  \/ tzc400_init \/ tzc400_disable_filters \/ FilterClosed \/ tzc400_configure_region
  \/ tzc400_enable_filters \/ FilterOpened \/ enable_mux_tzasc

TzcNext == arm_tzc400_setup \/ GateMoves

TzcSpec == TzcInit /\ [][TzcNext]_tzcVars

-----------------------------------------------------------------------------
\* The region that decides about a page: one of the list, else region 0.
Matching(page) ==
  {r \in DOMAIN tzcRegion \ {0} :
     0 \in tzcRegion[r].filters /\ page \in tzcRegion[r].start..tzcRegion[r].end}
Deciding(page) == IF Matching(page) = {} THEN 0 ELSE CHOOSE r \in Matching(page) : TRUE

\* The pages on both sides of every bound, and the memory of the secure world.
EdgePages == {0, 1023, 1024, 2014, 2015, 2030, 2046, 2047, 2048, 17407, 17408, 32767}
DramPages == {1024, 2014, 2015, 2030, 2046, 2047, 17408, 32767}
SecurePages == {2015, 2030, 2046}

\* While the regions are written no gate is open, so that no access meets half of the list; when filter 0
\* is open again, no page is in two regions, the normal world reaches all DRAM but the 64 MB of the trusted
\* OS below the last 2 MB, and the secure world reaches those; and when the setup ends, every access passes
\* a filter that is open.
SecureWindow ==
  /\ tzcPc = "configure" => \A f \in Filters : ~gate[f].open
  /\ tzcPc \in {"enable", "opening", "mux", "done"} /\ gate[0].open =>
       \A page \in EdgePages :
         LET reg == tzcRegion[Deciding(page)]
         IN  /\ \A r, s \in Matching(page) : r = s
             /\ reg.nsaid = "all" <=> page \in DramPages \ SecurePages
             /\ page \in SecurePages => reg.sec = TZC400_REGION_S_RDWR
  /\ tzcPc = "done" => mux /\ \A f \in Filters : gate[f].open
=============================================================================
