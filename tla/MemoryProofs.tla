---------------------------- MODULE MemoryProofs ----------------------------
(***************************************************************************)
(* Proofs about the controllers that boot sets up before the memory is     *)
(* used: the filter in front of the memory (Tzc), the DDR3 controller      *)
(* (Mmdc) and the DDR4 controllers (DdrInit).  Each is set up by one core, *)
(* and each invariant says what is settled at every place of that code     *)
(* while the hardware moves on its own.                                    *)
(***************************************************************************)
EXTENDS Tzc, Mmdc, DdrInit, FiniteSetTheorems, NaturalsInduction, WellFoundedInduction, TLAPS

-----------------------------------------------------------------------------
(* The address space controller (Tzc), for any hardware configuration.     *)

Gate == [asked : BOOLEAN, open : BOOLEAN]

TzcPlace == {"off", "disable", "closing", "configure", "enable", "opening", "mux", "done", "hang"}

LastRegion == tzcBuild.num_regions - 1

\* The first n entries of the list are in the registers, and the registers behind the list take part in nothing.
Written(n) ==
  /\ DOMAIN tzcRegion = 0..LastRegion
  /\ n <= LastRegion + 1
  /\ \A r \in 0..(n - 1) : tzcRegion[r] = tzc400_reg_list[r + 1]
  /\ \A r \in DOMAIN tzcRegion : r >= MAX_NUM_TZC_REGION => tzcRegion[r].filters = {}

Settled(f, val) == gate[f].asked = val /\ gate[f].open = val

\* The filters are closed one after the other, the list is written while all are closed, and they are
\* opened one after the other; only the gate of the filter the driver has come to may be on its way.
GatesFollow ==
  /\ tzcPc \in {"off", "disable"} => \A f \in Filters : gate[f].asked = gate[f].open
  /\ tzcPc \in {"disable", "closing", "enable", "opening"} => tzcIndex \in Filters
  /\ tzcPc \in {"disable", "closing"} => \A f \in Filters : f < tzcIndex => Settled(f, FALSE)
  /\ tzcPc = "closing" =>
       /\ ~gate[tzcIndex].asked
       /\ \A f \in Filters \ {tzcIndex} : gate[f].asked = gate[f].open
  /\ tzcPc = "configure" => \A f \in Filters : Settled(f, FALSE)
  /\ tzcPc \in {"enable", "opening"} =>
       \A f \in Filters : (f < tzcIndex => Settled(f, TRUE)) /\ (f > tzcIndex => Settled(f, FALSE))
  /\ tzcPc = "enable" => Settled(tzcIndex, FALSE)
  /\ tzcPc = "opening" => gate[tzcIndex].asked
  /\ tzcPc \in {"mux", "done"} => \A f \in Filters : Settled(f, TRUE)
  /\ tzcPc = "done" => mux

ListFollows ==
  /\ tzcPc \in {"off", "disable", "closing"} => Written(0)
  /\ tzcPc = "configure" => tzcIndex \in 0..(MAX_NUM_TZC_REGION - 1) /\ Written(tzcIndex)
  /\ tzcPc \in {"enable", "opening", "mux", "done"} => Written(MAX_NUM_TZC_REGION)

TzcInv ==
  /\ tzcBuild \in TzcBuilds
  /\ tzcPc \in TzcPlace
  /\ gate \in [Filters -> Gate]
  /\ GatesFollow
  /\ ListFollows

LEMMA BuildFacts ==
  ASSUME tzcBuild \in TzcBuilds
  PROVE  /\ tzcBuild.num_filters \in 1..4 /\ LastRegion \in 0..31
         /\ Filters \subseteq 0..3 /\ 0 \in Filters
         /\ \A f \in Filters, g \in 0..3 : g <= f => g \in Filters
         /\ \A f \in Filters : f \in Int /\ (f + 1 \notin Filters => \A g \in Filters : g <= f)
<1>1. tzcBuild.num_filters \in 1..4 /\ tzcBuild.num_regions \in 1..32
  BY TzcAssumption
<1>2. LastRegion \in 0..31
  BY <1>1 DEF LastRegion
<1>3. QED  BY <1>1, <1>2 DEF Filters

LEMMA GateFields ==
  \A g \in Gate : g.asked \in BOOLEAN /\ g.open \in BOOLEAN
BY DEF Gate

\* A request to one filter leaves the state of all gates alone.
LEMMA Asks ==
  ASSUME gate \in [Filters -> Gate], NEW i \in Filters, NEW val \in BOOLEAN,
         AskGate(i, val), UNCHANGED tzcBuild
  PROVE  /\ gate' \in [Filters -> Gate]
         /\ \A f \in Filters : gate'[f].open = gate[f].open
         /\ gate'[i].asked = val
         /\ \A f \in Filters \ {i} : gate'[f].asked = gate[f].open
<1>1. \A f \in Filters : [gate[f] EXCEPT !.asked = IF f = i THEN val ELSE gate[f].open] \in Gate
  BY DEF Gate
<1>2. \A f \in Filters : LET g == [gate[f] EXCEPT !.asked = IF f = i THEN val ELSE gate[f].open]
                         IN  g.open = gate[f].open /\ g.asked = IF f = i THEN val ELSE gate[f].open
  BY DEF Gate
<1>3. gate' = [f \in Filters |-> [gate[f] EXCEPT !.asked = IF f = i THEN val ELSE gate[f].open]]
  BY DEF AskGate
<1>4. gate' \in [Filters -> Gate]
  BY <1>1, <1>3
<1>5. \A f \in Filters : gate'[f] = [gate[f] EXCEPT !.asked = IF f = i THEN val ELSE gate[f].open]
  BY <1>3
<1>6. QED  BY <1>2, <1>4, <1>5

LEMMA TzcInitInv == TzcInit => TzcInv
<1> SUFFICES ASSUME TzcInit PROVE TzcInv
  OBVIOUS
<1>1. tzcBuild \in TzcBuilds /\ tzcPc = "off" /\ gate \in [Filters -> {Closed, Opened}]
  BY DEF TzcInit
<1>2. Closed \in Gate /\ Opened \in Gate /\ Closed.asked = Closed.open /\ Opened.asked = Opened.open
  BY DEF Closed, Opened, Gate
<1>3. gate \in [Filters -> Gate] /\ GatesFollow
  BY <1>1, <1>2 DEF GatesFollow
<1>4. Written(0)
  <2> DEFINE reset(r) == [filters |-> IF r < 5 THEN Filters ELSE {}, start |-> 0, end |-> 32767,
                          sec |-> TZC400_REGION_S_RDWR, nsaid |-> IF r = 0 THEN "all" ELSE "none"]
  <2>0. LastRegion \in 0..31
    BY <1>1, BuildFacts
  <2>1. tzcRegion = [r \in 0..LastRegion |-> reset(r)]
    BY DEF TzcInit, MAX_NUM_TZC_REGION, LastRegion
  <2>2. \A r \in 0..LastRegion : r >= 5 => reset(r).filters = {}
    OBVIOUS
  <2> HIDE DEF reset
  <2>3. DOMAIN tzcRegion = 0..LastRegion /\ \A r \in 0..LastRegion : tzcRegion[r] = reset(r)
    BY <2>1
  <2>4. \A r \in DOMAIN tzcRegion : r >= 5 => tzcRegion[r].filters = {}
    BY <2>2, <2>3
  <2>5. DOMAIN tzcRegion = 0..LastRegion /\ 0 <= LastRegion + 1 /\ 0..(0 - 1) = {}
    BY <2>0, <2>3
  <2>6. QED  BY <2>4, <2>5 DEF Written, MAX_NUM_TZC_REGION
<1>5. QED  BY <1>1, <1>3, <1>4 DEF TzcInv, TzcPlace, ListFollows

LEMMA TzcNextInv ==
  ASSUME TzcInv, [TzcNext]_tzcVars
  PROVE  TzcInv'
<1>0. /\ tzcBuild \in TzcBuilds /\ gate \in [Filters -> Gate]
      /\ \A f \in Filters : gate[f].asked \in BOOLEAN /\ gate[f].open \in BOOLEAN
      /\ LastRegion \in 0..31
  BY GateFields, BuildFacts DEF TzcInv
<1>1. CASE tzc400_init
  <2>1. /\ tzcPc = "off" /\ UNCHANGED <<tzcBuild, gate, tzcRegion, mux>>
        /\ (tzcPc' = "disable" /\ tzcIndex' = 0) \/ tzcPc' = "hang"
    BY <1>1 DEF tzc400_init, TzcGoto, TzcHangs
  <2>2. Filters' = Filters /\ (Written(0) => Written(0)')
    BY <2>1 DEF Filters, Written, LastRegion
  <2>3. QED
    BY <1>0, <2>1, <2>2, BuildFacts DEF TzcInv, TzcPlace, GatesFollow, ListFollows, Settled
<1>2. CASE tzc400_disable_filters
  <2>1. /\ tzcPc = "disable" /\ UNCHANGED <<tzcBuild, tzcRegion, mux>>
        /\ AskGate(tzcIndex, FALSE)
        /\ tzcPc' = "closing" /\ tzcIndex' = tzcIndex
    BY <1>2 DEF tzc400_disable_filters, TzcGoto
  <2>2. Filters' = Filters /\ (Written(0) => Written(0)')
    BY <2>1 DEF Filters, Written, LastRegion
  <2>3. tzcIndex \in Filters
    BY <2>1 DEF TzcInv, GatesFollow
  <2>4. /\ gate' \in [Filters -> Gate]
        /\ \A f \in Filters : gate'[f].open = gate[f].open
        /\ gate'[tzcIndex].asked = FALSE
        /\ \A f \in Filters \ {tzcIndex} : gate'[f].asked = gate[f].open
    BY <1>0, <2>1, <2>3, Asks
  <2>5. QED
    BY <1>0, <2>1, <2>2, <2>3, <2>4, BuildFacts
    DEF TzcInv, TzcPlace, GatesFollow, ListFollows, Settled
<1>3. CASE FilterClosed
  <2>1. /\ tzcPc = "closing" /\ UNCHANGED <<tzcBuild, gate, tzcRegion, mux>> /\ GateSettled
        /\ \/ tzcIndex + 1 \in Filters /\ tzcPc' = "disable" /\ tzcIndex' = tzcIndex + 1
           \/ tzcIndex + 1 \notin Filters /\ tzcPc' = "configure" /\ tzcIndex' = 0
    BY <1>3 DEF FilterClosed, NextFilter, TzcGoto
  <2>2. Filters' = Filters /\ (Written(0) => Written(0)')
    BY <2>1 DEF Filters, Written, LastRegion
  <2>3. QED
    BY <1>0, <2>1, <2>2, BuildFacts
    DEF TzcInv, TzcPlace, GatesFollow, ListFollows, Settled, GateSettled, MAX_NUM_TZC_REGION
<1>4. CASE tzc400_configure_region
  <2> DEFINE reg == tzc400_reg_list[tzcIndex + 1]
  <2>1. /\ tzcPc = "configure" /\ UNCHANGED <<tzcBuild, gate, mux>>
        /\ \/ /\ tzcIndex <= LastRegion
              /\ tzcRegion' = [tzcRegion EXCEPT ![tzcIndex] = reg]
              /\ \/ tzcIndex + 1 < 5 /\ tzcPc' = "configure" /\ tzcIndex' = tzcIndex + 1
                 \/ ~(tzcIndex + 1 < 5) /\ tzcPc' = "enable" /\ tzcIndex' = 0
           \/ tzcPc' = "hang"
    <3>1. tzcIndex \in 0..4 /\ tzcBuild.num_regions \in 1..32
      BY <1>4, TzcAssumption DEF TzcInv, ListFollows, tzc400_configure_region, MAX_NUM_TZC_REGION
    <3>2. tzcIndex < tzcBuild.num_regions => tzcIndex <= LastRegion
      BY <3>1 DEF LastRegion
    <3>3. QED
      BY <1>4, <3>2 DEF tzc400_configure_region, Configurable, TzcGoto, TzcHangs, MAX_NUM_TZC_REGION
  <2>2. Filters' = Filters /\ LastRegion' = LastRegion
    BY <2>1 DEF Filters, LastRegion
  <2>3. CASE tzcPc' = "hang"
    BY <1>0, <2>1, <2>2, <2>3 DEF TzcInv, TzcPlace, GatesFollow, ListFollows
  <2>4. CASE tzcPc' # "hang"
    <3> HIDE DEF reg
    <3>1. tzcIndex \in 0..4 /\ Written(tzcIndex) /\ tzcIndex <= LastRegion
      BY <2>1, <2>4 DEF TzcInv, ListFollows, MAX_NUM_TZC_REGION
    <3>2. tzcIndex \in DOMAIN tzcRegion
      BY <1>0, <3>1 DEF Written
    <3>3. PICK i \in 0..4 : i = tzcIndex
      BY <3>1
    <3>4. Written(i + 1)'
      <4>1. /\ DOMAIN tzcRegion' = DOMAIN tzcRegion
            /\ \A r \in DOMAIN tzcRegion : tzcRegion'[r] = IF r = i THEN reg ELSE tzcRegion[r]
        BY <2>1, <2>4, <3>2, <3>3
      <4>2. \A r \in 0..i : tzcRegion'[r] = tzc400_reg_list[r + 1]
        <5> TAKE r \in 0..i
        <5>1. r \in DOMAIN tzcRegion
          BY <1>0, <3>1, <3>3 DEF Written
        <5>2. CASE r = i
          BY <3>3, <4>1, <5>1, <5>2 DEF reg
        <5>3. CASE r # i
          BY <3>1, <3>3, <4>1, <5>1, <5>3 DEF Written
        <5>4. QED  BY <5>2, <5>3
      <4>3. \A r \in DOMAIN tzcRegion' : r >= 5 => tzcRegion'[r].filters = {}
        BY <3>1, <3>3, <4>1 DEF Written, MAX_NUM_TZC_REGION
      <4>4. QED
        BY <1>0, <2>2, <3>1, <3>3, <4>1, <4>2, <4>3 DEF Written, MAX_NUM_TZC_REGION
    <3>5. CASE i < 4
      <4>1. tzcPc' = "configure" /\ tzcIndex' = i + 1 /\ Written(i + 1)'
        BY <2>1, <2>4, <3>3, <3>4, <3>5
      <4>2. Written(tzcIndex)'
        BY <4>1
      <4>3. QED
        BY <1>0, <2>1, <2>2, <4>1, <4>2, <3>5 DEF TzcInv, TzcPlace, GatesFollow, ListFollows, Settled, MAX_NUM_TZC_REGION
    <3>6. CASE i = 4
      <4>1. tzcPc' = "enable" /\ tzcIndex' = 0 /\ Written(5)'
        BY <2>1, <2>4, <3>3, <3>4, <3>6
      <4>2. QED
        BY <1>0, <2>1, <2>2, <4>1, BuildFacts
        DEF TzcInv, TzcPlace, GatesFollow, ListFollows, Settled, MAX_NUM_TZC_REGION
    <3>7. QED  BY <3>5, <3>6
  <2>5. QED  BY <2>3, <2>4
<1>5. CASE tzc400_enable_filters
  <2>1. /\ tzcPc = "enable" /\ UNCHANGED <<tzcBuild, tzcRegion, mux>>
        /\ \/ gate[tzcIndex].open
           \/ AskGate(tzcIndex, TRUE) /\ tzcPc' = "opening" /\ tzcIndex' = tzcIndex
    BY <1>5 DEF tzc400_enable_filters, TzcGoto
  <2>2. Filters' = Filters /\ (Written(5) => Written(5)')
    BY <2>1 DEF Filters, Written, LastRegion
  <2>3. tzcIndex \in Filters /\ ~gate[tzcIndex].open
    BY <2>1 DEF TzcInv, GatesFollow, Settled
  <2>4. AskGate(tzcIndex, TRUE) =>
          /\ gate' \in [Filters -> Gate]
          /\ \A f \in Filters : gate'[f].open = gate[f].open
          /\ gate'[tzcIndex].asked = TRUE
          /\ \A f \in Filters \ {tzcIndex} : gate'[f].asked = gate[f].open
    BY <1>0, <2>1, <2>3, Asks
  <2>5. CASE gate[tzcIndex].open
    BY <2>3, <2>5
  <2>6. CASE AskGate(tzcIndex, TRUE) /\ tzcPc' = "opening" /\ tzcIndex' = tzcIndex
    BY <1>0, <2>1, <2>2, <2>3, <2>4, <2>6, BuildFacts
    DEF TzcInv, TzcPlace, GatesFollow, ListFollows, Settled, MAX_NUM_TZC_REGION
  <2>7. QED  BY <2>1, <2>5, <2>6
<1>6. CASE FilterOpened
  <2>1. /\ tzcPc = "opening" /\ UNCHANGED <<tzcBuild, gate, tzcRegion, mux>> /\ GateSettled
        /\ \/ tzcIndex + 1 \in Filters /\ tzcPc' = "enable" /\ tzcIndex' = tzcIndex + 1
           \/ tzcIndex + 1 \notin Filters /\ tzcPc' = "mux"
    BY <1>6 DEF FilterOpened, NextFilter, TzcGoto
  <2>2. Filters' = Filters /\ (Written(5) => Written(5)')
    BY <2>1 DEF Filters, Written, LastRegion
  <2>3. QED
    BY <1>0, <2>1, <2>2, BuildFacts
    DEF TzcInv, TzcPlace, GatesFollow, ListFollows, Settled, GateSettled, MAX_NUM_TZC_REGION
<1>7. CASE enable_mux_tzasc
  <2>1. /\ tzcPc = "mux" /\ UNCHANGED <<tzcBuild, gate, tzcRegion>> /\ mux' = TRUE /\ tzcPc' = "done"
    BY <1>7 DEF enable_mux_tzasc, TzcGoto
  <2>2. Filters' = Filters /\ (Written(5) => Written(5)')
    BY <2>1 DEF Filters, Written, LastRegion
  <2>3. QED
    BY <1>0, <2>1, <2>2 DEF TzcInv, TzcPlace, GatesFollow, ListFollows, Settled, MAX_NUM_TZC_REGION
<1>8. CASE GateMoves
  <2>1. PICK f \in Filters : /\ gate[f].open # gate[f].asked
                             /\ gate' = [gate EXCEPT ![f].open = gate[f].asked]
    BY <1>8 DEF GateMoves
  <2>2. UNCHANGED <<tzcBuild, tzcPc, tzcIndex, tzcRegion, mux>>
    BY <1>8 DEF GateMoves
  <2>3. Filters' = Filters /\ \A n : Written(n) => Written(n)'
    BY <2>2 DEF Filters, Written, LastRegion
  <2>4. /\ gate' \in [Filters -> Gate]
        /\ \A g \in Filters : gate'[g].asked = gate[g].asked
        /\ gate'[f].open = gate[f].asked
        /\ \A g \in Filters \ {f} : gate'[g].open = gate[g].open
    BY <1>0, <2>1 DEF Gate
  <2>5. QED
    BY <1>0, <2>1, <2>2, <2>3, <2>4, BuildFacts DEF TzcInv, GatesFollow, ListFollows, Settled
<1>9. CASE UNCHANGED tzcVars
  BY <1>9 DEF tzcVars, TzcInv, Filters, GatesFollow, ListFollows, Settled, Written, LastRegion
<1>10. QED
  BY <1>1, <1>2, <1>3, <1>4, <1>5, <1>6, <1>7, <1>8, <1>9 DEF TzcNext, arm_tzc400_setup

\* The list, entry by entry.
LEMMA ListEntries ==
  /\ tzc400_reg_list[1].nsaid = "none"
  /\ tzc400_reg_list[2].filters = {0} /\ tzc400_reg_list[2].start = 2015 /\ tzc400_reg_list[2].end = 2046
  /\ tzc400_reg_list[2].nsaid = "none" /\ tzc400_reg_list[2].sec = TZC400_REGION_S_RDWR
  /\ tzc400_reg_list[3].filters = {0} /\ tzc400_reg_list[3].start = 2047 /\ tzc400_reg_list[3].end = 2047
  /\ tzc400_reg_list[3].nsaid = "all"
  /\ tzc400_reg_list[4].filters = {0} /\ tzc400_reg_list[4].start = 1024 /\ tzc400_reg_list[4].end = 2014
  /\ tzc400_reg_list[4].nsaid = "all"
  /\ tzc400_reg_list[5].filters = {0} /\ tzc400_reg_list[5].start = 17408 /\ tzc400_reg_list[5].end = 32767
  /\ tzc400_reg_list[5].nsaid = "all"
BY DEF tzc400_reg_list

\* What the window is for every page of the address space, of which SecureWindow looks at the edges.
Pages == 0..32767
NormalWorld == {page \in Pages : (page >= 1024 /\ page <= 2014) \/ page = 2047 \/ (page >= 17408 /\ page <= 32767)}
TrustedOs == {page \in Pages : page >= 2015 /\ page <= 2046}

WindowOf(page) ==
  LET reg == tzcRegion[Deciding(page)]
  IN  /\ \A r, s \in Matching(page) : r = s
      /\ (reg.nsaid = "all") <=> (page \in NormalWorld)
      /\ page \in TrustedOs => reg.sec = TZC400_REGION_S_RDWR

\* The list written as a whole decides about every page as it should.
LEMMA ListIsWindow ==
  ASSUME Written(MAX_NUM_TZC_REGION), tzcBuild \in TzcBuilds, NEW page \in Pages
  PROVE  WindowOf(page)
<1>0. page \in 0..32767
  BY DEF Pages
<1>1. /\ \A r \in 0..4 : r \in DOMAIN tzcRegion
      /\ DOMAIN tzcRegion \subseteq Nat
      /\ tzcRegion[0] = tzc400_reg_list[1] /\ tzcRegion[1] = tzc400_reg_list[2]
      /\ tzcRegion[2] = tzc400_reg_list[3] /\ tzcRegion[3] = tzc400_reg_list[4]
      /\ tzcRegion[4] = tzc400_reg_list[5]
  <2>1. LastRegion \in 0..31
    BY BuildFacts
  <2>2. QED  BY <2>1 DEF Written, MAX_NUM_TZC_REGION
<1>2. \A r \in DOMAIN tzcRegion : r >= 5 => r \notin Matching(page)
  BY DEF Written, Matching, MAX_NUM_TZC_REGION
<1>3. PICK M : M = Matching(page)
  OBVIOUS
<1>4. \A r : (r \in M) <=>
              /\ r \in DOMAIN tzcRegion /\ r # 0
              /\ 0 \in tzcRegion[r].filters /\ page \in tzcRegion[r].start..tzcRegion[r].end
  BY <1>3, Zenon DEF Matching
<1>5. (1 \in M) <=> (page >= 2015 /\ page <= 2046)
  <2>1. /\ tzcRegion[1].filters = {0}
        /\ tzcRegion[1].start = 2015 /\ tzcRegion[1].end = 2046
    BY <1>1, ListEntries
  <2>2. (1 \in M) <=> (page \in 2015..2046)
    <3>1. 1 \in DOMAIN tzcRegion /\ 0 \in tzcRegion[1].filters
      BY <1>1, <2>1
    <3>2. (1 \in M) <=> (page \in tzcRegion[1].start..tzcRegion[1].end)
      BY <1>4, <3>1
    <3>3. QED  BY <2>1, <3>2, SMT
  <2>3. QED  BY <1>0, <2>2, SMT
<1>6. (2 \in M) <=> (page = 2047)
  <2>1. /\ tzcRegion[2].filters = {0}
        /\ tzcRegion[2].start = 2047 /\ tzcRegion[2].end = 2047
    BY <1>1, ListEntries
  <2>2. (2 \in M) <=> (page \in 2047..2047)
    <3>1. 2 \in DOMAIN tzcRegion /\ 0 \in tzcRegion[2].filters
      BY <1>1, <2>1
    <3>2. (2 \in M) <=> (page \in tzcRegion[2].start..tzcRegion[2].end)
      BY <1>4, <3>1
    <3>3. QED  BY <2>1, <3>2, SMT
  <2>3. QED  BY <1>0, <2>2, SMT
<1>7. (3 \in M) <=> (page >= 1024 /\ page <= 2014)
  <2>1. /\ tzcRegion[3].filters = {0}
        /\ tzcRegion[3].start = 1024 /\ tzcRegion[3].end = 2014
    BY <1>1, ListEntries
  <2>2. (3 \in M) <=> (page \in 1024..2014)
    <3>1. 3 \in DOMAIN tzcRegion /\ 0 \in tzcRegion[3].filters
      BY <1>1, <2>1
    <3>2. (3 \in M) <=> (page \in tzcRegion[3].start..tzcRegion[3].end)
      BY <1>4, <3>1
    <3>3. QED  BY <2>1, <3>2, SMT
  <2>3. QED  BY <1>0, <2>2, SMT
<1>8. (4 \in M) <=> (page >= 17408 /\ page <= 32767)
  <2>1. /\ tzcRegion[4].filters = {0}
        /\ tzcRegion[4].start = 17408 /\ tzcRegion[4].end = 32767
    BY <1>1, ListEntries
  <2>2. (4 \in M) <=> (page \in 17408..32767)
    <3>1. 4 \in DOMAIN tzcRegion /\ 0 \in tzcRegion[4].filters
      BY <1>1, <2>1
    <3>2. (4 \in M) <=> (page \in tzcRegion[4].start..tzcRegion[4].end)
      BY <1>4, <3>1
    <3>3. QED  BY <2>1, <3>2, SMT
  <2>3. QED  BY <1>0, <2>2, SMT
<1>9. M \subseteq 1..4
  <2>1. \A r \in M : r \in DOMAIN tzcRegion /\ r # 0
    BY <1>4
  <2>2. \A r \in M : r \in Nat /\ r # 0 /\ r < 5
    BY <1>1, <1>2, <1>3, <2>1
  <2>3. QED  BY <2>2
<1>10. \A r, s \in M : r = s
  <2> SUFFICES ASSUME NEW r \in M, NEW s \in M PROVE r = s
    OBVIOUS
  <2>1. r \in 1..4 /\ s \in 1..4
    BY <1>9
  <2>2. /\ 1 \in M => ~(2 \in M) /\ ~(3 \in M) /\ ~(4 \in M)
        /\ 2 \in M => ~(3 \in M) /\ ~(4 \in M)
        /\ 3 \in M => ~(4 \in M)
    <3>1. page \in Int
      BY <1>0
    <3>2. QED  BY <1>5, <1>6, <1>7, <1>8, <3>1, SMT
  <2>3. CASE r = 1
    BY <2>1, <2>2, <2>3
  <2>4. CASE r = 2
    BY <2>1, <2>2, <2>4
  <2>5. CASE r = 3
    BY <2>1, <2>2, <2>5
  <2>6. CASE r = 4
    BY <2>1, <2>2, <2>6
  <2>7. QED  BY <2>1, <2>3, <2>4, <2>5, <2>6
<1>11. PICK d : d = Deciding(page)
  OBVIOUS
<1>12. d = IF M = {} THEN 0 ELSE CHOOSE r \in M : TRUE
  BY <1>3, <1>11 DEF Deciding
<1>13. M = {} => d = 0
  BY <1>12
<1>14. \A r \in M : d = r
  <2> TAKE r \in M
  <2>1. (CHOOSE s \in M : TRUE) \in M
    OBVIOUS
  <2>2. QED  BY <1>10, <1>12, <2>1
<1>15. (page \in NormalWorld) <=> (2 \in M \/ 3 \in M \/ 4 \in M)
  <2>1. (page \in NormalWorld) <=>
          ((page >= 1024 /\ page <= 2014) \/ page = 2047 \/ (page >= 17408 /\ page <= 32767))
    BY SMT DEF NormalWorld
  <2>2. QED  BY <1>0, <1>6, <1>7, <1>8, <2>1, SMT
<1>16. (page \in TrustedOs) <=> (1 \in M)
  BY <1>5 DEF TrustedOs
<1>17. /\ d = 0 \/ d = 1 => tzcRegion[d].nsaid = "none"
       /\ d \in 2..4 => tzcRegion[d].nsaid = "all"
       /\ d = 1 => tzcRegion[d].sec = TZC400_REGION_S_RDWR
  <2>1. CASE d = 0
    BY <1>1, <2>1, ListEntries
  <2>2. CASE d = 1
    BY <1>1, <2>2, ListEntries
  <2>3. CASE d = 2
    BY <1>1, <2>3, ListEntries
  <2>4. CASE d = 3
    BY <1>1, <2>4, ListEntries
  <2>5. CASE d = 4
    BY <1>1, <2>5, ListEntries
  <2>6. QED  BY <2>1, <2>2, <2>3, <2>4, <2>5
<1>18. (tzcRegion[d].nsaid = "all") <=> (page \in NormalWorld)
  <2>1. CASE M = {}
    BY <1>13, <1>15, <1>17, <2>1
  <2>2. CASE M # {}
    <3>1. PICK r \in M : d = r /\ r \in 1..4
      BY <1>9, <1>14, <2>2
    <3>2. (2 \in M \/ 3 \in M \/ 4 \in M) <=> (d \in 2..4)
      BY <1>10, <3>1
    <3>3. (d \in 2..4) \/ d = 1
      BY <3>1
    <3>4. QED  BY <1>15, <1>17, <3>2, <3>3
  <2>3. QED  BY <2>1, <2>2
<1>19. page \in TrustedOs => tzcRegion[d].sec = TZC400_REGION_S_RDWR
  BY <1>14, <1>16, <1>17
<1>20. QED  BY <1>3, <1>10, <1>11, <1>18, <1>19 DEF WindowOf

LEMMA SafeWindow ==
  ASSUME TzcInv, tzcPc \in {"enable", "opening", "mux", "done"}, NEW page \in Pages
  PROVE  WindowOf(page)
<1>1. Written(MAX_NUM_TZC_REGION) /\ tzcBuild \in TzcBuilds
  BY DEF TzcInv, ListFollows
<1>2. QED  BY <1>1, ListIsWindow, Zenon

\* While the regions are written no gate is open; when filter 0 lets accesses through again, the list
\* is complete and gives each of the edge pages to whom it belongs, without two regions that overlap; and
\* at the end every filter is open and all traffic passes them: whatever filters, regions and address
\* bits the controller has, whatever an earlier boot stage left in it and however slowly its gates
\* follow (arm_tzc400_setup()).
THEOREM WindowIsSecure == TzcSpec => []SecureWindow
<1>1. TzcInit => TzcInv
  BY TzcInitInv
<1>2. TzcInv /\ [TzcNext]_tzcVars => TzcInv'
  BY TzcNextInv
<1>3. TzcInv => SecureWindow
  <2> SUFFICES ASSUME TzcInv PROVE SecureWindow
    OBVIOUS
  <2>1. tzcPc = "configure" => \A f \in Filters : ~gate[f].open
    BY DEF TzcInv, GatesFollow, Settled
  <2>2. tzcPc = "done" => mux /\ \A f \in Filters : gate[f].open
    BY DEF TzcInv, GatesFollow, Settled
  <2>3. ASSUME tzcPc \in {"enable", "opening", "mux", "done"}, NEW page \in EdgePages
        PROVE  LET reg == tzcRegion[Deciding(page)]
               IN  /\ \A r, s \in Matching(page) : r = s
                   /\ (reg.nsaid = "all") <=> (page \in DramPages \ SecurePages)
                   /\ page \in SecurePages => reg.sec = TZC400_REGION_S_RDWR
    <3>1. page \in Pages
      BY DEF EdgePages, Pages
    <3>2. /\ (page \in DramPages \ SecurePages) <=> (page \in NormalWorld)
          /\ page \in SecurePages => page \in TrustedOs
      <4>1. \/ page \in {0, 1023, 2048, 17407} \/ page \in {2015, 2030, 2046}
            \/ page \in {1024, 2014, 2047, 17408, 32767}
        BY DEF EdgePages
      <4>2. (page \in DramPages \ SecurePages) <=> (page \in {1024, 2014, 2047, 17408, 32767})
        BY DEF DramPages, SecurePages
      <4>3. (page \in NormalWorld) <=> (page \in {1024, 2014, 2047, 17408, 32767})
        BY <4>1 DEF NormalWorld, Pages
      <4>4. page \in SecurePages => page \in TrustedOs
        BY DEF SecurePages, TrustedOs, Pages
      <4>5. QED  BY <4>2, <4>3, <4>4
    <3>3. WindowOf(page)
      BY <2>3, <3>1, SafeWindow, Zenon
    <3>4. QED  BY <3>2, <3>3 DEF WindowOf
  <2>4. QED  BY <2>1, <2>2, <2>3 DEF SecureWindow
<1>4. QED
  BY <1>1, <1>2, <1>3, PTL DEF TzcSpec

\* The same for every page of the 64 GB, of which the run looks at the edges: a page is in at most one
\* region of the list, the normal world reaches exactly the DRAM outside the 64 MB of the trusted OS,
\* and the secure world reaches those.
THEOREM EveryPageIsSecure ==
  TzcSpec => [](tzcPc \in {"enable", "opening", "mux", "done"} => \A page \in Pages : WindowOf(page))
<1>1. TzcInit => TzcInv
  BY TzcInitInv
<1>2. TzcInv /\ [TzcNext]_tzcVars => TzcInv'
  BY TzcNextInv
<1>3. TzcInv => (tzcPc \in {"enable", "opening", "mux", "done"} => \A page \in Pages : WindowOf(page))
  BY SafeWindow, Zenon
<1>4. QED
  BY <1>1, <1>2, <1>3, PTL DEF TzcSpec

-----------------------------------------------------------------------------
(* The DDR3 controller (Mmdc), for any patience of its waits.              *)

\* What the write at a step is.
LEMMA Program ==
  /\ Len(mmdc_init) = 21
  /\ \A k \in {1, 13} : mmdc_init[k].what = "con_req"
  /\ mmdc_init[2].what = "settings" /\ mmdc_init[3].what = "sde" /\ mmdc_init[10].what = "level"
  /\ mmdc_init[20].what = "refresh" /\ mmdc_init[21].what = "release"
  /\ \A k \in {4, 5, 6, 7, 9, 12, 14, 16, 17, 19} : mmdc_init[k].what = "mode"
  /\ \A k \in {8, 11, 15, 18} : mmdc_init[k].what = "run"
BY DEF mmdc_init, Control, Load, Run

LEMMA ProgramModes ==
  /\ mmdc_init[4].mr = 2 /\ mmdc_init[4].value = MR2
  /\ mmdc_init[5].mr = 3 /\ mmdc_init[5].value = 0
  /\ mmdc_init[6].mr = 1 /\ mmdc_init[6].value = MR1
  /\ mmdc_init[7].mr = 0 /\ mmdc_init[7].value = MR0
  /\ mmdc_init[9].mr = 1 /\ mmdc_init[9].value = WRITE_LEVELLING + MR1
  /\ mmdc_init[12].mr = 1 /\ mmdc_init[12].value = MR1
  /\ \A k \in {14, 17} : mmdc_init[k].mr = 3 /\ mmdc_init[k].value = READ_PATTERN
  /\ \A k \in {16, 19} : mmdc_init[k].mr = 3 /\ mmdc_init[k].value = 0
BY DEF mmdc_init, Control, Load, Run

LEMMA ProgramRuns ==
  /\ mmdc_init[8].op = "zq" /\ mmdc_init[11].op = "levelling"
  /\ mmdc_init[15].op = "gating" /\ mmdc_init[18].op = "read"
BY DEF mmdc_init, Control, Load, Run

\* What the writes before step k leave in the mode registers.
Mr1At(k) == IF k \in {10, 11, 12} THEN WRITE_LEVELLING + MR1 ELSE IF k > 6 THEN MR1 ELSE 0
Mr3At(k) == IF k \in {15, 16, 18, 19} THEN READ_PATTERN ELSE 0
OpsBefore(k) ==
  {op \in {"zq", "levelling", "gating", "read"} :
     k > CASE op = "zq" -> 8 [] op = "levelling" -> 11 [] op = "gating" -> 15 [] op = "read" -> 18}

\* The step says everything of the controller and the DRAM: an operation is under way only at its step, and
\* when the controller is idle in the middle of a wait, the operation has ended.
MmdcInv ==
  /\ mmdcStep \in 1..22
  /\ mmdcWaits \in Int /\ (mmdcWaits = -1 \/ mmdcWaits >= 0)
  /\ mmdcWaits # -1 => mmdcStep \in {8, 11, 15, 18}
  /\ mmdcBusy \in {"nothing", "zq", "levelling", "gating", "read"}
  /\ mmdcBusy # "nothing" => mmdcWaits # -1 /\ mmdc_init[mmdcStep].op = mmdcBusy
  /\ OpsBefore(mmdcStep) \subseteq mmdcDone
  /\ mmdcWaits # -1 /\ mmdcBusy = "nothing" => mmdc_init[mmdcStep].op \in mmdcDone
  /\ mmdcStep \in 2..21 => mmdcCon
  /\ mmdcStep > 3 => mmdcSde
  /\ (mmdcStep \in {11, 12} => mmdcLevel = TRUE) /\ (mmdcStep \notin {11, 12} => mmdcLevel = FALSE)
  /\ mmdcMr \in [0..3 -> Int]
  /\ mmdcStep > 4 => mmdcMr[2] = MR2
  /\ mmdcStep > 7 => mmdcMr[0] = MR0
  /\ mmdcMr[1] = Mr1At(mmdcStep)
  /\ mmdcMr[3] = Mr3At(mmdcStep)

LEMMA MmdcInitInv == MmdcInit => MmdcInv
<1> SUFFICES ASSUME MmdcInit PROVE MmdcInv
  OBVIOUS
<1>1. OpsBefore(mmdcStep) = {} /\ Mr1At(mmdcStep) = 0 /\ Mr3At(mmdcStep) = 0
  BY DEF MmdcInit, OpsBefore, Mr1At, Mr3At
<1>2. mmdcMr \in [0..3 -> Int] /\ mmdcMr[1] = 0 /\ mmdcMr[3] = 0
  BY DEF MmdcInit
<1>3. mmdcStep = 1 /\ mmdcWaits = -1 /\ mmdcBusy = "nothing" /\ mmdcDone = {} /\ mmdcLevel = FALSE
  BY DEF MmdcInit
<1>4. QED  BY <1>1, <1>2, <1>3 DEF MmdcInv

LEMMA OpsGrow ==
  ASSUME NEW k \in 1..21
  PROVE  /\ k \notin {8, 11, 15, 18} => OpsBefore(k + 1) = OpsBefore(k)
         /\ k \in {8, 11, 15, 18} => OpsBefore(k + 1) \subseteq OpsBefore(k) \cup {mmdc_init[k].op}
<1>1. CASE k \notin {8, 11, 15, 18}
  BY <1>1 DEF OpsBefore
<1>2. CASE k \in {8, 11, 15, 18}
  BY <1>2, ProgramRuns DEF OpsBefore
<1>3. QED  BY <1>1, <1>2

LEMMA MmdcNextInv ==
  ASSUME MmdcInv, [MmdcNext]_mmdcVars
  PROVE  MmdcInv'
<1>0. mmdcStep \in 1..22 /\ mmdcMr \in [0..3 -> Int] 
      /\ (mmdcStep \in {11, 12} => mmdcLevel = TRUE) /\ (mmdcStep \notin {11, 12} => mmdcLevel = FALSE)
  BY DEF MmdcInv
<1>1. CASE LoadMode
  <2>1. /\ mmdcStep \in 1..21 /\ mmdcWaits = -1 /\ mmdc_init[mmdcStep].what = "mode"
        /\ mmdcStep' = mmdcStep + 1 /\ mmdcCon' = TRUE /\ mmdcLevel' = FALSE
        /\ mmdcMr' = [mmdcMr EXCEPT ![mmdc_init[mmdcStep].mr] = mmdc_init[mmdcStep].value]
        /\ UNCHANGED <<mmdcWaits, mmdcBusy, mmdcDone, mmdcSde>>
    BY <1>0, <1>1, Program DEF LoadMode, Writes, Write, MmdcEnded
  <2>2. mmdcStep \in {4, 5, 6, 7, 9, 12, 14, 16, 17, 19}
    <3>1. mmdcStep \notin {1, 2, 3, 8, 10, 11, 13, 15, 18, 20, 21}
      BY <2>1, Program
    <3>2. QED  BY <2>1, <3>1
  <2>3. OpsBefore(mmdcStep)' \subseteq mmdcDone'
    BY <2>1, <2>2, OpsGrow DEF MmdcInv
  <2>4. /\ mmdcMr' \in [0..3 -> Int]
        /\ mmdcStep' > 4 => mmdcMr'[2] = MR2
        /\ mmdcStep' > 7 => mmdcMr'[0] = MR0
        /\ mmdcMr'[1] = Mr1At(mmdcStep)' /\ mmdcMr'[3] = Mr3At(mmdcStep)'
    <3> USE DEF MmdcInv, Mr1At, Mr3At, MR0, MR1, MR2, WRITE_LEVELLING, READ_PATTERN
    <3>1. CASE mmdcStep = 4
      BY <2>1, <3>1, ProgramModes
    <3>2. CASE mmdcStep = 5
      BY <2>1, <3>2, ProgramModes
    <3>3. CASE mmdcStep = 6
      BY <2>1, <3>3, ProgramModes
    <3>4. CASE mmdcStep = 7
      BY <2>1, <3>4, ProgramModes
    <3>5. CASE mmdcStep = 9
      BY <2>1, <3>5, ProgramModes
    <3>6. CASE mmdcStep = 12
      BY <2>1, <3>6, ProgramModes
    <3>7. CASE mmdcStep \in {14, 17}
      BY <2>1, <3>7, ProgramModes
    <3>8. CASE mmdcStep \in {16, 19}
      BY <2>1, <3>8, ProgramModes
    <3>9. QED  BY <2>2, <3>1, <3>2, <3>3, <3>4, <3>5, <3>6, <3>7, <3>8
  <2>5. QED  BY <2>1, <2>2, <2>3, <2>4 DEF MmdcInv
<1>2. CASE ControlWrite
  <2>1. PICK what \in {"con_req", "settings", "sde", "level", "refresh", "release"} :
          mmdcStep \in 1..21 /\ mmdcWaits = -1 /\ mmdc_init[mmdcStep].what = what
    BY <1>0, <1>2, Program DEF ControlWrite, Writes, Write, MmdcEnded
  <2>2. /\ mmdcStep' = mmdcStep + 1
        /\ mmdcCon' = IF what \in {"con_req", "level"} THEN TRUE ELSE mmdcCon /\ what # "release"
        /\ mmdcLevel' = IF what \in {"settings", "sde", "refresh"} THEN mmdcLevel ELSE what = "level"
        /\ mmdcSde' = (mmdcSde \/ what = "sde")
        /\ UNCHANGED <<mmdcWaits, mmdcBusy, mmdcDone, mmdcMr>>
    BY <1>2, <2>1 DEF ControlWrite, Write
  <2>3. /\ mmdcStep \in {1, 2, 3, 10, 13, 20, 21}
        /\ (what = "con_req") <=> (mmdcStep \in {1, 13})
        /\ (what = "sde") <=> (mmdcStep = 3)
        /\ (what = "level") <=> (mmdcStep = 10)
        /\ (what = "release") <=> (mmdcStep = 21)
    <3>1. mmdcStep \notin {4, 5, 6, 7, 8, 9, 11, 12, 14, 15, 16, 17, 18, 19}
      BY <2>1, Program
    <3>2. mmdcStep \in {1, 2, 3, 10, 13, 20, 21}
      BY <2>1, <3>1
    <3>3. QED  BY <2>1, <3>2, Program
  <2>4. OpsBefore(mmdcStep)' \subseteq mmdcDone'
    BY <2>1, <2>2, <2>3, OpsGrow DEF MmdcInv
  <2>5. Mr1At(mmdcStep)' = Mr1At(mmdcStep) /\ Mr3At(mmdcStep)' = Mr3At(mmdcStep)
    BY <2>2, <2>3 DEF Mr1At, Mr3At
  <2>6. (mmdcStep' \in {11, 12} => mmdcLevel' = TRUE) /\ (mmdcStep' \notin {11, 12} => mmdcLevel' = FALSE)
    <3>1. /\ what = "level" => mmdcLevel' = TRUE
          /\ what \in {"con_req", "release"} => mmdcLevel' = FALSE
          /\ what \in {"settings", "sde", "refresh"} => mmdcLevel' = mmdcLevel
      BY <2>2
    <3>2. mmdcStep = 10 \/ mmdcStep \in {1, 2, 3, 13, 20, 21}
      BY <2>3
    <3>3. CASE mmdcStep = 10
      BY <2>2, <2>3, <3>1, <3>3
    <3>4. CASE mmdcStep \in {1, 2, 3, 13, 20, 21}
      <4>1. mmdcLevel = FALSE /\ mmdcStep' \notin {11, 12}
        BY <1>0, <2>2, <3>4
      <4>2. what # "level"
        BY <2>3, <3>4
      <4>3. QED  BY <2>1, <3>1, <4>1, <4>2
    <3>5. QED  BY <3>2, <3>3, <3>4
  <2>7. /\ mmdcStep' \in 2..21 => mmdcCon'
        /\ mmdcStep' > 3 => mmdcSde'
    <3>1. mmdcStep \in {2, 3, 10, 20} => mmdcCon /\ what # "release"
      BY <2>3 DEF MmdcInv
    <3>2. mmdcStep \in {1, 13} => what = "con_req"
      BY <2>3
    <3>3. mmdcStep' \in 2..21 => mmdcCon'
      <4>1. CASE mmdcStep \in {1, 13}
        BY <2>2, <3>2, <4>1
      <4>2. CASE mmdcStep \in {2, 3, 10, 20}
        BY <2>2, <3>1, <4>2
      <4>3. CASE mmdcStep = 21
        BY <2>2, <4>3
      <4>4. QED  BY <2>3, <4>1, <4>2, <4>3
    <3>4. mmdcStep' > 3 => mmdcSde'
      <4>1. CASE mmdcStep = 3
        BY <2>2, <2>3, <4>1
      <4>2. CASE mmdcStep > 3
        BY <2>2, <4>2 DEF MmdcInv
      <4>3. QED  BY <2>2, <2>3, <4>1, <4>2
    <3>5. QED  BY <3>3, <3>4
  <2>8. QED  BY <2>1, <2>2, <2>3, <2>4, <2>5, <2>6, <2>7 DEF MmdcInv
<1>3. CASE StartOperation
  <2>1. /\ mmdcStep \in 1..21 /\ mmdcWaits = -1 /\ mmdc_init[mmdcStep].what = "run"
        /\ mmdcBusy' = mmdc_init[mmdcStep].op /\ mmdcWaits' = 0
        /\ UNCHANGED <<mmdcStep, mmdcDone, mmdcCon, mmdcSde, mmdcMr, mmdcLevel>>
    BY <1>0, <1>3, Program DEF StartOperation, Writes, Write, MmdcEnded
  <2>2. mmdcStep \in {8, 11, 15, 18}
    <3>1. mmdcStep \notin {1, 2, 3, 4, 5, 6, 7, 9, 10, 12, 13, 14, 16, 17, 19, 20, 21}
      BY <2>1, Program
    <3>2. QED  BY <2>1, <3>1
  <2>3. mmdcBusy' \in {"zq", "levelling", "gating", "read"}
    BY <2>1, <2>2, ProgramRuns
  <2>4. QED  BY <2>1, <2>2, <2>3 DEF MmdcInv
<1>4. CASE BitsClear
  <2>1. /\ mmdcWaits >= 0 /\ mmdcWaits # -1 /\ mmdcBusy = "nothing" /\ mmdcWaits' = -1 /\ mmdcStep' = mmdcStep + 1
        /\ UNCHANGED <<mmdcBusy, mmdcDone, mmdcCon, mmdcSde, mmdcMr, mmdcLevel>>
    BY <1>4 DEF BitsClear, MmdcInv
  <2>2. mmdcStep \in {8, 11, 15, 18}
    BY <2>1 DEF MmdcInv
  <2>3. OpsBefore(mmdcStep)' \subseteq mmdcDone'
    BY <2>1, <2>2, OpsGrow DEF MmdcInv
  <2>4. Mr1At(mmdcStep)' = Mr1At(mmdcStep) /\ Mr3At(mmdcStep)' = Mr3At(mmdcStep)
    BY <2>1, <2>2 DEF Mr1At, Mr3At
  <2>5. QED  BY <2>1, <2>2, <2>3, <2>4 DEF MmdcInv
<1>5. CASE WaitLonger
  BY <1>5, MmdcAssumption DEF WaitLonger, MmdcInv
<1>6. CASE OperationEnds
  BY <1>6 DEF OperationEnds, MmdcInv
<1>7. CASE UNCHANGED mmdcVars
  BY <1>7 DEF mmdcVars, MmdcInv
<1>8. QED
  BY <1>1, <1>2, <1>3, <1>4, <1>5, <1>6, <1>7 DEF MmdcNext

\* Every calibration measures a DRAM in the mode it asks for, with the requests of the system held back,
\* and the system finds it in its normal mode, with the board's parameters, after all four calibrations
\* have ended, however long each takes (mmdc_init()).
THEOREM CalibratesInMode == MmdcSpec => []CalibrationMode
<1>1. MmdcInit => MmdcInv
  BY MmdcInitInv
<1>2. MmdcInv /\ [MmdcNext]_mmdcVars => MmdcInv'
  BY MmdcNextInv
<1>3. MmdcInv => CalibrationMode
  <2> SUFFICES ASSUME MmdcInv PROVE CalibrationMode
    OBVIOUS
  <2> DEFINE levelling == mmdcMr[1] >= WRITE_LEVELLING
             pattern   == mmdcMr[3] = READ_PATTERN
  <2>1. /\ levelling <=> mmdcStep \in {10, 11, 12}
        /\ pattern <=> mmdcStep \in {15, 16, 18, 19}
    BY DEF MmdcInv, Mr1At, Mr3At, WRITE_LEVELLING, READ_PATTERN, MR1
  <2>2. /\ mmdcBusy = "levelling" => mmdcStep = 11
        /\ mmdcBusy \in {"gating", "read"} => mmdcStep \in {15, 18}
        /\ mmdcBusy # "nothing" => mmdcStep \in {8, 11, 15, 18}
    BY ProgramRuns DEF MmdcInv
  <2>3. Writes("refresh") \/ MmdcEnded => mmdcStep \in {20, 22}
    <3>1. CASE MmdcEnded
      BY <3>1, Program DEF MmdcEnded, MmdcInv
    <3>2. CASE Writes("refresh")
      <4>1. mmdcStep \in 1..21 /\ mmdc_init[mmdcStep].what = "refresh"
        BY <3>2, Program DEF Writes, Write, MmdcEnded, MmdcInv
      <4>2. mmdcStep \notin {1, 2, 3, 4, 5, 6, 7, 8, 9, 10, 11, 12, 13, 14, 15, 16, 17, 18, 19, 21}
        BY <4>1, Program
      <4>3. QED  BY <4>1, <4>2
    <3>3. QED  BY <3>1, <3>2
  <2>4. mmdcStep \in {20, 22} => {"zq", "levelling", "gating", "read"} \subseteq mmdcDone
    BY DEF MmdcInv, OpsBefore
  <2>5. mmdcStep \in {20, 22} => mmdcMr[0] = MR0 /\ mmdcMr[1] = MR1 /\ mmdcMr[2] = MR2
    BY DEF MmdcInv, Mr1At
  <2>6. ~mmdcCon /\ mmdcStep > 1 => MmdcEnded
    BY Program DEF MmdcInv, MmdcEnded
  <2>7. mmdcBusy # "nothing" => mmdcSde /\ mmdcCon
    BY <2>2 DEF MmdcInv
  <2>8. (mmdcStep \in {11, 12} => mmdcLevel = TRUE) /\ (mmdcStep \notin {11, 12} => mmdcLevel = FALSE)
    BY DEF MmdcInv
  <2> HIDE DEF levelling, pattern
  <2>9. /\ mmdcBusy = "levelling" => levelling /\ mmdcLevel /\ ~pattern
        /\ mmdcBusy \in {"gating", "read"} => pattern /\ ~levelling /\ ~mmdcLevel
        /\ Writes("refresh") \/ MmdcEnded => ~levelling /\ ~pattern /\ ~mmdcLevel
    BY <2>1, <2>2, <2>3, <2>8
  <2> USE DEF levelling, pattern
  <2>10. QED  BY <2>3, <2>4, <2>5, <2>6, <2>7, <2>9 DEF CalibrationMode
<1>4. QED
  BY <1>1, <1>2, <1>3, PTL DEF MmdcSpec

-----------------------------------------------------------------------------
(* The DDR4 controllers (DdrInit), for any boards, DIMMs and rates.        *)

DdrSetPlaces == {"set", "enable", "idle", "vref", "deskew", "parity", "data", "train", "bist"}
DdrPlaces == {"off", "spd", "opts", "addr", "done", "hang"} \cup DdrSetPlaces

DdrCtrls(B) ==
  [bnds : B, mem_en : BOOLEAN, d_init : BOOLEAN, aped : BOOLEAN, bstopre : BOOLEAN, md_en : BOOLEAN,
   ready : BOOLEAN]

DdrTypes ==
  /\ ddrPc \in DdrPlaces
  /\ \E B : ddrHw \in [0..1 -> DdrCtrls(B)]
  /\ ddrPc # "off" => ddrSetup \in DdrSetups
  /\ ddrPc \in DdrSetPlaces => ddrCtrl \in MainCtrls

\* The controllers are left alone until their registers are planned.
Untouched == ddrPc \in {"off", "spd", "opts", "addr"} => \A c \in 0..1 : ddrHw[c] = ResetCtrl

\* A controller is used only with options that came out of populate_memctl_options(), which have the
\* controller initialise its memory; the others have zeros for registers.
PlanOf(opts) == "ecc_init_using_memctl" \in DOMAIN opts /\ opts.ecc_init_using_memctl = TRUE
PlanFollows ==
  /\ ddrPc = "opts" => \A c \in MainCtrls : "in_use" \in DOMAIN ddrPriv.conf[c]
  /\ ddrPc = "addr" => \A c \in MainCtrls :
       /\ "in_use" \in DOMAIN ddrPriv.conf[c]
       /\ ddrPriv.conf[c].in_use => PlanOf(ddrPriv.opts[c])
  /\ ddrPc \in DdrSetPlaces => \A c \in MainCtrls :
       Regs(c) = ZeroRegs \/ Regs(c).ddr_sdram_cfg_2.D_INIT = TRUE

\* The mode register commands belong to the controller that is being set up, and are over before its
\* memory is initialised; so is the masking of its parity errors.
CommandsFollow ==
  /\ ddrPc \notin {"vref", "parity"} => ddrTodo = <<>>
  /\ \A c \in 0..1 : ddrHw[c].md_en => c = ddrCtrl /\ ddrPc \in {"vref", "parity"}
  /\ \A c \in 0..1 : ddrHw[c].aped => ~ddrHw[c].d_init
  /\ ddrPc \in {"idle", "vref", "deskew", "parity"} => Erratum /\ ~ddrHw[ddrCtrl].d_init
  /\ ddrPc = "enable" /\ Erratum => ~ddrHw[ddrCtrl].d_init
  /\ ((ddrPc = "enable" /\ ~Erratum) \/ ddrPc \in {"data", "train", "bist"}) => ~ddrHw[ddrCtrl].aped

\* The memory of the controller is asked to initialise itself, and the driver waits for it.
InitFollows ==
  /\ ddrPc \in DdrSetPlaces \ {"set", "enable"} => ddrHw[ddrCtrl].mem_en
  /\ ((ddrPc = "enable" /\ ~Erratum) \/ ddrPc = "data") =>
       ddrHw[ddrCtrl].d_init \/ ddrHw[ddrCtrl].ready \/ Regs(ddrCtrl) = ZeroRegs
  /\ ddrPc \in {"train", "bist"} =>
       ddrHw[ddrCtrl].ready /\ ~ddrHw[ddrCtrl].d_init /\ ddrHw[ddrCtrl].bstopre

\* The bounds are those after reset or those that were planned, except under test.
BoundsFollow ==
  /\ ddrPc \in DdrSetPlaces => \A c \in MainCtrls :
       (ddrPc = "bist" /\ c = ddrCtrl) \/ ddrHw[c].bnds \in {ResetCtrl.bnds, Regs(c).bnds}
  /\ ddrPc \in DdrSetPlaces \ {"set", "bist"} => ddrHw[ddrCtrl].bnds = Regs(ddrCtrl).bnds
  /\ ddrPc = "bist" =>
       ddrHw[ddrCtrl].bnds = IF Regs(ddrCtrl).cs[0].intlv_en THEN Halved(Regs(ddrCtrl).bnds) ELSE Regs(ddrCtrl).bnds

DdrInv == DdrTypes /\ Untouched /\ PlanFollows /\ CommandsFollow /\ InitFollows /\ BoundsFollow /\ SuccessIsInitialised

-----------------------------------------------------------------------------
\* The controllers are numbered from 0 and set up in that order.
LEMMA ControllersInOrder ==
  ASSUME ddrSetup \in DdrSetups
  PROVE /\ MainCtrls \subseteq 0..1
        /\ FirstCtrl \in MainCtrls /\ LastCtrl \in MainCtrls
        /\ \A c \in MainCtrls : c # LastCtrl => c + 1 \in MainCtrls
<1>1. /\ ddrSetup.nodes \subseteq {0, 1} /\ ddrSetup.board.ctrls \subseteq {0, 1}
      /\ ddrSetup.board.ctrls # {}
  BY DdrAssumption
<1>2. MainCtrls \subseteq {0, 1} /\ MainCtrls # {}
  BY <1>1 DEF MainCtrls, Board
<1>3. MainCtrls = {0} \/ MainCtrls = {1} \/ MainCtrls = {0, 1}
  BY <1>2
<1>4. FirstCtrl \in MainCtrls
  BY <1>3 DEF FirstCtrl
<1>5. LastCtrl \in MainCtrls /\ \A c \in MainCtrls : c <= LastCtrl
  BY <1>3 DEF LastCtrl
<1>. QED
  BY <1>2, <1>3, <1>4, <1>5

\* The setup of a boot: what the board and its errata are.
LEMMA ErrataKnown ==
  ASSUME ddrSetup \in DdrSetups
  PROVE /\ Board.a008511 \in BOOLEAN /\ Board.a009803 \in BOOLEAN
        /\ Rate \in Nat /\ Rate > 1
  BY DdrAssumption DEF Board, Rate

\* The time a poll of D_INIT lasts is none for a controller without memory.
LEMMA NoTimeWithoutMemory ==
  ASSUME Rate \in Nat, Rate > 1
  PROVE DInitTimeout(ZeroRegs) = 0
<1>1. {i \in ChipSelects : ZeroRegs.cs[i].cs_n_en} = {}
  BY DEF ZeroRegs, NoSelect, ChipSelects
<1>2. total_mem_per_ctrl(ZeroRegs) = 0
  BY <1>1 DEF total_mem_per_ctrl, MapThenSumSet, MapThenFoldSet
<1>3. ZeroRegs.cs[0].intlv_en = FALSE /\ ZeroRegs.ddr_sdram_cfg.DBW = 0
  BY DEF ZeroRegs, NoSelect, ChipSelects
<1>4. PICK rate \in Nat : rate = (Rate * 1000000) \div 2 ^ 20
  BY SMT
<1>5. PassTime(ZeroRegs, 0) = 0
  BY <1>3, <1>4, SMT DEF PassTime
<1>6. total_mem_per_ctrl(ZeroRegs) * (IF ZeroRegs.cs[0].intlv_en THEN 2 ELSE 1) = 0
  BY <1>2, <1>3, SMT
<1>. QED
  BY <1>5, <1>6, SMT DEF DInitTimeout

\* Before the controllers are set up.
LEMMA DramInitKeeps ==
  ASSUME DdrInv, NEW setup \in DdrSetups, DramInit(setup)
  PROVE DdrInv'
<1>. USE DEF DramInit, DdrInv
<1>1. DdrTypes'
  BY DEF DdrTypes, DdrPlaces, DdrSetPlaces
<1>2. Untouched'
  BY DEF Untouched
<1>3. PlanFollows' /\ CommandsFollow'
  BY DEF PlanFollows, CommandsFollow, DdrSetPlaces
<1>4. InitFollows' /\ BoundsFollow' /\ SuccessIsInitialised'
  BY DEF InitFollows, BoundsFollow, SuccessIsInitialised, DdrSetPlaces
<1>. QED
  BY ONLY <1>1, <1>2, <1>3, <1>4 DEF DdrInv

\* A step that leaves the controllers alone, before their registers are planned.
LEMMA PlanningKeeps ==
  ASSUME DdrInv, ddrPc \in {"spd", "opts", "addr"}, UNCHANGED <<ddrSetup, ddrTodo, ddrHw>>,
         ddrPc' \in {"opts", "addr", "hang"} \/ (ddrPc' = "done" /\ ddrSize' = EINVAL), PlanFollows'
  PROVE DdrInv'
<1>. USE DEF DdrInv
<1>1. DdrTypes'
  BY DEF DdrTypes, DdrPlaces, DdrSetPlaces
<1>2. Untouched'
  BY DEF Untouched
<1>3. CommandsFollow'
  BY DEF CommandsFollow, DdrSetPlaces, Untouched, ResetCtrl
<1>4. InitFollows' /\ BoundsFollow'
  BY DEF InitFollows, BoundsFollow, DdrSetPlaces
<1>5. SuccessIsInitialised'
<2>1. CASE ddrPc' = "done" /\ ddrSize' = EINVAL
<3>1. ~(ddrSize' > 0)
  BY <2>1 DEF EINVAL
<3>. QED
  BY <3>1 DEF SuccessIsInitialised
<2>2. CASE ddrPc' # "done"
  BY <2>2 DEF SuccessIsInitialised
<2>. QED
  BY <2>1, <2>2
<1>. QED
  BY ONLY <1>1, <1>2, <1>3, <1>4, <1>5, PlanFollows' DEF DdrInv

\* What parse_spd() finds of a controller says whether it is in use.
LEMMA ParsedSaysInUse ==
  ASSUME NEW board, NEW slot
  PROVE "in_use" \in DOMAIN parse_spd_ctrl(board, slot).conf
<1>1. "in_use" \in DOMAIN NoConf
  BY DEF NoConf
<1>. QED
  BY <1>1, SMT DEF parse_spd_ctrl

LEMMA ParseSpdKeeps ==
  ASSUME DdrInv, ParseSpd
  PROVE DdrInv'
<1>. DEFINE found == [c \in MainCtrls |-> parse_spd_ctrl(Board, ddrSetup.slots[c])]
<1>1. ddrPc = "spd" /\ UNCHANGED <<ddrSetup, ddrTodo, ddrHw>> /\ MainCtrls' = MainCtrls
  BY DEF ParseSpd, MainCtrls, Board
<1>2. CASE \A c \in MainCtrls : found[c].ok
<2>1. ddrPriv' = [conf |-> [c \in MainCtrls |-> found[c].conf],
                  dimms |-> [c \in MainCtrls |-> found[c].dimm]] /\ ddrPc' = "opts"
  BY <1>2 DEF ParseSpd
<2>2. \A c \in MainCtrls : "in_use" \in DOMAIN found[c].conf
  BY ParsedSaysInUse
<2>. HIDE DEF found
<2>3. \A c \in MainCtrls : ddrPriv'.conf[c] = found[c].conf
  BY <2>1
<2>4. PlanFollows'
  BY <1>1, <2>1, <2>2, <2>3 DEF PlanFollows, DdrSetPlaces
<2>. QED
  BY <1>1, <2>1, <2>4, PlanningKeeps
<1>3. CASE ~(\A c \in MainCtrls : found[c].ok)
<2>1. ddrSize' = EINVAL /\ ddrPc' = "done"
  BY <1>3 DEF ParseSpd
<2>2. PlanFollows'
  BY <2>1 DEF PlanFollows, DdrSetPlaces
<2>. QED
  BY <1>1, <2>1, <2>2, PlanningKeeps
<1>. QED
  BY <1>2, <1>3

-----------------------------------------------------------------------------
(* The options: memory is always initialised by its controller. *)

LEMMA OptionsPlanInit ==
  ASSUME NEW r, NEW board, NEW conf, NEW pdimm, pop_ctrl_opts(r, board, conf, pdimm).ok
  PROVE PlanOf(pop_ctrl_opts(r, board, conf, pdimm).opts)
<1>. DEFINE odt  == PickOdt(board, pdimm.n_ranks, conf.cs_in_use)
            bus  == BusWidth(pdimm.primary_sdram_width)
            base == [NoOpts EXCEPT
                       !.cs_local_opts = odt, !.registered_dimm_en = pdimm.registered_dimm,
                       !.mirrored_dimm = pdimm.mirrored_dimm, !.ecc_mode = TRUE,
                       !.ecc_init_using_memctl = TRUE, !.self_refresh_in_sleep = TRUE]
<1>1. "ecc_init_using_memctl" \in DOMAIN NoOpts
  BY DEF NoOpts
<1>2. PlanOf(base)
  BY <1>1, SMT DEF PlanOf
<1>3. odt # <<>> /\ bus # -1
  BY SMT DEF pop_ctrl_opts
<1>. HIDE DEF base
<1>. DEFINE bussed == [base EXCEPT
              !.data_bus_width = bus, !.data_bus_used = bus, !.x4_en = pdimm.device_width = 4,
              !.ap_en = pdimm.registered_dimm,
              !.bstopre = picos_to_mclk(r, pdimm.refresh_rate_ps) \div 4]
            spread == [bussed EXCEPT
              !.tfaw_window_four_activates_ps = pdimm.tfaw_ps,
              !.memctl_interleaving = 0 \in conf.cs_in_use,
              !.ba_intlv_ctl = auto_bank_intlv(conf.cs_in_use),
              !.quad_rank_present = pdimm.n_ranks = 4,
              !.rcw_override = pdimm.registered_dimm]
            full   == [spread EXCEPT
              !.rcw_1 = IF pdimm.registered_dimm THEN \h000a5a00 ELSE 0,
              !.rcw_2 = IF ~pdimm.registered_dimm \/ r <= 800 THEN 0
                        ELSE IF r <= 1066 THEN \h00100000 ELSE IF r <= 1333 THEN \h00200000
                        ELSE \h00300000,
              !.otf_burst_chop_en = bus = 0,
              !.burst_length = IF bus = 0 THEN "OTF" ELSE "BL8"]
<1>4. pop_ctrl_opts(r, board, conf, pdimm).opts = full
  BY <1>3, SMT DEF pop_ctrl_opts, base
<1>. HIDE DEF odt, bus
<1>5. PlanOf(bussed)
  BY <1>2, SMT DEF PlanOf
<1>. HIDE DEF bussed
<1>6. PlanOf(spread)
  BY <1>5, SMT DEF PlanOf
<1>. HIDE DEF spread
<1>7. PlanOf(full)
  BY <1>6, SMT DEF PlanOf
<1>. QED
  BY <1>4, <1>7

LEMMA BoardKeepsPlan ==
  ASSUME NEW r, NEW board, NEW opts, NEW conf, NEW pdimm, PlanOf(opts)
  PROVE PlanOf(ddr_board_options(r, board, opts, conf, pdimm))
<1>1. "ecc_init_using_memctl" \in DOMAIN ddr_board_options(r, board, opts, conf, pdimm)
  BY Zenon DEF ddr_board_options, PlanOf
<1>2. ddr_board_options(r, board, opts, conf, pdimm).ecc_init_using_memctl = TRUE
  BY Zenon DEF ddr_board_options, PlanOf
<1>. QED
  BY <1>1, <1>2 DEF PlanOf

LEMMA InterleavingKeepsPlan ==
  ASSUME NEW ctrls, NEW opts, NEW conf, NEW dimms, NEW c \in ctrls, PlanOf(opts[c])
  PROVE PlanOf(check_interleaving_options(ctrls, opts, conf, dimms)[c])
  BY SMT DEF check_interleaving_options, PlanOf

LEMMA AddressesKeepInUse ==
  ASSUME NEW ctrls, NEW opts, NEW conf, NEW dimms, NEW base, NEW c \in ctrls,
         "in_use" \in DOMAIN conf[c]
  PROVE assign_addresses(ctrls, opts, conf, dimms, base)[c].in_use = conf[c].in_use
<1>1. ASSUME NEW b
      PROVE assign_intlv_addr(dimms[c], opts[c], conf[c], b).in_use = conf[c].in_use
  BY SMT DEF assign_intlv_addr
<1>2. ASSUME NEW b
      PROVE assign_non_intlv_addr(dimms[c], opts[c], conf[c], b).in_use = conf[c].in_use
  BY SMT DEF assign_non_intlv_addr
<1>. QED
  BY <1>1, <1>2, SMT DEF assign_addresses

LEMMA RegistersInit ==
  ASSUME NEW r, NEW opts, NEW conf, NEW pdimm, PlanOf(opts)
  PROVE compute_ddrc_regs(r, opts, conf, pdimm).ddr_sdram_cfg_2.D_INIT = TRUE
  BY SMT DEF compute_ddrc_regs, set_ddr_sdram_cfg_2, PlanOf

LEMMA PopulateOptionsKeeps ==
  ASSUME DdrInv, PopulateOptions
  PROVE DdrInv'
<1>. DEFINE pop(c)  == pop_ctrl_opts(Rate, Board, ddrPriv.conf[c], ddrPriv.dimms[c])
            done    == [c \in MainCtrls |-> IF ddrPriv.conf[c].in_use THEN pop(c)
                                            ELSE [ok |-> FALSE, opts |-> NoOpts]]
            conf    == [c \in MainCtrls |-> [ddrPriv.conf[c] EXCEPT !.in_use = done[c].ok]]
            opts    == [c \in MainCtrls |->
                          ddr_board_options(Rate, Board, done[c].opts, conf[c], ddrPriv.dimms[c])]
            chosen  == check_interleaving_options(MainCtrls, opts, conf, ddrPriv.dimms)
            known   == \A c \in MainCtrls :
                         BoardTimingKnown(BoardTable(Board, done[c].opts), ddrPriv.dimms[c])
<1>1. ddrPc = "opts" /\ UNCHANGED <<ddrSetup, ddrTodo, ddrHw>> /\ MainCtrls' = MainCtrls
  BY DEF PopulateOptions, MainCtrls, Board
<1>2. CASE ~known
<2>1. ddrPc' = "hang"
  BY <1>2, Zenon DEF PopulateOptions
<2>2. PlanFollows'
  BY <2>1 DEF PlanFollows, DdrSetPlaces
<2>. QED
  BY <1>1, <2>1, <2>2, PlanningKeeps
<1>3. CASE known
<2>1. ddrPc' = "addr" /\ ddrPriv' = [conf |-> conf, dimms |-> ddrPriv.dimms, opts |-> chosen]
  BY <1>3, Zenon DEF PopulateOptions
<2>2. ASSUME NEW c \in MainCtrls
      PROVE "in_use" \in DOMAIN conf[c] /\ conf[c].in_use = done[c].ok
<3>1. "in_use" \in DOMAIN ddrPriv.conf[c]
  BY <1>1 DEF DdrInv, PlanFollows
<3>2. conf[c] = [ddrPriv.conf[c] EXCEPT !.in_use = done[c].ok]
  OBVIOUS
<3>. HIDE DEF conf, done
<3>. QED
  BY <3>1, <3>2
<2>3. ASSUME NEW c \in MainCtrls, done[c].ok
      PROVE PlanOf(chosen[c])
<3>1. done[c] = pop(c) /\ pop(c).ok
  BY <2>3
<3>2. PlanOf(done[c].opts)
  BY <3>1, OptionsPlanInit
<3>3. opts[c] = ddr_board_options(Rate, Board, done[c].opts, conf[c], ddrPriv.dimms[c])
  OBVIOUS
<3>. HIDE DEF done, conf
<3>4. PlanOf(opts[c])
  BY <3>2, <3>3, BoardKeepsPlan
<3>. HIDE DEF opts
<3>. QED
  BY <3>4, InterleavingKeepsPlan
<2>. HIDE DEF pop, done, conf, opts, chosen, known
<2>4. \A c \in MainCtrls : ddrPriv'.conf[c] = conf[c] /\ ddrPriv'.opts[c] = chosen[c]
  BY <2>1
<2>5. PlanFollows'
  BY <1>1, <2>1, <2>2, <2>3, <2>4 DEF PlanFollows, DdrSetPlaces
<2>. QED
  BY <1>1, <2>1, <2>5, PlanningKeeps
<1>. QED
  BY <1>2, <1>3

LEMMA ComputeRegistersKeeps ==
  ASSUME DdrInv, ComputeRegisters
  PROVE DdrInv'
<1>. DEFINE conf == assign_addresses(MainCtrls, ddrPriv.opts, ddrPriv.conf, ddrPriv.dimms, 0)
            Cas(c) == ChooseCasLatency(Rate, ddrPriv.opts[c], ddrPriv.dimms[c])
            regs == [c \in MainCtrls |->
                       IF conf[c].in_use
                       THEN compute_ddrc_regs(Rate, ddrPriv.opts[c], conf[c], ddrPriv.dimms[c])
                       ELSE ZeroRegs]
            bad  == {c \in MainCtrls : conf[c].in_use /\ (Cas(c) = 0 \/ ~check_ddrc_regs(regs[c]))}
<1>1. ddrPc = "addr" /\ UNCHANGED <<ddrSetup, ddrTodo, ddrHw>>
  BY DEF ComputeRegisters
<1>2. MainCtrls' = MainCtrls /\ ddrSetup \in DdrSetups
  BY <1>1 DEF MainCtrls, Board, DdrInv, DdrTypes
<1>3. CASE bad # {}
<2>1. ddrSize' = EINVAL /\ ddrPc' = "done"
  BY <1>3, SMT DEF ComputeRegisters
<2>2. PlanFollows'
  BY <2>1 DEF PlanFollows, DdrSetPlaces
<2>. QED
  BY <1>1, <2>1, <2>2, PlanningKeeps
<1>4. CASE bad = {}
<2>1. /\ ddrPriv' = [conf |-> conf, dimms |-> ddrPriv.dimms, opts |-> ddrPriv.opts, regs |-> regs]
      /\ ddrCtrl' = FirstCtrl /\ ddrPc' = "set"
  BY <1>4, SMT DEF ComputeRegisters
<2>2. ASSUME NEW c \in MainCtrls
      PROVE regs[c] = ZeroRegs \/ regs[c].ddr_sdram_cfg_2.D_INIT = TRUE
<3>1. CASE ~conf[c].in_use
  BY <3>1
<3>2. CASE conf[c].in_use
<4>1. "in_use" \in DOMAIN ddrPriv.conf[c] /\ (ddrPriv.conf[c].in_use => PlanOf(ddrPriv.opts[c]))
  BY <1>1 DEF DdrInv, PlanFollows
<4>2. PlanOf(ddrPriv.opts[c])
  BY <3>2, <4>1, AddressesKeepInUse
<4>3. regs[c] = compute_ddrc_regs(Rate, ddrPriv.opts[c], conf[c], ddrPriv.dimms[c])
  BY <3>2
<4>4. compute_ddrc_regs(Rate, ddrPriv.opts[c], conf[c], ddrPriv.dimms[c]).ddr_sdram_cfg_2.D_INIT = TRUE
  BY <4>2, RegistersInit
<4>. HIDE DEF conf, regs
<4>. QED
  BY <4>3, <4>4
<3>. QED
  BY <3>1, <3>2
<2>. HIDE DEF conf, Cas, regs, bad
<2>3. \A c \in MainCtrls : Regs(c)' = regs[c]
  BY <2>1 DEF Regs
<2>4. DdrTypes'
  BY <1>1, <1>2, <2>1, ControllersInOrder DEF DdrInv, DdrTypes, DdrPlaces, DdrSetPlaces
<2>5. Untouched' /\ PlanFollows'
  BY <1>2, <2>1, <2>2, <2>3 DEF Untouched, PlanFollows
<2>6. \A c \in 0..1 : ddrHw'[c] = ResetCtrl
  BY <1>1 DEF DdrInv, Untouched
<2>7. CommandsFollow' /\ InitFollows' /\ SuccessIsInitialised'
  BY <1>1, <2>1, <2>6 DEF DdrInv, CommandsFollow, InitFollows, SuccessIsInitialised, ResetCtrl
<2>8. BoundsFollow'
  BY <1>2, <2>1, <2>6, ControllersInOrder DEF BoundsFollow
<2>. QED
  BY ONLY <2>4, <2>5, <2>7, <2>8 DEF DdrInv
<1>. QED
  BY <1>3, <1>4

-----------------------------------------------------------------------------
(* Setting up a controller. *)

\* The registers of a controller that says whether it initialises its memory.
LEMMA DInitIsKnown ==
  ASSUME DdrInv, ddrPc \in DdrSetPlaces
  PROVE /\ ddrSetup \in DdrSetups /\ ddrCtrl \in MainCtrls /\ ddrCtrl \in 0..1
        /\ Regs(ddrCtrl).ddr_sdram_cfg_2.D_INIT \in BOOLEAN
        /\ Regs(ddrCtrl) # ZeroRegs => Regs(ddrCtrl).ddr_sdram_cfg_2.D_INIT
        /\ \E B : ddrHw \in [0..1 -> DdrCtrls(B)]
<1>1. ddrSetup \in DdrSetups /\ ddrCtrl \in MainCtrls /\ \E B : ddrHw \in [0..1 -> DdrCtrls(B)]
  BY DEF DdrInv, DdrTypes, DdrSetPlaces
<1>2. ddrCtrl \in 0..1
  BY <1>1, ControllersInOrder
<1>3. Regs(ddrCtrl) = ZeroRegs \/ Regs(ddrCtrl).ddr_sdram_cfg_2.D_INIT = TRUE
  BY <1>1 DEF DdrInv, PlanFollows
<1>4. ZeroRegs.ddr_sdram_cfg_2.D_INIT = FALSE
  BY DEF ZeroRegs
<1>. QED
  BY <1>1, <1>2, <1>3, <1>4

\* The plan and the setup stay as they are while a controller is set up.
LEMMA PlanStays ==
  ASSUME UNCHANGED <<ddrSetup, ddrPriv>>
  PROVE /\ MainCtrls' = MainCtrls /\ LastCtrl' = LastCtrl /\ Erratum' = Erratum
        /\ \A c : Regs(c)' = Regs(c)
  BY DEF MainCtrls, LastCtrl, Board, Erratum, Regs

LEMMA SetRegistersKeeps ==
  ASSUME DdrInv, SetRegisters
  PROVE DdrInv'
<1>1. /\ ddrPc = "set" /\ ddrPc' = "enable"
      /\ UNCHANGED <<ddrSetup, ddrPriv, ddrCtrl, ddrTodo, ddrRet, ddrSize>>
  BY DEF SetRegisters
<1>2. MainCtrls' = MainCtrls /\ LastCtrl' = LastCtrl /\ Erratum' = Erratum /\ \A c : Regs(c)' = Regs(c)
  BY <1>1, PlanStays
<1>3. /\ ddrSetup \in DdrSetups /\ ddrCtrl \in MainCtrls /\ ddrCtrl \in 0..1
      /\ Regs(ddrCtrl).ddr_sdram_cfg_2.D_INIT \in BOOLEAN
      /\ Regs(ddrCtrl) # ZeroRegs => Regs(ddrCtrl).ddr_sdram_cfg_2.D_INIT
  BY <1>1, DInitIsKnown DEF DdrSetPlaces
<1>4. PICK B : ddrHw \in [0..1 -> DdrCtrls(B)]
  BY <1>1, DInitIsKnown DEF DdrSetPlaces
<1>5. Erratum \in BOOLEAN /\ (Board.a009803 => Erratum)
  BY <1>3, ErrataKnown DEF Erratum
<1>6. PICK start \in BOOLEAN : start = DInitAtStart(ddrCtrl)
  BY DEF DInitAtStart
<1>7. start <=> ~Erratum /\ Regs(ddrCtrl).ddr_sdram_cfg_2.D_INIT
  BY <1>6 DEF DInitAtStart
<1>8. PICK masked \in BOOLEAN : masked = ParityInUse(ddrCtrl)
  BY DEF ParityInUse
<1>9. masked => Erratum
  BY <1>5, <1>8 DEF ParityInUse
<1>10. PICK policy \in BOOLEAN : policy = ~Board.a009663
  OBVIOUS
<1>11. ddrHw' = [ddrHw EXCEPT ![ddrCtrl].bnds = Regs(ddrCtrl).bnds, ![ddrCtrl].bstopre = policy,
                              ![ddrCtrl].d_init = start, ![ddrCtrl].aped = masked]
  BY <1>6, <1>8, <1>10 DEF SetRegisters
<1>12. PICK C : C = B \cup {Regs(ddrCtrl).bnds}
  OBVIOUS
<1>13. ddrHw' \in [0..1 -> DdrCtrls(C)]
  BY <1>3, <1>4, <1>11, <1>12 DEF DdrCtrls
<1>14. \A c \in 0..1 : c # ddrCtrl => ddrHw'[c] = ddrHw[c]
  BY <1>3, <1>4, <1>11
<1>15. /\ ddrHw'[ddrCtrl].bnds = Regs(ddrCtrl).bnds
       /\ ddrHw'[ddrCtrl].d_init = start /\ ddrHw'[ddrCtrl].aped = masked
       /\ ddrHw'[ddrCtrl].md_en = ddrHw[ddrCtrl].md_en
  BY <1>3, <1>4, <1>11 DEF DdrCtrls
<1>16. DdrTypes'
  BY <1>1, <1>2, <1>3, <1>13 DEF DdrTypes, DdrPlaces, DdrSetPlaces
<1>17. Untouched' /\ PlanFollows' /\ SuccessIsInitialised'
  BY <1>1, <1>2 DEF DdrInv, Untouched, PlanFollows, SuccessIsInitialised, DdrSetPlaces
<1>18. CommandsFollow'
  BY <1>1, <1>2, <1>3, <1>5, <1>7, <1>9, <1>14, <1>15 DEF DdrInv, CommandsFollow
<1>19. InitFollows'
  BY <1>1, <1>2, <1>3, <1>5, <1>7, <1>14, <1>15 DEF InitFollows
<1>20. BoundsFollow'
  BY <1>1, <1>2, <1>3, <1>14, <1>15, ControllersInOrder DEF DdrInv, BoundsFollow, DdrSetPlaces
<1>. QED
  BY ONLY <1>16, <1>17, <1>18, <1>19, <1>20 DEF DdrInv

\* A step that changes fields of one controller other than its bounds, without a change of the plan.
LEMMA FieldsKeep ==
  ASSUME DdrInv, ddrPc \in DdrSetPlaces, ddrPc' \in DdrSetPlaces \ {"set", "bist"},
         ddrPc \notin {"set", "bist"},
         UNCHANGED <<ddrSetup, ddrPriv, ddrCtrl, ddrSize>>,
         \E B : ddrHw' \in [0..1 -> DdrCtrls(B)],
         \A c \in 0..1 : ddrHw'[c].bnds = ddrHw[c].bnds,
         CommandsFollow', InitFollows'
  PROVE DdrInv'
<1>1. MainCtrls' = MainCtrls /\ LastCtrl' = LastCtrl /\ Erratum' = Erratum /\ \A c : Regs(c)' = Regs(c)
  BY PlanStays
<1>2. DdrTypes'
  BY <1>1 DEF DdrInv, DdrTypes, DdrPlaces, DdrSetPlaces
<1>3. Untouched' /\ PlanFollows' /\ SuccessIsInitialised'
  BY <1>1 DEF DdrInv, Untouched, PlanFollows, SuccessIsInitialised, DdrSetPlaces
<1>4. BoundsFollow'
  BY <1>1, ControllersInOrder DEF DdrInv, DdrTypes, BoundsFollow, DdrSetPlaces
<1>. QED
  BY ONLY <1>2, <1>3, <1>4, CommandsFollow', InitFollows' DEF DdrInv

\* A step of the set-up that changes no controller.
LEMMA CodeKeeps ==
  ASSUME DdrInv, ddrPc \in DdrSetPlaces, ddrPc' \in DdrSetPlaces \ {"set", "bist"},
         ddrPc \notin {"set", "bist"},
         UNCHANGED <<ddrSetup, ddrPriv, ddrCtrl, ddrSize, ddrHw>>,
         CommandsFollow', InitFollows'
  PROVE DdrInv'
<1>1. \E B : ddrHw' \in [0..1 -> DdrCtrls(B)]
  BY DInitIsKnown
<1>2. \A c \in 0..1 : ddrHw'[c].bnds = ddrHw[c].bnds
  OBVIOUS
<1>. QED
  BY <1>1, <1>2, FieldsKeep

LEMMA EnableControllerKeeps ==
  ASSUME DdrInv, EnableController
  PROVE DdrInv'
<1>1. /\ ddrPc = "enable" /\ ddrPc' = IF Erratum THEN "idle" ELSE "data"
      /\ UNCHANGED <<ddrSetup, ddrPriv, ddrCtrl, ddrTodo, ddrSize>>
      /\ ddrHw' = [ddrHw EXCEPT ![ddrCtrl].mem_en = TRUE]
  BY DEF EnableController
<1>2. Erratum' = Erratum /\ \A c : Regs(c)' = Regs(c)
  BY <1>1, PlanStays
<1>3. ddrCtrl \in 0..1
  BY <1>1, DInitIsKnown DEF DdrSetPlaces
<1>4. PICK B : ddrHw \in [0..1 -> DdrCtrls(B)]
  BY <1>1, DInitIsKnown DEF DdrSetPlaces
<1>5. TRUE \in BOOLEAN
  OBVIOUS
<1>6. ddrHw' \in [0..1 -> DdrCtrls(B)]
  BY <1>1, <1>3, <1>4, <1>5 DEF DdrCtrls
<1>7. /\ \A c \in 0..1 : /\ ddrHw'[c].bnds = ddrHw[c].bnds /\ ddrHw'[c].d_init = ddrHw[c].d_init
                         /\ ddrHw'[c].md_en = ddrHw[c].md_en /\ ddrHw'[c].aped = ddrHw[c].aped
                         /\ ddrHw'[c].ready = ddrHw[c].ready
      /\ ddrHw'[ddrCtrl].mem_en
  BY <1>1, <1>3, <1>4 DEF DdrCtrls
<1>8. CommandsFollow'
  BY <1>1, <1>2, <1>3, <1>7 DEF DdrInv, CommandsFollow
<1>9. InitFollows'
  BY <1>1, <1>2, <1>3, <1>7 DEF DdrInv, InitFollows
<1>. QED
  BY <1>1, <1>6, <1>7, <1>8, <1>9, FieldsKeep DEF DdrSetPlaces

LEMMA IdleInTimeKeeps ==
  ASSUME DdrInv, IdleInTime
  PROVE DdrInv'
<1>1. /\ ddrPc = "idle" /\ ddrPc' \in {"vref", "parity"}
      /\ UNCHANGED <<ddrSetup, ddrPriv, ddrCtrl, ddrSize, ddrHw>>
  BY DEF IdleInTime
<1>2. Erratum' = Erratum /\ \A c : Regs(c)' = Regs(c)
  BY <1>1, PlanStays
<1>3. CommandsFollow'
  BY <1>1, <1>2 DEF DdrInv, CommandsFollow
<1>4. InitFollows'
  BY <1>1, <1>2 DEF DdrInv, InitFollows, DdrSetPlaces
<1>. QED
  BY <1>1, <1>3, <1>4, CodeKeeps DEF DdrSetPlaces

LEMMA WriteModeKeeps ==
  ASSUME DdrInv, WriteMode
  PROVE DdrInv'
<1>1. /\ ddrPc \in {"vref", "parity"} /\ ddrPc' = ddrPc
      /\ UNCHANGED <<ddrSetup, ddrPriv, ddrCtrl, ddrSize>>
      /\ ddrHw' = [ddrHw EXCEPT ![ddrCtrl].md_en = TRUE]
  BY DEF WriteMode
<1>2. Erratum' = Erratum /\ \A c : Regs(c)' = Regs(c)
  BY <1>1, PlanStays
<1>3. ddrCtrl \in 0..1
  BY <1>1, DInitIsKnown DEF DdrSetPlaces
<1>4. PICK B : ddrHw \in [0..1 -> DdrCtrls(B)]
  BY <1>1, DInitIsKnown DEF DdrSetPlaces
<1>5. TRUE \in BOOLEAN
  OBVIOUS
<1>6. ddrHw' \in [0..1 -> DdrCtrls(B)]
  BY <1>1, <1>3, <1>4, <1>5 DEF DdrCtrls
<1>7. /\ \A c \in 0..1 : /\ ddrHw'[c].bnds = ddrHw[c].bnds /\ ddrHw'[c].d_init = ddrHw[c].d_init
                         /\ ddrHw'[c].aped = ddrHw[c].aped /\ ddrHw'[c].mem_en = ddrHw[c].mem_en
      /\ \A c \in 0..1 : c # ddrCtrl => ddrHw'[c].md_en = ddrHw[c].md_en
  BY <1>1, <1>3, <1>4 DEF DdrCtrls
<1>8. CommandsFollow'
  BY <1>1, <1>2, <1>3, <1>7 DEF DdrInv, CommandsFollow
<1>9. InitFollows'
  BY <1>1, <1>2, <1>3, <1>7 DEF DdrInv, InitFollows, DdrSetPlaces
<1>. QED
  BY <1>1, <1>6, <1>7, <1>8, <1>9, FieldsKeep DEF DdrSetPlaces

LEMMA RestartDeskewKeeps ==
  ASSUME DdrInv, RestartDeskew
  PROVE DdrInv'
<1>1. /\ ddrPc = "vref" /\ ddrPc' = "deskew" /\ ddrTodo = <<>> /\ ~ddrHw[ddrCtrl].md_en
      /\ UNCHANGED <<ddrSetup, ddrPriv, ddrCtrl, ddrTodo, ddrSize, ddrHw>>
  BY DEF RestartDeskew, ModesWritten
<1>2. Erratum' = Erratum /\ \A c : Regs(c)' = Regs(c)
  BY <1>1, PlanStays
<1>3. CommandsFollow'
  BY <1>1, <1>2 DEF DdrInv, CommandsFollow
<1>4. InitFollows'
  BY <1>1, <1>2 DEF DdrInv, InitFollows, DdrSetPlaces
<1>. QED
  BY <1>1, <1>3, <1>4, CodeKeeps DEF DdrSetPlaces

LEMMA DeskewInTimeKeeps ==
  ASSUME DdrInv, DeskewInTime
  PROVE DdrInv'
<1>1. /\ ddrPc = "deskew" /\ ddrPc' = "parity"
      /\ UNCHANGED <<ddrSetup, ddrPriv, ddrCtrl, ddrSize, ddrHw>>
  BY DEF DeskewInTime
<1>2. Erratum' = Erratum /\ \A c : Regs(c)' = Regs(c)
  BY <1>1, PlanStays
<1>3. CommandsFollow'
  BY <1>1, <1>2 DEF DdrInv, CommandsFollow
<1>4. InitFollows'
  BY <1>1, <1>2 DEF DdrInv, InitFollows, DdrSetPlaces
<1>. QED
  BY <1>1, <1>3, <1>4, CodeKeeps DEF DdrSetPlaces

LEMMA RestoreDInitKeeps ==
  ASSUME DdrInv, RestoreDInit
  PROVE DdrInv'
<1>1. /\ ddrPc = "parity" /\ ddrPc' = "data" /\ ddrTodo = <<>> /\ ~ddrHw[ddrCtrl].md_en
      /\ UNCHANGED <<ddrSetup, ddrPriv, ddrCtrl, ddrTodo, ddrSize>>
  BY DEF RestoreDInit, ModesWritten
<1>2. Erratum' = Erratum /\ \A c : Regs(c)' = Regs(c)
  BY <1>1, PlanStays
<1>3. /\ ddrCtrl \in 0..1
      /\ Regs(ddrCtrl).ddr_sdram_cfg_2.D_INIT \in BOOLEAN
      /\ Regs(ddrCtrl) # ZeroRegs => Regs(ddrCtrl).ddr_sdram_cfg_2.D_INIT
  BY <1>1, DInitIsKnown DEF DdrSetPlaces
<1>4. PICK B : ddrHw \in [0..1 -> DdrCtrls(B)]
  BY <1>1, DInitIsKnown DEF DdrSetPlaces
<1>5. FALSE \in BOOLEAN
  OBVIOUS
<1>6. PICK start \in BOOLEAN : start = Regs(ddrCtrl).ddr_sdram_cfg_2.D_INIT
  BY <1>3
<1>7. ddrHw' = [ddrHw EXCEPT ![ddrCtrl].aped = FALSE, ![ddrCtrl].d_init = start]
  BY <1>6 DEF RestoreDInit
<1>8. ddrHw' \in [0..1 -> DdrCtrls(B)]
  BY <1>3, <1>4, <1>5, <1>7 DEF DdrCtrls
<1>9. /\ \A c \in 0..1 : /\ ddrHw'[c].bnds = ddrHw[c].bnds /\ ddrHw'[c].md_en = ddrHw[c].md_en
                         /\ ddrHw'[c].mem_en = ddrHw[c].mem_en
      /\ \A c \in 0..1 : c # ddrCtrl => ddrHw'[c] = ddrHw[c]
      /\ ~ddrHw'[ddrCtrl].aped /\ ddrHw'[ddrCtrl].d_init = start
  BY <1>3, <1>4, <1>7 DEF DdrCtrls
<1>10. CommandsFollow'
  BY <1>1, <1>2, <1>3, <1>9 DEF DdrInv, CommandsFollow
<1>11. InitFollows'
  BY <1>1, <1>2, <1>3, <1>6, <1>9 DEF DdrInv, InitFollows, DdrSetPlaces
<1>. QED
  BY <1>1, <1>8, <1>9, <1>10, <1>11, FieldsKeep DEF DdrSetPlaces

LEMMA DInitDoneKeeps ==
  ASSUME DdrInv, DInitDone
  PROVE DdrInv'
<1>1. /\ ddrPc = "data" /\ ddrPc' = "train" /\ ~ddrHw[ddrCtrl].d_init
      /\ DInitTimeout(Regs(ddrCtrl)) > 0
      /\ UNCHANGED <<ddrSetup, ddrPriv, ddrCtrl, ddrTodo, ddrSize>>
      /\ ddrHw' = [ddrHw EXCEPT ![ddrCtrl].bstopre = TRUE]
  BY DEF DInitDone
<1>2. Erratum' = Erratum /\ \A c : Regs(c)' = Regs(c)
  BY <1>1, PlanStays
<1>3. ddrCtrl \in 0..1 /\ ddrSetup \in DdrSetups
  BY <1>1, DInitIsKnown DEF DdrSetPlaces
<1>4. PICK B : ddrHw \in [0..1 -> DdrCtrls(B)]
  BY <1>1, DInitIsKnown DEF DdrSetPlaces
<1>5. DInitTimeout(ZeroRegs) = 0
  BY <1>3, ErrataKnown, NoTimeWithoutMemory
<1>6. Regs(ddrCtrl) # ZeroRegs
  BY <1>1, <1>5
<1>7. TRUE \in BOOLEAN
  OBVIOUS
<1>8. ddrHw' \in [0..1 -> DdrCtrls(B)]
  BY <1>1, <1>3, <1>4, <1>7 DEF DdrCtrls
<1>9. /\ \A c \in 0..1 : /\ ddrHw'[c].bnds = ddrHw[c].bnds /\ ddrHw'[c].d_init = ddrHw[c].d_init
                         /\ ddrHw'[c].md_en = ddrHw[c].md_en /\ ddrHw'[c].aped = ddrHw[c].aped
                         /\ ddrHw'[c].ready = ddrHw[c].ready /\ ddrHw'[c].mem_en = ddrHw[c].mem_en
      /\ ddrHw'[ddrCtrl].bstopre
  BY <1>1, <1>3, <1>4 DEF DdrCtrls
<1>10. CommandsFollow'
  BY <1>1, <1>2, <1>3, <1>9 DEF DdrInv, CommandsFollow
<1>11. InitFollows'
  BY <1>1, <1>2, <1>3, <1>6, <1>9 DEF DdrInv, InitFollows, DdrSetPlaces
<1>. QED
  BY <1>1, <1>8, <1>9, <1>10, <1>11, FieldsKeep DEF DdrSetPlaces

-----------------------------------------------------------------------------
(* The ends of the set-up, the test and the hardware. *)

\* ddrc_set_regs() returns: no more commands are to be sent and the bounds are as planned; without
\* an error it returns from the test only.
LEMMA ReturnKeeps ==
  ASSUME DdrInv, ddrPc \in {"idle", "deskew", "data", "train", "bist"},
         NEW r \in {0, EIO}, r = 0 => ddrPc = "bist", ReturnFromSetRegs(r),
         UNCHANGED <<ddrSetup, ddrPriv, ddrTodo>>,
         \E B : ddrHw' \in [0..1 -> DdrCtrls(B)],
         ddrHw'[ddrCtrl].bnds = Regs(ddrCtrl).bnds,
         \A c \in 0..1 :
           /\ c # ddrCtrl => ddrHw'[c].bnds = ddrHw[c].bnds
           /\ ddrHw'[c].mem_en = ddrHw[c].mem_en /\ ddrHw'[c].ready = ddrHw[c].ready
           /\ ddrHw'[c].md_en = ddrHw[c].md_en /\ ddrHw'[c].aped = ddrHw[c].aped
           /\ ddrHw'[c].d_init = ddrHw[c].d_init /\ ddrHw'[c].bstopre = ddrHw[c].bstopre
  PROVE DdrInv'
<1>1. MainCtrls' = MainCtrls /\ LastCtrl' = LastCtrl /\ Erratum' = Erratum /\ \A c : Regs(c)' = Regs(c)
  BY PlanStays
<1>2. ddrSetup \in DdrSetups /\ ddrCtrl \in MainCtrls /\ ddrCtrl \in 0..1
  BY DInitIsKnown DEF DdrSetPlaces
<1>3. MainCtrls \subseteq 0..1 /\ LastCtrl \in MainCtrls
  BY <1>2, ControllersInOrder
<1>4. \A c \in MainCtrls : ddrHw'[c].bnds \in {ResetCtrl.bnds, Regs(c).bnds}
  BY <1>2, <1>3 DEF DdrInv, BoundsFollow, DdrSetPlaces
<1>5. CASE ddrCtrl # LastCtrl
<2>1. ddrPc' = "set" /\ ddrCtrl' = ddrCtrl + 1
  BY <1>5 DEF ReturnFromSetRegs
<2>2. ddrCtrl' \in MainCtrls
  BY <1>2, <1>5, <2>1, ControllersInOrder
<2>3. DdrTypes'
  BY <1>1, <1>2, <2>1, <2>2 DEF DdrTypes, DdrPlaces, DdrSetPlaces
<2>4. Untouched' /\ PlanFollows' /\ SuccessIsInitialised'
  BY <1>1, <2>1 DEF DdrInv, Untouched, PlanFollows, SuccessIsInitialised, DdrSetPlaces
<2>5. CommandsFollow'
  BY <2>1 DEF DdrInv, CommandsFollow
<2>6. InitFollows'
  BY <2>1 DEF InitFollows
<2>7. BoundsFollow'
  BY <1>1, <1>4, <2>1 DEF BoundsFollow
<2>. QED
  BY ONLY <2>3, <2>4, <2>5, <2>6, <2>7 DEF DdrInv
<1>6. CASE ddrCtrl = LastCtrl
<2>1. ddrPc' = "done" /\ ddrSize' = IF r # 0 THEN r ELSE ddrSize
  BY <1>6 DEF ReturnFromSetRegs
<2>2. DdrTypes'
  BY <1>2, <2>1 DEF DdrTypes, DdrPlaces, DdrSetPlaces
<2>3. Untouched' /\ PlanFollows' /\ InitFollows' /\ BoundsFollow'
  BY <2>1 DEF Untouched, PlanFollows, InitFollows, BoundsFollow, DdrSetPlaces
<2>4. CommandsFollow'
  BY <2>1 DEF DdrInv, CommandsFollow
<2>5. SuccessIsInitialised'
<3>1. CASE r = EIO
<4>1. ~(ddrSize' > 0)
  BY <2>1, <3>1 DEF EIO
<4>. QED
  BY <4>1 DEF SuccessIsInitialised
<3>2. CASE r = 0
<4>1. ddrPc = "bist"
  BY <3>2
<4>2. /\ ddrHw[ddrCtrl].mem_en /\ ddrHw[ddrCtrl].ready /\ ~ddrHw[ddrCtrl].d_init
      /\ ddrHw[ddrCtrl].bstopre /\ ~ddrHw[ddrCtrl].aped
  BY <4>1 DEF DdrInv, InitFollows, CommandsFollow, DdrSetPlaces
<4>3. ~ddrHw[ddrCtrl].md_en
  BY <1>2, <4>1 DEF DdrInv, CommandsFollow
<4>. QED
  BY <1>1, <1>2, <1>6, <4>2, <4>3 DEF SuccessIsInitialised
<3>. QED
  BY <3>1, <3>2
<2>. QED
  BY ONLY <2>2, <2>3, <2>4, <2>5 DEF DdrInv
<1>. QED
  BY <1>5, <1>6

\* A wait that gives up, or training that reports an error.
LEMMA GivingUpKeeps ==
  ASSUME DdrInv, IdleTimeout \/ DInitTimesOut \/ TrainingError
  PROVE DdrInv'
<1>1. /\ ddrPc \in {"idle", "deskew", "data", "train"} /\ ReturnFromSetRegs(EIO)
      /\ UNCHANGED <<ddrSetup, ddrPriv, ddrTodo, ddrHw>>
  BY DEF IdleTimeout, DInitTimesOut, TrainingError
<1>2. ddrCtrl \in MainCtrls /\ \E B : ddrHw \in [0..1 -> DdrCtrls(B)]
  BY <1>1, DInitIsKnown DEF DdrSetPlaces
<1>3. ddrHw[ddrCtrl].bnds = Regs(ddrCtrl).bnds
  BY <1>1, <1>2 DEF DdrInv, BoundsFollow, DdrSetPlaces
<1>4. EIO # 0
  BY DEF EIO
<1>. QED
  BY <1>1, <1>2, <1>3, <1>4, ReturnKeeps

\* What the test changes of its controller.
LEMMA BoundsChange ==
  ASSUME NEW B, ddrHw \in [0..1 -> DdrCtrls(B)], ddrCtrl \in 0..1, NEW b,
         ddrHw' = [ddrHw EXCEPT ![ddrCtrl].bnds = b]
  PROVE /\ \E C : ddrHw' \in [0..1 -> DdrCtrls(C)]
        /\ ddrHw'[ddrCtrl].bnds = b
        /\ \A c \in 0..1 :
             /\ c # ddrCtrl => ddrHw'[c].bnds = ddrHw[c].bnds
             /\ ddrHw'[c].mem_en = ddrHw[c].mem_en /\ ddrHw'[c].ready = ddrHw[c].ready
             /\ ddrHw'[c].md_en = ddrHw[c].md_en /\ ddrHw'[c].aped = ddrHw[c].aped
             /\ ddrHw'[c].d_init = ddrHw[c].d_init /\ ddrHw'[c].bstopre = ddrHw[c].bstopre
<1>1. PICK C : C = B \cup {b}
  OBVIOUS
<1>2. ddrHw' \in [0..1 -> DdrCtrls(C)]
  BY <1>1 DEF DdrCtrls
<1>. QED
  BY <1>2 DEF DdrCtrls

LEMMA StartBistKeeps ==
  ASSUME DdrInv, StartBist
  PROVE DdrInv'
<1>1. /\ ddrPc = "train" /\ ddrPc' = "bist"
      /\ UNCHANGED <<ddrSetup, ddrPriv, ddrCtrl, ddrTodo, ddrSize>>
  BY DEF StartBist
<1>2. MainCtrls' = MainCtrls /\ LastCtrl' = LastCtrl /\ Erratum' = Erratum /\ \A c : Regs(c)' = Regs(c)
  BY <1>1, PlanStays
<1>3. ddrSetup \in DdrSetups /\ ddrCtrl \in MainCtrls /\ ddrCtrl \in 0..1
  BY <1>1, DInitIsKnown DEF DdrSetPlaces
<1>4. PICK B : ddrHw \in [0..1 -> DdrCtrls(B)]
  BY <1>1, DInitIsKnown DEF DdrSetPlaces
<1>5. PICK b : b = IF Regs(ddrCtrl).cs[0].intlv_en THEN Halved(ddrHw[ddrCtrl].bnds)
                   ELSE ddrHw[ddrCtrl].bnds
  OBVIOUS
<1>6. ddrHw' = [ddrHw EXCEPT ![ddrCtrl].bnds = b]
  BY <1>5 DEF StartBist
<1>7. /\ \E C : ddrHw' \in [0..1 -> DdrCtrls(C)]
      /\ ddrHw'[ddrCtrl].bnds = b
      /\ \A c \in 0..1 :
           /\ c # ddrCtrl => ddrHw'[c].bnds = ddrHw[c].bnds
           /\ ddrHw'[c].mem_en = ddrHw[c].mem_en /\ ddrHw'[c].ready = ddrHw[c].ready
           /\ ddrHw'[c].md_en = ddrHw[c].md_en /\ ddrHw'[c].aped = ddrHw[c].aped
           /\ ddrHw'[c].d_init = ddrHw[c].d_init /\ ddrHw'[c].bstopre = ddrHw[c].bstopre
  BY <1>3, <1>4, <1>6, BoundsChange
<1>8. MainCtrls \subseteq 0..1
  BY <1>3, ControllersInOrder
<1>9. ddrHw[ddrCtrl].bnds = Regs(ddrCtrl).bnds
  BY <1>1 DEF DdrInv, BoundsFollow, DdrSetPlaces
<1>10. DdrTypes'
  BY <1>1, <1>2, <1>3, <1>7 DEF DdrTypes, DdrPlaces, DdrSetPlaces
<1>11. Untouched' /\ PlanFollows' /\ SuccessIsInitialised'
  BY <1>1, <1>2 DEF DdrInv, Untouched, PlanFollows, SuccessIsInitialised, DdrSetPlaces
<1>12. CommandsFollow'
  BY <1>1, <1>2, <1>3, <1>7 DEF DdrInv, CommandsFollow
<1>13. InitFollows'
  BY <1>1, <1>2, <1>3, <1>7 DEF DdrInv, InitFollows, DdrSetPlaces
<1>14. BoundsFollow'
  BY <1>1, <1>2, <1>5, <1>7, <1>8, <1>9 DEF DdrInv, BoundsFollow, DdrSetPlaces
<1>. QED
  BY ONLY <1>10, <1>11, <1>12, <1>13, <1>14 DEF DdrInv

LEMMA EndBistKeeps ==
  ASSUME DdrInv, NEW outcome, EndBist(outcome)
  PROVE DdrInv'
<1>1. ddrPc = "bist" /\ UNCHANGED <<ddrSetup, ddrPriv, ddrTodo>>
  BY DEF EndBist
<1>2. PICK r \in {0, EIO} : r = IF outcome \in {"ecc", "failed"} THEN EIO ELSE 0
  OBVIOUS
<1>3. ReturnFromSetRegs(r)
  BY <1>2 DEF EndBist
<1>4. ddrSetup \in DdrSetups /\ ddrCtrl \in MainCtrls /\ ddrCtrl \in 0..1
  BY <1>1, DInitIsKnown DEF DdrSetPlaces
<1>5. PICK B : ddrHw \in [0..1 -> DdrCtrls(B)]
  BY <1>1, DInitIsKnown DEF DdrSetPlaces
<1>6. PICK b : b = IF Regs(ddrCtrl).cs[0].intlv_en THEN Regs(ddrCtrl).bnds ELSE ddrHw[ddrCtrl].bnds
  OBVIOUS
<1>7. ddrHw' = [ddrHw EXCEPT ![ddrCtrl].bnds = b]
  BY <1>6 DEF EndBist
<1>8. b = Regs(ddrCtrl).bnds
  BY <1>1, <1>6 DEF DdrInv, BoundsFollow
<1>. QED
  BY <1>1, <1>3, <1>4, <1>5, <1>7, <1>8, BoundsChange, ReturnKeeps

\* The memory of a controller is initialised, or its mode register command is sent.
LEMMA HardwareKeeps ==
  ASSUME DdrInv, NEW k \in 0..1, HwDataInit(k) \/ HwModeSent(k)
  PROVE DdrInv'
<1>1. UNCHANGED <<ddrSetup, ddrPriv, ddrPc, ddrCtrl, ddrTodo, ddrRet, ddrSize>>
  BY DEF HwDataInit, HwModeSent
<1>2. MainCtrls' = MainCtrls /\ LastCtrl' = LastCtrl /\ Erratum' = Erratum /\ \A c : Regs(c)' = Regs(c)
  BY <1>1, PlanStays
<1>3. PICK B : ddrHw \in [0..1 -> DdrCtrls(B)]
  BY DEF DdrInv, DdrTypes
<1>4. TRUE \in BOOLEAN /\ FALSE \in BOOLEAN
  OBVIOUS
<1>5. /\ ddrHw' \in [0..1 -> DdrCtrls(B)]
      /\ \A c \in 0..1 : /\ ddrHw'[c].bnds = ddrHw[c].bnds /\ ddrHw'[c].mem_en = ddrHw[c].mem_en
                         /\ ddrHw'[c].aped = ddrHw[c].aped /\ ddrHw'[c].bstopre = ddrHw[c].bstopre
                         /\ (ddrHw[c].ready => ddrHw'[c].ready)
                         /\ (ddrHw'[c].md_en => ddrHw[c].md_en)
                         /\ (ddrHw'[c].d_init => ddrHw[c].d_init)
                         /\ (ddrHw[c].d_init => ddrHw'[c].d_init \/ ddrHw'[c].ready)
<2>1. CASE HwDataInit(k)
<3>1. ddrHw' = [ddrHw EXCEPT ![k].d_init = FALSE, ![k].ready = TRUE]
  BY <2>1 DEF HwDataInit
<3>. QED
  BY <1>3, <1>4, <3>1 DEF DdrCtrls
<2>2. CASE HwModeSent(k)
<3>1. ddrHw' = [ddrHw EXCEPT ![k].md_en = FALSE]
  BY <2>2 DEF HwModeSent
<3>. QED
  BY <1>3, <1>4, <3>1 DEF DdrCtrls
<2>. QED
  BY <2>1, <2>2
<1>6. ddrPc \in DdrSetPlaces => ddrCtrl \in 0..1 /\ MainCtrls \subseteq 0..1
  BY DInitIsKnown, ControllersInOrder
<1>7. DdrTypes'
  BY <1>1, <1>2, <1>5 DEF DdrInv, DdrTypes
<1>8. Untouched' /\ PlanFollows'
<2>1. ddrPc \notin {"off", "spd", "opts", "addr"}
  BY <1>3 DEF DdrInv, Untouched, ResetCtrl, HwDataInit, HwModeSent
<2>. QED
  BY <1>1, <1>2, <2>1 DEF DdrInv, Untouched, PlanFollows
<1>9. CommandsFollow'
  BY <1>1, <1>2, <1>5, <1>6 DEF DdrInv, CommandsFollow, DdrSetPlaces
<1>10. InitFollows'
  BY <1>1, <1>2, <1>5, <1>6 DEF DdrInv, InitFollows, DdrSetPlaces
<1>11. BoundsFollow'
  BY <1>1, <1>2, <1>5, <1>6 DEF DdrInv, BoundsFollow, DdrSetPlaces
<1>12. SuccessIsInitialised'
<2>1. CASE ddrPc = "done" /\ ddrSize > 0
<3>1. ddrSetup \in DdrSetups
  BY <2>1 DEF DdrInv, DdrTypes
<3>2. LastCtrl \in 0..1
  BY <3>1, ControllersInOrder
<3>. QED
  BY <1>1, <1>2, <1>5, <2>1, <3>2 DEF DdrInv, SuccessIsInitialised
<2>2. CASE ~(ddrPc = "done" /\ ddrSize > 0)
  BY <1>1, <2>2 DEF SuccessIsInitialised
<2>. QED
  BY <2>1, <2>2
<1>. QED
  BY ONLY <1>7, <1>8, <1>9, <1>10, <1>11, <1>12 DEF DdrInv

LEMMA DdrStarts == DdrInit => DdrInv
<1>. SUFFICES ASSUME DdrInit PROVE DdrInv
  OBVIOUS
<1>1. ddrPc = "off" /\ ddrTodo = <<>> /\ ddrHw = [c \in 0..1 |-> ResetCtrl]
  BY DEF DdrInit
<1>2. TRUE \in BOOLEAN /\ FALSE \in BOOLEAN
  OBVIOUS
<1>3. ResetCtrl \in DdrCtrls({ResetCtrl.bnds})
  BY <1>2 DEF DdrCtrls, ResetCtrl
<1>4. DdrTypes
  BY <1>1, <1>3 DEF DdrTypes, DdrPlaces, DdrSetPlaces
<1>5. \A c \in 0..1 : ddrHw[c] = ResetCtrl
  BY <1>1
<1>. QED
  BY <1>1, <1>4, <1>5 DEF DdrInv, Untouched, PlanFollows, CommandsFollow, InitFollows, BoundsFollow,
                          SuccessIsInitialised, DdrSetPlaces, ResetCtrl

LEMMA DdrSteps == DdrInv /\ [DdrNext]_ddrVars => DdrInv'
<1>. SUFFICES ASSUME DdrInv, [DdrNext]_ddrVars PROVE DdrInv'
  OBVIOUS
<1>1. CASE \E setup \in DdrSetups : DramInit(setup)
  BY <1>1, DramInitKeeps
<1>2. CASE DdrCode
  BY <1>2, ParseSpdKeeps, PopulateOptionsKeeps, ComputeRegistersKeeps, SetRegistersKeeps,
     EnableControllerKeeps, IdleInTimeKeeps, WriteModeKeeps, RestartDeskewKeeps, DeskewInTimeKeeps,
     RestoreDInitKeeps, DInitDoneKeeps, GivingUpKeeps, StartBistKeeps, EndBistKeeps DEF DdrCode
<1>3. CASE DdrHardware
  BY <1>3, HardwareKeeps DEF DdrHardware
<1>4. CASE UNCHANGED ddrVars
<2>1. MainCtrls' = MainCtrls /\ LastCtrl' = LastCtrl /\ Erratum' = Erratum /\ \A c : Regs(c)' = Regs(c)
  BY <1>4, PlanStays DEF ddrVars
<2>. QED
  BY <1>4, <2>1 DEF ddrVars, DdrInv, DdrTypes, Untouched, PlanFollows, CommandsFollow, InitFollows,
                    BoundsFollow, SuccessIsInitialised
<1>. QED
  BY <1>1, <1>2, <1>3, <1>4 DEF DdrNext

-----------------------------------------------------------------------------
\* When dram_init() reports memory, the controller that it set up last runs on memory that was
\* initialised, checks parity again and has its page policy, whatever the DIMMs, the board and its
\* errata are and whenever the controllers answer (init_ddr_sdram(), ddrc_set_regs()).
THEOREM MemoryIsInitialised == DdrSpec => []SuccessIsInitialised
<1>1. DdrInv => SuccessIsInitialised
  BY DEF DdrInv
<1>. QED
  BY <1>1, DdrStarts, DdrSteps, PTL DEF DdrSpec

\* A controller does not initialise its memory before it has all its settings: its mode register
\* commands are sent and its parity errors unmasked (ddrc_set_regs()).
THEOREM SettingsBeforeInit == DdrSpec => InitUsesFinalSettings
<1>. DEFINE Final == \A c \in 0..1 : ~ddrHw[c].ready /\ ddrHw'[c].ready =>
                       ~ddrHw[c].aped /\ ~ddrHw[c].md_en /\ (c = ddrCtrl => ddrTodo = <<>>)
<1>1. ASSUME DdrInv, DdrNext
      PROVE Final
<2>. SUFFICES ASSUME NEW c \in 0..1, ~ddrHw[c].ready, ddrHw'[c].ready
              PROVE ~ddrHw[c].aped /\ ~ddrHw[c].md_en /\ (c = ddrCtrl => ddrTodo = <<>>)
  OBVIOUS
<2>1. PICK B : ddrHw \in [0..1 -> DdrCtrls(B)]
  BY <1>1 DEF DdrInv, DdrTypes
<2>2. ddrPc \in DdrSetPlaces => ddrCtrl \in 0..1
  BY <1>1, DInitIsKnown
<2>3. HwDataInit(c)
<3>1. CASE UNCHANGED ddrHw
  BY <3>1
<3>2. CASE SetRegisters \/ EnableController \/ WriteMode \/ RestoreDInit \/ DInitDone \/ StartBist
             \/ \E outcome : EndBist(outcome)
<4>1. ddrCtrl \in 0..1
  BY <2>2, <3>2 DEF SetRegisters, EnableController, WriteMode, RestoreDInit, DInitDone, StartBist,
                    EndBist, DdrSetPlaces, ModesWritten
<4>2. ddrHw'[c].ready = ddrHw[c].ready
  BY <2>1, <3>2, <4>1 DEF SetRegisters, EnableController, WriteMode, RestoreDInit, DInitDone, StartBist,
                          EndBist, DdrCtrls
<4>. QED
  BY <4>2
<3>3. ASSUME NEW k \in 0..1, HwDataInit(k)
      PROVE HwDataInit(c)
  BY <2>1, <3>3 DEF HwDataInit, DdrCtrls
<3>4. ASSUME NEW k \in 0..1, HwModeSent(k)
      PROVE HwDataInit(c)
  BY <2>1, <3>4 DEF HwModeSent, DdrCtrls
<3>. QED
  BY <1>1, <3>1, <3>2, <3>3, <3>4
     DEF DdrNext, DdrCode, DdrHardware, DramInit, ParseSpd, PopulateOptions, ComputeRegisters, IdleInTime,
         IdleTimeout, RestartDeskew, DeskewInTime, DInitTimesOut, TrainingError
<2>4. ddrHw[c].d_init
  BY <2>3 DEF HwDataInit
<2>. QED
  BY <1>1, <2>4 DEF DdrInv, CommandsFollow
<1>2. DdrInv /\ [DdrNext]_ddrVars => [Final]_ddrVars
  BY <1>1
<1>. QED
  BY <1>2, DdrStarts, DdrSteps, PTL DEF DdrSpec, InitUsesFinalSettings

-----------------------------------------------------------------------------
(* From the DIMMs to the address map: what a rank is, and sums over chip selects. *)

\* A rank has 2 ^ e times 16 MB, and the rows, columns and banks that the chip select is told of address them.
Exponents == 2..19
RankIs(dimm, e) ==
  /\ dimm.rank_density = 2 ^ e
  /\ dimm.bank_addr_bits \in 0..3 /\ dimm.n_row_addr \in 12..19
  /\ dimm.bank_group_bits \in 0..3 /\ dimm.n_col_addr \in 8..15
  /\ dimm.primary_sdram_width \in {16, 32, 64}
  /\ dimm.n_row_addr + dimm.n_col_addr + dimm.bank_addr_bits + dimm.bank_group_bits
       = e + 19 + BusWidth(dimm.primary_sdram_width)

\* A part that is filled in changes its own fields.
LEMMA FillsItsFields ==
  ASSUME NEW pdimm, NEW part, NEW f \in DOMAIN pdimm
  PROVE  /\ DOMAIN Filled(pdimm, part) = DOMAIN pdimm
         /\ f \in DOMAIN part => Filled(pdimm, part)[f] = part[f]
         /\ f \notin DOMAIN part => Filled(pdimm, part)[f] = pdimm[f]
  BY DEF Filled

LEMMA OrganizationIs ==
  ASSUME NEW spd \in Ddr4Spd
  PROVE  /\ cal_dimm_params(spd).ok =>
              LET d == cal_dimm_params(spd).dimm
              IN /\ spd.mem_type = "DDR4" /\ ddr4_spd_check(spd)
                 /\ d.rank_density = compute_ranksize(spd) /\ d.n_ranks = spd.ranks
                 /\ d.bank_addr_bits = spd.bank_addr /\ d.bank_group_bits = spd.bank_group
                 /\ d.n_row_addr = spd.row + 12 /\ d.n_col_addr = spd.col + 9
                 /\ d.primary_sdram_width = 2 ^ (3 + spd.bus_width)
         /\ \/ cal_dimm_params(spd).dimm.rank_density = 0
            \/ /\ spd.mem_type = "DDR4" /\ ddr4_spd_check(spd)
               /\ cal_dimm_params(spd).dimm.rank_density = compute_ranksize(spd)
<1> DEFINE org == Organization(spd) dev == Devices(spd) tim == Timings(spd)
           organized == Filled(NoDimm, org) built == Filled(organized, dev) described == Filled(built, tim)
<1>1. /\ DOMAIN org = {"n_ranks", "rank_density", "primary_sdram_width", "device_width"}
      /\ org.rank_density = compute_ranksize(spd) /\ org.n_ranks = spd.ranks
      /\ org.primary_sdram_width = 2 ^ (3 + spd.bus_width)
  BY Zenon DEF Organization
<1>2. /\ DOMAIN dev = {"registered_dimm", "mirrored_dimm", "n_row_addr", "n_col_addr", "bank_addr_bits",
                       "bank_group_bits", "edc_config"}
      /\ dev.bank_addr_bits = spd.bank_addr /\ dev.bank_group_bits = spd.bank_group
      /\ dev.n_row_addr = spd.row + 12 /\ dev.n_col_addr = spd.col + 9
  BY Zenon DEF Devices
<1>3. DOMAIN tim = {"caslat_x", "taa_ps", "trcd_ps", "trp_ps", "tras_ps", "trfc1_ps", "tfaw_ps", "trrds_ps",
                    "trrdl_ps", "tccdl_ps", "twr_ps", "refresh_rate_ps", "dq_mapping"}
  BY SMT DEF Timings
<1>4. /\ NoDimm.rank_density = 0
      /\ {"n_ranks", "rank_density", "primary_sdram_width", "n_row_addr", "n_col_addr",
          "bank_addr_bits", "bank_group_bits"} \subseteq DOMAIN NoDimm
  BY Zenon DEF NoDimm
<1> HIDE DEF org, dev, tim
<1>5. /\ organized.rank_density = compute_ranksize(spd) /\ organized.n_ranks = spd.ranks
      /\ organized.primary_sdram_width = 2 ^ (3 + spd.bus_width)
      /\ DOMAIN organized = DOMAIN NoDimm
  BY <1>1, <1>4, FillsItsFields
<1> HIDE DEF organized
<1>6. /\ built.rank_density = compute_ranksize(spd) /\ built.n_ranks = spd.ranks
      /\ built.primary_sdram_width = 2 ^ (3 + spd.bus_width)
      /\ built.bank_addr_bits = spd.bank_addr /\ built.bank_group_bits = spd.bank_group
      /\ built.n_row_addr = spd.row + 12 /\ built.n_col_addr = spd.col + 9
      /\ DOMAIN built = DOMAIN NoDimm
  BY <1>2, <1>4, <1>5, FillsItsFields
<1> HIDE DEF built
<1>7. /\ described.rank_density = compute_ranksize(spd) /\ described.n_ranks = spd.ranks
      /\ described.primary_sdram_width = 2 ^ (3 + spd.bus_width)
      /\ described.bank_addr_bits = spd.bank_addr /\ described.bank_group_bits = spd.bank_group
      /\ described.n_row_addr = spd.row + 12 /\ described.n_col_addr = spd.col + 9
  BY <1>3, <1>4, <1>6, FillsItsFields
<1>8. \/ /\ cal_dimm_params(spd).ok = FALSE /\ cal_dimm_params(spd).dimm = NoDimm
      \/ /\ spd.mem_type = "DDR4" /\ ddr4_spd_check(spd)
         /\ \/ cal_dimm_params(spd).ok = FALSE /\ cal_dimm_params(spd).dimm \in {organized, built}
            \/ cal_dimm_params(spd).ok = TRUE /\ cal_dimm_params(spd).dimm = described
  BY SMT DEF cal_dimm_params, org, dev, tim, organized, built
<1> HIDE DEF described
<1> QED
  BY <1>4, <1>5, <1>6, <1>7, <1>8

LEMMA LeastSize ==
  ASSUME NEW S, S \subseteq Nat, S # {}
  PROVE  \E n \in S : \A m \in S : n <= m
<1> DEFINE R == OpToRel(<, Nat)
<1>1. IsWellFoundedOn(R, Nat)
  BY NatLessThanWellFounded
<1>2. \A a, b \in Nat : a < b => <<a, b>> \in R
  BY DEF OpToRel
<1> HIDE DEF R
<1>3. PICK n \in S : \A m \in S : ~ (<<m, n>> \in R)
  BY <1>1, WFMin
<1>4. ASSUME NEW m \in S PROVE n <= m
  <2>1. m \in Nat /\ n \in Nat
    OBVIOUS
  <2>2. ~(<<m, n>> \in R)
    BY <1>3
  <2>3. ~(m < n)
    BY <1>2, <2>1, <2>2
  <2> QED
    BY <2>1, <2>3
<1> QED
  BY <1>4

\* The powers of two that the driver computes.
LEMMA Powers ==
  ASSUME NEW e \in 0..19
  PROVE  /\ 2 ^ e \in Nat /\ 2 ^ e > 0
         /\ e >= 2 => 2 ^ e = 4 * 2 ^ (e - 2)
<1> DEFINE Whole(n) == 2 ^ n \in Nat /\ 2 ^ n > 0
           Quarter(n) == 2 ^ n = 4 * 2 ^ (n - 2)
<1>1. /\ Whole(0) /\ Whole(1) /\ Whole(2) /\ Whole(3) /\ Whole(4) /\ Whole(5) /\ Whole(6)
      /\ Whole(7) /\ Whole(8) /\ Whole(9) /\ Whole(10) /\ Whole(11) /\ Whole(12) /\ Whole(13)
      /\ Whole(14) /\ Whole(15) /\ Whole(16) /\ Whole(17) /\ Whole(18) /\ Whole(19)
  BY SMT
<1>2. /\ Quarter(2) /\ Quarter(3) /\ Quarter(4) /\ Quarter(5) /\ Quarter(6) /\ Quarter(7) /\ Quarter(8)
      /\ Quarter(9) /\ Quarter(10) /\ Quarter(11) /\ Quarter(12) /\ Quarter(13) /\ Quarter(14)
      /\ Quarter(15) /\ Quarter(16) /\ Quarter(17) /\ Quarter(18) /\ Quarter(19)
  BY SMT
<1> HIDE DEF Whole, Quarter
<1>3. Whole(e) /\ (e >= 2 => Quarter(e))
  BY <1>1, <1>2, SMT
<1> QED
  BY <1>3 DEF Whole, Quarter

\* Adding the same number for every element of a set.
LEMMA SumOfEqual ==
  ASSUME NEW S, IsFiniteSet(S), NEW d \in Nat, NEW G,
         \A s \in SUBSET S : G[s] = IF s = {} THEN 0 ELSE d + G[s \ {CHOOSE x \in s : TRUE}]
  PROVE  G[S] = d * Cardinality(S)
<1> DEFINE Wrong == {n \in Nat : \E s \in SUBSET S : Cardinality(s) = n /\ G[s] # d * n}
<1>1. \A s \in SUBSET S : IsFiniteSet(s) /\ Cardinality(s) \in Nat
  BY FS_Subset, FS_CardinalityType
<1>2. ASSUME Wrong # {} PROVE FALSE
<2>1. PICK n \in Wrong : \A m \in Wrong : n <= m
  BY <1>2, LeastSize
<2>2. PICK s \in SUBSET S : Cardinality(s) = n /\ G[s] # d * n
  BY <2>1
<2>3. CASE s = {}
<3>1. n = 0 /\ G[s] = 0
  BY <2>2, <2>3, FS_EmptySet
<3> QED
  BY <2>2, <3>1
<2>4. CASE s # {}
<3> DEFINE x == CHOOSE y \in s : TRUE
           rest == s \ {x}
<3>1. x \in s /\ G[s] = d + G[rest]
  BY <2>4
<3> HIDE DEF x
<3>2. n \in Nat /\ rest \in SUBSET S /\ Cardinality(rest) = n - 1
  BY <1>1, <2>2, <3>1, FS_RemoveElement
<3>3. n - 1 \in Nat /\ n - 1 \notin Wrong
  BY <1>1, <2>1, <3>2
<3>4. G[rest] = d * (n - 1)
  BY <3>2, <3>3
<3>5. d * n = d + d * (n - 1)
  BY <3>2
<3> QED
  BY <2>2, <3>1, <3>4, <3>5
<2> QED
  BY <2>3, <2>4
<1> QED
  BY <1>1, <1>2

\* The closed form of such a sum is one.
LEMMA ClosedSum ==
  ASSUME NEW S, IsFiniteSet(S), NEW d \in Nat
  PROVE  \A s \in SUBSET S : d * Cardinality(s) = IF s = {} THEN 0 ELSE d + d * Cardinality(s \ {CHOOSE x \in s : TRUE})
<1> SUFFICES ASSUME NEW s \in SUBSET S
             PROVE  d * Cardinality(s) = IF s = {} THEN 0 ELSE d + d * Cardinality(s \ {CHOOSE x \in s : TRUE})
  OBVIOUS
<1>1. IsFiniteSet(s) /\ Cardinality(s) \in Nat
  BY FS_Subset, FS_CardinalityType
<1>2. CASE s = {}
<2>1. Cardinality(s) = 0
  BY <1>2, FS_EmptySet
<2> QED
  BY <1>2, <2>1
<1>3. CASE s # {}
<2>1. PICK x : x = CHOOSE y \in s : TRUE
  OBVIOUS
<2>2. x \in s
  BY <1>3, <2>1
<2>3. Cardinality(s \ {x}) = Cardinality(s) - 1
  BY <1>1, <2>2, FS_RemoveElement
<2>4. \A k \in Nat : d * k = d + d * (k - 1)
  OBVIOUS
<2> QED
  BY <1>1, <1>3, <2>1, <2>3, <2>4
<1> QED
  BY <1>2, <1>3

\* Ranks of one size.
LEMMA DensitiesOfEqual ==
  ASSUME NEW S, IsFiniteSet(S), NEW d \in Nat, \A q \in S : Density(q[1]) = d
  PROVE  MapThenSumSet(LAMBDA q : Density(q[1]), S) = d * Cardinality(S)
<1> DEFINE Step(g) == [s \in SUBSET S |-> IF s = {} THEN 0
                        ELSE Density((CHOOSE x \in s : TRUE)[1]) + g[s \ {CHOOSE x \in s : TRUE}]]
           W == [s \in SUBSET S |-> d * Cardinality(s)]
           G == CHOOSE g : g = Step(g)
<1>1. MapThenSumSet(LAMBDA q : Density(q[1]), S) = G[S]
  BY DEF MapThenSumSet, MapThenFoldSet
<1>2. \A s \in SUBSET S : s # {} => Density((CHOOSE x \in s : TRUE)[1]) = d
  OBVIOUS
<1>3. W = Step(W)
  BY <1>2, ClosedSum
<1>4. G = Step(G)
<2> HIDE DEF W, Step
<2> QED
  BY <1>3
<1>5. \A s \in SUBSET S : G[s] = IF s = {} THEN 0 ELSE d + G[s \ {CHOOSE x \in s : TRUE}]
<2> HIDE DEF G
<2> QED
  BY <1>2, <1>4
<1> HIDE DEF G
<1> QED
  BY <1>1, <1>5, SumOfEqual

\* Few chip selects, and their number.
LEMMA SelectsCounted ==
  /\ IsFiniteSet(ChipSelects)
  /\ \A n \in 0..4 : IsFiniteSet(0..(n - 1)) /\ Cardinality(0..(n - 1)) = n
  /\ Cardinality(0..0) = 1 /\ Cardinality(0..1) = 2
<1>1. ASSUME NEW n \in 0..4
      PROVE  IsFiniteSet(0..(n - 1)) /\ Cardinality(0..(n - 1)) = n
<2>1. PICK k \in Int : k = n - 1
  OBVIOUS
<2>2. 0 \in Int
  OBVIOUS
<2>3. IsFiniteSet(0..k) /\ Cardinality(0..k) = IF 0 > k THEN 0 ELSE k - 0 + 1
  BY <2>2, FS_Interval
<2>4. (IF 0 > k THEN 0 ELSE k - 0 + 1) = n
  BY <2>1
<2> QED
  BY <2>1, <2>3, <2>4
<1>2. 1 - 1 = 0 /\ 2 - 1 = 1 /\ 4 - 1 = 3 /\ 1 \in 0..4 /\ 2 \in 0..4 /\ 4 \in 0..4
  OBVIOUS
<1>3. IsFiniteSet(0..(4 - 1)) /\ Cardinality(0..(1 - 1)) = 1 /\ Cardinality(0..(2 - 1)) = 2
  BY <1>1, <1>2, Zenon
<1> QED
  BY <1>1, <1>2, <1>3, Zenon DEF ChipSelects

\* A controller whose chip selects have ranks of one size.
LEMMA RanksOfEqual ==
  ASSUME NEW regs, NEW d \in Nat,
         \A i \in ChipSelects : regs.cs[i].cs_n_en =>
           2 ^ (regs.cs[i].ba_bits + 2 + regs.cs[i].row_bits + 12 + regs.cs[i].bg_bits + regs.cs[i].col_bits + 8
                + 3 - regs.ddr_sdram_cfg.DBW - 26) = d
  PROVE  total_mem_per_ctrl(regs) = d * Cardinality({i \in ChipSelects : regs.cs[i].cs_n_en})
<1> DEFINE S == {i \in ChipSelects : regs.cs[i].cs_n_en}
           Rank(i) == 2 ^ (regs.cs[i].ba_bits + 2 + regs.cs[i].row_bits + 12 + regs.cs[i].bg_bits
                           + regs.cs[i].col_bits + 8 + 3 - regs.ddr_sdram_cfg.DBW - 26)
           Step(g) == [s \in SUBSET S |-> IF s = {} THEN 0
                        ELSE Rank(CHOOSE x \in s : TRUE) + g[s \ {CHOOSE x \in s : TRUE}]]
           W == [s \in SUBSET S |-> d * Cardinality(s)]
           G == CHOOSE g : g = Step(g)
<1>1. total_mem_per_ctrl(regs) = G[S]
  BY DEF total_mem_per_ctrl, MapThenSumSet, MapThenFoldSet
<1>2. IsFiniteSet(S)
<2>1. IsFiniteSet(ChipSelects)
  BY SelectsCounted
<2>2. S \in SUBSET ChipSelects
  OBVIOUS
<2> HIDE DEF S
<2> QED
  BY <2>1, <2>2, FS_Subset
<1>3. \A i \in S : Rank(i) = d
  OBVIOUS
<1> HIDE DEF S, Rank
<1>4. \A s \in SUBSET S : s # {} => Rank(CHOOSE x \in s : TRUE) = d
<2>1. \A s \in SUBSET S : s # {} => (CHOOSE x \in s : TRUE) \in S
  OBVIOUS
<2> QED
  BY <1>3, <2>1
<1>5. W = Step(W)
  BY <1>2, <1>4, ClosedSum
<1>6. G = Step(G)
<2> HIDE DEF W, Step
<2> QED
  BY <1>5
<1>7. \A s \in SUBSET S : G[s] = IF s = {} THEN 0 ELSE d + G[s \ {CHOOSE x \in s : TRUE}]
<2> HIDE DEF G
<2> QED
  BY <1>4, <1>6
<1>8. G[S] = d * Cardinality(S)
<2> HIDE DEF G
<2> QED
  BY <1>2, <1>7, SumOfEqual
<1> QED
  BY <1>1, <1>8 DEF S

-----------------------------------------------------------------------------
(* What parse_spd() finds. *)

\* The chip selects that a controller in use can have.
Populations == {{0}, {2}, {0, 2}, {0, 1}, {2, 3}, ChipSelects}

NoAddress == [i \in ChipSelects |-> 0]
ParsedConf ==
  [in_use : BOOLEAN, dimm_in_use : SUBSET (0..1), cs_in_use : SUBSET ChipSelects, base_addr : {0}, total_mem : {0},
   cs_base_addr : {NoAddress}, cs_size : {NoAddress}]

ParsedRight(board, conf, dimm) ==
  /\ conf \in ParsedConf
  /\ conf.in_use => /\ conf.cs_in_use \in Populations
                    /\ PickOdt(board, dimm.n_ranks, conf.cs_in_use) # <<>>
                    /\ \E e \in Exponents : RankIs(dimm, e)
  /\ ~conf.in_use => conf.cs_in_use = {} /\ dimm.rank_density \in Nat

LEMMA SlotsCounted ==
  ASSUME NEW board, board.slots \in {0..0, 0..1}
  PROVE  \/ board.slots = {0} /\ Cardinality(board.slots) = 1 /\ SlotWidth(board) = 4
         \/ board.slots = {0, 1} /\ Cardinality(board.slots) = 2 /\ SlotWidth(board) = 2
<1>1. Cardinality(0..0) = 1 /\ Cardinality(0..1) = 2
  BY SelectsCounted
<1>2. CASE board.slots = 0..0
<2>1. board.slots = {0}
  BY <1>2
<2>2. Cardinality(board.slots) = 1
  BY <1>1, <1>2
<2> QED
  BY <2>1, <2>2, SMT DEF SlotWidth
<1>3. CASE board.slots = 0..1
<2>1. board.slots = {0, 1}
  BY <1>3
<2>2. Cardinality(board.slots) = 2
  BY <1>1, <1>3
<2> QED
  BY <2>1, <2>2, SMT DEF SlotWidth
<1> QED
  BY <1>2, <1>3

LEMMA TableIsSome ==
  ASSUME NEW o0, NEW o1, NEW o2, NEW o3
  PROVE  Table(o0, o1, o2, o3) # <<>>
<1>1. 0 \in DOMAIN Table(o0, o1, o2, o3)
  BY DEF Table, ChipSelects
<1>2. 0 \notin DOMAIN <<>>
  OBVIOUS
<1> QED
  BY <1>1, <1>2

LEMMA KnownTables ==
  /\ single_Q # <<>> /\ single_D # <<>> /\ single_S # <<>> /\ dual_DD # <<>> /\ dual_SS # <<>>
  /\ dual_D0 # <<>> /\ dual_0D # <<>> /\ dual_S0 # <<>> /\ dual_0S # <<>> /\ odt_unknown # <<>>
  BY TableIsSome, Zenon DEF single_Q, single_D, single_S, dual_DD, dual_SS, dual_D0, dual_0D, dual_S0,
     dual_0S, odt_unknown

\* Whatever parse_spd() accepts, its chip selects are known to the tables of opts.c.
LEMMA PopulationIsKnown ==
  ASSUME NEW board, board.slots \in {0..0, 0..1}, NEW n \in 1..8, NEW cs,
         \/ RanksAt(board, n, 0) # {} /\ cs = RanksAt(board, n, 0)
         \/ 1 \in board.slots /\ RanksAt(board, n, 1) # {} /\ cs = RanksAt(board, n, 1)
         \/ /\ 1 \in board.slots /\ RanksAt(board, n, 0) # {} /\ RanksAt(board, n, 1) # {}
            /\ cs = RanksAt(board, n, 0) \cup RanksAt(board, n, 1)
  PROVE  cs \in Populations /\ PickOdt(board, n, cs) # <<>>
<1>3. n \in {1, 2, 4}
  BY DEF RanksAt
<1>4. ChipSelects = {0, 1, 2, 3}
  BY DEF ChipSelects
<1>5. CASE board.slots = {0} /\ Cardinality(board.slots) = 1 /\ SlotWidth(board) = 4
<2>2. cs = RanksAt(board, n, 0)
  BY <1>5
<2>3. cs \in Populations
  BY <1>3, <1>4, <1>5, <2>2, SMT DEF RanksAt, Populations
<2>4. PickOdt(board, n, cs) # <<>>
  BY <1>3, <1>5, KnownTables, SMT DEF PickOdt
<2> QED
  BY <2>3, <2>4
<1>6. CASE board.slots = {0, 1} /\ Cardinality(board.slots) = 2 /\ SlotWidth(board) = 2
<2>2. /\ RanksAt(board, 1, 0) = {0} /\ RanksAt(board, 1, 1) = {2}
      /\ RanksAt(board, 2, 0) = {0, 1} /\ RanksAt(board, 2, 1) = {2, 3}
      /\ RanksAt(board, 4, 0) = ChipSelects /\ RanksAt(board, 4, 1) = {}
  BY <1>6, SMT DEF RanksAt
<2>3. \/ n = 1 /\ cs \in {{0}, {2}, {0, 2}}
      \/ n = 2 /\ cs \in {{0, 1}, {2, 3}, ChipSelects}
      \/ n = 4 /\ cs = ChipSelects
<3>1. CASE cs = RanksAt(board, n, 0)
  BY <1>3, <2>2, <3>1
<3>2. CASE RanksAt(board, n, 1) # {} /\ cs = RanksAt(board, n, 1)
  BY <1>3, <2>2, <3>2
<3>3. CASE RanksAt(board, n, 1) # {} /\ cs = RanksAt(board, n, 0) \cup RanksAt(board, n, 1)
<4>1. n # 4
  BY <2>2, <3>3
<4> QED
  BY <1>3, <1>4, <2>2, <3>3, <4>1
<3> QED
  BY <3>1, <3>2, <3>3
<2>4. PickOdt(board, n, cs) # <<>>
<3>1. Cardinality(board.slots) # 1
  BY <1>6
<3>2. {0} # {0, 2} /\ {0} # {2} /\ {2} # {0, 2} /\ {0, 1} # {0, 1, 2, 3} /\ {2, 3} # {0, 1, 2, 3} /\ {0, 1} # {2, 3}
  OBVIOUS
<3>3. CASE n = 4
  BY <3>1, <3>3, KnownTables, SMT DEF PickOdt
<3>4. CASE n = 1
  BY <2>3, <3>1, <3>2, <3>4, KnownTables, SMT DEF PickOdt
<3>5. CASE n = 2
  BY <1>4, <2>3, <3>1, <3>2, <3>5, KnownTables, SMT DEF PickOdt
<3> QED
  BY <2>3, <3>3, <3>4, <3>5
<2>5. cs \in Populations
  BY <2>3 DEF Populations
<2> QED
  BY <2>4, <2>5
<1> QED
  BY <1>5, <1>6, SlotsCounted

LEMMA SpdFields ==
  ASSUME NEW spd \in Ddr4Spd
  PROVE  /\ spd.density \in 0..15 /\ spd.width \in 0..7 /\ spd.bus_width \in 0..7 /\ spd.die_count \in 0..7
         /\ spd.package_3ds \in BOOLEAN /\ spd.row \in 0..7 /\ spd.col \in 0..7 /\ spd.bank_addr \in 0..3
         /\ spd.bank_group \in 0..3 /\ spd.ranks \in 1..8
  BY Zenon DEF Ddr4Spd

\* A truthful SPD gives the size of a rank and the bits that address it.
LEMMA RankOfSpd ==
  ASSUME NEW spd \in Ddr4Spd, AddressedInFull(spd)
  PROVE  \E e \in Exponents :
           /\ compute_ranksize(spd) = 2 ^ e
           /\ 2 ^ (3 + spd.bus_width) \in {16, 32, 64}
           /\ spd.row + 12 + spd.col + 9 + spd.bank_addr + spd.bank_group
                = e + 19 + BusWidth(2 ^ (3 + spd.bus_width))
<1>1. /\ spd.density \in 0..7 /\ spd.width \in 0..3 /\ spd.bus_width \in {1, 2, 3} /\ spd.die_count \in 0..7
      /\ spd.package_3ds \in BOOLEAN /\ spd.density + spd.bus_width >= spd.width
      /\ spd.row \in 0..7 /\ spd.col \in 0..7 /\ spd.bank_addr \in 0..3 /\ spd.bank_group \in 0..3
  BY SpdFields DEF AddressedInFull
<1>2. PICK dies \in 0..7 : dies = IF spd.package_3ds THEN spd.die_count ELSE 0
  BY <1>1
<1>3. PICK density \in 0..7, bus \in 1..3, width \in 0..3 :
        density = spd.density /\ bus = spd.bus_width /\ width = spd.width
  BY <1>1
<1>4. density + bus >= width
  BY <1>1, <1>3
<1>5. PICK e \in Exponents : e = density + 2 + bus - width + dies
<2>1. density + 2 + bus - width + dies \in 2..19
  BY <1>4, SMT
<2> QED
  BY <2>1 DEF Exponents
<1>6. compute_ranksize(spd) = 2 ^ e
<2> DEFINE c == IF spd.density <= 7 THEN spd.density + 28 ELSE 0
           b == IF spd.bus_width < 4 THEN spd.bus_width + 3 ELSE 0
           w == IF spd.width < 4 THEN spd.width + 2 ELSE 0
           three == IF spd.package_3ds THEN spd.die_count ELSE 0
<2>1. compute_ranksize(spd) = 2 ^ (c - 3 + b - w + three - 24)
  BY DEF compute_ranksize
<2>2. c = density + 28 /\ b = bus + 3 /\ w = width + 2 /\ three = dies
  BY <1>2, <1>3
<2> HIDE DEF c, b, w, three
<2>3. c - 3 + b - w + three - 24 = e
  BY <1>5, <2>2, SMT
<2> QED
  BY <2>1, <2>3
<1>7. spd.row + spd.col + spd.bank_addr + spd.bank_group = density + 3 - width + dies
  BY <1>2, <1>3 DEF AddressedInFull
<1>8. PICK w : w = 2 ^ (3 + spd.bus_width)
  OBVIOUS
<1>9. w \in {16, 32, 64} /\ BusWidth(w) = 3 - bus
<2>1. w = 2 ^ (3 + bus)
  BY <1>3, <1>8
<2>2. /\ bus = 1 => w = 16
      /\ bus = 2 => w = 32
      /\ bus = 3 => w = 64
<3>1. bus = 1 => w = 2 ^ 4
  BY <2>1
<3>2. bus = 2 => w = 2 ^ 5
  BY <2>1
<3>3. bus = 3 => w = 2 ^ 6
  BY <2>1
<3>4. 2 ^ 4 = 16 /\ 2 ^ 5 = 32 /\ 2 ^ 6 = 64
  BY SMT
<3> QED
  BY <3>1, <3>2, <3>3, <3>4
<2>3. BusWidth(16) = 2 /\ BusWidth(32) = 1 /\ BusWidth(64) = 0
  BY SMT DEF BusWidth
<2>4. bus = 1 \/ bus = 2 \/ bus = 3
  OBVIOUS
<2> QED
  BY <2>2, <2>3, <2>4
<1>10. spd.row + 12 + spd.col + 9 + spd.bank_addr + spd.bank_group = e + 19 + BusWidth(w)
<2>1. PICK row \in 0..7, col \in 0..7, ba \in 0..3, bg \in 0..3 :
        row = spd.row /\ col = spd.col /\ ba = spd.bank_addr /\ bg = spd.bank_group
  BY <1>1
<2>2. row + col + ba + bg = density + 3 - width + dies
  BY <1>7, <2>1
<2>3. row + 12 + col + 9 + ba + bg = e + 19 + (3 - bus)
  BY <1>5, <2>2, SMT
<2> QED
  BY <1>9, <2>1, <2>3
<1> QED
  BY <1>5, <1>6, <1>8, <1>9, <1>10

LEMMA RawRank == RankIs(ddr_raw_timing, 7) /\ ddr_raw_timing.n_ranks = 1
<1> DEFINE raw == ddr_raw_timing
<1>1. /\ raw.rank_density = 128 /\ raw.bank_addr_bits = 0 /\ raw.n_row_addr = 15 /\ raw.bank_group_bits = 2
      /\ raw.n_col_addr = 10 /\ raw.primary_sdram_width = 32 /\ raw.n_ranks = 1
  BY SMT DEF ddr_raw_timing
<1>2. 2 ^ 7 = 128
  BY SMT
<1>3. BusWidth(32) = 1
  BY SMT DEF BusWidth
<1> HIDE DEF raw
<1>4. RankIs(raw, 7) /\ raw.n_ranks = 1
  BY <1>1, <1>2, <1>3, SMT DEF RankIs
<1> QED
  BY <1>4 DEF raw

\* The DIMM that cal_dimm_params() describes.
LEMMA DimmIsRight ==
  ASSUME NEW spd \in Ddr4Spd, spd.mem_type = "DDR4" /\ ddr4_spd_check(spd) => AddressedInFull(spd)
  PROVE  LET cal == cal_dimm_params(spd)
         IN /\ cal.dimm.rank_density \in Nat
            /\ cal.ok => cal.dimm.n_ranks \in 1..8 /\ \E e \in Exponents : RankIs(cal.dimm, e)
<1> DEFINE cal == cal_dimm_params(spd)
<1>1. PICK d : d = cal.dimm
  OBVIOUS
<1>2. d.rank_density \in Nat
<2>1. CASE d.rank_density = 0
  BY <2>1
<2>2. CASE spd.mem_type = "DDR4" /\ ddr4_spd_check(spd) /\ d.rank_density = compute_ranksize(spd)
<3>1. PICK e \in Exponents : compute_ranksize(spd) = 2 ^ e
  BY <2>2, RankOfSpd
<3>2. e \in 0..19
  BY DEF Exponents
<3> QED
  BY <2>2, <3>1, <3>2, Powers
<2> QED
  BY <1>1, <2>1, <2>2, OrganizationIs
<1>3. ASSUME cal.ok
      PROVE  d.n_ranks \in 1..8 /\ \E e \in Exponents : RankIs(d, e)
<2>1. /\ spd.mem_type = "DDR4" /\ ddr4_spd_check(spd)
      /\ d.rank_density = compute_ranksize(spd) /\ d.n_ranks = spd.ranks
      /\ d.bank_addr_bits = spd.bank_addr /\ d.bank_group_bits = spd.bank_group
      /\ d.n_row_addr = spd.row + 12 /\ d.n_col_addr = spd.col + 9
      /\ d.primary_sdram_width = 2 ^ (3 + spd.bus_width)
  BY <1>1, <1>3, OrganizationIs
<2>2. PICK e \in Exponents :
        /\ compute_ranksize(spd) = 2 ^ e
        /\ 2 ^ (3 + spd.bus_width) \in {16, 32, 64}
        /\ spd.row + 12 + spd.col + 9 + spd.bank_addr + spd.bank_group
             = e + 19 + BusWidth(2 ^ (3 + spd.bus_width))
  BY <2>1, RankOfSpd
<2>3. /\ spd.row \in 0..7 /\ spd.col \in 0..6 /\ spd.bank_addr \in 0..3 /\ spd.bank_group \in 0..3
      /\ spd.ranks \in 1..8
  BY <2>1, SpdFields DEF AddressedInFull
<2>4. d.n_row_addr \in 12..19 /\ d.n_col_addr \in 8..15
  BY <2>1, <2>3
<2>5. PICK w : w = d.primary_sdram_width
  OBVIOUS
<2>6. w \in {16, 32, 64} /\ spd.row + 12 + spd.col + 9 + spd.bank_addr + spd.bank_group = e + 19 + BusWidth(w)
  BY <2>1, <2>2, <2>5
<2>7. spd.row + 12 + (spd.col + 9) + spd.bank_addr + spd.bank_group
        = spd.row + 12 + spd.col + 9 + spd.bank_addr + spd.bank_group
  BY <2>3
<2>8. d.n_row_addr + d.n_col_addr + d.bank_addr_bits + d.bank_group_bits = e + 19 + BusWidth(w)
  BY <2>1, <2>6, <2>7, Zenon
<2>9. RankIs(d, e)
  BY <2>1, <2>2, <2>3, <2>4, <2>5, <2>6, <2>8 DEF RankIs
<2> QED
  BY <2>1, <2>3, <2>9
<1> QED
  BY <1>1, <1>2, <1>3

LEMMA ParsedChanges ==
  ASSUME NEW conf \in ParsedConf, NEW a \in BOOLEAN, NEW b \in SUBSET (0..1), NEW c \in SUBSET ChipSelects
  PROVE  LET new == [conf EXCEPT !.in_use = a, !.dimm_in_use = b, !.cs_in_use = c]
         IN new \in ParsedConf /\ new.in_use = a /\ new.cs_in_use = c
  BY Zenon DEF ParsedConf

LEMMA ParsedUsed ==
  ASSUME NEW conf \in ParsedConf, NEW b \in SUBSET (0..1)
  PROVE  LET new == [conf EXCEPT !.dimm_in_use = b]
         IN new \in ParsedConf /\ new.in_use = conf.in_use /\ new.cs_in_use = conf.cs_in_use
  BY Zenon DEF ParsedConf

LEMMA ParsedFound ==
  ASSUME NEW conf \in ParsedConf, NEW c \in SUBSET ChipSelects
  PROVE  LET new == [conf EXCEPT !.in_use = TRUE, !.cs_in_use = c]
         IN new \in ParsedConf /\ new.in_use = TRUE /\ new.cs_in_use = c
  BY Zenon DEF ParsedConf

\* What parse_spd() finds of a controller.
LEMMA ParseIsRight ==
  ASSUME NEW board, board.raw \in BOOLEAN, board.slots \in {0..0, 0..1}, NEW slot,
         \A j \in board.slots :
           /\ slot[j] \in Ddr4Spd \cup {EmptySlot}
           /\ slot[j] # EmptySlot /\ slot[j].mem_type = "DDR4" /\ ddr4_spd_check(slot[j]) => AddressedInFull(slot[j]),
         parse_spd_ctrl(board, slot).ok
  PROVE  ParsedRight(board, parse_spd_ctrl(board, slot).conf, parse_spd_ctrl(board, slot).dimm)
<1> DEFINE used   == {j \in board.slots : slot[j] # EmptySlot}
           first  == CHOOSE j \in used : \A k \in used : j <= k
           differ == \E k \in used : /\ \A i \in first..k : i \in used
                                     /\ slot[k] # slot[first]
           cal    == cal_dimm_params(slot[first])
           cs     == {RanksAt(board, cal.dimm.n_ranks, j) : j \in used}
           conf   == [NoConf EXCEPT !.dimm_in_use = used]
           found  == parse_spd_ctrl(board, slot)
<1>0. NoConf \in ParsedConf /\ NoConf.in_use = FALSE /\ NoConf.cs_in_use = {}
  BY SMT DEF NoConf, ParsedConf, NoAddress
<1>1. CASE board.raw
<2> DEFINE rconf == [NoConf EXCEPT !.in_use = TRUE, !.dimm_in_use = {0}, !.cs_in_use = {0}]
<2>1. found.dimm = ddr_raw_timing /\ found.conf = rconf
  BY <1>1, SMT DEF parse_spd_ctrl
<2>2. rconf \in ParsedConf /\ rconf.in_use = TRUE /\ rconf.cs_in_use = {0}
<3>1. {0} \in SUBSET (0..1) /\ {0} \in SUBSET ChipSelects
  BY DEF ChipSelects
<3>2. TRUE \in BOOLEAN
  OBVIOUS
<3> QED
  BY <1>0, <3>1, <3>2, ParsedChanges
<2> HIDE DEF rconf, found
<2>3. PickOdt(board, 1, {0}) # <<>>
<3>1. {0} # {0, 1, 2, 3} /\ {0} # {0, 1} /\ {0} # {2, 3} /\ {0} # {0, 2}
  OBVIOUS
<3> QED
  BY <3>1, KnownTables, SMT DEF PickOdt
<2>4. {0} \in Populations /\ 7 \in Exponents
  BY DEF Populations, Exponents
<2> QED
  BY <2>1, <2>2, <2>3, <2>4, RawRank DEF ParsedRight, found
<1>2. CASE ~board.raw /\ used = {}
<2>1. found.dimm = NoDimm /\ found.conf = NoConf
  BY <1>2, SMT DEF parse_spd_ctrl
<2>2. NoDimm.rank_density = 0
  BY Zenon DEF NoDimm
<2> QED
  BY <1>0, <2>1, <2>2 DEF ParsedRight
<1>3. CASE ~board.raw /\ used # {}
<2>1. ~differ /\ found = IF ~cal.ok THEN [ok |-> TRUE, dimm |-> cal.dimm, conf |-> conf]
                         ELSE [ok |-> {} \notin cs, dimm |-> cal.dimm,
                               conf |-> [conf EXCEPT !.in_use = TRUE, !.cs_in_use = UNION cs]]
  BY <1>3, Zenon DEF parse_spd_ctrl
<2>2. used \in SUBSET board.slots /\ board.slots \in SUBSET (0..1)
  OBVIOUS
<2>3. first \in used
<3>1. used \subseteq {0, 1}
  BY <2>2
<3> HIDE DEF used
<3>2. used = {0} \/ used = {1} \/ used = {0, 1}
  BY <1>3, <3>1
<3> QED
  BY <3>2
<2>4. slot[first] \in Ddr4Spd
      /\ (slot[first].mem_type = "DDR4" /\ ddr4_spd_check(slot[first]) => AddressedInFull(slot[first]))
  BY <2>3
<2>5. /\ cal.dimm.rank_density \in Nat
      /\ cal.ok => cal.dimm.n_ranks \in 1..8 /\ \E e \in Exponents : RankIs(cal.dimm, e)
  BY <2>4, DimmIsRight
<2>6. conf \in ParsedConf /\ conf.in_use = FALSE /\ conf.cs_in_use = {}
<3> HIDE DEF used
<3>1. used \in SUBSET (0..1)
  BY <2>2
<3> QED
  BY <1>0, <3>1, ParsedUsed
<2>7. CASE ~cal.ok
<3> HIDE DEF cal, conf
<3>1. found.dimm = cal.dimm /\ found.conf = conf
  BY <2>1, <2>7
<3> QED
  BY <2>5, <2>6, <3>1 DEF ParsedRight
<2>8. CASE cal.ok
<3> DEFINE fine == {} \notin cs
<3>1. fine
<4>1. found = [ok |-> fine, dimm |-> cal.dimm,
               conf |-> [conf EXCEPT !.in_use = TRUE, !.cs_in_use = UNION cs]]
  BY <2>1, <2>8, Zenon
<4> HIDE DEF fine, cs, cal, conf
<4>2. found.ok = fine
  BY <4>1
<4> QED
  BY <4>2
<3>2. UNION cs \in Populations /\ PickOdt(board, cal.dimm.n_ranks, UNION cs) # <<>>
<4>1. PICK n \in 1..8 : n = cal.dimm.n_ranks
  BY <2>5, <2>8
<4>2. \A j \in used : RanksAt(board, n, j) # {}
  BY <3>1, <4>1
<4>3. PICK those : those = UNION cs
  OBVIOUS
<4> HIDE DEF cal
<4>4. /\ used = {0} => those = RanksAt(board, n, 0)
      /\ used = {1} => those = RanksAt(board, n, 1)
      /\ used = {0, 1} => those = RanksAt(board, n, 0) \cup RanksAt(board, n, 1)
<5> HIDE DEF used
<5> QED
  BY <4>1, <4>3
<4> HIDE DEF used, cs
<4>5. used = {0} \/ used = {1} \/ used = {0, 1}
  BY <1>3, <2>2
<4>6. those \in Populations /\ PickOdt(board, n, those) # <<>>
  BY <2>2, <4>2, <4>4, <4>5, PopulationIsKnown
<4> QED
  BY <4>1, <4>3, <4>6
<3>3. UNION cs \in SUBSET ChipSelects
<4>1. Populations \subseteq SUBSET ChipSelects
  BY SMT DEF Populations, ChipSelects
<4> QED
  BY <3>2, <4>1
<3> HIDE DEF cs, cal, conf
<3>4. found.dimm = cal.dimm /\ found.conf = [conf EXCEPT !.in_use = TRUE, !.cs_in_use = UNION cs]
  BY <2>1, <2>8
<3>5. found.conf \in ParsedConf /\ found.conf.in_use = TRUE /\ found.conf.cs_in_use = UNION cs
<4>1. PICK new : new = [conf EXCEPT !.in_use = TRUE, !.cs_in_use = UNION cs]
  OBVIOUS
<4>2. new \in ParsedConf /\ new.in_use = TRUE /\ new.cs_in_use = UNION cs
<5>1. PICK those \in SUBSET ChipSelects : those = UNION cs
  BY <3>3
<5>2. new = [conf EXCEPT !.in_use = TRUE, !.cs_in_use = those]
  BY <4>1, <5>1
<5>3. conf \in ParsedConf
  BY <2>6
<5> HIDE DEF conf, cs
<5>4. new \in ParsedConf /\ new.in_use = TRUE /\ new.cs_in_use = those
  BY <5>2, <5>3, ParsedFound
<5> QED
  BY <5>1, <5>4
<4> QED
  BY <3>4, <4>1, <4>2
<3> QED
  BY <2>5, <2>8, <3>2, <3>4, <3>5 DEF ParsedRight
<2> QED
  BY <2>7, <2>8
<1> QED
  BY <1>1, <1>2, <1>3

\* The options that decide about addresses.
OptsAre(opts, bus, interleaved, banks) ==
  /\ {"data_bus_used", "data_bus_width", "memctl_interleaving", "ba_intlv_ctl"} \subseteq DOMAIN opts
  /\ opts.data_bus_used = bus /\ opts.data_bus_width = bus
  /\ opts.memctl_interleaving = interleaved /\ opts.ba_intlv_ctl = banks

LEMMA NoOptsAre == OptsAre(NoOpts, 0, FALSE, "none")
<1>1. {"data_bus_used", "data_bus_width", "memctl_interleaving", "ba_intlv_ctl"} \subseteq DOMAIN NoOpts
  BY DEF NoOpts
<1>2. /\ NoOpts.data_bus_used = 0 /\ NoOpts.data_bus_width = 0
      /\ NoOpts.memctl_interleaving = FALSE /\ NoOpts.ba_intlv_ctl = "none"
  BY Zenon DEF NoOpts
<1> QED
  BY <1>1, <1>2 DEF OptsAre

LEMMA OptionsOfCtrl ==
  ASSUME NEW r, NEW board, NEW conf, NEW pdimm,
         PickOdt(board, pdimm.n_ranks, conf.cs_in_use) # <<>>, BusWidth(pdimm.primary_sdram_width) # -1
  PROVE  /\ pop_ctrl_opts(r, board, conf, pdimm).ok = TRUE
         /\ \E mem \in BOOLEAN :
              /\ mem => 0 \in conf.cs_in_use
              /\ OptsAre(pop_ctrl_opts(r, board, conf, pdimm).opts, BusWidth(pdimm.primary_sdram_width), mem,
                         auto_bank_intlv(conf.cs_in_use))
<1>. DEFINE odt  == PickOdt(board, pdimm.n_ranks, conf.cs_in_use)
            bus  == BusWidth(pdimm.primary_sdram_width)
            mem  == 0 \in conf.cs_in_use
            banks == auto_bank_intlv(conf.cs_in_use)
            base == [NoOpts EXCEPT
                       !.cs_local_opts = odt, !.registered_dimm_en = pdimm.registered_dimm,
                       !.mirrored_dimm = pdimm.mirrored_dimm, !.ecc_mode = TRUE,
                       !.ecc_init_using_memctl = TRUE, !.self_refresh_in_sleep = TRUE]
            Fields == {"data_bus_used", "data_bus_width", "memctl_interleaving", "ba_intlv_ctl"}
            bussed == [base EXCEPT
              !.data_bus_width = bus, !.data_bus_used = bus, !.x4_en = pdimm.device_width = 4,
              !.ap_en = pdimm.registered_dimm,
              !.bstopre = picos_to_mclk(r, pdimm.refresh_rate_ps) \div 4]
            spread == [bussed EXCEPT
              !.tfaw_window_four_activates_ps = pdimm.tfaw_ps,
              !.memctl_interleaving = mem,
              !.ba_intlv_ctl = banks,
              !.quad_rank_present = pdimm.n_ranks = 4,
              !.rcw_override = pdimm.registered_dimm]
            full   == [spread EXCEPT
              !.rcw_1 = IF pdimm.registered_dimm THEN \h000a5a00 ELSE 0,
              !.rcw_2 = IF ~pdimm.registered_dimm \/ r <= 800 THEN 0
                        ELSE IF r <= 1066 THEN \h00100000 ELSE IF r <= 1333 THEN \h00200000
                        ELSE \h00300000,
              !.otf_burst_chop_en = bus = 0,
              !.burst_length = IF bus = 0 THEN "OTF" ELSE "BL8"]
<1>1. Fields \subseteq DOMAIN NoOpts
  BY NoOptsAre DEF OptsAre
<1>2. Fields \subseteq DOMAIN base
  BY <1>1, SMT
<1>3. odt # <<>> /\ bus # -1
  OBVIOUS
<1>. HIDE DEF base
<1>4. pop_ctrl_opts(r, board, conf, pdimm).ok = TRUE /\ pop_ctrl_opts(r, board, conf, pdimm).opts = full
  BY <1>3, SMT DEF pop_ctrl_opts, base
<1>. HIDE DEF odt, bus, mem, banks
<1>5. Fields \subseteq DOMAIN bussed /\ bussed.data_bus_width = bus /\ bussed.data_bus_used = bus
  BY <1>2, SMT
<1>. HIDE DEF bussed
<1>6. /\ Fields \subseteq DOMAIN spread /\ spread.data_bus_width = bus /\ spread.data_bus_used = bus
      /\ spread.memctl_interleaving = mem /\ spread.ba_intlv_ctl = banks
  BY <1>5, SMT
<1>. HIDE DEF spread
<1>7. /\ Fields \subseteq DOMAIN full /\ full.data_bus_width = bus /\ full.data_bus_used = bus
      /\ full.memctl_interleaving = mem /\ full.ba_intlv_ctl = banks
  BY <1>6, SMT
<1>. HIDE DEF full
<1>8. mem \in BOOLEAN /\ (mem => 0 \in conf.cs_in_use)
  BY DEF mem
<1>9. OptsAre(full, bus, mem, banks)
  BY <1>7, Zenon DEF OptsAre
<1>. QED
  BY <1>4, <1>8, <1>9, Zenon DEF bus, banks

LEMMA BoardKeepsOptions ==
  ASSUME NEW r, NEW board, NEW opts, NEW conf, NEW pdimm, NEW bus, NEW interleaved, NEW banks,
         OptsAre(opts, bus, interleaved, banks)
  PROVE  OptsAre(ddr_board_options(r, board, opts, conf, pdimm), bus, interleaved, banks)
<1> DEFINE new == ddr_board_options(r, board, opts, conf, pdimm)
<1>1. DOMAIN new = DOMAIN opts
  BY Zenon DEF ddr_board_options
<1>2. /\ new.data_bus_used = opts.data_bus_used /\ new.data_bus_width = opts.data_bus_width
      /\ new.memctl_interleaving = opts.memctl_interleaving /\ new.ba_intlv_ctl = opts.ba_intlv_ctl
  BY Zenon DEF ddr_board_options, OptsAre
<1> HIDE DEF new
<1>3. OptsAre(new, bus, interleaved, banks)
  BY <1>1, <1>2, Zenon DEF OptsAre
<1> QED
  BY <1>3 DEF new

\* A controller whose options are known, before it has addresses.
ReadyCtrl(conf, dimm, opts) ==
  /\ conf \in ParsedConf
  /\ conf.in_use =>
       /\ conf.cs_in_use \in Populations /\ \E e \in Exponents : RankIs(dimm, e)
       /\ \E interleaved \in BOOLEAN :
            /\ interleaved => 0 \in conf.cs_in_use
            /\ OptsAre(opts, BusWidth(dimm.primary_sdram_width), interleaved, auto_bank_intlv(conf.cs_in_use))
  /\ ~conf.in_use => /\ conf.cs_in_use = {} /\ dimm.rank_density \in Nat
                     /\ OptsAre(opts, 0, FALSE, "none")

\* The controllers interleave both or not at all, and alike.
Alike(ctrls, dimms, opts) ==
  \/ \A c \in ctrls : opts[c].memctl_interleaving = FALSE
  \/ /\ ctrls = {0, 1} /\ \A c \in ctrls : opts[c].memctl_interleaving = TRUE
     /\ dimms[0].rank_density = dimms[1].rank_density /\ opts[0].ba_intlv_ctl = opts[1].ba_intlv_ctl

ParsedWell ==
  ddrPc = "opts" => \A c \in MainCtrls : ParsedRight(Board, ddrPriv.conf[c], ddrPriv.dimms[c])
OptionsWell ==
  ddrPc = "addr" => /\ \A c \in MainCtrls : ReadyCtrl(ddrPriv.conf[c], ddrPriv.dimms[c], ddrPriv.opts[c])
                    /\ Alike(MainCtrls, ddrPriv.dimms, ddrPriv.opts)

LEMMA ParseSpdIsRight ==
  ASSUME ddrSetup \in DdrSetups, ParseSpd
  PROVE  ParsedWell'
<1> DEFINE found == [c \in MainCtrls |-> parse_spd_ctrl(Board, ddrSetup.slots[c])]
<1>1. UNCHANGED ddrSetup /\ MainCtrls' = MainCtrls /\ Board' = Board
  BY DEF ParseSpd, MainCtrls, Board
<1>2. CASE ddrPc' # "opts"
  BY <1>2 DEF ParsedWell
<1>3. CASE ddrPc' = "opts"
<2>1. /\ \A c \in MainCtrls : found[c].ok
      /\ ddrPriv' = [conf |-> [c \in MainCtrls |-> found[c].conf], dimms |-> [c \in MainCtrls |-> found[c].dimm]]
  BY <1>3, Zenon DEF ParseSpd
<2>2. ASSUME NEW c \in MainCtrls
      PROVE  ParsedRight(Board, found[c].conf, found[c].dimm)
<3>1. c \in Board.ctrls
  BY DEF MainCtrls
<3>2. PICK slot : slot = ddrSetup.slots[c]
  OBVIOUS
<3>3. found[c] = parse_spd_ctrl(Board, slot)
  BY <3>2
<3>4. /\ Board.raw \in BOOLEAN /\ Board.slots \in {0..0, 0..1}
      /\ \A j \in Board.slots : slot[j] \in Ddr4Spd \cup {EmptySlot}
  BY <3>1, <3>2, DdrAssumption DEF Board
<3>5. \A j \in Board.slots :
        slot[j] # EmptySlot /\ slot[j].mem_type = "DDR4" /\ ddr4_spd_check(slot[j]) => AddressedInFull(slot[j])
  BY <3>1, <3>2, DimmAssumption DEF Board
<3>6. parse_spd_ctrl(Board, slot).ok
  BY <2>1, <3>3
<3>. HIDE DEF found
<3>. QED
  BY <3>3, <3>4, <3>5, <3>6, ParseIsRight
<2>. HIDE DEF found
<2>3. \A c \in MainCtrls : ddrPriv'.conf[c] = found[c].conf /\ ddrPriv'.dimms[c] = found[c].dimm
  BY <2>1
<2>. QED
  BY <1>1, <2>2, <2>3 DEF ParsedWell
<1> QED
  BY <1>2, <1>3

\* Interleaving is kept or cleared, the other options stay.
LEMMA InterleavingIsAlike ==
  ASSUME NEW ctrls \in SUBSET {0, 1}, ctrls # {}, NEW opts, NEW conf, NEW dimms,
         \A c \in ctrls : "memctl_interleaving" \in DOMAIN opts[c] /\ opts[c].memctl_interleaving \in BOOLEAN
  PROVE  LET new == check_interleaving_options(ctrls, opts, conf, dimms)
         IN /\ \/ \A c \in ctrls : new[c] = [opts[c] EXCEPT !.memctl_interleaving = FALSE]
               \/ \A c \in ctrls : new[c] = opts[c]
            /\ \/ \A c \in ctrls : new[c].memctl_interleaving = FALSE
               \/ /\ ctrls = {0, 1} /\ \A c \in ctrls : new[c].memctl_interleaving = TRUE
                  /\ dimms[0].rank_density = dimms[1].rank_density
                  /\ new[0].ba_intlv_ctl = new[1].ba_intlv_ctl
<1> DEFINE first  == CHOOSE c \in ctrls : \A d \in ctrls : c <= d
           asking == {c \in ctrls : opts[c].memctl_interleaving}
           Shape(c) == <<dimms[c].rank_density, dimms[c].n_ranks, dimms[c].n_row_addr,
                         dimms[c].n_col_addr, opts[c].ba_intlv_ctl>>
           same   == \A c \in asking : 0 \in conf[c].dimm_in_use /\ Shape(c) = Shape(first)
           valid  == same /\ Cardinality(asking) \in {0, 2}
           none   == [c \in ctrls |-> [opts[c] EXCEPT !.memctl_interleaving = FALSE]]
           new    == check_interleaving_options(ctrls, opts, conf, dimms)
<1>1. /\ valid => new = opts
      /\ ~valid => new = none
  BY Zenon DEF check_interleaving_options
<1>2. CASE ~valid
<2>1. \A c \in ctrls : none[c] = [opts[c] EXCEPT !.memctl_interleaving = FALSE]
  OBVIOUS
<2>2. new = none
  BY <1>1, <1>2
<2>. HIDE DEF none, new
<2>3. \A c \in ctrls : new[c] = [opts[c] EXCEPT !.memctl_interleaving = FALSE]
  BY <2>1, <2>2
<2>4. \A c \in ctrls : new[c].memctl_interleaving = FALSE
  BY <2>3
<2>. QED
  BY <2>3, <2>4 DEF new
<1>3. CASE valid
<2>1. new = opts
  BY <1>1, <1>3
<2>2. asking \subseteq {0, 1}
  OBVIOUS
<2>3. asking = {} \/ asking = {0, 1} \/ asking = {0} \/ asking = {1}
<3>. HIDE DEF asking
<3>. QED
  BY <2>2
<2>4. asking = {} \/ asking = {0, 1}
<3>1. \A x : Cardinality({x}) = 1
  BY FS_Singleton
<3>. HIDE DEF asking, same
<3>. QED
  BY <1>3, <2>3, <3>1
<2>5. CASE asking = {}
<3>1. \A c \in ctrls : opts[c].memctl_interleaving = FALSE
  BY <2>5
<3>. HIDE DEF new
<3>. QED
  BY <2>1, <3>1 DEF new
<2>6. CASE asking = {0, 1}
<3>1. ctrls = {0, 1} /\ \A c \in ctrls : opts[c].memctl_interleaving = TRUE
  BY <2>6
<3>2. Shape(0) = Shape(first) /\ Shape(1) = Shape(first)
<4>. HIDE DEF asking, Shape, first
<4>. QED
  BY <1>3, <2>6
<3>3. dimms[0].rank_density = dimms[1].rank_density /\ opts[0].ba_intlv_ctl = opts[1].ba_intlv_ctl
<4>1. Shape(0) = Shape(1)
<5>. HIDE DEF Shape
<5>. QED
  BY <3>2
<4>. QED
  BY <4>1
<3>. HIDE DEF new
<3>. QED
  BY <2>1, <3>1, <3>3 DEF new
<2>. QED
  BY <2>4, <2>5, <2>6
<1> QED
  BY <1>2, <1>3

LEMMA PopulateIsRight ==
  ASSUME ddrSetup \in DdrSetups, MainCtrls \in SUBSET {0, 1}, MainCtrls # {}, ParsedWell, PopulateOptions
  PROVE  OptionsWell'
<1>. DEFINE pop(c)  == pop_ctrl_opts(Rate, Board, ddrPriv.conf[c], ddrPriv.dimms[c])
            done    == [c \in MainCtrls |-> IF ddrPriv.conf[c].in_use THEN pop(c)
                                            ELSE [ok |-> FALSE, opts |-> NoOpts]]
            conf    == [c \in MainCtrls |-> [ddrPriv.conf[c] EXCEPT !.in_use = done[c].ok]]
            opts    == [c \in MainCtrls |->
                          ddr_board_options(Rate, Board, done[c].opts, conf[c], ddrPriv.dimms[c])]
            chosen  == check_interleaving_options(MainCtrls, opts, conf, ddrPriv.dimms)
<1>1. ddrPc = "opts" /\ UNCHANGED ddrSetup /\ MainCtrls' = MainCtrls
  BY DEF PopulateOptions, MainCtrls, Board
<1>2. CASE ddrPc' # "addr"
  BY <1>2 DEF OptionsWell
<1>3. CASE ddrPc' = "addr"
<2>1. ddrPriv' = [conf |-> conf, dimms |-> ddrPriv.dimms, opts |-> chosen]
  BY <1>3, Zenon DEF PopulateOptions
<2>2. ASSUME NEW c \in MainCtrls
      PROVE  /\ conf[c] = ddrPriv.conf[c]
             /\ conf[c] \in ParsedConf
             /\ conf[c].in_use =>
                  /\ conf[c].cs_in_use \in Populations /\ \E e \in Exponents : RankIs(ddrPriv.dimms[c], e)
                  /\ \E mem \in BOOLEAN :
                       /\ mem => 0 \in conf[c].cs_in_use
                       /\ OptsAre(opts[c], BusWidth(ddrPriv.dimms[c].primary_sdram_width), mem,
                                  auto_bank_intlv(conf[c].cs_in_use))
             /\ ~conf[c].in_use => /\ conf[c].cs_in_use = {} /\ ddrPriv.dimms[c].rank_density \in Nat
                                   /\ OptsAre(opts[c], 0, FALSE, "none")
<3>1. ParsedRight(Board, ddrPriv.conf[c], ddrPriv.dimms[c])
  BY <1>1 DEF ParsedWell
<3>2. PICK parsed : parsed = ddrPriv.conf[c]
  OBVIOUS
<3>3. PICK dimm : dimm = ddrPriv.dimms[c]
  OBVIOUS
<3>4. /\ done[c] = IF parsed.in_use THEN pop_ctrl_opts(Rate, Board, parsed, dimm)
                   ELSE [ok |-> FALSE, opts |-> NoOpts]
      /\ conf[c] = [parsed EXCEPT !.in_use = done[c].ok]
      /\ opts[c] = ddr_board_options(Rate, Board, done[c].opts, conf[c], dimm)
  BY <3>2, <3>3
<3>5. parsed \in ParsedConf /\ parsed.in_use \in BOOLEAN
  BY <3>1, <3>2 DEF ParsedRight, ParsedConf
<3>6. "in_use" \in DOMAIN parsed /\ \A a : a = parsed.in_use => [parsed EXCEPT !.in_use = a] = parsed
  BY <3>5, Zenon DEF ParsedConf
<3>7. CASE parsed.in_use
<4>1. PickOdt(Board, dimm.n_ranks, parsed.cs_in_use) # <<>>
  BY <3>1, <3>2, <3>3, <3>7 DEF ParsedRight
<4>2. PICK e \in Exponents : RankIs(dimm, e)
  BY <3>1, <3>2, <3>3, <3>7 DEF ParsedRight
<4>3. BusWidth(dimm.primary_sdram_width) # -1
<5>1. dimm.primary_sdram_width \in {16, 32, 64}
  BY <4>2 DEF RankIs
<5>. QED
  BY <5>1, SMT DEF BusWidth
<4>. HIDE DEF done, conf, opts
<4>4. PICK mem \in BOOLEAN :
        /\ done[c].ok = TRUE /\ (mem => 0 \in parsed.cs_in_use)
        /\ OptsAre(done[c].opts, BusWidth(dimm.primary_sdram_width), mem, auto_bank_intlv(parsed.cs_in_use))
<5>1. done[c] = pop_ctrl_opts(Rate, Board, parsed, dimm)
  BY <3>4, <3>7
<5>2. pop_ctrl_opts(Rate, Board, parsed, dimm).ok = TRUE
  BY <4>1, <4>3, OptionsOfCtrl
<5>3. \E mem \in BOOLEAN :
        /\ mem => 0 \in parsed.cs_in_use
        /\ OptsAre(pop_ctrl_opts(Rate, Board, parsed, dimm).opts, BusWidth(dimm.primary_sdram_width), mem,
                   auto_bank_intlv(parsed.cs_in_use))
  BY <4>1, <4>3, OptionsOfCtrl
<5>. QED
  BY <5>1, <5>2, <5>3
<4>5. parsed.in_use = TRUE
  BY <3>5, <3>7
<4>6. conf[c] = parsed
  BY <3>4, <3>6, <4>4, <4>5
<4>7. OptsAre(opts[c], BusWidth(dimm.primary_sdram_width), mem, auto_bank_intlv(parsed.cs_in_use))
  BY <3>4, <4>4, BoardKeepsOptions
<4>. QED
  BY <3>1, <3>2, <3>3, <3>5, <3>7, <4>2, <4>4, <4>6, <4>7 DEF ParsedRight
<3>8. CASE ~parsed.in_use
<4>. HIDE DEF done, conf, opts
<4>1. done[c] = [ok |-> FALSE, opts |-> NoOpts]
  BY <3>4, <3>8
<4>2. done[c].ok = FALSE /\ done[c].opts = NoOpts
  BY <4>1
<4>3. parsed.in_use = FALSE
  BY <3>5, <3>8
<4>4. conf[c] = parsed
  BY <3>4, <3>6, <4>2, <4>3
<4>5. OptsAre(opts[c], 0, FALSE, "none")
<5>1. PICK off \in BOOLEAN : off = FALSE
  OBVIOUS
<5>2. PICK none : none = "none"
  OBVIOUS
<5>3. OptsAre(done[c].opts, 0, off, none)
  BY <4>2, <5>1, <5>2, NoOptsAre
<5>4. OptsAre(opts[c], 0, off, none)
  BY <3>4, <5>3, BoardKeepsOptions
<5>. QED
  BY <5>1, <5>2, <5>4
<4>. QED
  BY <3>1, <3>2, <3>3, <3>5, <3>8, <4>4, <4>5 DEF ParsedRight
<3>. QED
  BY <3>7, <3>8
<2>. HIDE DEF pop, done, conf, opts
<2>3. \A c \in MainCtrls : "memctl_interleaving" \in DOMAIN opts[c] /\ opts[c].memctl_interleaving \in BOOLEAN
<3>. SUFFICES ASSUME NEW c \in MainCtrls
             PROVE  "memctl_interleaving" \in DOMAIN opts[c] /\ opts[c].memctl_interleaving \in BOOLEAN
  OBVIOUS
<3>1. \E bus, banks : \E mem \in BOOLEAN : OptsAre(opts[c], bus, mem, banks)
<4>1. CASE conf[c].in_use
<5>1. PICK mem \in BOOLEAN :
        OptsAre(opts[c], BusWidth(ddrPriv.dimms[c].primary_sdram_width), mem, auto_bank_intlv(conf[c].cs_in_use))
  BY <2>2, <4>1
<5>. QED
  BY <5>1
<4>2. CASE ~conf[c].in_use
<5>1. PICK off \in BOOLEAN : off = FALSE
  OBVIOUS
<5>2. OptsAre(opts[c], 0, off, "none")
  BY <2>2, <4>2, <5>1
<5>. QED
  BY <5>2
<4>. QED
  BY <4>1, <4>2
<3>. QED
  BY <3>1 DEF OptsAre
<2>4. /\ \/ \A c \in MainCtrls : chosen[c] = [opts[c] EXCEPT !.memctl_interleaving = FALSE]
         \/ \A c \in MainCtrls : chosen[c] = opts[c]
      /\ Alike(MainCtrls, ddrPriv.dimms, chosen)
  BY <2>3, InterleavingIsAlike DEF Alike
<2>. HIDE DEF chosen
<2>5. ASSUME NEW c \in MainCtrls, NEW bus, NEW mem \in BOOLEAN, NEW banks, OptsAre(opts[c], bus, mem, banks)
      PROVE  \E some \in BOOLEAN : (some => mem) /\ OptsAre(chosen[c], bus, some, banks)
<3>1. CASE chosen[c] = opts[c]
  BY <2>5, <3>1
<3>2. CASE chosen[c] = [opts[c] EXCEPT !.memctl_interleaving = FALSE]
<4>1. OptsAre(chosen[c], bus, FALSE, banks)
  BY <2>5, <3>2 DEF OptsAre
<4>. QED
  BY <4>1
<3>. QED
  BY <2>4, <3>1, <3>2
<2>6. ASSUME NEW c \in MainCtrls
      PROVE  ReadyCtrl(conf[c], ddrPriv.dimms[c], chosen[c])
<3>2. conf[c] \in ParsedConf
  BY <2>2
<3>3. ASSUME conf[c].in_use
      PROVE  /\ conf[c].cs_in_use \in Populations /\ \E e \in Exponents : RankIs(ddrPriv.dimms[c], e)
             /\ \E interleaved \in BOOLEAN :
                  /\ interleaved => 0 \in conf[c].cs_in_use
                  /\ OptsAre(chosen[c], BusWidth(ddrPriv.dimms[c].primary_sdram_width), interleaved,
                             auto_bank_intlv(conf[c].cs_in_use))
<4>1. PICK mem \in BOOLEAN :
        /\ mem => 0 \in conf[c].cs_in_use
        /\ OptsAre(opts[c], BusWidth(ddrPriv.dimms[c].primary_sdram_width), mem,
                   auto_bank_intlv(conf[c].cs_in_use))
  BY <2>2, <3>3
<4>2. PICK some \in BOOLEAN :
        (some => mem) /\ OptsAre(chosen[c], BusWidth(ddrPriv.dimms[c].primary_sdram_width), some,
                                 auto_bank_intlv(conf[c].cs_in_use))
  BY <2>5, <4>1
<4>. QED
  BY <2>2, <3>3, <4>1, <4>2
<3>4. ASSUME ~conf[c].in_use
      PROVE  /\ conf[c].cs_in_use = {} /\ ddrPriv.dimms[c].rank_density \in Nat
             /\ OptsAre(chosen[c], 0, FALSE, "none")
<4>1. OptsAre(opts[c], 0, FALSE, "none") /\ FALSE \in BOOLEAN
  BY <2>2, <3>4
<4>2. PICK some \in BOOLEAN : (some => FALSE) /\ OptsAre(chosen[c], 0, some, "none")
  BY <2>5, <4>1
<4>3. some = FALSE
  BY <4>2
<4>. QED
  BY <2>2, <3>4, <4>2, <4>3
<3>. QED
  BY <3>2, <3>3, <3>4 DEF ReadyCtrl
<2>7. /\ ddrPriv'.conf = conf /\ ddrPriv'.opts = chosen /\ ddrPriv'.dimms = ddrPriv.dimms
  BY <2>1
<2>. QED
  BY <1>1, <2>4, <2>6, <2>7 DEF OptionsWell
<1> QED
  BY <1>2, <1>3

-----------------------------------------------------------------------------
(* Addresses: the first ways chip selects of a controller decode the same span. *)

Addressed(conf, ways, base, size) ==
  /\ \A i \in ChipSelects : conf.cs_size[i] = IF i < ways THEN size ELSE 0
  /\ \A i \in ChipSelects : i < ways => conf.cs_base_addr[i] = base /\ i \in conf.cs_in_use
  /\ conf.total_mem = size

LEMMA WaysOf ==
  /\ auto_bank_intlv(ChipSelects) = "CS0_CS1_CS2_CS3" /\ auto_bank_intlv({0, 1}) = "CS0_CS1"
  /\ \A cs \in {{}, {0}, {2}, {0, 2}, {2, 3}} : auto_bank_intlv(cs) = "none"
  /\ BankWays("CS0_CS1_CS2_CS3") = 4 /\ BankWays("CS0_CS1") = 2 /\ BankWays("none") = 1
<1>1. ChipSelects = {0, 1, 2, 3}
  BY DEF ChipSelects
<1>2. auto_bank_intlv({0, 1, 2, 3}) = "CS0_CS1_CS2_CS3" /\ auto_bank_intlv({0, 1}) = "CS0_CS1"
  BY SMT DEF auto_bank_intlv
<1>3. ASSUME NEW cs \in {{}, {0}, {2}, {0, 2}, {2, 3}}
      PROVE  auto_bank_intlv(cs) = "none"
<2>1. cs # {0, 1, 2, 3} /\ cs # {0, 1}
  BY <1>3
<2>. QED
  BY <2>1, SMT DEF auto_bank_intlv
<1>4. BankWays("CS0_CS1_CS2_CS3") = 4 /\ BankWays("CS0_CS1") = 2 /\ BankWays("none") = 1
  BY SMT DEF BankWays
<1> QED
  BY <1>1, <1>2, <1>3, <1>4

LEMMA LeadingOf ==
  /\ Leading({}) = {} /\ Leading({0}) = {0} /\ Leading({2}) = {} /\ Leading({0, 2}) = {0}
  /\ Leading({0, 1}) = {0, 1} /\ Leading({2, 3}) = {}
<1>1. 0..0 = {0} /\ 0..1 = {0, 1} /\ 0 \in 0..2 /\ 0 \in 0..3 /\ 1 \in 0..2
  OBVIOUS
<1> QED
  BY <1>1 DEF Leading

LEMMA NotShifted ==
  ASSUME NEW opts, NEW bus \in Int, NEW mem, NEW banks, OptsAre(opts, bus, mem, banks), NEW d \in Nat
  PROVE  d \div dbw_cap_shift(opts) = d
<1>1. opts.data_bus_used - opts.data_bus_width = 0
  BY DEF OptsAre
<1>2. dbw_cap_shift(opts) = 2 ^ 0
  BY <1>1 DEF dbw_cap_shift
<1>3. dbw_cap_shift(opts) = 1
  BY <1>2, SMT
<1> QED
  BY <1>3

\* A controller that does not interleave with the other.
LEMMA AddressedAlone ==
  ASSUME NEW conf \in ParsedConf, NEW opts, NEW dimm, NEW d \in Nat, dimm.rank_density = d,
         NEW bus \in Int, NEW mem, OptsAre(opts, bus, mem, auto_bank_intlv(conf.cs_in_use)),
         conf.cs_in_use \in Populations \cup {{}}, NEW base \in Nat
  PROVE  \E ways \in {0, 1, 2, 4} :
           /\ Addressed(assign_non_intlv_addr(dimm, opts, conf, base), ways, base, ways * d)
           /\ conf.cs_in_use = {} => ways = 0
<1> DEFINE density == dimm.rank_density \div dbw_cap_shift(opts)
           ways    == BankWays(opts.ba_intlv_ctl)
           mapped  == IF ways = 4 THEN ChipSelects ELSE Leading(conf.cs_in_use)
           shared  == {i \in mapped : ways > 1 /\ i < ways}
           Before(i) == IF i \in shared THEN 0 ELSE i
           starts  == [i \in ChipSelects |-> IF i \in mapped THEN base + Before(i) * density
                                             ELSE conf.cs_base_addr[i]]
           sizes   == [i \in ChipSelects |-> IF i \in shared THEN ways * density
                                             ELSE IF i \in mapped THEN density ELSE conf.cs_size[i]]
           new     == [conf EXCEPT !.base_addr = base, !.total_mem = Cardinality(mapped) * density,
                                   !.cs_base_addr = starts, !.cs_size = sizes]
<1>1. assign_non_intlv_addr(dimm, opts, conf, base) = new
  BY Zenon DEF assign_non_intlv_addr
<1>2. density = d
  BY NotShifted
<1>3. opts.ba_intlv_ctl = auto_bank_intlv(conf.cs_in_use)
  BY DEF OptsAre
<1>4. \/ ways = 4 /\ mapped = {0, 1, 2, 3}
      \/ ways = 2 /\ mapped = {0, 1}
      \/ ways = 1 /\ mapped = {0}
      \/ ways = 1 /\ mapped = {}
  BY <1>3, WaysOf, LeadingOf DEF Populations, ChipSelects
<1>5. conf.cs_in_use = {} => mapped = {}
  BY <1>3, WaysOf, LeadingOf
<1>6. mapped \subseteq conf.cs_in_use
<2>1. CASE conf.cs_in_use = ChipSelects
  BY <2>1 DEF Leading
<2>2. CASE conf.cs_in_use # ChipSelects
<3>1. ways # 4
  BY <1>3, <2>2, WaysOf DEF Populations
<3> QED
  BY <3>1 DEF Leading
<2> QED
  BY <2>1, <2>2
<1>7. /\ {"base_addr", "total_mem", "cs_base_addr", "cs_size", "cs_in_use"} \subseteq DOMAIN conf
      /\ \A i \in ChipSelects : conf.cs_size[i] = 0
  BY Zenon DEF ParsedConf, NoAddress
<1> DEFINE w == Cardinality(mapped)
<1>8. /\ w \in {0, 1, 2, 4} /\ (mapped = {} => w = 0)
      /\ \A i \in ChipSelects : i \in mapped <=> i < w
      /\ \A i \in ChipSelects : i < w => Before(i) * density = 0
      /\ \A i \in ChipSelects : i < w => sizes[i] = w * d
<2>0. ChipSelects = {0, 1, 2, 3}
  BY DEF ChipSelects
<2>1. CASE ways = 4 /\ mapped = {0, 1, 2, 3}
<3>1. w = 4
<4>1. mapped = 0..(4 - 1)
  BY <2>1
<4> HIDE DEF mapped
<4> QED
  BY <4>1, SelectsCounted
<3>2. shared = {0, 1, 2, 3}
  BY <2>1
<3> HIDE DEF w, ways, mapped, shared, density
<3> QED
  BY <1>2, <2>0, <2>1, <3>1, <3>2
<2>2. CASE ways = 2 /\ mapped = {0, 1}
<3>1. w = 2
<4>1. mapped = 0..1
  BY <2>2
<4> HIDE DEF mapped
<4> QED
  BY <4>1, SelectsCounted
<3>2. shared = {0, 1}
  BY <2>2
<3> HIDE DEF w, ways, mapped, shared, density
<3> QED
  BY <1>2, <2>0, <2>2, <3>1, <3>2
<2>3. CASE ways = 1 /\ mapped = {0}
<3>1. w = 1
<4>1. mapped = 0..0
  BY <2>3
<4> HIDE DEF mapped
<4> QED
  BY <4>1, SelectsCounted
<3>2. shared = {}
  BY <2>3
<3> HIDE DEF w, ways, mapped, shared, density
<3> QED
  BY <1>2, <2>0, <2>3, <3>1, <3>2
<2>4. CASE ways = 1 /\ mapped = {}
<3>1. w = 0
  BY <2>4, FS_EmptySet
<3> HIDE DEF w, ways, mapped, shared, density
<3> QED
  BY <2>0, <2>4, <3>1
<2> HIDE DEF w, ways, mapped, shared, density
<2> QED
  BY <1>4, <2>1, <2>2, <2>3, <2>4
<1>9. \A i \in ChipSelects : ~(i < w) => sizes[i] = 0
<2>1. \A i \in ChipSelects : ~(i < w) => i \notin mapped /\ i \notin shared
  BY <1>8
<2> HIDE DEF w, mapped, shared
<2> QED
  BY <1>7, <2>1
<1>10. \A i \in ChipSelects : i < w => starts[i] = base
<2> HIDE DEF w, mapped, Before, density
<2> QED
  BY <1>8
<1> HIDE DEF w, mapped, starts, sizes, density
<1>11. /\ new.cs_size = sizes /\ new.cs_base_addr = starts /\ new.cs_in_use = conf.cs_in_use
       /\ new.total_mem = w * density
  BY <1>7 DEF w
<1>12. \A i \in ChipSelects : i < w => i \in conf.cs_in_use
  BY <1>6, <1>8
<1> HIDE DEF new
<1>13. Addressed(new, w, base, w * d)
  BY <1>2, <1>8, <1>9, <1>10, <1>11, <1>12 DEF Addressed
<1> QED
  BY <1>1, <1>5, <1>8, <1>13

\* One of two controllers that interleave.
LEMMA AddressedTogether ==
  ASSUME NEW conf \in ParsedConf, NEW opts, NEW dimm, NEW d \in Nat, dimm.rank_density = d,
         NEW bus \in Int, NEW mem, NEW banks, OptsAre(opts, bus, mem, banks), BankWays(banks) \in {1, 2, 4}
  PROVE  Addressed(assign_intlv_addr(dimm, opts, conf, 0), BankWays(banks), 0, 2 * BankWays(banks) * d)
<1> DEFINE mul    == BankWays(opts.ba_intlv_ctl)
           total  == 2 * mul * (dimm.rank_density \div dbw_cap_shift(opts))
           starts == [i \in ChipSelects |-> IF i < mul THEN 0 ELSE conf.cs_base_addr[i]]
           sizes  == [i \in ChipSelects |-> IF i < mul THEN total ELSE conf.cs_size[i]]
           new    == [conf EXCEPT !.base_addr = 0, !.total_mem = total, !.cs_in_use = 0..(mul - 1),
                                  !.cs_base_addr = starts, !.cs_size = sizes]
<1>1. assign_intlv_addr(dimm, opts, conf, 0) = new
  BY Zenon DEF assign_intlv_addr
<1>2. mul = BankWays(banks) /\ total = 2 * BankWays(banks) * d
<2>1. dimm.rank_density \div dbw_cap_shift(opts) = d
  BY NotShifted
<2> QED
  BY <2>1 DEF OptsAre
<1>3. /\ {"base_addr", "total_mem", "cs_base_addr", "cs_size", "cs_in_use"} \subseteq DOMAIN conf
      /\ \A i \in ChipSelects : conf.cs_size[i] = 0
  BY Zenon DEF ParsedConf, NoAddress
<1> HIDE DEF mul, total
<1>4. /\ \A i \in ChipSelects : sizes[i] = IF i < mul THEN total ELSE 0
      /\ \A i \in ChipSelects : i < mul => starts[i] = 0 /\ i \in 0..(mul - 1)
  BY <1>2, <1>3 DEF ChipSelects
<1> HIDE DEF starts, sizes
<1>5. /\ new.cs_size = sizes /\ new.cs_base_addr = starts /\ new.cs_in_use = 0..(mul - 1) /\ new.total_mem = total
  BY <1>3
<1> HIDE DEF new
<1>6. Addressed(new, mul, 0, total)
  BY <1>4, <1>5 DEF Addressed
<1> QED
  BY <1>1, <1>2, <1>6

\* The registers of a controller with such addresses.
Laid(regs, ways, base, size) ==
  /\ \A i \in ChipSelects : regs.cs[i].cs_n_en <=> i < ways
  /\ \A i \in ChipSelects : i < ways => regs.bnds[i] = [sa |-> base, ea |-> base + size - 1]

LEMMA RegistersLaid ==
  ASSUME NEW r, NEW opts, NEW conf, NEW dimm, NEW ways \in {0, 1, 2, 4}, NEW base \in Nat, NEW size \in Nat,
         ways > 0 => size > 0, Addressed(conf, ways, base, size),
         NEW e \in Exponents, RankIs(dimm, e),
         NEW mem \in BOOLEAN, NEW banks, OptsAre(opts, BusWidth(dimm.primary_sdram_width), mem, banks)
  PROVE  LET regs == compute_ddrc_regs(r, opts, conf, dimm)
         IN /\ Laid(regs, ways, base, size)
            /\ regs.cs[0].intlv_en = (mem /\ ways > 0)
            /\ 4 * total_mem_per_ctrl(regs) = ways * 2 ^ e
            /\ total_mem_per_ctrl(regs) \in Nat
            /\ regs.ddr_sdram_cfg.DBW \in 0..2
<1> DEFINE regs == compute_ddrc_regs(r, opts, conf, dimm)
           bw   == BusWidth(dimm.primary_sdram_width)
<1>0. ChipSelects = 0..3
  BY DEF ChipSelects
<1>1. regs.cs = CsConfigs(opts, conf, dimm) /\ regs.bnds = CsAllBounds(conf)
      /\ regs.ddr_sdram_cfg = set_ddr_sdram_cfg(opts, dimm)
  BY Zenon DEF compute_ddrc_regs
<1>2. regs.ddr_sdram_cfg.DBW = bw
<2>1. set_ddr_sdram_cfg(opts, dimm).DBW = opts.data_bus_used
  BY SMT DEF set_ddr_sdram_cfg
<2>2. opts.data_bus_used = bw
  BY DEF OptsAre
<2> HIDE DEF regs, bw
<2> QED
  BY <1>1, <2>1, <2>2
<1>3. \A i \in ChipSelects : i \in ConfiguredSelects(conf) <=> i < ways
  BY <1>0 DEF ConfiguredSelects, Addressed
<1>4. ASSUME NEW i \in ChipSelects, i < ways
      PROVE  /\ regs.cs[i].cs_n_en
             /\ regs.cs[i] = set_csn_config(i, TRUE, opts, dimm)
             /\ regs.bnds[i] = [sa |-> base, ea |-> base + size - 1]
<2>1. i \in conf.cs_in_use /\ i \in ConfiguredSelects(conf) /\ i \in 0..i
  BY <1>0, <1>3, <1>4 DEF Addressed
<2>2. (\E k \in 0..i : k \in conf.cs_in_use) = TRUE
  BY <2>1
<2>3. regs.cs[i] = set_csn_config(i, TRUE, opts, dimm)
<3>1. regs.cs[i] = set_csn_config(i, \E k \in 0..i : k \in conf.cs_in_use, opts, dimm)
  BY <1>1, <2>1 DEF CsConfigs
<3> HIDE DEF regs
<3> QED
  BY <2>2, <3>1
<2>4. regs.cs[i].cs_n_en = TRUE
  BY <2>3, SMT DEF set_csn_config
<2>5. regs.bnds[i] = CsBounds(i, conf)
  BY <1>1, <2>1 DEF CsAllBounds
<2>6. CsBounds(i, conf) = [sa |-> base, ea |-> base + size - 1]
  BY <1>4, <2>1 DEF CsBounds, Addressed
<2> HIDE DEF regs
<2> QED
  BY <2>3, <2>4, <2>5, <2>6
<1>5. ASSUME NEW i \in ChipSelects, ~(i < ways)
      PROVE  regs.cs[i] = NoSelect /\ regs.cs[i].cs_n_en = FALSE /\ regs.cs[i].intlv_en = FALSE
<2>1. regs.cs[i] = NoSelect
  BY <1>1, <1>3, <1>5 DEF CsConfigs
<2>2. NoSelect.cs_n_en = FALSE /\ NoSelect.intlv_en = FALSE
  BY Zenon DEF NoSelect
<2> HIDE DEF regs
<2> QED
  BY <2>1, <2>2
<1>6. Laid(regs, ways, base, size)
<2> HIDE DEF regs
<2> QED
  BY <1>4, <1>5 DEF Laid
<1>7. regs.cs[0].intlv_en = (mem /\ ways > 0)
<2>1. 0 \in ChipSelects
  BY <1>0
<2>2. CASE ways > 0
<3>1. regs.cs[0] = set_csn_config(0, TRUE, opts, dimm)
  BY <1>4, <2>1, <2>2
<3>2. regs.cs[0].intlv_en = opts.memctl_interleaving
  BY <3>1, SMT DEF set_csn_config
<3>3. opts.memctl_interleaving = mem
  BY DEF OptsAre
<3> HIDE DEF regs
<3> QED
  BY <2>2, <3>2, <3>3
<2>3. CASE ~(ways > 0)
<3>1. regs.cs[0].intlv_en = FALSE
  BY <1>5, <2>1, <2>3
<3> HIDE DEF regs
<3> QED
  BY <2>3, <3>1
<2> QED
  BY <2>2, <2>3
<1>8. ASSUME NEW i \in ChipSelects, regs.cs[i].cs_n_en
      PROVE  2 ^ (regs.cs[i].ba_bits + 2 + regs.cs[i].row_bits + 12 + regs.cs[i].bg_bits + regs.cs[i].col_bits + 8
                  + 3 - regs.ddr_sdram_cfg.DBW - 26) = 2 ^ (e - 2)
<2>1. i < ways
  BY <1>5, <1>8
<2>2. regs.cs[i] = set_csn_config(i, TRUE, opts, dimm)
  BY <1>4, <2>1
<2>3. /\ regs.cs[i].ba_bits = Field(dimm.bank_addr_bits, 2) /\ regs.cs[i].row_bits = Field(dimm.n_row_addr - 12, 3)
      /\ regs.cs[i].bg_bits = Field(dimm.bank_group_bits, 2) /\ regs.cs[i].col_bits = Field(dimm.n_col_addr - 8, 3)
  BY <2>2, SMT DEF set_csn_config
<2>4. /\ dimm.bank_addr_bits \in 0..3 /\ dimm.n_row_addr \in 12..19
      /\ dimm.bank_group_bits \in 0..3 /\ dimm.n_col_addr \in 8..15
      /\ dimm.primary_sdram_width \in {16, 32, 64}
      /\ dimm.n_row_addr + dimm.n_col_addr + dimm.bank_addr_bits + dimm.bank_group_bits = e + 19 + bw
  BY DEF RankIs
<2>5. PICK ba \in 0..3, row \in 12..19, bg \in 0..3, col \in 8..15 :
        /\ ba = dimm.bank_addr_bits /\ row = dimm.n_row_addr /\ bg = dimm.bank_group_bits /\ col = dimm.n_col_addr
        /\ row + col + ba + bg = e + 19 + bw
  BY <2>4
<2>6. Field(ba, 2) = ba /\ Field(row - 12, 3) = row - 12 /\ Field(bg, 2) = bg /\ Field(col - 8, 3) = col - 8
<3>1. 2 ^ 2 = 4 /\ 2 ^ 3 = 8
  BY SMT
<3>2. ba % 4 = ba /\ (row - 12) % 8 = row - 12 /\ bg % 4 = bg /\ (col - 8) % 8 = col - 8
  BY SMT
<3> QED
  BY <3>1, <3>2, SMT DEF Field
<2>7. PICK b \in Int : b = bw
<3>1. bw \in Int
  BY <2>4, SMT DEF BusWidth
<3> QED
  BY <3>1
<2>8. PICK sum : sum = regs.cs[i].ba_bits + 2 + regs.cs[i].row_bits + 12 + regs.cs[i].bg_bits
                        + regs.cs[i].col_bits + 8 + 3 - regs.ddr_sdram_cfg.DBW - 26
  OBVIOUS
<2> HIDE DEF regs, bw
<2>9. sum = ba + 2 + (row - 12) + 12 + bg + (col - 8) + 8 + 3 - b - 26
  BY <1>2, <2>3, <2>5, <2>6, <2>7, <2>8
<2>10. sum = e - 2
<3>1. e \in Int
  BY DEF Exponents
<3> QED
  BY <2>5, <2>7, <2>9, <3>1, SMT
<2> QED
  BY <2>8, <2>10
<1>9. PICK q \in Nat : q = 2 ^ (e - 2) /\ 2 ^ e = 4 * q
<2>1. e \in 0..19 /\ e - 2 \in 0..19 /\ e >= 2
  BY DEF Exponents
<2> QED
  BY <2>1, Powers
<1>10. {i \in ChipSelects : regs.cs[i].cs_n_en} = 0..(ways - 1)
<2>1. \A i \in ChipSelects : regs.cs[i].cs_n_en <=> i < ways
  BY <1>6 DEF Laid
<2> HIDE DEF regs
<2> QED
  BY <1>0, <2>1
<1>11. Cardinality(0..(ways - 1)) = ways
<2>1. ways \in 0..4
  OBVIOUS
<2> QED
  BY <2>1, SelectsCounted
<1>12. total_mem_per_ctrl(regs) = q * ways
<2>1. \A i \in ChipSelects : regs.cs[i].cs_n_en =>
        2 ^ (regs.cs[i].ba_bits + 2 + regs.cs[i].row_bits + 12 + regs.cs[i].bg_bits + regs.cs[i].col_bits + 8
             + 3 - regs.ddr_sdram_cfg.DBW - 26) = q
  BY <1>8, <1>9
<2> HIDE DEF regs
<2>2. total_mem_per_ctrl(regs) = q * Cardinality({i \in ChipSelects : regs.cs[i].cs_n_en})
  BY <2>1, RanksOfEqual
<2> QED
  BY <1>10, <1>11, <2>2
<1>13. 4 * total_mem_per_ctrl(regs) = ways * 2 ^ e /\ total_mem_per_ctrl(regs) \in Nat
<2> HIDE DEF regs
<2>1. 4 * (q * ways) = ways * (4 * q) /\ q * ways \in Nat
  OBVIOUS
<2> QED
  BY <1>9, <1>12, <2>1
<1>14. regs.ddr_sdram_cfg.DBW \in 0..2
<2>1. dimm.primary_sdram_width \in {16, 32, 64}
  BY DEF RankIs
<2>2. bw \in 0..2
  BY <2>1, SMT DEF BusWidth
<2> HIDE DEF regs, bw
<2> QED
  BY <1>2, <2>2
<1> HIDE DEF regs
<1> QED
  BY <1>6, <1>7, <1>13, <1>14 DEF regs

\* top is the end of the highest chip select that maps something.
Topped(top, w, base, size) ==
  \/ (\A c \in MainCtrls : w[c] = 0) /\ top = 1
  \/ \E c \in MainCtrls : /\ w[c] > 0 /\ top = base[c] + size[c]
                          /\ \A d \in MainCtrls : w[d] > 0 => base[d] + size[d] <= base[c] + size[c]

\* The reported size is the end of the highest chip select.
LEMMA TopIsThere ==
  ASSUME MainCtrls \in {{0}, {1}, {0, 1}}, NEW regs, NEW w, NEW base, NEW size,
         \A c \in MainCtrls : /\ w[c] \in {0, 1, 2, 4} /\ base[c] \in Nat /\ size[c] \in Nat
                              /\ Laid(regs[c], w[c], base[c], size[c])
                              /\ w[c] > 0 => size[c] >= 4 /\ base[c] # 65535
  PROVE  Topped(TopOfMemory(regs), w, base, size)
<1> DEFINE Some == {q \in MainCtrls \X ChipSelects :
                     /\ regs[q[1]].cs[q[2]].cs_n_en
                     /\ regs[q[1]].bnds[q[2]] # [sa |-> 65535, ea |-> 65535]}
           ends == {regs[p[1]].bnds[p[2]].ea : p \in Some}
           max  == CHOOSE e \in ends : \A f \in ends : f <= e
           On   == {c \in MainCtrls : w[c] > 0}
           End(c) == base[c] + size[c] - 1
<1>1. TopOfMemory(regs) = IF ends = {} THEN 1 ELSE 1 + max
  BY DEF TopOfMemory
<1>2. ASSUME NEW c \in MainCtrls, NEW i \in ChipSelects
      PROVE  /\ regs[c].cs[i].cs_n_en <=> i < w[c]
             /\ i < w[c] => regs[c].bnds[i].ea = End(c) /\ regs[c].bnds[i].sa = base[c]
<2>1. Laid(regs[c], w[c], base[c], size[c])
  OBVIOUS
<2>2. /\ regs[c].cs[i].cs_n_en <=> i < w[c]
      /\ i < w[c] => regs[c].bnds[i] = [sa |-> base[c], ea |-> base[c] + size[c] - 1]
  BY <2>1 DEF Laid
<2> QED
  BY <2>2
<1>3. 0 \in ChipSelects /\ \A i \in ChipSelects : i >= 0 /\ i \in Int
  BY DEF ChipSelects
<1>4. ASSUME NEW c \in MainCtrls, NEW i \in ChipSelects
      PROVE  <<c, i>> \in Some <=> i < w[c]
<2>1. i < w[c] => base[c] # 65535
  BY <1>3
<2>2. [sa |-> 65535, ea |-> 65535].sa = 65535
  OBVIOUS
<2>3. i < w[c] => regs[c].bnds[i] # [sa |-> 65535, ea |-> 65535]
  BY <1>2, <2>1, <2>2
<2> QED
  BY <1>2, <2>3
<1>5. \A c \in On : End(c) \in ends
<2> SUFFICES ASSUME NEW c \in On PROVE End(c) \in ends
  OBVIOUS
<2>1. <<c, 0>> \in Some
  BY <1>3, <1>4
<2>2. regs[c].bnds[0].ea = End(c)
  BY <1>2, <1>3
<2> HIDE DEF Some
<2>3. <<c, 0>>[1] = c /\ <<c, 0>>[2] = 0
  OBVIOUS
<2> QED
  BY <2>1, <2>2, <2>3
<1>6. \A f \in ends : \E c \in On : f = End(c)
<2> SUFFICES ASSUME NEW p \in Some PROVE \E c \in On : regs[p[1]].bnds[p[2]].ea = End(c)
  OBVIOUS
<2>1. p[1] \in MainCtrls /\ p[2] \in ChipSelects /\ p = <<p[1], p[2]>>
  OBVIOUS
<2>2. p[2] < w[p[1]]
  BY <1>4, <2>1
<2>3. p[1] \in On
  BY <1>3, <2>1, <2>2
<2>4. regs[p[1]].bnds[p[2]].ea = End(p[1])
  BY <1>2, <2>1, <2>2
<2> HIDE DEF Some, End, On
<2> QED
  BY <2>3, <2>4
<1>7. On \subseteq {0, 1} /\ \A c \in On : End(c) \in Int
  OBVIOUS
<1>8. \A c \in MainCtrls : w[c] > 0 <=> c \in On
  OBVIOUS
<1> HIDE DEF Some, ends
<1>9. CASE On = {}
<2>1. ends = {}
  BY <1>6, <1>9
<2>2. \A c \in MainCtrls : w[c] = 0
  BY <1>8, <1>9
<2> QED
  BY <1>1, <2>1, <2>2 DEF Topped
<1>10. CASE On # {}
<2>1. PICK c \in On : \A d \in On : End(d) <= End(c)
<3> HIDE DEF On, End
<3>0. PICK a : a \in On
  BY <1>10
<3>1. a \in On /\ a \in {0, 1}
  BY <1>7, <3>0
<3>2. CASE \A d \in On : End(d) <= End(a)
  BY <3>1, <3>2
<3>3. CASE \E d \in On : ~(End(d) <= End(a))
<4>1. PICK d \in On : ~(End(d) <= End(a))
  BY <3>3
<4>2. d \in {0, 1} /\ d # a /\ End(a) <= End(d)
  BY <1>7, <3>1, <4>1
<4>3. \A b \in On : b = a \/ b = d
  BY <1>7, <3>1, <4>2
<4>4. \A b \in On : End(b) <= End(d)
  BY <1>7, <4>2, <4>3
<4> QED
  BY <4>4
<3> QED
  BY <3>2, <3>3
<2>2. End(c) \in ends /\ \A f \in ends : f <= End(c) /\ f \in Int
<3> HIDE DEF On, End
<3> QED
  BY <1>5, <1>6, <1>7, <2>1
<2>3. max = End(c)
<3> HIDE DEF End, On
<3>1. max \in ends /\ \A f \in ends : f <= max
  BY <2>2
<3> HIDE DEF max
<3> QED
  BY <2>2, <3>1
<2> HIDE DEF max
<2>4. TopOfMemory(regs) = 1 + End(c)
  BY <1>1, <2>2, <2>3
<2>5. c \in MainCtrls /\ w[c] > 0 /\ base[c] \in Nat /\ size[c] \in Nat
  OBVIOUS
<2>6. TopOfMemory(regs) = base[c] + size[c]
  BY <2>4, <2>5
<2>7. ASSUME NEW d \in MainCtrls, w[d] > 0
      PROVE  base[d] + size[d] <= base[c] + size[c]
<3>1. End(d) <= End(c)
  BY <1>8, <2>1, <2>7
<3> QED
  BY <2>5, <3>1
<2> QED
  BY <2>5, <2>6, <2>7 DEF Topped
<1> QED
  BY <1>9, <1>10

-----------------------------------------------------------------------------
(* The registers of the controllers. *)

RegsOf(r, opts, conf, dimm) ==
  IF conf.in_use THEN compute_ddrc_regs(r, opts, conf, dimm) ELSE ZeroRegs

\* The registers map w ranks of d, from base on, for a controller that interleaves or not.
MapsRanks(regs, w, d, base, size, interleaved) ==
  /\ w \in {0, 1, 2, 4} /\ d \in Nat /\ base \in Nat /\ size \in Nat
  /\ Laid(regs, w, base, size)
  /\ regs.cs[0].intlv_en = interleaved
  /\ 4 * total_mem_per_ctrl(regs) = w * d /\ total_mem_per_ctrl(regs) \in Nat
  /\ regs.ddr_sdram_cfg.DBW \in 0..2
  /\ w > 0 => d >= 4 /\ \E k \in Nat : d = 4 * k

LEMMA NothingMapped ==
  ASSUME NEW d \in Nat, NEW base \in Nat
  PROVE  MapsRanks(ZeroRegs, 0, d, base, 0, FALSE)
<1>1. \A i \in ChipSelects : ZeroRegs.cs[i].cs_n_en = FALSE /\ ZeroRegs.cs[i].intlv_en = FALSE
  BY DEF ZeroRegs, NoSelect
<1>2. total_mem_per_ctrl(ZeroRegs) = 0 * Cardinality({i \in ChipSelects : ZeroRegs.cs[i].cs_n_en})
<2> HIDE DEF ZeroRegs
<2> QED
  BY <1>1, RanksOfEqual
<1>3. {i \in ChipSelects : ZeroRegs.cs[i].cs_n_en} = {}
  BY <1>1
<1>4. total_mem_per_ctrl(ZeroRegs) = 0
  BY <1>2, <1>3, FS_EmptySet
<1>5. 0 \in ChipSelects /\ \A i \in ChipSelects : ~(i < 0)
  BY DEF ChipSelects
<1>6. Laid(ZeroRegs, 0, base, 0)
  BY <1>1, <1>5 DEF Laid
<1>7. ZeroRegs.ddr_sdram_cfg.DBW \in 0..2
  BY DEF ZeroRegs
<1> HIDE DEF ZeroRegs
<1> QED
  BY <1>1, <1>4, <1>5, <1>6, <1>7 DEF MapsRanks

LEMMA SelectsStayInUse ==
  ASSUME NEW conf \in ParsedConf, NEW opts, NEW dimm, NEW base
  PROVE  /\ assign_intlv_addr(dimm, opts, conf, base).in_use = conf.in_use
         /\ assign_non_intlv_addr(dimm, opts, conf, base).in_use = conf.in_use
<1>1. "in_use" \in DOMAIN conf
  BY Zenon DEF ParsedConf
<1> QED
  BY <1>1, SMT DEF assign_intlv_addr, assign_non_intlv_addr

LEMMA RankHasUnits ==
  ASSUME NEW e \in Exponents
  PROVE  2 ^ e \in Nat /\ 2 ^ e >= 4 /\ \E k \in Nat : 2 ^ e = 4 * k
<1>1. e \in 0..19 /\ e >= 2 /\ e - 2 \in 0..19
  BY DEF Exponents
<1>2. 2 ^ e \in Nat /\ 2 ^ e = 4 * 2 ^ (e - 2)
  BY <1>1, Powers
<1>3. 2 ^ (e - 2) \in Nat /\ 2 ^ (e - 2) > 0
  BY <1>1, Powers
<1> DEFINE x == 2 ^ e
           y == 2 ^ (e - 2)
<1>4. x \in Nat /\ y \in Nat /\ y > 0 /\ x = 4 * y
  BY <1>2, <1>3
<1> HIDE DEF x, y
<1>5. x >= 4 /\ \E k \in Nat : x = 4 * k
  BY <1>4
<1> QED
  BY <1>4, <1>5 DEF x

\* Without an other controller to interleave with, all the ranks are mapped from base on.
StandsAlone(r, conf, opts, dimm, base) ==
  \E w \in {0, 1, 2, 4} :
    /\ MapsRanks(RegsOf(r, opts, assign_non_intlv_addr(dimm, opts, conf, base), dimm),
                 w, dimm.rank_density, base, w * dimm.rank_density, FALSE)
    /\ assign_non_intlv_addr(dimm, opts, conf, base).total_mem = w * dimm.rank_density

LEMMA MapsAlone ==
  ASSUME NEW r, NEW conf, NEW opts, NEW dimm, ReadyCtrl(conf, dimm, opts),
         opts.memctl_interleaving = FALSE, NEW base \in Nat
  PROVE  StandsAlone(r, conf, opts, dimm, base)
<1> DEFINE d   == dimm.rank_density
           bus == IF conf.in_use THEN BusWidth(dimm.primary_sdram_width) ELSE 0
           new == assign_non_intlv_addr(dimm, opts, conf, base)
<1>1. conf \in ParsedConf
  BY DEF ReadyCtrl
<1>2. new.in_use = conf.in_use
  BY <1>1, SelectsStayInUse
<1>3. CASE conf.in_use = TRUE
<2>1. PICK e \in Exponents : RankIs(dimm, e)
  BY <1>3 DEF ReadyCtrl
<2>2. d = 2 ^ e
  BY <2>1 DEF RankIs
<2>3. 2 ^ e \in Nat /\ 2 ^ e >= 4 /\ \E k \in Nat : 2 ^ e = 4 * k
  BY RankHasUnits
<2>4. conf.cs_in_use \in Populations
  BY <1>3 DEF ReadyCtrl
<2>5. PICK mem \in BOOLEAN :
        OptsAre(opts, BusWidth(dimm.primary_sdram_width), mem, auto_bank_intlv(conf.cs_in_use))
  BY <1>3 DEF ReadyCtrl
<2>6. mem = FALSE
  BY <2>5 DEF OptsAre
<2>7. BusWidth(dimm.primary_sdram_width) \in Int
<3>1. dimm.primary_sdram_width \in {16, 32, 64}
  BY <2>1 DEF RankIs
<3> QED
  BY <3>1, SMT DEF BusWidth
<2>8. PICK w \in {0, 1, 2, 4} : Addressed(new, w, base, w * d)
  BY <1>1, <2>2, <2>3, <2>4, <2>5, <2>7, AddressedAlone
<2>9. w * d \in Nat /\ (w > 0 => w * d > 0)
<3> HIDE DEF d
<3> QED
  BY <2>2, <2>3
<2> DEFINE regs == compute_ddrc_regs(r, opts, new, dimm)
       <2>10. /\ Laid(regs, w, base, w * d)
       /\ regs.cs[0].intlv_en = (mem /\ w > 0)
       /\ 4 * total_mem_per_ctrl(regs) = w * 2 ^ e
       /\ total_mem_per_ctrl(regs) \in Nat
       /\ regs.ddr_sdram_cfg.DBW \in 0..2
<3> HIDE DEF new, d
<3> DEFINE size == w * d
           bw == BusWidth(dimm.primary_sdram_width)
           banks == auto_bank_intlv(conf.cs_in_use)
<3>1. size \in Nat /\ (w > 0 => size > 0) /\ Addressed(new, w, base, size)
  BY <2>8, <2>9
<3> HIDE DEF size
<3>2. e \in Exponents /\ RankIs(dimm, e) /\ mem \in BOOLEAN /\ OptsAre(opts, bw, mem, banks)
  BY <2>1, <2>5
<3> HIDE DEF banks
<3>3. /\ Laid(regs, w, base, size)
      /\ regs.cs[0].intlv_en = (mem /\ w > 0)
      /\ 4 * total_mem_per_ctrl(regs) = w * 2 ^ e
      /\ total_mem_per_ctrl(regs) \in Nat
      /\ regs.ddr_sdram_cfg.DBW \in 0..2
  BY <3>1, <3>2, RegistersLaid, Zenon
<3> QED
  BY <3>3 DEF size
<2>11. RegsOf(r, opts, new, dimm) = regs
  BY <1>2, <1>3 DEF RegsOf
<2> HIDE DEF regs, new, d
<2>12. MapsRanks(regs, w, d, base, w * d, FALSE)
  BY <2>2, <2>3, <2>6, <2>9, <2>10 DEF MapsRanks
<2>13. new.total_mem = w * d
  BY <2>8 DEF Addressed
<2> QED
  BY <2>11, <2>12, <2>13 DEF StandsAlone, new, d
<1>4. CASE conf.in_use = FALSE
<2>1. conf.cs_in_use = {} /\ d \in Nat /\ OptsAre(opts, 0, FALSE, "none")
  BY <1>4 DEF ReadyCtrl
<2>2. new.total_mem = 0 * d
<3> DEFINE density == dimm.rank_density \div dbw_cap_shift(opts)
           none == 0
           mem  == FALSE
           ways   == BankWays(opts.ba_intlv_ctl)
           mapped == IF ways = 4 THEN ChipSelects ELSE Leading(conf.cs_in_use)
<3>1. OptsAre(opts, none, mem, "none") /\ opts.ba_intlv_ctl = "none"
  BY <2>1 DEF OptsAre
<3>2. none \in Int
  OBVIOUS
<3> HIDE DEF none, mem
<3>3. density = d
  BY <2>1, <3>1, <3>2, NotShifted
<3>4. mapped = {}
<4>1. ways = 1
  BY <3>1, WaysOf
<4>2. Leading(conf.cs_in_use) = {}
  BY <2>1, LeadingOf, Zenon
<4> QED
  BY <4>1, <4>2
<3>5. Cardinality(mapped) = 0
  BY <3>4, FS_EmptySet
<3>6. "total_mem" \in DOMAIN conf
  BY <1>1, Zenon DEF ParsedConf
<3>7. new.total_mem = Cardinality(mapped) * density
  BY <3>6 DEF assign_non_intlv_addr
<3> QED
  BY <3>3, <3>5, <3>7
<2>5. RegsOf(r, opts, new, dimm) = ZeroRegs
  BY <1>2, <1>4 DEF RegsOf
<2>6. MapsRanks(ZeroRegs, 0, d, base, 0 * d, FALSE)
<3>1. 0 * d = 0
  BY <2>1
<3> QED
  BY <2>1, <3>1, NothingMapped
<2> QED
  BY <2>2, <2>5, <2>6 DEF StandsAlone
<1>5. conf.in_use \in BOOLEAN
  BY <1>1, Zenon DEF ParsedConf
<1> QED
  BY <1>3, <1>4, <1>5 DEF StandsAlone

\* One of two controllers that interleave maps the ranks of both from 0 on.
LEMMA MapsTogether ==
  ASSUME NEW r, NEW conf, NEW opts, NEW dimm, ReadyCtrl(conf, dimm, opts), opts.memctl_interleaving = TRUE
  PROVE  /\ BankWays(opts.ba_intlv_ctl) \in {1, 2, 4}
         /\ MapsRanks(RegsOf(r, opts, assign_intlv_addr(dimm, opts, conf, 0), dimm),
                      BankWays(opts.ba_intlv_ctl), dimm.rank_density, 0,
                      2 * BankWays(opts.ba_intlv_ctl) * dimm.rank_density, TRUE)
<1> DEFINE d   == dimm.rank_density
           new == assign_intlv_addr(dimm, opts, conf, 0)
           w   == BankWays(opts.ba_intlv_ctl)
<1>1. conf \in ParsedConf
  BY DEF ReadyCtrl
<1>2. conf.in_use = TRUE
<2>1. conf.in_use = FALSE => OptsAre(opts, 0, FALSE, "none")
  BY DEF ReadyCtrl
<2>2. conf.in_use \in BOOLEAN
  BY <1>1, Zenon DEF ParsedConf
<2> QED
  BY <2>1, <2>2 DEF OptsAre
<1>3. new.in_use = TRUE
  BY <1>1, <1>2, SelectsStayInUse
<1>4. PICK e \in Exponents : RankIs(dimm, e)
  BY <1>2 DEF ReadyCtrl
<1>5. d = 2 ^ e
  BY <1>4 DEF RankIs
<1>6. 2 ^ e \in Nat /\ 2 ^ e >= 4 /\ \E k \in Nat : 2 ^ e = 4 * k
  BY RankHasUnits
<1>7. conf.cs_in_use \in Populations
  BY <1>2 DEF ReadyCtrl
<1>8. PICK mem \in BOOLEAN :
        OptsAre(opts, BusWidth(dimm.primary_sdram_width), mem, auto_bank_intlv(conf.cs_in_use))
  BY <1>2 DEF ReadyCtrl
<1>9. mem = TRUE /\ opts.ba_intlv_ctl = auto_bank_intlv(conf.cs_in_use)
  BY <1>8 DEF OptsAre
<1>10. w \in {1, 2, 4}
  BY <1>7, <1>9, WaysOf DEF Populations
<1>11. BusWidth(dimm.primary_sdram_width) \in Int
<2>1. dimm.primary_sdram_width \in {16, 32, 64}
  BY <1>4 DEF RankIs
<2> QED
  BY <2>1, SMT DEF BusWidth
<1>12. Addressed(new, w, 0, 2 * w * d)
  BY <1>1, <1>5, <1>6, <1>8, <1>9, <1>10, <1>11, AddressedTogether
<1>13. w \in {0, 1, 2, 4} /\ 2 * w * d \in Nat /\ 2 * w * d > 0 /\ w > 0 /\ 0 \in Nat
<2> HIDE DEF w, d
<2> QED
  BY <1>5, <1>6, <1>10
<1> DEFINE regs == compute_ddrc_regs(r, opts, new, dimm)
<1>14. /\ Laid(regs, w, 0, 2 * w * d)
       /\ regs.cs[0].intlv_en = (mem /\ w > 0)
       /\ 4 * total_mem_per_ctrl(regs) = w * 2 ^ e
       /\ total_mem_per_ctrl(regs) \in Nat
       /\ regs.ddr_sdram_cfg.DBW \in 0..2
<2> HIDE DEF new, d, w
<2> DEFINE size == 2 * w * d
           bw == BusWidth(dimm.primary_sdram_width)
           banks == auto_bank_intlv(conf.cs_in_use)
<2>1. size \in Nat /\ (w > 0 => size > 0) /\ Addressed(new, w, 0, size)
  BY <1>12, <1>13
<2> HIDE DEF size
<2>2. e \in Exponents /\ RankIs(dimm, e) /\ mem \in BOOLEAN /\ OptsAre(opts, bw, mem, banks)
  BY <1>4, <1>8
<2> HIDE DEF banks
<2> DEFINE base == 0
<2>3. base \in Nat /\ Addressed(new, w, base, size) /\ w \in {0, 1, 2, 4}
  BY <1>13, <2>1
<2> HIDE DEF base
<2>4. /\ Laid(regs, w, base, size)
      /\ regs.cs[0].intlv_en = (mem /\ w > 0)
      /\ 4 * total_mem_per_ctrl(regs) = w * 2 ^ e
      /\ total_mem_per_ctrl(regs) \in Nat
      /\ regs.ddr_sdram_cfg.DBW \in 0..2
  BY <2>1, <2>2, <2>3, RegistersLaid, ZenonT(60)
<2> QED
  BY <2>4 DEF size, base
<1>15. RegsOf(r, opts, new, dimm) = regs
  BY <1>3 DEF RegsOf
<1> HIDE DEF regs, new, d, w
<1>16. MapsRanks(regs, w, d, 0, 2 * w * d, TRUE)
  BY <1>5, <1>6, <1>9, <1>13, <1>14 DEF MapsRanks
<1> QED
  BY <1>10, <1>15, <1>16 DEF new, d, w

\* The controllers have the address space for themselves, one behind the other, or both share all of it.
SideBySide(ctrls, dimms, w, base, size) ==
  \A c \in ctrls : /\ size[c] = w[c] * dimms[c].rank_density
                   /\ base[c] = IF c = 1 /\ 0 \in ctrls THEN size[0] ELSE 0
Shared(ctrls, dimms, w, base, size) ==
  /\ ctrls = {0, 1} /\ w[0] = w[1] /\ w[0] > 0 /\ dimms[0].rank_density = dimms[1].rank_density
  /\ \A c \in ctrls : base[c] = 0 /\ size[c] = 2 * w[c] * dimms[c].rank_density

Placed(ctrls, regs, dimms, w, base, size, interleaved) ==
  /\ \A c \in ctrls : MapsRanks(regs[c], w[c], dimms[c].rank_density, base[c], size[c], interleaved)
  /\ \/ interleaved = FALSE /\ SideBySide(ctrls, dimms, w, base, size)
     \/ interleaved = TRUE /\ Shared(ctrls, dimms, w, base, size)

Layout ==
  \E w, base, size, interleaved :
    /\ Placed(MainCtrls, ddrPriv.regs, ddrPriv.dimms, w, base, size, interleaved)
    /\ Topped(ddrSize, w, base, size)

LEMMA ControllersAre ==
  ASSUME ddrSetup \in DdrSetups
  PROVE  MainCtrls \in {{0}, {1}, {0, 1}}
<1>1. ddrSetup.board.ctrls \subseteq {0, 1} /\ ddrSetup.board.ctrls # {}
  BY DdrAssumption
<1>2. MainCtrls \subseteq {0, 1} /\ MainCtrls # {}
  BY <1>1 DEF MainCtrls, Board
<1> QED
  BY <1>2

\* No chip select starts at the mark of an unused one, and each has at least 64 MB.
LEMMA StartsBelowMark ==
  ASSUME NEW w \in {0, 1, 2, 4}, NEW d \in Nat, w > 0 => d >= 4 /\ \E k \in Nat : d = 4 * k
  PROVE  w * d \in Nat /\ w * d # 65535 /\ (w > 0 => w * d >= 4 /\ 2 * w * d >= 4)
<1>1. CASE w = 0
  BY <1>1
<1>2. CASE w > 0
<2>1. PICK k \in Nat : d = 4 * k
  BY <1>2
<2>2. w = 1 \/ w = 2 \/ w = 4
  BY <1>2
<2> QED
  BY <1>2, <2>1, <2>2
<1> QED
  BY <1>1, <1>2

\* The registers that are computed from the addresses.
Computed(ctrls, r, opts, conf, dimms, regs) ==
  \A c \in ctrls : regs[c] = RegsOf(r, opts[c], conf[c], dimms[c])

\* assign_addresses() and compute_ddrc_regs() lay the controllers out.
LEMMA AddressesLaid ==
  ASSUME NEW ctrls \in {{0}, {1}, {0, 1}}, NEW r, NEW conf, NEW opts, NEW dimms, NEW new, NEW regs,
         \A c \in ctrls : ReadyCtrl(conf[c], dimms[c], opts[c]), Alike(ctrls, dimms, opts),
         new = assign_addresses(ctrls, opts, conf, dimms, 0),
         Computed(ctrls, r, opts, new, dimms, regs)
  PROVE  \E w, base, size, interleaved : Placed(ctrls, regs, dimms, w, base, size, interleaved)
<1> DEFINE D(c) == dimms[c].rank_density
           Assign(c, b) == IF opts[c].memctl_interleaving
                           THEN assign_intlv_addr(dimms[c], opts[c], conf[c], b)
                           ELSE assign_non_intlv_addr(dimms[c], opts[c], conf[c], b)
           alike  == \A c \in ctrls : opts[c].memctl_interleaving
           Start(c) == IF c = 0 \/ 0 \notin ctrls \/ alike THEN 0
                       ELSE 0 + Assign(0, 0).total_mem
<1>1. new = [c \in ctrls |-> Assign(c, Start(c))]
  BY DEF assign_addresses
<1>4. \A c \in ctrls : regs[c] = RegsOf(r, opts[c], new[c], dimms[c])
  BY DEF Computed
<1>2. CASE \A c \in ctrls : opts[c].memctl_interleaving = FALSE
<2> DEFINE At(c, b) == assign_non_intlv_addr(dimms[c], opts[c], conf[c], b)
           no == FALSE
<2>1. ASSUME NEW c \in ctrls, NEW b \in Nat
      PROVE  \E ways \in {0, 1, 2, 4} :
               /\ MapsRanks(RegsOf(r, opts[c], At(c, b), dimms[c]), ways, D(c), b, ways * D(c), no)
               /\ At(c, b).total_mem = ways * D(c)
<3>1. ReadyCtrl(conf[c], dimms[c], opts[c]) /\ opts[c].memctl_interleaving = FALSE
  BY <1>2
<3>2. StandsAlone(r, conf[c], opts[c], dimms[c], b)
  BY <3>1, MapsAlone
<3> QED
  BY <3>2 DEF StandsAlone
<2>2. ~alike /\ 0 \in Nat
  BY <1>2
<2>3. \A c \in ctrls : new[c] = At(c, Start(c))
  BY <1>1, <1>2
<2> HIDE DEF alike, no
<2> DEFINE Good(w, base) ==
             \A c \in ctrls : /\ MapsRanks(regs[c], w[c], D(c), base[c], w[c] * D(c), no)
                              /\ base[c] = IF c = 1 /\ 0 \in ctrls THEN w[0] * D(0) ELSE 0
<2>4. ASSUME NEW c \in ctrls, 0 \notin ctrls \/ c = 0
      PROVE  \E ways : MapsRanks(regs[c], ways, D(c), 0, ways * D(c), no) /\ At(c, 0).total_mem = ways * D(c)
<3>1. Start(c) = 0
  BY <2>4
<3>2. regs[c] = RegsOf(r, opts[c], At(c, 0), dimms[c])
  BY <1>4, <2>3, <3>1
<3> HIDE DEF At, D
<3> QED
  BY <2>1, <2>2, <3>2
<2>5. ASSUME ctrls = {0} \/ ctrls = {1}
      PROVE  \E a, b : Good(a, b)
<3>1. PICK c : ctrls = {c} /\ (c = 0 \/ c = 1)
  BY <2>5
<3>2. PICK ways : MapsRanks(regs[c], ways, D(c), 0, ways * D(c), no)
  BY <2>4, <3>1
<3> DEFINE w == [a \in ctrls |-> ways]
           base == [a \in ctrls |-> 0]
<3>3. w[c] = ways /\ base[c] = 0
  BY <3>1
<3> HIDE DEF w, base, D
<3>4. Good(w, base)
  BY <3>1, <3>2, <3>3
<3> HIDE DEF Good
<3>5. \E a, b : Good(a, b)
  BY <3>4
<3> QED
  BY <3>5
<2>6. ASSUME ctrls = {0, 1}
      PROVE  \E a, b : Good(a, b)
<3>1. PICK w0 : MapsRanks(regs[0], w0, D(0), 0, w0 * D(0), no) /\ At(0, 0).total_mem = w0 * D(0)
  BY <2>4, <2>6
<3>2. w0 * D(0) \in Nat
  BY <3>1 DEF MapsRanks
<3>3. Start(1) = w0 * D(0)
<4>1. Assign(0, 0) = At(0, 0)
  BY <1>2, <2>6
<4>2. Start(1) = 0 + Assign(0, 0).total_mem
  BY <2>2, <2>6
<4> HIDE DEF At, Assign, D, Start
<4> QED
  BY <3>1, <3>2, <4>1, <4>2
<3>4. regs[1] = RegsOf(r, opts[1], At(1, Start(1)), dimms[1])
  BY <1>4, <2>3, <2>6
<3> HIDE DEF At, D, Start
<3>5. PICK w1 : MapsRanks(regs[1], w1, D(1), w0 * D(0), w1 * D(1), no)
  BY <2>1, <2>6, <3>2, <3>3, <3>4
<3> DEFINE w == [a \in {0, 1} |-> IF a = 0 THEN w0 ELSE w1]
           base == [a \in {0, 1} |-> IF a = 0 THEN 0 ELSE w0 * D(0)]
<3>6. w[0] = w0 /\ w[1] = w1 /\ base[0] = 0 /\ base[1] = w0 * D(0)
  OBVIOUS
<3> HIDE DEF w, base
<3>7. Good(w, base)
  BY <2>6, <3>1, <3>5, <3>6
<3> HIDE DEF Good
<3>8. \E a, b : Good(a, b)
  BY <3>7
<3> QED
  BY <3>8
<2>7. PICK w, base : Good(w, base)
  BY <2>5, <2>6
<2> DEFINE size == [c \in {0, 1} |-> w[c] * D(c)]
<2>8. /\ \A c \in ctrls : size[c] = w[c] * D(c)
      /\ 0 \in ctrls => size[0] = w[0] * D(0)
  OBVIOUS
<2> HIDE DEF size
<2>9. SideBySide(ctrls, dimms, w, base, size)
  BY <2>7, <2>8 DEF SideBySide
<2>10. \A c \in ctrls : MapsRanks(regs[c], w[c], dimms[c].rank_density, base[c], size[c], no)
  BY <2>7, <2>8
<2>11. no = FALSE
  BY DEF no
<2>12. Placed(ctrls, regs, dimms, w, base, size, no)
  BY <2>9, <2>10, <2>11 DEF Placed
<2> QED
  BY <2>12
<1>3. CASE /\ ctrls = {0, 1} /\ \A c \in ctrls : opts[c].memctl_interleaving = TRUE
           /\ D(0) = D(1) /\ opts[0].ba_intlv_ctl = opts[1].ba_intlv_ctl
<2> DEFINE ways == BankWays(opts[0].ba_intlv_ctl)
           w == [c \in {0, 1} |-> ways]
           base == [c \in {0, 1} |-> 0]
           size == [c \in {0, 1} |-> 2 * ways * D(c)]
           yes == TRUE
<2>1. \A c \in ctrls : new[c] = assign_intlv_addr(dimms[c], opts[c], conf[c], 0)
  BY <1>1, <1>3
<2>2. ASSUME NEW c \in ctrls
      PROVE  MapsRanks(regs[c], ways, D(c), 0, 2 * ways * D(c), TRUE) /\ ways \in {1, 2, 4}
<3>1. /\ BankWays(opts[c].ba_intlv_ctl) \in {1, 2, 4}
      /\ MapsRanks(RegsOf(r, opts[c], assign_intlv_addr(dimms[c], opts[c], conf[c], 0), dimms[c]),
                   BankWays(opts[c].ba_intlv_ctl), D(c), 0, 2 * BankWays(opts[c].ba_intlv_ctl) * D(c), TRUE)
  BY <1>3, MapsTogether
<3>2. BankWays(opts[c].ba_intlv_ctl) = ways
  BY <1>3
<3> QED
  BY <1>4, <2>1, <3>1, <3>2
<2>3. \A c \in ctrls : MapsRanks(regs[c], w[c], D(c), base[c], size[c], yes)
  BY <1>3, <2>2
<2>4. w[0] = w[1] /\ w[0] > 0
  BY <1>3, <2>2
<2>5. \A c \in ctrls : base[c] = 0 /\ size[c] = 2 * w[c] * D(c)
  BY <1>3
<2>6. yes = TRUE
  OBVIOUS
<2> HIDE DEF w, base, size, yes
<2>7. Shared(ctrls, dimms, w, base, size)
  BY <1>3, <2>4, <2>5 DEF Shared
<2>8. Placed(ctrls, regs, dimms, w, base, size, yes)
  BY <2>3, <2>6, <2>7 DEF Placed
<2> QED
  BY <2>8
<1> QED
  BY <1>2, <1>3 DEF Alike

\* Where a controller starts is a multiple of 64 MB.
LEMMA PlacedBelowMark ==
  ASSUME NEW ctrls \in {{0}, {1}, {0, 1}}, NEW regs, NEW dimms, NEW w, NEW base, NEW size, NEW interleaved,
         Placed(ctrls, regs, dimms, w, base, size, interleaved), NEW c \in ctrls
  PROVE  /\ w[c] \in {0, 1, 2, 4} /\ base[c] \in Nat /\ size[c] \in Nat /\ Laid(regs[c], w[c], base[c], size[c])
         /\ base[c] # 65535 /\ (w[c] > 0 => size[c] >= 4)
<1> DEFINE D(a) == dimms[a].rank_density
<1>1. \A a \in ctrls : /\ w[a] \in {0, 1, 2, 4} /\ base[a] \in Nat /\ size[a] \in Nat /\ D(a) \in Nat
                       /\ Laid(regs[a], w[a], base[a], size[a])
                       /\ w[a] > 0 => D(a) >= 4 /\ \E k \in Nat : D(a) = 4 * k
  BY DEF Placed, MapsRanks
<1>2. \A a \in ctrls : w[a] * D(a) \in Nat /\ w[a] * D(a) # 65535 /\ (w[a] > 0 => w[a] * D(a) >= 4 /\ 2 * w[a] * D(a) >= 4)
  BY <1>1, StartsBelowMark
<1>3. \/ SideBySide(ctrls, dimms, w, base, size)
      \/ Shared(ctrls, dimms, w, base, size)
  BY DEF Placed
<1>4. CASE SideBySide(ctrls, dimms, w, base, size)
<2>1. size[c] = w[c] * D(c) /\ (base[c] = 0 \/ (0 \in ctrls /\ base[c] = size[0] /\ size[0] = w[0] * D(0)))
  BY <1>4 DEF SideBySide
<2> QED
  BY <1>1, <1>2, <2>1
<1>5. CASE Shared(ctrls, dimms, w, base, size)
<2>1. base[c] = 0 /\ size[c] = 2 * w[c] * D(c)
  BY <1>5 DEF Shared
<2> QED
  BY <1>1, <1>2, <2>1
<1> QED
  BY <1>3, <1>4, <1>5

LEMMA ComputeIsLaid ==
  ASSUME ddrSetup \in DdrSetups, OptionsWell, ComputeRegisters, ddrPc' = "set"
  PROVE  Layout'
<1> DEFINE conf == assign_addresses(MainCtrls, ddrPriv.opts, ddrPriv.conf, ddrPriv.dimms, 0)
           regs == [c \in MainCtrls |->
                    IF conf[c].in_use
                    THEN compute_ddrc_regs(Rate, ddrPriv.opts[c], conf[c], ddrPriv.dimms[c])
                    ELSE ZeroRegs]
<1>1. ddrPc = "addr" /\ UNCHANGED ddrSetup /\ MainCtrls' = MainCtrls
  BY DEF ComputeRegisters, MainCtrls, Board
<1>2. /\ ddrPriv' = [conf |-> conf, dimms |-> ddrPriv.dimms, opts |-> ddrPriv.opts, regs |-> regs]
      /\ ddrSize' = TopOfMemory(regs)
  BY Zenon DEF ComputeRegisters
<1>3. MainCtrls \in {{0}, {1}, {0, 1}}
  BY ControllersAre
<1>4. \A c \in MainCtrls : regs[c] = RegsOf(Rate, ddrPriv.opts[c], conf[c], ddrPriv.dimms[c])
  BY DEF RegsOf
<1>5. /\ \A c \in MainCtrls : ReadyCtrl(ddrPriv.conf[c], ddrPriv.dimms[c], ddrPriv.opts[c])
      /\ Alike(MainCtrls, ddrPriv.dimms, ddrPriv.opts)
  BY <1>1 DEF OptionsWell
<1> HIDE DEF regs
<1>6. PICK w, base, size, interleaved : Placed(MainCtrls, regs, ddrPriv.dimms, w, base, size, interleaved)
<2> DEFINE new    == conf
           before == ddrPriv.conf
           opts   == ddrPriv.opts
           dimms  == ddrPriv.dimms
           ctrls  == MainCtrls
           r      == Rate
<2>1. new = assign_addresses(ctrls, opts, before, dimms, 0) /\ ctrls \in {{0}, {1}, {0, 1}}
  BY <1>3
<2>2. Computed(ctrls, r, opts, new, dimms, regs)
  BY <1>4 DEF Computed
<2>3. (\A c \in ctrls : ReadyCtrl(before[c], dimms[c], opts[c])) /\ Alike(ctrls, dimms, opts)
  BY <1>5
<2> HIDE DEF new, before, opts, dimms, ctrls, r
<2>4. \E w, base, size, interleaved : Placed(ctrls, regs, dimms, w, base, size, interleaved)
  BY <2>1, <2>2, <2>3, AddressesLaid
<2> QED
  BY <2>4 DEF ctrls, dimms
<1>7. Topped(TopOfMemory(regs), w, base, size)
<2>1. \A c \in MainCtrls : /\ w[c] \in {0, 1, 2, 4} /\ base[c] \in Nat /\ size[c] \in Nat
                           /\ Laid(regs[c], w[c], base[c], size[c])
                           /\ w[c] > 0 => size[c] >= 4 /\ base[c] # 65535
  BY <1>3, <1>6, PlacedBelowMark
<2> QED
  BY <1>3, <2>1, TopIsThere
<1>8. ddrPriv'.regs = regs /\ ddrPriv'.dimms = ddrPriv.dimms
  BY <1>2
<1>9. Topped(ddrSize, w, base, size)'
  BY <1>1, <1>2, <1>7 DEF Topped
<1>10. Placed(MainCtrls, ddrPriv.regs, ddrPriv.dimms, w, base, size, interleaved)'
  BY <1>1, <1>6, <1>8
<1> QED
  BY <1>9, <1>10 DEF Layout

-----------------------------------------------------------------------------
(* What such a layout maps. *)

\* What is mapped, and from where to where.
MapsFrom(w, base, size) ==
  /\ \A c \in MainCtrls, i \in ChipSelects : <<c, i>> \in Mapped <=> i < w[c]
  /\ \A p \in Mapped : Span(p) = base[p[1]] .. (base[p[1]] + size[p[1]] - 1)

LEMMA MappedAre ==
  ASSUME ddrSetup \in DdrSetups, NEW w, NEW base, NEW size, NEW interleaved,
         Placed(MainCtrls, ddrPriv.regs, ddrPriv.dimms, w, base, size, interleaved)
  PROVE  MapsFrom(w, base, size)
<1>1. MainCtrls \in {{0}, {1}, {0, 1}}
  BY ControllersAre
<1>2. ASSUME NEW c \in MainCtrls
      PROVE  Laid(Regs(c), w[c], base[c], size[c]) /\ base[c] # 65535
<2> DEFINE ctrls == MainCtrls
           regs  == ddrPriv.regs
           dimms == ddrPriv.dimms
<2>1. /\ ctrls \in {{0}, {1}, {0, 1}} /\ Placed(ctrls, regs, dimms, w, base, size, interleaved) /\ c \in ctrls
      /\ Regs(c) = regs[c]
  BY <1>1 DEF Regs
<2> HIDE DEF ctrls, regs, dimms
<2> QED
  BY <2>1, PlacedBelowMark
<1>3. ASSUME NEW c \in MainCtrls, NEW i \in ChipSelects
      PROVE  /\ <<c, i>> \in Mapped <=> i < w[c]
             /\ i < w[c] => Regs(c).bnds[i].sa = base[c] /\ Regs(c).bnds[i].ea = base[c] + size[c] - 1
<2>1. /\ Regs(c).cs[i].cs_n_en <=> i < w[c]
      /\ i < w[c] => Regs(c).bnds[i] = [sa |-> base[c], ea |-> base[c] + size[c] - 1]
  BY <1>2 DEF Laid
<2>2. i < w[c] => Regs(c).bnds[i].sa = base[c] /\ Regs(c).bnds[i].ea = base[c] + size[c] - 1
  BY <2>1
<2>3. <<c, i>> \in Mapped <=> Regs(c).cs[i].cs_n_en /\ Regs(c).bnds[i].sa # 65535
  BY DEF Mapped
<2> QED
  BY <1>2, <2>1, <2>2, <2>3
<1>4. ASSUME NEW p \in Mapped
      PROVE  Span(p) = base[p[1]] .. (base[p[1]] + size[p[1]] - 1)
<2>1. p[1] \in MainCtrls /\ p[2] \in ChipSelects /\ p = <<p[1], p[2]>>
  BY DEF Mapped
<2>2. p[2] < w[p[1]]
  BY <1>3, <2>1
<2> QED
  BY <1>3, <2>1, <2>2 DEF Span
<1> QED
  BY <1>3, <1>4 DEF MapsFrom

\* The chip selects of a controller, and of both, by their number.
LEMMA MappedCounted ==
  ASSUME ddrSetup \in DdrSetups, NEW w, NEW base, NEW size, MapsFrom(w, base, size),
         \A c \in MainCtrls : w[c] \in {0, 1, 2, 4}
  PROVE  /\ IsFiniteSet(Mapped)
         /\ \A c \in MainCtrls : Cardinality({p \in Mapped : p[1] = c}) = w[c]
         /\ MainCtrls = {0, 1} /\ w[0] = w[1] => Cardinality(Mapped) = 2 * w[0]
<1> DEFINE Of(c) == {p \in Mapped : p[1] = c}
           Up(n) == 0..(n - 1)
<1>1. \A c \in MainCtrls, i \in ChipSelects : <<c, i>> \in Mapped <=> i < w[c]
  BY DEF MapsFrom
<1>2. \A p \in Mapped : p[1] \in MainCtrls /\ p[2] \in ChipSelects /\ p = <<p[1], p[2]>>
  BY DEF Mapped
<1>3. ASSUME NEW n \in {0, 1, 2, 4}
      PROVE  /\ IsFiniteSet(Up(n)) /\ Cardinality(Up(n)) = n
             /\ \A i : i \in Up(n) <=> i \in ChipSelects /\ i < n
<2>1. n \in 0..4
  OBVIOUS
<2>2. \A i : i \in Up(n) <=> i \in ChipSelects /\ i < n
  BY DEF ChipSelects
<2> QED
  BY <2>1, <2>2, SelectsCounted
<1> HIDE DEF Up
<1>4. ASSUME NEW c \in MainCtrls
      PROVE  Of(c) = {c} \X Up(w[c])
<2>1. \A i : i \in Up(w[c]) <=> i \in ChipSelects /\ i < w[c]
  BY <1>3
<2>2. ASSUME NEW p \in Of(c)
      PROVE  p \in {c} \X Up(w[c])
<3>1. p[1] = c /\ p[2] \in ChipSelects /\ p = <<c, p[2]>> /\ p[2] < w[c]
  BY <1>1, <1>2
<3> QED
  BY <2>1, <3>1
<2>3. ASSUME NEW p \in {c} \X Up(w[c])
      PROVE  p \in Of(c)
<3>1. p = <<c, p[2]>> /\ p[1] = c /\ p[2] \in Up(w[c])
  OBVIOUS
<3>2. p[2] \in ChipSelects /\ p[2] < w[c]
  BY <2>1, <3>1
<3> QED
  BY <1>1, <3>1, <3>2
<2> HIDE DEF Of
<2> QED
  BY <2>2, <2>3
<1>5. ASSUME NEW c \in MainCtrls
      PROVE  IsFiniteSet(Of(c)) /\ Cardinality(Of(c)) = w[c]
<2>1. IsFiniteSet({c}) /\ Cardinality({c}) = 1
  BY FS_Singleton
<2>2. IsFiniteSet(Up(w[c])) /\ Cardinality(Up(w[c])) = w[c]
  BY <1>3
<2>3. IsFiniteSet({c} \X Up(w[c])) /\ Cardinality({c} \X Up(w[c])) = Cardinality({c}) * Cardinality(Up(w[c]))
  BY <2>1, <2>2, FS_Product
<2> HIDE DEF Of
<2>4. 1 * w[c] = w[c]
  OBVIOUS
<2> QED
  BY <1>4, <2>1, <2>2, <2>3, <2>4
<1>6. MainCtrls \in {{0}, {1}, {0, 1}}
  BY ControllersAre
<1>7. ASSUME NEW c, MainCtrls = {c}
      PROVE  IsFiniteSet(Mapped)
<2>1. Mapped = Of(c)
  BY <1>2, <1>7
<2> HIDE DEF Of
<2> QED
  BY <1>5, <1>7, <2>1
<1>8. ASSUME MainCtrls = {0, 1}
      PROVE  IsFiniteSet(Mapped) /\ Cardinality(Mapped) = w[0] + w[1]
<2>1. Mapped = Of(0) \cup Of(1) /\ Of(0) \cap Of(1) = {}
  BY <1>2, <1>8
<2> HIDE DEF Of
<2>2. /\ IsFiniteSet(Of(0) \cup Of(1))
      /\ Cardinality(Of(0) \cup Of(1)) = Cardinality(Of(0)) + Cardinality(Of(1)) - Cardinality(Of(0) \cap Of(1))
  BY <1>5, <1>8, FS_Union
<2>3. Cardinality(Of(0)) = w[0] /\ Cardinality(Of(1)) = w[1] /\ w[0] \in Int /\ w[1] \in Int
  BY <1>5, <1>8
<2>4. Cardinality(Of(0) \cap Of(1)) = 0
  BY <2>1, FS_EmptySet
<2>5. w[0] + w[1] - 0 = w[0] + w[1]
  BY <2>3
<2> QED
  BY <2>1, <2>2, <2>3, <2>4, <2>5
<1>9. MainCtrls = {0, 1} /\ w[0] = w[1] => w[0] + w[1] = 2 * w[0]
  OBVIOUS
<1> QED
  BY <1>5, <1>6, <1>7, <1>8, <1>9

\* What a controller that is placed has, one fact by one.
LEMMA PlacedFacts ==
  ASSUME NEW w, NEW base, NEW size, NEW interleaved, NEW c \in MainCtrls,
         Placed(MainCtrls, ddrPriv.regs, ddrPriv.dimms, w, base, size, interleaved)
  PROVE  /\ w[c] \in {0, 1, 2, 4} /\ Density(c) \in Nat /\ base[c] \in Nat /\ size[c] \in Nat
         /\ 4 * total_mem_per_ctrl(Regs(c)) = w[c] * Density(c) /\ total_mem_per_ctrl(Regs(c)) \in Nat
         /\ w[c] > 0 => Density(c) >= 4
         /\ Regs(c).ddr_sdram_cfg.DBW \in 0..2 /\ Regs(c).cs[0].intlv_en = interleaved
  BY DEF Placed, MapsRanks, Regs, Density

LEMMA PlacedHow ==
  ASSUME ddrSetup \in DdrSetups, NEW w, NEW base, NEW size, NEW interleaved,
         Placed(MainCtrls, ddrPriv.regs, ddrPriv.dimms, w, base, size, interleaved)
  PROVE  \/ /\ interleaved = FALSE /\ \A c \in MainCtrls : size[c] = w[c] * Density(c)
            /\ 0 \in MainCtrls => base[0] = 0
            /\ 1 \in MainCtrls => base[1] = IF 0 \in MainCtrls THEN size[0] ELSE 0
         \/ /\ interleaved = TRUE /\ MainCtrls = {0, 1} /\ w[0] = w[1] /\ w[0] > 0 /\ Density(0) = Density(1)
            /\ base[0] = 0 /\ base[1] = 0 /\ size[0] = 2 * w[0] * Density(0) /\ size[1] = 2 * w[0] * Density(0)
<1>1. CASE interleaved = FALSE /\ SideBySide(MainCtrls, ddrPriv.dimms, w, base, size)
  BY <1>1 DEF SideBySide, Density
<1>2. CASE interleaved = TRUE /\ Shared(MainCtrls, ddrPriv.dimms, w, base, size)
  BY <1>2 DEF Shared, Density
<1> QED
  BY <1>1, <1>2 DEF Placed

\* The chip selects that decode the addresses of one have the memory for them.
LEMMA SpansAreBacked ==
  ASSUME ddrSetup \in DdrSetups, NEW w, NEW base, NEW size, NEW interleaved,
         Placed(MainCtrls, ddrPriv.regs, ddrPriv.dimms, w, base, size, interleaved), NEW p \in Mapped
  PROVE  /\ Cardinality(Span(p)) = MapThenSumSet(LAMBDA q : Density(q[1]), {q \in Mapped : Span(q) = Span(p)})
         /\ \A q \in Mapped : Span(p) = Span(q) \/ Span(p) \cap Span(q) = {}
<1> DEFINE c == p[1]
           Same == {q \in Mapped : Span(q) = Span(p)}
           Of == {q \in Mapped : q[1] = c}
<1>1. MapsFrom(w, base, size) /\ MainCtrls \in {{0}, {1}, {0, 1}}
  BY ControllersAre, MappedAre
<1>2. \A q \in Mapped : q[1] \in MainCtrls /\ q[2] \in ChipSelects /\ q = <<q[1], q[2]>>
  BY DEF Mapped
<1>3. ASSUME NEW q \in Mapped
      PROVE  /\ Span(q) = base[q[1]] .. (base[q[1]] + size[q[1]] - 1) /\ w[q[1]] > 0
             /\ Density(q[1]) >= 4 /\ Density(q[1]) \in Nat /\ base[q[1]] \in Nat /\ size[q[1]] \in Nat
             /\ w[q[1]] \in {1, 2, 4}
<2>1. q[2] < w[q[1]] /\ q[2] >= 0 /\ q[2] \in Int
<3>1. q[1] \in MainCtrls /\ q[2] \in ChipSelects /\ <<q[1], q[2]>> \in Mapped
  BY <1>2
<3>2. q[2] < w[q[1]]
  BY <1>1, <3>1 DEF MapsFrom
<3> QED
  BY <3>1, <3>2 DEF ChipSelects
<2>2. /\ w[q[1]] \in {0, 1, 2, 4} /\ Density(q[1]) \in Nat /\ base[q[1]] \in Nat /\ size[q[1]] \in Nat
      /\ w[q[1]] > 0 => Density(q[1]) >= 4
  BY <1>2, PlacedFacts
<2>3. w[q[1]] > 0 /\ w[q[1]] \in {1, 2, 4}
  BY <2>1, <2>2
<2> QED
  BY <1>1, <2>2, <2>3 DEF MapsFrom
<1>4. /\ IsFiniteSet(Mapped) /\ Cardinality(Of) = w[c]
      /\ MainCtrls = {0, 1} /\ w[0] = w[1] => Cardinality(Mapped) = 2 * w[0]
<2>1. \A a \in MainCtrls : w[a] \in {0, 1, 2, 4}
  BY PlacedFacts
<2> QED
  BY <1>1, <1>2, <2>1, MappedCounted
<1>5. c \in MainCtrls /\ (c = 0 \/ c = 1)
  BY <1>1, <1>2
<1>6. Cardinality(Span(p)) = size[c]
<2>1. base[c] \in Int /\ (base[c] + size[c] - 1) \in Int /\ base[c] <= base[c] + size[c]
  BY <1>3
<2>2. Cardinality(base[c] .. (base[c] + size[c] - 1)) =
        IF base[c] > base[c] + size[c] - 1 THEN 0 ELSE (base[c] + size[c] - 1) - base[c] + 1
  BY <2>1, FS_Interval
<2>3. (IF base[c] > base[c] + size[c] - 1 THEN 0 ELSE (base[c] + size[c] - 1) - base[c] + 1) = size[c]
  BY <1>3
<2> QED
  BY <1>3, <2>2, <2>3
<1>7. CASE /\ interleaved = FALSE /\ \A a \in MainCtrls : size[a] = w[a] * Density(a)
           /\ 0 \in MainCtrls => base[0] = 0
           /\ 1 \in MainCtrls => base[1] = IF 0 \in MainCtrls THEN size[0] ELSE 0
<2>1. ASSUME NEW q \in Mapped, q[1] = c
      PROVE  Span(q) = Span(p)
  BY <1>3, <2>1
<2>2. ASSUME NEW q \in Mapped, q[1] # c
      PROVE  Span(q) \cap Span(p) = {} /\ Span(q) # Span(p)
<3>1. /\ MainCtrls = {0, 1} /\ ((q[1] = 0 /\ c = 1) \/ (q[1] = 1 /\ c = 0))
      /\ base[0] = 0 /\ base[1] = size[0]
  BY <1>1, <1>2, <1>5, <1>7, <2>2
<3>2. base[0] \in Nat /\ base[1] \in Nat /\ size[0] \in Nat /\ size[1] \in Nat
  BY <1>3, <3>1
<3>3. size[0] > 0 /\ size[1] > 0
<4>1. /\ size[0] = w[0] * Density(0) /\ size[1] = w[1] * Density(1) /\ Density(0) \in Nat /\ Density(1) \in Nat
      /\ w[0] \in {1, 2, 4} /\ w[1] \in {1, 2, 4} /\ Density(0) >= 4 /\ Density(1) >= 4
<5>1. /\ Density(c) \in Nat /\ w[c] \in {1, 2, 4} /\ Density(c) >= 4
      /\ Density(q[1]) \in Nat /\ w[q[1]] \in {1, 2, 4} /\ Density(q[1]) >= 4
  BY <1>3
<5>2. size[0] = w[0] * Density(0) /\ size[1] = w[1] * Density(1)
  BY <1>7, <3>1
<5> HIDE DEF c
<5> QED
  BY <3>1, <5>1, <5>2
<4> QED
  BY <4>1
<3>4. /\ Span(q) = base[q[1]] .. (base[q[1]] + size[q[1]] - 1)
      /\ Span(p) = base[c] .. (base[c] + size[c] - 1)
  BY <1>3
<3>5. \A x : ~(x \in Span(q) /\ x \in Span(p))
<4>1. CASE q[1] = 0 /\ c = 1
  BY <3>1, <3>2, <3>4, <4>1
<4>2. CASE q[1] = 1 /\ c = 0
  BY <3>1, <3>2, <3>4, <4>2
<4> QED
  BY <3>1, <4>1, <4>2
<3>6. base[c] \in Span(p)
<4>1. CASE c = 0
  BY <3>2, <3>3, <3>4, <4>1
<4>2. CASE c = 1
  BY <3>2, <3>3, <3>4, <4>2
<4> QED
  BY <1>5, <4>1, <4>2
<3> HIDE DEF c
<3> QED
  BY <3>5, <3>6
<2>3. Same = Of
  BY <2>1, <2>2
<2>4. IsFiniteSet(Of)
<3>1. Of \in SUBSET Mapped
  OBVIOUS
<3> HIDE DEF Of
<3> QED
  BY <1>4, <3>1, FS_Subset
<2>5. \A q \in Of : Density(q[1]) = Density(c)
  OBVIOUS
<2>6. Density(c) \in Nat
  BY <1>3
<2> DEFINE d == Density(c)
<2>7. MapThenSumSet(LAMBDA q : Density(q[1]), Of) = d * Cardinality(Of)
<3>1. d \in Nat /\ \A q \in Of : Density(q[1]) = d
  BY <2>5, <2>6
<3> HIDE DEF Of, d
<3> QED
  BY <2>4, <3>1, DensitiesOfEqual
<2>8. d * w[c] = size[c]
<3>1. size[c] = w[c] * Density(c) /\ w[c] \in Int /\ Density(c) \in Int
  BY <1>3, <1>5, <1>7
<3> QED
  BY <3>1
<2>9. MapThenSumSet(LAMBDA q : Density(q[1]), Same) = size[c]
<3> HIDE DEF Same, Of, d, c
<3> QED
  BY <1>4, <2>3, <2>7, <2>8
<2>10. \A q \in Mapped : Span(p) = Span(q) \/ Span(p) \cap Span(q) = {}
  BY <2>1, <2>2
<2> HIDE DEF c
<2> QED
  BY <1>6, <2>9, <2>10
<1>8. CASE /\ interleaved = TRUE /\ MainCtrls = {0, 1} /\ w[0] = w[1] /\ w[0] > 0 /\ Density(0) = Density(1)
           /\ base[0] = 0 /\ base[1] = 0 /\ size[0] = 2 * w[0] * Density(0) /\ size[1] = 2 * w[0] * Density(0)
<2>1. ASSUME NEW q \in Mapped
      PROVE  Span(q) = Span(p) /\ Density(q[1]) = Density(0)
<3>1. q[1] = 0 \/ q[1] = 1
  BY <1>2, <1>8
<3> QED
  BY <1>3, <1>5, <1>8, <3>1
<2>2. Same = Mapped
  BY <2>1
<2> DEFINE d == Density(0)
<2>3. d \in Nat /\ w[0] \in {1, 2, 4}
<3>1. Density(c) \in Nat /\ w[c] \in {1, 2, 4}
  BY <1>3
<3> QED
  BY <1>5, <1>8, <3>1
<2>4. MapThenSumSet(LAMBDA q : Density(q[1]), Mapped) = d * Cardinality(Mapped)
<3>1. \A q \in Mapped : Density(q[1]) = d
  BY <2>1
<3> HIDE DEF d
<3> QED
  BY <1>4, <2>3, <3>1, DensitiesOfEqual
<2>5. d * (2 * w[0]) = 2 * w[0] * d
<3> HIDE DEF d
<3> QED
  BY <2>3
<2>6. size[c] = 2 * w[0] * d
  BY <1>5, <1>8
<2>7. Cardinality(Mapped) = 2 * w[0]
  BY <1>4, <1>8
<2>8. MapThenSumSet(LAMBDA q : Density(q[1]), Same) = size[c]
<3> HIDE DEF Same, d, c
<3> QED
  BY <2>2, <2>4, <2>5, <2>6, <2>7
<2>9. \A q \in Mapped : Span(p) = Span(q)
  BY <2>1
<2> HIDE DEF c
<2> QED
  BY <1>6, <2>8, <2>9
<1>9. \/ /\ interleaved = FALSE /\ \A a \in MainCtrls : size[a] = w[a] * Density(a)
         /\ 0 \in MainCtrls => base[0] = 0
         /\ 1 \in MainCtrls => base[1] = IF 0 \in MainCtrls THEN size[0] ELSE 0
      \/ /\ interleaved = TRUE /\ MainCtrls = {0, 1} /\ w[0] = w[1] /\ w[0] > 0 /\ Density(0) = Density(1)
         /\ base[0] = 0 /\ base[1] = 0 /\ size[0] = 2 * w[0] * Density(0) /\ size[1] = 2 * w[0] * Density(0)
  BY PlacedHow
<1> HIDE DEF Same, Of, c
<1> QED
  BY <1>7, <1>8, <1>9 DEF Same

\* No address below the reported size is left out once some chip select maps something.
LEMMA NothingLeftOut ==
  ASSUME ddrSetup \in DdrSetups, NEW w, NEW base, NEW size, NEW interleaved,
         Placed(MainCtrls, ddrPriv.regs, ddrPriv.dimms, w, base, size, interleaved),
         Topped(ddrSize, w, base, size), \E c \in MainCtrls : w[c] > 0
  PROVE  UNION {Span(p) : p \in Mapped} = 0..(ddrSize - 1)
<1> DEFINE Reach(c) == base[c] .. (base[c] + size[c] - 1)
<1>1. MapsFrom(w, base, size) /\ MainCtrls \in {{0}, {1}, {0, 1}}
  BY ControllersAre, MappedAre
<1>2. \A a \in MainCtrls : /\ w[a] \in {0, 1, 2, 4} /\ Density(a) \in Nat /\ base[a] \in Nat /\ size[a] \in Nat
                           /\ w[a] > 0 => Density(a) >= 4
  BY PlacedFacts
<1>3. \A q \in Mapped : q[1] \in MainCtrls /\ q[2] \in ChipSelects /\ q = <<q[1], q[2]>>
  BY DEF Mapped
<1>4. \A x : (\E p \in Mapped : x \in Span(p)) <=> (\E c \in MainCtrls : w[c] > 0 /\ x \in Reach(c))
<2>1. ASSUME NEW x, NEW p \in Mapped, x \in Span(p)
      PROVE  \E c \in MainCtrls : w[c] > 0 /\ x \in Reach(c)
<3>1. p[1] \in MainCtrls /\ p[2] \in ChipSelects /\ p[2] < w[p[1]] /\ Span(p) = Reach(p[1])
  BY <1>1, <1>3 DEF MapsFrom
<3>2. w[p[1]] > 0
  BY <1>2, <3>1 DEF ChipSelects
<3> QED
  BY <2>1, <3>1, <3>2
<2>2. ASSUME NEW x, NEW c \in MainCtrls, w[c] > 0, x \in Reach(c)
      PROVE  \E p \in Mapped : x \in Span(p)
<3>1. 0 \in ChipSelects
  BY DEF ChipSelects
<3>2. <<c, 0>> \in Mapped
  BY <1>1, <2>2, <3>1 DEF MapsFrom
<3>3. Span(<<c, 0>>) = Reach(c)
  BY <1>1, <3>2 DEF MapsFrom
<3> QED
  BY <2>2, <3>2, <3>3
<2> QED
  BY <2>1, <2>2
<1>5. PICK t \in MainCtrls : /\ w[t] > 0 /\ ddrSize = base[t] + size[t]
                             /\ \A a \in MainCtrls : w[a] > 0 => base[a] + size[a] <= base[t] + size[t]
  BY <1>2 DEF Topped
<1>6. ASSUME NEW x
      PROVE  (\E c \in MainCtrls : w[c] > 0 /\ x \in Reach(c)) <=> x \in 0..(ddrSize - 1)
<2>1. ASSUME NEW c \in MainCtrls, w[c] > 0, x \in Reach(c)
      PROVE  x \in 0..(ddrSize - 1)
<3>1. base[c] \in Nat /\ size[c] \in Nat /\ base[t] \in Nat /\ size[t] \in Nat
      /\ base[c] + size[c] <= base[t] + size[t]
  BY <1>2, <1>5, <2>1
<3> QED
  BY <1>5, <2>1, <3>1
<2>2. ASSUME x \in 0..(ddrSize - 1)
      PROVE  \E c \in MainCtrls : w[c] > 0 /\ x \in Reach(c)
<3>1. base[t] \in Nat /\ size[t] \in Nat /\ x \in Nat /\ x <= base[t] + size[t] - 1
  BY <1>2, <1>5, <2>2
<3>2. CASE x >= base[t]
<4>1. x \in Reach(t)
  BY <3>1, <3>2
<4> QED
  BY <1>5, <4>1
<3>3. CASE x < base[t]
<4>1. /\ t = 1 /\ 0 \in MainCtrls /\ base[0] = 0 /\ base[1] = size[0] /\ size[0] = w[0] * Density(0)
<5>1. base[t] # 0
  BY <3>1, <3>3
<5>2. t \in {0, 1}
  BY <1>1
<5>3. \/ /\ \A c \in MainCtrls : size[c] = w[c] * Density(c)
         /\ 0 \in MainCtrls => base[0] = 0
         /\ 1 \in MainCtrls => base[1] = IF 0 \in MainCtrls THEN size[0] ELSE 0
      \/ base[0] = 0 /\ base[1] = 0
  BY PlacedHow
<5> QED
  BY <5>1, <5>2, <5>3
<4>2. size[0] \in Nat /\ w[0] \in {0, 1, 2, 4} /\ Density(0) \in Nat /\ x < size[0]
  BY <1>2, <3>3, <4>1
<4>3. w[0] > 0
<5>1. w[0] = 0 => size[0] = 0
  BY <4>1, <4>2
<5> QED
  BY <3>1, <4>2, <5>1
<4>4. x \in Reach(0)
  BY <3>1, <4>1, <4>2
<4> QED
  BY <4>1, <4>3, <4>4
<3> QED
  BY <1>2, <3>1, <3>2, <3>3
<2> QED
  BY <2>1, <2>2
<1> HIDE DEF Reach
<1> QED
  BY <1>4, <1>6

-----------------------------------------------------------------------------
(* The layout is planned once and kept, and boot succeeds only where something is mapped. *)

LayoutFollows ==
  /\ ddrPc \in DdrSetPlaces \/ (ddrPc = "done" /\ ddrSize > 0) => Layout
  /\ ddrPc \in {"train", "bist"} => DInitTimeout(Regs(ddrCtrl)) > 0
  /\ ddrPc = "done" /\ ddrSize > 0 => DInitTimeout(Regs(LastCtrl)) > 0

LayoutInv == ParsedWell /\ OptionsWell /\ LayoutFollows

LEMMA TimeoutStays ==
  ASSUME UNCHANGED <<ddrSetup, ddrPriv>>
  PROVE  /\ \A c : DInitTimeout(Regs(c))' = DInitTimeout(Regs(c))
         /\ MainCtrls' = MainCtrls /\ LastCtrl' = LastCtrl
         /\ ddrSize' = ddrSize /\ Layout => Layout'
<1>1. MainCtrls' = MainCtrls /\ LastCtrl' = LastCtrl /\ Rate' = Rate
  BY DEF MainCtrls, LastCtrl, Board, Rate
<1>2. ASSUME NEW c
      PROVE  DInitTimeout(Regs(c))' = DInitTimeout(Regs(c))
<2>1. Regs(c)' = Regs(c)
  BY DEF Regs
<2> QED
  BY <1>1, <2>1 DEF DInitTimeout, PassTime
<1>3. ddrSize' = ddrSize /\ Layout => Layout'
  BY <1>1 DEF Layout, Topped
<1> QED
  BY <1>1, <1>2, <1>3

LEMMA LayoutStarts == DdrInit => LayoutInv
  BY DEF DdrInit, LayoutInv, ParsedWell, OptionsWell, LayoutFollows, DdrSetPlaces

LEMMA DramInitLaysOut ==
  ASSUME NEW setup, DramInit(setup)
  PROVE  LayoutInv'
<1>1. ddrPc' = "spd"
  BY DEF DramInit
<1> QED
  BY <1>1 DEF LayoutInv, ParsedWell, OptionsWell, LayoutFollows, DdrSetPlaces

LEMMA ParseSpdLaysOut ==
  ASSUME DdrInv, ParseSpd
  PROVE  LayoutInv'
<1>1. ddrPc = "spd" /\ (ddrPc' = "opts" \/ (ddrPc' = "done" /\ ddrSize' = EINVAL))
  BY DEF ParseSpd
<1>2. ddrSetup \in DdrSetups
  BY <1>1 DEF DdrInv, DdrTypes
<1>3. ParsedWell'
  BY <1>2, ParseSpdIsRight
<1>4. OptionsWell'
  BY <1>1 DEF OptionsWell
<1>5. LayoutFollows'
  BY <1>1 DEF LayoutFollows, DdrSetPlaces, EINVAL
<1> QED
  BY <1>3, <1>4, <1>5 DEF LayoutInv

LEMMA PopulateLaysOut ==
  ASSUME DdrInv, LayoutInv, PopulateOptions
  PROVE  LayoutInv'
<1>1. ddrPc = "opts" /\ (ddrPc' = "addr" \/ ddrPc' = "hang")
  BY DEF PopulateOptions
<1>2. ddrSetup \in DdrSetups
  BY <1>1 DEF DdrInv, DdrTypes
<1>3. MainCtrls \in SUBSET {0, 1} /\ MainCtrls # {}
  BY <1>2, ControllersAre
<1>4. OptionsWell'
  BY <1>2, <1>3, PopulateIsRight DEF LayoutInv
<1>5. ParsedWell'
  BY <1>1 DEF ParsedWell
<1>6. LayoutFollows'
  BY <1>1 DEF LayoutFollows, DdrSetPlaces
<1> QED
  BY <1>4, <1>5, <1>6 DEF LayoutInv

LEMMA ComputeLaysOut ==
  ASSUME DdrInv, LayoutInv, ComputeRegisters
  PROVE  LayoutInv'
<1>1. ddrPc = "addr" /\ (ddrPc' = "set" \/ (ddrPc' = "done" /\ ddrSize' = EINVAL))
  BY Zenon DEF ComputeRegisters
<1>2. ddrSetup \in DdrSetups
  BY <1>1 DEF DdrInv, DdrTypes
<1>3. ddrPc' = "set" => Layout'
  BY <1>2, ComputeIsLaid DEF LayoutInv
<1>4. ParsedWell' /\ OptionsWell'
  BY <1>1 DEF ParsedWell, OptionsWell
<1>5. LayoutFollows'
  BY <1>1, <1>3 DEF LayoutFollows, DdrSetPlaces, EINVAL
<1> QED
  BY <1>4, <1>5 DEF LayoutInv

\* A step of the set-up keeps the layout; it trains or tests a controller only if that has memory.
LEMMA SettingKeepsLayout ==
  ASSUME LayoutInv, UNCHANGED <<ddrSetup, ddrPriv>>, ddrPc \in DdrSetPlaces, ddrPc' \in DdrSetPlaces \cup {"done"},
         ddrSize' = ddrSize \/ (ddrPc' = "done" /\ ~(ddrSize' > 0)),
         ddrPc' \in {"train", "bist"} => ddrCtrl' = ddrCtrl /\ DInitTimeout(Regs(ddrCtrl)) > 0,
         ddrPc' = "done" /\ ddrSize' > 0 => ddrCtrl = LastCtrl /\ DInitTimeout(Regs(ddrCtrl)) > 0
  PROVE  LayoutInv'
<1>1. /\ \A c : DInitTimeout(Regs(c))' = DInitTimeout(Regs(c))
      /\ LastCtrl' = LastCtrl /\ (ddrSize' = ddrSize /\ Layout => Layout')
  BY TimeoutStays
<1>2. ParsedWell' /\ OptionsWell'
  BY DEF ParsedWell, OptionsWell, DdrSetPlaces
<1>3. Layout
  BY DEF LayoutInv, LayoutFollows
<1>4. ddrPc' \in DdrSetPlaces => ddrPc' # "done"
  BY DEF DdrSetPlaces
<1>5. ddrPc' \in DdrSetPlaces \/ (ddrPc' = "done" /\ ddrSize' > 0) => Layout'
  BY <1>1, <1>3, <1>4
<1>6. ddrPc' \in {"train", "bist"} => DInitTimeout(Regs(ddrCtrl))' > 0
<2>1. ASSUME ddrPc' \in {"train", "bist"}
      PROVE  DInitTimeout(Regs(ddrCtrl))' > 0
<3>1. ddrCtrl' = ddrCtrl /\ DInitTimeout(Regs(ddrCtrl)) > 0
  BY <2>1
<3>2. DInitTimeout(Regs(ddrCtrl))' = DInitTimeout(Regs(ddrCtrl))
<4>1. Rate' = Rate /\ Regs(ddrCtrl)' = Regs(ddrCtrl)
  BY <3>1 DEF Rate, Regs
<4> QED
  BY <4>1 DEF DInitTimeout, PassTime
<3> QED
  BY <3>1, <3>2
<2> QED
  BY <2>1
<1>7. ddrPc' = "done" /\ ddrSize' > 0 => DInitTimeout(Regs(LastCtrl))' > 0
<2>1. ASSUME ddrPc' = "done" /\ ddrSize' > 0
      PROVE  DInitTimeout(Regs(LastCtrl))' > 0
<3>1. ddrCtrl = LastCtrl /\ DInitTimeout(Regs(LastCtrl)) > 0
  BY <2>1
<3>2. DInitTimeout(Regs(LastCtrl))' = DInitTimeout(Regs(LastCtrl))
<4>1. Rate' = Rate /\ Regs(LastCtrl)' = Regs(LastCtrl)
  BY <1>1 DEF Rate, Regs
<4> QED
  BY <4>1 DEF DInitTimeout, PassTime
<3> QED
  BY <3>1, <3>2
<2> QED
  BY <2>1
<1> QED
  BY <1>2, <1>5, <1>6, <1>7 DEF LayoutInv, LayoutFollows

LEMMA GivingUpKeepsLayout ==
  ASSUME LayoutInv, IdleTimeout \/ DInitTimesOut \/ TrainingError
  PROVE  LayoutInv'
<1>1. /\ ddrPc \in DdrSetPlaces /\ UNCHANGED <<ddrSetup, ddrPriv>> /\ ReturnFromSetRegs(EIO)
  BY DEF IdleTimeout, DInitTimesOut, TrainingError, DdrSetPlaces
<1>2. (ddrPc' = "done" /\ ddrSize' = EIO) \/ (ddrPc' = "set" /\ ddrSize' = ddrSize)
  BY <1>1 DEF ReturnFromSetRegs, EIO
<1>3. ~(EIO > 0)
  BY DEF EIO
<1>4. "set" \in DdrSetPlaces
  BY DEF DdrSetPlaces
<1> QED
  BY <1>1, <1>2, <1>3, <1>4, SettingKeepsLayout

LEMMA EndBistKeepsLayout ==
  ASSUME LayoutInv, NEW outcome, EndBist(outcome)
  PROVE  LayoutInv'
<1>1. /\ ddrPc = "bist" /\ UNCHANGED <<ddrSetup, ddrPriv>>
  BY DEF EndBist
<1>2. PICK r \in {0, EIO} : ReturnFromSetRegs(r)
  BY DEF EndBist
<1>3. \/ ddrPc' = "done" /\ ddrSize' = EIO
      \/ ddrPc' = "done" /\ ddrSize' = ddrSize /\ ddrCtrl = LastCtrl
      \/ ddrPc' = "set" /\ ddrSize' = ddrSize
  BY <1>2 DEF ReturnFromSetRegs, EIO
<1>4. ~(EIO > 0)
  BY DEF EIO
<1>5. "set" \in DdrSetPlaces /\ "bist" \in DdrSetPlaces
  BY DEF DdrSetPlaces
<1>6. DInitTimeout(Regs(ddrCtrl)) > 0
  BY <1>1 DEF LayoutInv, LayoutFollows
<1> QED
  BY <1>1, <1>3, <1>4, <1>5, <1>6, SettingKeepsLayout

\* The other steps of ddrc_set_regs() stay with their controller.
LEMMA SetUpKeepsLayout ==
  ASSUME LayoutInv,
         \/ SetRegisters \/ EnableController \/ IdleInTime \/ WriteMode \/ RestartDeskew \/ DeskewInTime
         \/ RestoreDInit \/ DInitDone \/ StartBist
  PROVE  LayoutInv'
<1>1. /\ UNCHANGED <<ddrSetup, ddrPriv, ddrCtrl, ddrSize>>
      /\ ddrPc \in DdrSetPlaces /\ ddrPc' \in DdrSetPlaces
  BY DEF SetRegisters, EnableController, IdleInTime, WriteMode, RestartDeskew, DeskewInTime, RestoreDInit,
         DInitDone, StartBist, DdrSetPlaces, ModesWritten
<1>2. ddrPc' \in {"train", "bist"} => DInitTimeout(Regs(ddrCtrl)) > 0
  BY DEF SetRegisters, EnableController, IdleInTime, WriteMode, RestartDeskew, DeskewInTime, RestoreDInit,
         DInitDone, StartBist, ModesWritten, LayoutInv, LayoutFollows
<1>3. ddrPc' # "done"
  BY <1>1 DEF DdrSetPlaces
<1> QED
  BY <1>1, <1>2, <1>3, SettingKeepsLayout

LEMMA StandingKeepsLayout ==
  ASSUME LayoutInv, UNCHANGED <<ddrSetup, ddrPriv, ddrPc, ddrCtrl, ddrSize>>
  PROVE  LayoutInv'
<1>1. /\ \A c : DInitTimeout(Regs(c))' = DInitTimeout(Regs(c))
      /\ MainCtrls' = MainCtrls /\ LastCtrl' = LastCtrl /\ (Layout => Layout')
  BY TimeoutStays
<1>2. ParsedWell' /\ OptionsWell'
  BY <1>1 DEF LayoutInv, ParsedWell, OptionsWell, Board
<1>3. Rate' = Rate /\ Regs(ddrCtrl)' = Regs(ddrCtrl) /\ Regs(LastCtrl)' = Regs(LastCtrl)
  BY <1>1 DEF Rate, Regs
<1>4. DInitTimeout(Regs(ddrCtrl))' = DInitTimeout(Regs(ddrCtrl))
  BY <1>3 DEF DInitTimeout, PassTime
<1>5. DInitTimeout(Regs(LastCtrl))' = DInitTimeout(Regs(LastCtrl))
  BY <1>3 DEF DInitTimeout, PassTime
<1>6. LayoutFollows'
  BY <1>1, <1>4, <1>5 DEF LayoutInv, LayoutFollows
<1> QED
  BY <1>2, <1>6 DEF LayoutInv

LEMMA LayoutSteps == DdrInv /\ LayoutInv /\ [DdrNext]_ddrVars => LayoutInv'
<1> SUFFICES ASSUME DdrInv, LayoutInv, [DdrNext]_ddrVars PROVE LayoutInv'
  OBVIOUS
<1>1. CASE \E setup \in DdrSetups : DramInit(setup)
  BY <1>1, DramInitLaysOut
<1>2. CASE DdrCode
  BY <1>2, ParseSpdLaysOut, PopulateLaysOut, ComputeLaysOut, SetUpKeepsLayout, GivingUpKeepsLayout,
     EndBistKeepsLayout DEF DdrCode
<1>3. CASE DdrHardware
<2>1. UNCHANGED <<ddrSetup, ddrPriv, ddrPc, ddrCtrl, ddrSize>>
  BY <1>3 DEF DdrHardware, HwDataInit, HwModeSent
<2> QED
  BY <2>1, StandingKeepsLayout
<1>4. CASE UNCHANGED ddrVars
<2>1. UNCHANGED <<ddrSetup, ddrPriv, ddrPc, ddrCtrl, ddrSize>>
  BY <1>4 DEF ddrVars
<2> QED
  BY <2>1, StandingKeepsLayout
<1> QED
  BY <1>1, <1>2, <1>3, <1>4 DEF DdrNext

\* Boot waits for the initialisation of a memory only if the controller has one.
LEMMA TimeIsForMemory ==
  ASSUME ddrSetup \in DdrSetups, NEW w, NEW base, NEW size, NEW interleaved, NEW c \in MainCtrls,
         Placed(MainCtrls, ddrPriv.regs, ddrPriv.dimms, w, base, size, interleaved), DInitTimeout(Regs(c)) > 0
  PROVE  w[c] > 0
<1> DEFINE g == Regs(c)
           wide == 2 ^ (3 + g.ddr_sdram_cfg.DBW)
           total == total_mem_per_ctrl(g)
<1>1. w[c] \in {0, 1, 2, 4} /\ Density(c) \in Nat /\ 4 * total = w[c] * Density(c) /\ total \in Nat
  BY PlacedFacts
<1>2. g.ddr_sdram_cfg.DBW \in 0..2
  BY PlacedFacts
<1>3. wide \in Nat
<2>1. (3 + g.ddr_sdram_cfg.DBW) \in 0..19
  BY <1>2
<2> QED
  BY <2>1, Powers
<1>4. Rate \in Nat /\ Rate > 1
  BY ErrataKnown
<1>5. ASSUME total = 0
      PROVE  DInitTimeout(g) = 0
<2>1. PICK k \in Nat : k = IF g.cs[0].intlv_en THEN 2 ELSE 1
  OBVIOUS
<2>2. total * k = 0
  BY <1>5, <2>1
<2>3. PICK rate \in Nat : rate = (Rate * 1000000) \div 2 ^ 20 /\ rate > 0
<3>1. 2 ^ 20 = 1048576
  BY SMT
<3> QED
  BY <1>4, <3>1, SMT
<2>4. PassTime(g, 0) = (100 * (0 * wide)) \div ((Rate * 1000000) \div 2 ^ 20)
  BY DEF PassTime
<2> HIDE DEF wide
<2>5. 100 * (0 * wide) = 0
  BY <1>3
<2>6. PassTime(g, 0) = 0
  BY <2>3, <2>4, <2>5
<2>7. DInitTimeout(g) = 4 * PassTime(g, total * (IF g.cs[0].intlv_en THEN 2 ELSE 1))
  BY DEF DInitTimeout
<2> HIDE DEF g, total
<2>8. DInitTimeout(g) = 4 * PassTime(g, 0)
  BY <2>1, <2>2, <2>7
<2> QED
  BY <2>6, <2>8
<1>6. total # 0
  BY <1>5
<1> HIDE DEF total, g
<1> QED
  BY <1>1, <1>6

LEMMA LayoutIsBacked ==
  ASSUME DdrInv, LayoutInv
  PROVE  MemoryIsBacked
<1>1. Planned => ddrPc \in DdrSetPlaces
  BY DEF Planned, DdrSetPlaces
<1>2. ASSUME ddrPc \in DdrSetPlaces \/ (ddrPc = "done" /\ ddrSize > 0)
      PROVE  ddrSetup \in DdrSetups /\ Layout
  BY <1>2 DEF DdrInv, DdrTypes, LayoutInv, LayoutFollows, DdrSetPlaces
<1>3. ASSUME Planned
      PROVE  /\ \A p \in Mapped :
                  Cardinality(Span(p)) = MapThenSumSet(LAMBDA q : Density(q[1]), {q \in Mapped : Span(q) = Span(p)})
             /\ \A p, q \in Mapped : Span(p) = Span(q) \/ Span(p) \cap Span(q) = {}
             /\ \A c \in MainCtrls :
                  4 * total_mem_per_ctrl(Regs(c)) = Density(c) * Cardinality({p \in Mapped : p[1] = c})
<2>1. ddrSetup \in DdrSetups /\ Layout
  BY <1>1, <1>2, <1>3
<2>2. PICK w, base, size, interleaved :
        Placed(MainCtrls, ddrPriv.regs, ddrPriv.dimms, w, base, size, interleaved)
  BY <2>1 DEF Layout
<2>3. ASSUME NEW p \in Mapped
      PROVE  Cardinality(Span(p)) = MapThenSumSet(LAMBDA q : Density(q[1]), {q \in Mapped : Span(q) = Span(p)})
  BY <2>1, <2>2, SpansAreBacked
<2>4. ASSUME NEW p \in Mapped, NEW q \in Mapped
      PROVE  Span(p) = Span(q) \/ Span(p) \cap Span(q) = {}
  BY <2>1, <2>2, SpansAreBacked
<2>5. ASSUME NEW c \in MainCtrls
      PROVE  4 * total_mem_per_ctrl(Regs(c)) = Density(c) * Cardinality({p \in Mapped : p[1] = c})
<3>1. /\ w[c] \in {0, 1, 2, 4} /\ Density(c) \in Nat /\ 4 * total_mem_per_ctrl(Regs(c)) = w[c] * Density(c)
  BY <2>2, PlacedFacts
<3>2. \A a \in MainCtrls : w[a] \in {0, 1, 2, 4}
  BY <2>2, PlacedFacts
<3>3. MapsFrom(w, base, size)
  BY <2>1, <2>2, MappedAre
<3>4. Cardinality({p \in Mapped : p[1] = c}) = w[c]
  BY <2>1, <3>2, <3>3, MappedCounted
<3>5. w[c] * Density(c) = Density(c) * w[c]
  BY <3>1
<3> QED
  BY <3>1, <3>4, <3>5
<2> QED
  BY <2>3, <2>4, <2>5
<1>4. ASSUME ddrPc = "done" /\ ddrSize > 0
      PROVE  UNION {Span(p) : p \in Mapped} = 0..(ddrSize - 1)
<2>1. ddrSetup \in DdrSetups /\ Layout /\ DInitTimeout(Regs(LastCtrl)) > 0
  BY <1>2, <1>4 DEF LayoutInv, LayoutFollows
<2>2. PICK w, base, size, interleaved :
        /\ Placed(MainCtrls, ddrPriv.regs, ddrPriv.dimms, w, base, size, interleaved)
        /\ Topped(ddrSize, w, base, size)
  BY <2>1 DEF Layout
<2>3. LastCtrl \in MainCtrls
  BY <2>1, ControllersInOrder
<2>4. w[LastCtrl] > 0
  BY <2>1, <2>2, <2>3, TimeIsForMemory
<2> QED
  BY <2>1, <2>2, <2>3, <2>4, NothingLeftOut
<1> QED
  BY <1>3, <1>4 DEF MemoryIsBacked

\* Under test, a controller decodes as many addresses as it has memory.
LEMMA TestedIsBacked ==
  ASSUME DdrInv, LayoutInv, ddrPc = "bist"
  PROVE  Cardinality(UNION {ddrHw[ddrCtrl].bnds[i].sa .. ddrHw[ddrCtrl].bnds[i].ea : i \in Enabled(ddrCtrl)})
           = 4 * total_mem_per_ctrl(Regs(ddrCtrl))
<1> DEFINE c == ddrCtrl
           bnds == ddrHw[c].bnds
<1>1. ddrSetup \in DdrSetups /\ Layout /\ DInitTimeout(Regs(c)) > 0 /\ c \in MainCtrls
  BY DEF DdrInv, DdrTypes, LayoutInv, LayoutFollows, DdrSetPlaces
<1>2. PICK w, base, size, interleaved :
        Placed(MainCtrls, ddrPriv.regs, ddrPriv.dimms, w, base, size, interleaved)
  BY <1>1 DEF Layout
<1>3. w[c] > 0
  BY <1>1, <1>2, TimeIsForMemory
<1>4. /\ w[c] \in {0, 1, 2, 4} /\ Density(c) \in Nat /\ base[c] \in Nat /\ size[c] \in Nat
      /\ 4 * total_mem_per_ctrl(Regs(c)) = w[c] * Density(c) /\ Density(c) >= 4
      /\ Regs(c).cs[0].intlv_en = interleaved
  BY <1>1, <1>2, <1>3, PlacedFacts
<1>5. Laid(Regs(c), w[c], base[c], size[c])
  BY <1>1, <1>2 DEF Placed, MapsRanks, Regs
<1>6. /\ \A i \in ChipSelects : i \in Enabled(c) <=> i < w[c]
      /\ Enabled(c) \subseteq ChipSelects /\ 0 \in ChipSelects
      /\ \A i \in Enabled(c) : Regs(c).bnds[i] = [sa |-> base[c], ea |-> base[c] + size[c] - 1]
  BY <1>5 DEF Laid, Enabled, ChipSelects
<1>7. 0 \in Enabled(c)
  BY <1>3, <1>6
<1> DEFINE n == w[c] * Density(c)
<1>8. n \in Nat /\ n > 0
  BY <1>3, <1>4
<1>9. bnds = IF Regs(c).cs[0].intlv_en THEN Halved(Regs(c).bnds) ELSE Regs(c).bnds
  BY DEF DdrInv, BoundsFollow
<1>10. PICK a \in Nat : \A i \in Enabled(c) : bnds[i].sa = a /\ bnds[i].ea = a + n - 1
<2>1. CASE interleaved = FALSE /\ size[c] = w[c] * Density(c)
<3>1. \A i \in Enabled(c) : bnds[i] = [sa |-> base[c], ea |-> base[c] + n - 1]
  BY <1>4, <1>6, <1>9, <2>1
<3> HIDE DEF bnds, n, c
<3>2. \A i \in Enabled(c) : bnds[i].sa = base[c] /\ bnds[i].ea = base[c] + n - 1
  BY <3>1
<3> QED
  BY <1>4, <3>2
<2>2. CASE interleaved = TRUE /\ base[c] = 0 /\ size[c] = 2 * w[c] * Density(c)
<3>1. bnds = Halved(Regs(c).bnds)
  BY <1>4, <1>9, <2>2
<3> DEFINE whole == Regs(c).bnds
<3>2. ASSUME NEW i \in Enabled(c)
      PROVE  bnds[i].sa = whole[i].sa \div 2 /\ bnds[i].ea = whole[i].ea \div 2
<4>1. i \in ChipSelects /\ bnds = Halved(whole)
  BY <1>6, <3>1
<4> HIDE DEF bnds, whole
<4>2. bnds[i] = [sa |-> whole[i].sa \div 2, ea |-> whole[i].ea \div 2]
  BY <4>1 DEF Halved
<4> QED
  BY <4>2
<3>3. ASSUME NEW i \in Enabled(c)
      PROVE  whole[i].sa = 0 /\ whole[i].ea = 2 * n - 1
<4>1. 0 + size[c] - 1 = 2 * n - 1
  BY <1>4, <2>2
<4>2. whole[i] = [sa |-> base[c], ea |-> base[c] + size[c] - 1]
  BY <1>6
<4> HIDE DEF whole, n, c
<4>3. whole[i].sa = base[c] /\ whole[i].ea = base[c] + size[c] - 1
  BY <4>2
<4> QED
  BY <2>2, <4>1, <4>3
<3> HIDE DEF whole
<3> HIDE DEF bnds, n, c
<3>4. 0 \div 2 = 0 /\ (2 * n - 1) \div 2 = n - 1 /\ 0 + n - 1 = n - 1 /\ 0 \in Nat
  BY <1>8
<3>5. \A i \in Enabled(c) : bnds[i].sa = 0 /\ bnds[i].ea = 0 + n - 1
  BY <3>2, <3>3, <3>4
<3> QED
  BY <3>4, <3>5
<2>3. \/ interleaved = FALSE /\ size[c] = w[c] * Density(c)
      \/ interleaved = TRUE /\ base[c] = 0 /\ size[c] = 2 * w[c] * Density(c)
<3>1. c = 0 \/ c = 1
  BY <1>1, ControllersAre
<3>2. \/ /\ interleaved = FALSE /\ \A a \in MainCtrls : size[a] = w[a] * Density(a)
      \/ /\ interleaved = TRUE /\ w[0] = w[1] /\ Density(0) = Density(1)
         /\ base[0] = 0 /\ base[1] = 0 /\ size[0] = 2 * w[0] * Density(0) /\ size[1] = 2 * w[0] * Density(0)
  BY <1>1, <1>2, PlacedHow
<3>3. CASE interleaved = FALSE /\ \A a \in MainCtrls : size[a] = w[a] * Density(a)
  BY <1>1, <3>3
<3>4. CASE /\ interleaved = TRUE /\ w[0] = w[1] /\ Density(0) = Density(1)
           /\ base[0] = 0 /\ base[1] = 0 /\ size[0] = 2 * w[0] * Density(0) /\ size[1] = 2 * w[0] * Density(0)
<4>1. CASE c = 0
  BY <3>4, <4>1
<4>2. CASE c = 1
  BY <3>4, <4>2
<4> QED
  BY <3>1, <4>1, <4>2
<3> QED
  BY <3>2, <3>3, <3>4
<2> HIDE DEF bnds, n, c
<2> QED
  BY <2>1, <2>2, <2>3
<1> HIDE DEF bnds, n, c
<1>11. UNION {bnds[i].sa .. bnds[i].ea : i \in Enabled(c)} = a .. (a + n - 1)
<2>1. \A x \in {bnds[i].sa .. bnds[i].ea : i \in Enabled(c)} : x = a .. (a + n - 1)
  BY <1>10
<2>2. \E x \in {bnds[i].sa .. bnds[i].ea : i \in Enabled(c)} : x = a .. (a + n - 1)
  BY <1>7, <1>10
<2> QED
  BY <2>1, <2>2
<1>12. Cardinality(a .. (a + n - 1)) = n
<2>1. a \in Int /\ (a + n - 1) \in Int
  BY <1>8, <1>10
<2>2. Cardinality(a .. (a + n - 1)) = IF a > a + n - 1 THEN 0 ELSE (a + n - 1) - a + 1
  BY <2>1, FS_Interval
<2>3. (IF a > a + n - 1 THEN 0 ELSE (a + n - 1) - a + 1) = n
  BY <1>8, <1>10
<2> QED
  BY <2>2, <2>3
<1> QED
  BY <1>4, <1>11, <1>12 DEF bnds, n, c

LEMMA LayoutIsRestored ==
  ASSUME DdrInv, LayoutInv
  PROVE  BoundsAreRestored
<1>1. ASSUME Planned, NEW c \in MainCtrls, ~(ddrPc = "bist" /\ c = ddrCtrl)
      PROVE  ddrHw[c].bnds \in {ResetCtrl.bnds, Regs(c).bnds}
  BY <1>1 DEF DdrInv, BoundsFollow, Planned, DdrSetPlaces
<1>2. ASSUME ddrPc = "bist"
      PROVE  Cardinality(UNION {ddrHw[ddrCtrl].bnds[i].sa .. ddrHw[ddrCtrl].bnds[i].ea : i \in Enabled(ddrCtrl)})
               = 4 * total_mem_per_ctrl(Regs(ddrCtrl))
  BY <1>2, TestedIsBacked
<1> QED
  BY <1>1, <1>2 DEF BoundsAreRestored

LEMMA LayoutHolds == DdrSpec => [](DdrInv /\ LayoutInv)
<1>1. DdrInit => DdrInv /\ LayoutInv
  BY DdrStarts, LayoutStarts
<1>2. DdrInv /\ LayoutInv /\ [DdrNext]_ddrVars => (DdrInv /\ LayoutInv)'
  BY DdrSteps, LayoutSteps
<1> QED
  BY <1>1, <1>2, PTL DEF DdrSpec

-----------------------------------------------------------------------------
\* The address map that boot gives the controllers is the memory that is there, whatever the DIMMs, the
\* board and its errata are: chip selects that decode the same addresses have that much memory between
\* them, others do not overlap, the fields of the chip selects add up to the DIMMs, and no address below
\* the size that dram_init() reports is left out (addr.c, regs.c, init_ddr_sdram()).
THEOREM AddressMapIsBacked == DdrSpec => []MemoryIsBacked
<1>1. DdrInv /\ LayoutInv => MemoryIsBacked
  BY LayoutIsBacked
<1>. QED
  BY <1>1, LayoutHolds, PTL

\* Under test a controller decodes as many addresses as it has memory; at any other time it decodes those
\* it has after reset or those that were planned: what the test of an interleaved controller halves comes
\* back however the test ends (bist()).
THEOREM BoundsComeBack == DdrSpec => []BoundsAreRestored
<1>1. DdrInv /\ LayoutInv => BoundsAreRestored
  BY LayoutIsRestored
<1>. QED
  BY <1>1, LayoutHolds, PTL
-----------------------------------------------------------------------------
(***************************************************************************)
(* The memory is told what its controller is told.                         *)
(***************************************************************************)

\* A bus of 64 bits is used with burst chop on the fly.
Wide(dimm) == BusWidth(dimm.primary_sdram_width) = 0

\* The rates above 1200 MT/s, below which regs.c:902 reads outside its table, and up to 2402 MT/s, less those
\* at which a write recovery of 13 or 15 clocks and its extension field are not for the same number of clocks.
AgreedRates(wide) == IF wide THEN (1201..1600) \cup (1734..2402) ELSE (1201..1866) \cup (2001..2402)

\* The registers of the controller and of the memory have a code for what the DIMM asks for at rate r.
Expressible(r, dimm) ==
  /\ r \in AgreedRates(Wide(dimm))
  /\ ChooseCasLatency(r, NoOpts, dimm) \in {0} \cup {CasOfMode[n] : n \in 1..12}
  /\ dimm.tccdl_ps \in Nat /\ picos_to_mclk(r, dimm.tccdl_ps) <= 11

\* clocks last at least ps, less the 1 ps that picos_to_mclk() forgives.
LastsAt(r, clocks, ps) == clocks * 2000000 + r >= ps * r
Twr == 15000

LEMMA LongerLasts ==
  ASSUME NEW r \in Nat, NEW n \in Nat, NEW k \in Nat, k >= n, NEW ps \in Nat, LastsAt(r, n, ps)
  PROVE  LastsAt(r, k, ps)
<1>1. PICK prod \in Nat : prod = ps * r
  OBVIOUS
<1>2. n * 2000000 + r >= prod
  BY <1>1, SMT DEF LastsAt
<1>3. k * 2000000 + r >= prod
  BY <1>1, <1>2, SMT
<1> QED
  BY <1>1, <1>3, SMT DEF LastsAt

LEMMA FieldsAre ==
  ASSUME NEW v \in Int
  PROVE  Field(v, 1) = v % 2 /\ Field(v, 2) = v % 4 /\ Field(v, 3) = v % 8 /\ Field(v, 4) = v % 16 /\ Field(v, 5) = v % 32
<1>1. 2 ^ 1 = 2 /\ 2 ^ 2 = 4 /\ 2 ^ 3 = 8 /\ 2 ^ 4 = 16 /\ 2 ^ 5 = 32
  BY SMT
<1> QED
  BY <1>1 DEF Field

\* The rates that the bounds of the times are known for.
Ddr4Rates == 2..2402

LEMMA PeriodIs ==
  ASSUME NEW r \in Ddr4Rates
  PROVE  get_memory_clk_period_ps(r) \in Nat /\ get_memory_clk_period_ps(r) >= 833
<1> DEFINE q == 2000000 \div r
           m == 2000000 % r
           up == IF 2 * m >= r THEN 1 ELSE 0
<1>0. r \in Nat /\ r > 0 /\ r <= 2402
  BY SMT DEF Ddr4Rates
<1>1. get_memory_clk_period_ps(r) = q + up
  BY DEF get_memory_clk_period_ps, Flag
<1>2. q \in Nat /\ m \in Nat /\ 2000000 = r * q + m
  BY <1>0, SMT
<1>3. m < r
  BY <1>0, SMT
<1>4. q >= 832
  BY <1>0, SMT
<1> HIDE DEF q, m
<1>5. q = 832 => 2 * m >= r
  BY <1>0, <1>2, <1>3, SMT
<1>6. up \in {0, 1} /\ (up = 0 => 2 * m < r)
  BY <1>0, <1>2, SMT
<1> HIDE DEF up
<1>7. q + up >= 833
<2>1. CASE q = 832
  BY <1>0, <1>2, <1>5, <1>6, <2>1, SMT
<2>2. CASE q # 832
  BY <1>2, <1>4, <1>6, <2>2, SMT
<2> QED
  BY <2>1, <2>2
<1> QED
  BY <1>1, <1>2, <1>6, <1>7, SMT

\* Write recovery takes 15 ns.
RecoveryClocks(wide) == IF wide THEN (10..12) \cup (14..19) ELSE (10..14) \cup (16..19)

LEMMA RecoveryTakes ==
  ASSUME NEW wide \in BOOLEAN, NEW r \in AgreedRates(wide)
  PROVE  r \in Ddr4Rates /\ picos_to_mclk(r, Twr) \in RecoveryClocks(wide)
<1> DEFINE k == (15 * r) \div 2000
           m == (15 * r) % 2000
           rest == 1000 * m
           up == IF rest > r THEN 1 ELSE 0
<1>0. /\ r \in Nat /\ r >= 1201 /\ r <= 2402
      /\ r > 1600 /\ r < 1734 => ~wide
      /\ r > 1866 /\ r < 2001 => wide
  BY SMT DEF AgreedRates
<1>1. 15000 \div 1000 = 15 /\ 15000 % 1000 = 0
  BY SMT
<1>2. k \in Nat /\ m \in Nat /\ m < 2000 /\ 15 * r = 2000 * k + m
  BY <1>0, SMT
<1> HIDE DEF k, m
<1>3. rest \in Nat /\ rest \div 2000000 = 0 /\ rest % 2000000 = rest
  BY <1>2, SMT
<1>4. picos_to_mclk(r, Twr) = k + up
<2>1. (15000 % 1000) * r = 0
  BY <1>0, <1>1, SMT
<2>2. 1000 * ((15 * r) % 2000) + 0 = rest
  BY <1>2, SMT DEF m
<2>3. picos_to_mclk(r, 15000) = (15 * r) \div 2000 + rest \div 2000000 + Flag(rest % 2000000 > r)
  BY <1>1, <2>1, <2>2 DEF picos_to_mclk
<2>4. picos_to_mclk(r, 15000) = k + 0 + Flag(rest > r)
  BY <1>3, <2>3 DEF k
<2> QED
  BY <1>2, <2>4, SMT DEF Flag, Twr
<1>5. up \in {0, 1} /\ (up = 1 <=> rest > r)
  BY <1>0, <1>3, SMT
<1> HIDE DEF up
<1>6. /\ r <= 1600 => k + up \in 10..12
      /\ r > 1600 /\ r < 1734 => k + up = 13
      /\ r >= 1734 /\ r <= 1866 => k + up = 14
      /\ r > 1866 /\ r < 2001 => k + up = 15
      /\ r >= 2001 => k + up \in 16..19
<2>1. CASE r <= 1600
  BY <1>0, <1>2, <1>5, <2>1, SMT
<2>2. CASE r > 1600 /\ r < 1734
  BY <1>0, <1>2, <1>5, <2>2, SMT
<2>3. CASE r >= 1734 /\ r <= 1866
  BY <1>0, <1>2, <1>5, <2>3, SMT
<2>4. CASE r > 1866 /\ r < 2001
  BY <1>0, <1>2, <1>5, <2>4, SMT
<2>5. CASE r >= 2001
  BY <1>0, <1>2, <1>5, <2>5, SMT
<2> QED
  BY <1>0, <2>1, <2>2, <2>3, <2>4, <2>5, SMT
<1>7. PICK t : t = picos_to_mclk(r, Twr)
  OBVIOUS
<1>8. t \in RecoveryClocks(wide)
  BY <1>0, <1>4, <1>6, <1>7, SMT DEF RecoveryClocks
<1>9. r \in Ddr4Rates
  BY <1>0, SMT DEF Ddr4Rates
<1> QED
  BY <1>7, <1>8, <1>9

\* picos_to_mclk() rounds up, but for what is less than 1 ps.
LEMMA ClocksLast ==
  ASSUME NEW r \in Nat, r > 0, NEW ps \in Nat
  PROVE  picos_to_mclk(r, ps) \in Nat /\ LastsAt(r, picos_to_mclk(r, ps), ps)
<1> DEFINE q == ps \div 1000
           s == ps % 1000
           ns == q * r
           sr == s * r
           k == ns \div 2000
           m == ns % 2000
           rest == 1000 * m + sr
           k2 == rest \div 2000000
           m2 == rest % 2000000
           up == IF m2 > r THEN 1 ELSE 0
<1>1. picos_to_mclk(r, ps) = k + k2 + up
  BY DEF picos_to_mclk, Flag
<1>2. q \in Nat /\ s \in Nat /\ ps = 1000 * q + s
  BY SMT
<1> HIDE DEF q, s
<1>3. ns \in Nat /\ sr \in Nat /\ ps * r = 1000 * ns + sr
  BY <1>2, SMT
<1> HIDE DEF ns, sr
<1>4. k \in Nat /\ m \in Nat /\ ns = 2000 * k + m
  BY <1>3, SMT
<1> HIDE DEF k, m
<1>5. rest \in Nat /\ rest = 1000 * m + sr
  BY <1>3, <1>4, SMT
<1> HIDE DEF rest
<1>6. k2 \in Nat /\ m2 \in Nat /\ rest = 2000000 * k2 + m2 /\ m2 < 2000000
  BY <1>5, SMT
<1> HIDE DEF k2, m2
<1>7. ps * r = 2000000 * (k + k2) + m2
  BY <1>3, <1>4, <1>5, <1>6, SMT
<1>8. up \in {0, 1} /\ (up = 0 => m2 <= r)
  BY <1>6, SMT
<1> HIDE DEF up
<1>9. k + k2 + up \in Nat
  BY <1>4, <1>6, <1>8, SMT
<1> DEFINE prod == ps * r
<1>10. prod = 2000000 * (k + k2) + m2
  BY <1>7
<1> HIDE DEF prod
<1>11. (k + k2 + up) * 2000000 + r >= prod
<2>1. CASE up = 0
  BY <2>1, <1>4, <1>6, <1>8, <1>10, SMT
<2>2. CASE up = 1
  BY <2>2, <1>4, <1>6, <1>8, <1>10, SMT
<2> QED
  BY <2>1, <2>2, <1>8, SMT
<1>12. (k + k2 + up) * 2000000 + r >= ps * r
  BY <1>11 DEF prod
<1> QED
  BY <1>1, <1>9, <1>12, SMT DEF LastsAt

\* Write recovery, cut into a field and its extension and as a mode register has it.
Recovered(t, otf) ==
  LET w == wrrec_table[t]
  IN (((w + otf) % 16) + 16 * (((t + otf) \div 16) % 2)) - otf
RecoveryMode(t) == IF t <= 24 THEN wr_table[t - 9] ELSE 0

LEMMA RecoveryAgrees ==
  ASSUME NEW wide \in BOOLEAN, NEW t \in RecoveryClocks(wide), NEW otf, otf = IF wide THEN 2 ELSE 0
  PROVE  /\ t \in DOMAIN wrrec_table /\ wrrec_table[t] \in Nat
         /\ Recovered(t, otf) = RecoveryOfMode[RecoveryMode(t) + 1]
         /\ Recovered(t, otf) \in Nat /\ Recovered(t, otf) >= t
<1>0. /\ t \in 10..19 /\ otf \in {0, 2}
      /\ t = 13 => otf = 0
      /\ t = 15 => otf = 2
  BY SMT DEF RecoveryClocks
<1>1. /\ wrrec_table[1] = 10 /\ wrrec_table[2] = 10 /\ wrrec_table[3] = 10 /\ wrrec_table[4] = 10
      /\ wrrec_table[5] = 10 /\ wrrec_table[6] = 10 /\ wrrec_table[7] = 10 /\ wrrec_table[8] = 10
      /\ wrrec_table[9] = 10 /\ wrrec_table[10] = 10 /\ wrrec_table[11] = 12 /\ wrrec_table[12] = 12
      /\ wrrec_table[13] = 14 /\ wrrec_table[14] = 14 /\ wrrec_table[15] = 16 /\ wrrec_table[16] = 16 /\ wrrec_table[17] = 18 /\ wrrec_table[18] = 18
      /\ wrrec_table[19] = 20 /\ DOMAIN wrrec_table = 1..24
  BY SMT DEF wrrec_table
<1>2. /\ wr_table[1] = 0 /\ wr_table[2] = 1 /\ wr_table[3] = 1 /\ wr_table[4] = 2 /\ wr_table[5] = 2
      /\ wr_table[6] = 3
      /\ wr_table[7] = 3 /\ wr_table[8] = 4 /\ wr_table[9] = 4 /\ wr_table[10] = 5
  BY SMT DEF wr_table
<1>3. /\ RecoveryOfMode[1] = 10 /\ RecoveryOfMode[2] = 12 /\ RecoveryOfMode[3] = 14
      /\ RecoveryOfMode[4] = 16 /\ RecoveryOfMode[5] = 18 /\ RecoveryOfMode[6] = 20
  BY SMT DEF RecoveryOfMode
<1>4. t \in DOMAIN wrrec_table /\ wrrec_table[t] \in Nat
  BY <1>0, <1>1, SMT
<1>5. CASE t = 10
<2>1. wrrec_table[t] = 10 /\ RecoveryMode(t) = 0
  BY <1>1, <1>2, <1>5, SMT DEF RecoveryMode
<2>2. Recovered(t, otf) = 10
  BY <1>0, <1>5, <2>1, SMT DEF Recovered
<2> QED
  BY <1>3, <1>4, <1>5, <2>1, <2>2, SMT
<1>6. CASE t \in 11..12
<2>1. wrrec_table[t] = 12 /\ RecoveryMode(t) = 1
  BY <1>1, <1>2, <1>6, SMT DEF RecoveryMode
<2>2. Recovered(t, otf) = 12
  BY <1>0, <1>6, <2>1, SMT DEF Recovered
<2> QED
  BY <1>3, <1>4, <1>6, <2>1, <2>2, SMT
<1>7. CASE t \in 13..14
<2>1. wrrec_table[t] = 14 /\ RecoveryMode(t) = 2
  BY <1>1, <1>2, <1>7, SMT DEF RecoveryMode
<2>2. Recovered(t, otf) = 14
  BY <1>0, <1>7, <2>1, SMT DEF Recovered
<2> QED
  BY <1>3, <1>4, <1>7, <2>1, <2>2, SMT
<1>8. CASE t \in 15..16
<2>1. wrrec_table[t] = 16 /\ RecoveryMode(t) = 3
  BY <1>1, <1>2, <1>8, SMT DEF RecoveryMode
<2>2. Recovered(t, otf) = 16
  BY <1>0, <1>8, <2>1, SMT DEF Recovered
<2> QED
  BY <1>3, <1>4, <1>8, <2>1, <2>2, SMT
<1>9. CASE t \in 17..18
<2>1. wrrec_table[t] = 18 /\ RecoveryMode(t) = 4
  BY <1>1, <1>2, <1>9, SMT DEF RecoveryMode
<2>2. Recovered(t, otf) = 18
  BY <1>0, <1>9, <2>1, SMT DEF Recovered
<2> QED
  BY <1>3, <1>4, <1>9, <2>1, <2>2, SMT
<1>10. CASE t = 19
<2>1. wrrec_table[t] = 20 /\ RecoveryMode(t) = 5
  BY <1>1, <1>2, <1>10, SMT DEF RecoveryMode
<2>2. Recovered(t, otf) = 20
  BY <1>0, <1>10, <2>1, SMT DEF Recovered
<2> QED
  BY <1>3, <1>4, <1>10, <2>1, <2>2, SMT
<1> QED
  BY <1>0, <1>5, <1>6, <1>7, <1>8, <1>9, <1>10, SMT

\* CAS latency, likewise.
CasMode(cas) == IF cas \in 9..24 THEN cas_latency_table[cas - 8] ELSE 4

LEMMA CasAgrees ==
  ASSUME NEW cas \in {CasOfMode[n] : n \in 1..12}
  PROVE  /\ cas \in 9..24
         /\ (((cas - 1) * 2) % 16) + 2 + 16 * (((2 * cas - 1) \div 16) % 4) = 2 * cas
         /\ CasOfMode[CasMode(cas) + 1] = cas
<1>1. /\ CasOfMode[1] = 9 /\ CasOfMode[2] = 10 /\ CasOfMode[3] = 11 /\ CasOfMode[4] = 12
      /\ CasOfMode[5] = 13 /\ CasOfMode[6] = 14 /\ CasOfMode[7] = 15 /\ CasOfMode[8] = 16
      /\ CasOfMode[9] = 18 /\ CasOfMode[10] = 20 /\ CasOfMode[11] = 22 /\ CasOfMode[12] = 24
  BY SMT DEF CasOfMode
<1>2. cas \in {9, 10, 11, 12, 13, 14, 15, 16, 18, 20, 22, 24}
  BY <1>1, SMT
<1>3. /\ cas_latency_table[1] = 0 /\ cas_latency_table[2] = 1 /\ cas_latency_table[3] = 2
      /\ cas_latency_table[4] = 3 /\ cas_latency_table[5] = 4 /\ cas_latency_table[6] = 5
      /\ cas_latency_table[7] = 6 /\ cas_latency_table[8] = 7 /\ cas_latency_table[10] = 8
      /\ cas_latency_table[12] = 9 /\ cas_latency_table[14] = 10 /\ cas_latency_table[16] = 11
  BY SMT DEF cas_latency_table
<1>4. cas \in 9..24
  BY <1>2, SMT
<1>5. (((cas - 1) * 2) % 16) + 2 + 16 * (((2 * cas - 1) \div 16) % 4) = 2 * cas
  BY <1>4, SMT
<1>6. CasMode(cas) = cas_latency_table[cas - 8]
  BY <1>4 DEF CasMode
<1>7. CASE cas \in {9, 10, 11, 12, 13, 14, 15, 16}
<2>1. cas_latency_table[cas - 8] = cas - 9
  BY <1>3, <1>7, SMT
<2>2. CasOfMode[cas - 9 + 1] = cas
  BY <1>1, <1>7, SMT
<2> QED
  BY <1>4, <1>5, <1>6, <2>1, <2>2
<1>8. CASE cas = 18
  BY <1>1, <1>3, <1>4, <1>5, <1>6, <1>8, SMT
<1>9. CASE cas = 20
  BY <1>1, <1>3, <1>4, <1>5, <1>6, <1>9, SMT
<1>10. CASE cas = 22
  BY <1>1, <1>3, <1>4, <1>5, <1>6, <1>10, SMT
<1>11. CASE cas = 24
  BY <1>1, <1>3, <1>4, <1>5, <1>6, <1>11, SMT
<1> QED
  BY <1>2, <1>7, <1>8, <1>9, <1>10, <1>11

\* CAS write latency.
LEMMA WriteLatencyAgrees ==
  ASSUME NEW r \in Ddr4Rates
  PROVE  LET cwl == compute_cas_write_latency(r)
         IN cwl \in 9..12 /\ cwl % 32 = cwl /\ WriteLatencyOfMode[((cwl - 9) % 8) + 1] = cwl
<1> DEFINE cwl == compute_cas_write_latency(r)
<1>1. PICK p : p = get_memory_clk_period_ps(r)
  OBVIOUS
<1>2. p \in Nat /\ p >= 833
  BY <1>1, PeriodIs
<1>3. cwl \in 9..12
<2>1. cwl = CASE p >= 1250 -> 9 [] p \in 1070..1249 -> 10 [] p \in 935..1069 -> 11 [] p \in 833..934 -> 12
              [] p \in 750..832 -> 14 [] p \in 681..749 -> 16 [] OTHER -> 18
  BY <1>1 DEF compute_cas_write_latency
<2> HIDE DEF cwl
<2>2. CASE p >= 1250
  BY <1>2, <2>1, <2>2, SMT
<2>3. CASE p >= 1070 /\ p < 1250
  BY <1>2, <2>1, <2>3, SMT
<2>4. CASE p >= 935 /\ p < 1070
  BY <1>2, <2>1, <2>4, SMT
<2>5. CASE p < 935
  BY <1>2, <2>1, <2>5, SMT
<2> QED
  BY <1>2, <2>2, <2>3, <2>4, <2>5, SMT
<1>4. /\ WriteLatencyOfMode[1] = 9 /\ WriteLatencyOfMode[2] = 10 /\ WriteLatencyOfMode[3] = 11
      /\ WriteLatencyOfMode[4] = 12
  BY SMT DEF WriteLatencyOfMode
<1> HIDE DEF cwl
<1>5. cwl % 32 = cwl /\ (cwl - 9) % 8 = cwl - 9
  BY <1>3, SMT
<1>6. WriteLatencyOfMode[cwl - 9 + 1] = cwl
  BY <1>3, <1>4, SMT
<1> QED
  BY <1>3, <1>5, <1>6 DEF cwl

\* What the options of a controller in use leave to the DIMM.
LeftFields == {"cas_latency_override", "additive_latency_override", "otf_burst_chop_en",
               "tfaw_window_four_activates_ps"}
LeftToDimm(opts, pdimm) ==
  /\ LeftFields \subseteq DOMAIN opts
  /\ opts.cas_latency_override = FALSE /\ opts.additive_latency_override = FALSE
  /\ opts.otf_burst_chop_en = Wide(pdimm) /\ opts.tfaw_window_four_activates_ps = pdimm.tfaw_ps

Otf(opts) == IF opts.otf_burst_chop_en THEN 2 ELSE 0

\* The options of a controller leave the CAS latency to the DIMM.
LEMMA CasOfDimm ==
  ASSUME NEW r, NEW opts, NEW dimm, LeftToDimm(opts, dimm)
  PROVE  ChooseCasLatency(r, opts, dimm) = ChooseCasLatency(r, NoOpts, dimm)
<1> DEFINE first(o) == IF o.cas_latency_override THEN o.cas_latency_override_value
                       ELSE (dimm.taa_ps + get_memory_clk_period_ps(r) - 1) \div get_memory_clk_period_ps(r)
           found(f) == {n \in dimm.caslat_x : n \in f..(f + 23)}
           chosen(F) == LET cas == CHOOSE n \in F : \A k \in F : n <= k
                        IN IF F = {} \/ cas * get_memory_clk_period_ps(r) > 18000 THEN 0 ELSE cas
<1>1. NoOpts.cas_latency_override = FALSE
  BY Zenon DEF NoOpts
<1>2. first(opts) = first(NoOpts)
  BY <1>1 DEF LeftToDimm
<1>3. \A o : ChooseCasLatency(r, o, dimm) = chosen(found(first(o)))
  BY DEF ChooseCasLatency
<1> HIDE DEF first, found, chosen
<1> QED
  BY <1>2, <1>3

\* The registers that the two sides are told from.
LEMMA RegistersTell ==
  ASSUME NEW opts, NEW conf, NEW dimm, NEW r \in AgreedRates(Wide(dimm)), LeftToDimm(opts, dimm), dimm.twr_ps = Twr,
         NEW i \in ChipSelects
  PROVE  LET g == compute_ddrc_regs(r, opts, conf, dimm)
             t == picos_to_mclk(r, Twr)
             cas == ChooseCasLatency(r, NoOpts, dimm)
         IN /\ g.timing_cfg_1.CASLAT = Field((cas - 1) * 2, 4)
            /\ g.timing_cfg_3.EXT_CASLAT = Field((2 * cas - 1) \div 16, 2)
            /\ g.timing_cfg_1.WRREC = Field(wrrec_table[t] + Otf(opts), 4)
            /\ g.timing_cfg_3.EXT_WRREC = Field((t + Otf(opts)) \div 16, 1)
            /\ g.timing_cfg_2.WR_LAT = Field(compute_cas_write_latency(r), 5)
            /\ g.mr0[i].CL = CasMode(cas) /\ g.mr0[i].WR = RecoveryMode(t)
            /\ g.mr2[i].CWL = Field(compute_cas_write_latency(r) - 9, 3)
            /\ g.timing_cfg_7.PAR_LAT = g.mr5[i].PAR_LAT
            /\ g.mr6.TCCD_L = Field(picos_to_mclk(r, dimm.tccdl_ps) - 4, 3)
<1> DEFINE g == compute_ddrc_regs(r, opts, conf, dimm)
           t == picos_to_mclk(r, Twr)
           cas == ChooseCasLatency(r, NoOpts, dimm)
           cfg2 == set_ddr_sdram_cfg_2(r, opts)
           cs == CsConfigs(opts, conf, dimm)
<1>1. ChooseCasLatency(r, opts, dimm) = cas
  BY CasOfDimm
<1>2. /\ g.timing_cfg_1 = set_timing_cfg_1(r, opts, dimm, cas)
      /\ g.timing_cfg_2 = set_timing_cfg_2(r, opts, 0)
      /\ g.timing_cfg_3 = set_timing_cfg_3(r, opts, dimm, cas, 0)
      /\ g.timing_cfg_7 = set_timing_cfg_7(r, cfg2, dimm)
      /\ g.mr0 = set_ddr_sdram_mode_1_3_5_7(r, opts, dimm, cas, 0)
      /\ g.mr2 = set_ddr_sdram_mode_2_4_6_8(r, opts)
      /\ g.mr5 = set_ddr_sdram_mode_9_11_13_15(r, cfg2, cs, conf)
      /\ g.mr6 = set_ddr_sdram_mode_10_12_14_16(r, opts, dimm)
<2>1. (IF opts.additive_latency_override THEN opts.additive_latency_override_value ELSE 0) = 0
  BY DEF LeftToDimm
<2> HIDE DEF cas
<2> QED
  BY <1>1, <2>1, Zenon DEF compute_ddrc_regs
<1> HIDE DEF g
<1>3. r \in Ddr4Rates /\ t \in DOMAIN wrrec_table
<2>1. PICK wide \in BOOLEAN : wide = Wide(dimm)
  BY DEF Wide
<2>2. r \in Ddr4Rates /\ t \in RecoveryClocks(wide)
  BY <2>1, RecoveryTakes
<2> HIDE DEF t
<2>3. PICK otf : otf = IF wide THEN 2 ELSE 0
  OBVIOUS
<2> QED
  BY <2>2, <2>3, RecoveryAgrees
<1>4. /\ g.timing_cfg_1.CASLAT = Field((cas - 1) * 2, 4)
      /\ g.timing_cfg_1.WRREC = Field(wrrec_table[t] + Otf(opts), 4)
<2> HIDE DEF cas, t
<2>1. picos_to_mclk(r, dimm.twr_ps) = t
  BY DEF t
<2> QED
  BY <1>2, <1>3, <2>1, SMT DEF set_timing_cfg_1, Otf
<1>5. /\ g.timing_cfg_3.EXT_CASLAT = Field((2 * cas - 1) \div 16, 2)
      /\ g.timing_cfg_3.EXT_WRREC = Field((t + Otf(opts)) \div 16, 1)
<2> HIDE DEF cas, t
<2>1. picos_to_mclk(r, dimm.twr_ps) = t
  BY DEF t
<2> QED
  BY <1>2, <2>1, SMT DEF set_timing_cfg_3, Otf
<1>6. g.timing_cfg_2.WR_LAT = Field(compute_cas_write_latency(r), 5)
  BY <1>2, SMT DEF set_timing_cfg_2
<1>7. g.mr0[i].CL = CasMode(cas) /\ g.mr0[i].WR = RecoveryMode(t)
<2> HIDE DEF cas, t
<2>1. picos_to_mclk(r, dimm.twr_ps) = t
  BY DEF t
<2> QED
  BY <1>2, <2>1, SMT DEF set_ddr_sdram_mode_1_3_5_7, CasMode, RecoveryMode
<1>8. g.mr2[i].CWL = Field(compute_cas_write_latency(r) - 9, 3)
  BY <1>2, SMT DEF set_ddr_sdram_mode_2_4_6_8
<1>9. g.timing_cfg_7.PAR_LAT = g.mr5[i].PAR_LAT
<2>1. PICK p : p = get_memory_clk_period_ps(r)
  OBVIOUS
<2>2. p \in Nat /\ ~(p < 833)
  BY <1>3, <2>1, PeriodIs
<2> HIDE DEF cfg2, cs
<2>3. g.timing_cfg_7.PAR_LAT = IF ~cfg2.AP_EN \/ p < 833 THEN 0 ELSE IF p >= 935 THEN 4 ELSE 5
  BY <1>2, <2>1, SMT DEF set_timing_cfg_7
<2>4. g.mr5[i].PAR_LAT = IF ~cfg2.AP_EN THEN 0 ELSE IF p >= 935 THEN 4 ELSE 5
  BY <1>2, <2>1, SMT DEF set_ddr_sdram_mode_9_11_13_15
<2> QED
  BY <2>2, <2>3, <2>4, Zenon
<1>10. g.mr6.TCCD_L = Field(picos_to_mclk(r, dimm.tccdl_ps) - 4, 3)
  BY <1>2, SMT DEF set_ddr_sdram_mode_10_12_14_16
<1> QED
  BY <1>4, <1>5, <1>6, <1>7, <1>8, <1>9, <1>10 DEF g

LEMMA RegistersAgree ==
  ASSUME NEW r, NEW opts, NEW conf, NEW dimm, LeftToDimm(opts, dimm), dimm.twr_ps = Twr,
         Expressible(r, dimm), ChooseCasLatency(r, opts, dimm) # 0, NEW i \in ChipSelects
  PROVE  LET g == compute_ddrc_regs(r, opts, conf, dimm)
         IN /\ ShownCasLatency(g) = 2 * CasOfMode[g.mr0[i].CL + 1]
            /\ Shown(g.timing_cfg_1.WRREC, g.timing_cfg_3.EXT_WRREC) - Otf(opts) = RecoveryOfMode[g.mr0[i].WR + 1]
            /\ g.timing_cfg_2.WR_LAT = WriteLatencyOfMode[g.mr2[i].CWL + 1]
            /\ g.timing_cfg_7.PAR_LAT = g.mr5[i].PAR_LAT
            /\ LastsAt(r, g.mr6.TCCD_L + 4, dimm.tccdl_ps)
<1> DEFINE g == compute_ddrc_regs(r, opts, conf, dimm)
<1>0. PICK wide \in BOOLEAN : wide = Wide(dimm) /\ r \in AgreedRates(wide)
  BY DEF Wide, Expressible
<1>1. PICK t : t = picos_to_mclk(r, Twr) /\ t \in RecoveryClocks(wide) /\ r \in Ddr4Rates
  BY <1>0, RecoveryTakes
<1>2. PICK cas : cas = ChooseCasLatency(r, NoOpts, dimm)
  OBVIOUS
<1>3. PICK cwl : cwl = compute_cas_write_latency(r)
  OBVIOUS
<1>4. PICK n : n = picos_to_mclk(r, dimm.tccdl_ps)
  OBVIOUS
<1>5. /\ g.timing_cfg_1.CASLAT = Field((cas - 1) * 2, 4)
      /\ g.timing_cfg_3.EXT_CASLAT = Field((2 * cas - 1) \div 16, 2)
      /\ g.timing_cfg_1.WRREC = Field(wrrec_table[t] + Otf(opts), 4)
      /\ g.timing_cfg_3.EXT_WRREC = Field((t + Otf(opts)) \div 16, 1)
      /\ g.timing_cfg_2.WR_LAT = Field(cwl, 5)
      /\ g.mr0[i].CL = CasMode(cas) /\ g.mr0[i].WR = RecoveryMode(t)
      /\ g.mr2[i].CWL = Field(cwl - 9, 3)
      /\ g.timing_cfg_7.PAR_LAT = g.mr5[i].PAR_LAT
      /\ g.mr6.TCCD_L = Field(n - 4, 3)
  BY <1>0, <1>1, <1>2, <1>3, <1>4, RegistersTell
<1> HIDE DEF g
<1>6. cas \in {CasOfMode[k] : k \in 1..12}
  BY <1>2, CasOfDimm DEF Expressible
<1>7. ShownCasLatency(g) = 2 * CasOfMode[g.mr0[i].CL + 1]
<2>1. /\ cas \in 9..24
      /\ (((cas - 1) * 2) % 16) + 2 + 16 * (((2 * cas - 1) \div 16) % 4) = 2 * cas
      /\ CasOfMode[CasMode(cas) + 1] = cas
  BY <1>6, CasAgrees
<2>2. (cas - 1) * 2 \in Int /\ (2 * cas - 1) \div 16 \in Int
  BY <2>1, SMT
<2>3. g.timing_cfg_1.CASLAT = ((cas - 1) * 2) % 16 /\ g.timing_cfg_3.EXT_CASLAT = ((2 * cas - 1) \div 16) % 4
  BY <1>5, <2>2, FieldsAre
<2> QED
  BY <1>5, <2>1, <2>3 DEF ShownCasLatency
<1>8. Shown(g.timing_cfg_1.WRREC, g.timing_cfg_3.EXT_WRREC) - Otf(opts) = RecoveryOfMode[g.mr0[i].WR + 1]
<2>1. Otf(opts) = IF wide THEN 2 ELSE 0
  BY <1>0 DEF Otf, LeftToDimm
<2>2. PICK otf \in {0, 2} : otf = Otf(opts) /\ otf = IF wide THEN 2 ELSE 0
  BY <2>1
<2>3. /\ t \in RecoveryClocks(wide) /\ t \in Nat /\ wrrec_table[t] \in Nat
      /\ Recovered(t, otf) = RecoveryOfMode[RecoveryMode(t) + 1]
<3>1. t \in RecoveryClocks(wide)
  BY <1>0, <1>1, RecoveryTakes
<3>2. t \in Nat
  BY <3>1 DEF RecoveryClocks
<3> QED
  BY <2>2, <3>1, <3>2, RecoveryAgrees
<2>4. t \in Nat /\ wrrec_table[t] + otf \in Int /\ (t + otf) \div 16 \in Int
  BY <2>3, SMT
<2>5. g.timing_cfg_1.WRREC = (wrrec_table[t] + otf) % 16 /\ g.timing_cfg_3.EXT_WRREC = ((t + otf) \div 16) % 2
  BY <1>5, <2>2, <2>4, FieldsAre
<2>6. Shown(g.timing_cfg_1.WRREC, g.timing_cfg_3.EXT_WRREC) - otf = Recovered(t, otf)
<3>1. PICK w : w = wrrec_table[t]
  OBVIOUS
<3>2. PICK low : low = (w + otf) % 16
  OBVIOUS
<3>3. PICK ext : ext = ((t + otf) \div 16) % 2
  OBVIOUS
<3>4. Recovered(t, otf) = (low + 16 * ext) - otf
  BY <3>1, <3>2, <3>3, Zenon DEF Recovered
<3>5. g.timing_cfg_1.WRREC = low /\ g.timing_cfg_3.EXT_WRREC = ext
  BY <2>5, <3>1, <3>2, <3>3, Zenon
<3> QED
  BY <3>4, <3>5 DEF Shown
<2> QED
  BY <1>5, <2>2, <2>3, <2>6
<1>9. g.timing_cfg_2.WR_LAT = WriteLatencyOfMode[g.mr2[i].CWL + 1]
<2>1. cwl \in 9..12 /\ cwl % 32 = cwl /\ WriteLatencyOfMode[((cwl - 9) % 8) + 1] = cwl
  BY <1>1, <1>3, WriteLatencyAgrees
<2>2. cwl \in Int /\ cwl - 9 \in Int
  BY <2>1, SMT
<2>3. g.timing_cfg_2.WR_LAT = cwl % 32 /\ g.mr2[i].CWL = (cwl - 9) % 8
  BY <1>5, <2>2, FieldsAre
<2> QED
  BY <2>1, <2>3
<1>10. LastsAt(r, g.mr6.TCCD_L + 4, dimm.tccdl_ps)
<2>1. r \in Nat /\ r > 0
  BY <1>1, SMT DEF Ddr4Rates
<2>2. PICK ps \in Nat : ps = dimm.tccdl_ps
  BY DEF Expressible
<2>3. n \in Nat /\ n <= 11 /\ LastsAt(r, n, ps)
<3>1. n = picos_to_mclk(r, ps)
  BY <1>4, <2>2
<3>2. picos_to_mclk(r, ps) \in Nat /\ LastsAt(r, picos_to_mclk(r, ps), ps)
  BY <2>1, ClocksLast
<3>3. n <= 11
  BY <1>4 DEF Expressible
<3> QED
  BY <3>1, <3>2, <3>3
<2>4. g.mr6.TCCD_L = (n - 4) % 8
<3>1. n - 4 \in Int
  BY <2>3
<3> QED
  BY <1>5, <3>1, FieldsAre
<2>5. PICK k \in Nat : k = (n - 4) % 8 /\ k + 4 >= n
  BY <2>3, SMT
<2>6. LastsAt(r, k + 4, ps)
  BY <2>1, <2>3, <2>5, LongerLasts
<2> QED
  BY <2>2, <2>4, <2>5, <2>6
<1> QED
  BY <1>5, <1>7, <1>8, <1>9, <1>10 DEF g

\* Every DIMM that is described in full takes 15 ns to recover from a write.
LEMMA DescribedTimes ==
  ASSUME NEW spd, cal_dimm_params(spd).ok
  PROVE  cal_dimm_params(spd).dimm.twr_ps = Twr
<1> DEFINE org == Organization(spd) dev == Devices(spd) tim == Timings(spd)
           organized == Filled(NoDimm, org) built == Filled(organized, dev) described == Filled(built, tim)
<1>1. "twr_ps" \in DOMAIN tim /\ tim.twr_ps = Twr
  BY SMT DEF Timings, Twr
<1>2. "twr_ps" \in DOMAIN NoDimm
  BY Zenon DEF NoDimm
<1> HIDE DEF org, dev, tim
<1>3. "twr_ps" \in DOMAIN organized
  BY <1>2, FillsItsFields
<1> HIDE DEF organized
<1>4. "twr_ps" \in DOMAIN built
  BY <1>3, FillsItsFields
<1> HIDE DEF built
<1>5. described.twr_ps = Twr
  BY <1>1, <1>4, FillsItsFields
<1>6. cal_dimm_params(spd).dimm = described
  BY SMT DEF cal_dimm_params, org, dev, tim, organized, built
<1> HIDE DEF described
<1> QED
  BY <1>5, <1>6

LEMMA ParsedTimes ==
  ASSUME NEW board, NEW slot, parse_spd_ctrl(board, slot).conf.in_use
  PROVE  parse_spd_ctrl(board, slot).dimm.twr_ps = Twr
<1> DEFINE used   == {j \in board.slots : slot[j] # EmptySlot}
           first  == CHOOSE j \in used : \A k \in used : j <= k
           differ == \E k \in used : /\ \A i \in first..k : i \in used
                                     /\ slot[k] # slot[first]
           cal    == cal_dimm_params(slot[first])
           cs     == {RanksAt(board, cal.dimm.n_ranks, j) : j \in used}
           conf   == [NoConf EXCEPT !.dimm_in_use = used]
           found  == parse_spd_ctrl(board, slot)
<1>1. NoConf.in_use = FALSE /\ conf.in_use = FALSE
<2> HIDE DEF used
<2>1. "in_use" \in DOMAIN NoConf /\ NoConf.in_use = FALSE
  BY Zenon DEF NoConf
<2> QED
  BY <2>1
<1>2. CASE board.raw
<2>1. found.dimm = ddr_raw_timing
  BY <1>2, SMT DEF parse_spd_ctrl
<2>2. ddr_raw_timing.twr_ps = Twr
  BY SMT DEF ddr_raw_timing, Twr
<2> QED
  BY <2>1, <2>2
<1>3. CASE ~board.raw /\ used = {}
<2>1. found = [ok |-> TRUE, dimm |-> NoDimm, conf |-> NoConf]
  BY <1>3, Zenon DEF parse_spd_ctrl
<2> HIDE DEF found
<2>2. found.conf = NoConf
  BY <2>1
<2> QED
  BY <1>1, <2>2 DEF found
<1>4. CASE ~board.raw /\ used # {} /\ differ
<2>1. found = [ok |-> FALSE, dimm |-> NoDimm, conf |-> conf]
  BY <1>4, Zenon DEF parse_spd_ctrl
<2> HIDE DEF found, conf
<2>2. found.conf = conf
  BY <2>1
<2> QED
  BY <1>1, <2>2 DEF found
<1>5. CASE ~board.raw /\ used # {} /\ ~differ
<2>1. found = IF ~cal.ok THEN [ok |-> TRUE, dimm |-> cal.dimm, conf |-> conf]
              ELSE [ok |-> {} \notin cs, dimm |-> cal.dimm,
                    conf |-> [conf EXCEPT !.in_use = TRUE, !.cs_in_use = UNION cs]]
  BY <1>5, Zenon DEF parse_spd_ctrl
<2>2. PICK known : known = conf
  OBVIOUS
<2>3. known.in_use = FALSE
  BY <1>1, <2>2
<2>4. found.conf.in_use
  OBVIOUS
<2> DEFINE fine == {} \notin cs
           more == [conf EXCEPT !.in_use = TRUE, !.cs_in_use = UNION cs]
<2>5. PICK dimm : dimm = cal.dimm
  OBVIOUS
<2>6. found = IF ~cal.ok THEN [ok |-> TRUE, dimm |-> dimm, conf |-> known]
              ELSE [ok |-> fine, dimm |-> dimm, conf |-> more]
  BY <2>1, <2>2, <2>5, Zenon
<2> HIDE DEF found, conf, cs, fine, more
<2>7. cal.ok = TRUE \/ ~cal.ok
<3> HIDE DEF cal
<3> QED
  BY Zenon DEF cal, cal_dimm_params
<2> HIDE DEF cal
<2>8. cal.ok
  BY <2>3, <2>4, <2>6
<2>9. found.dimm = cal.dimm
  BY <2>5, <2>6, <2>8
<2>10. cal.dimm.twr_ps = Twr
  BY <2>8, DescribedTimes DEF cal
<2> QED
  BY <2>9, <2>10 DEF found
<1> QED
  BY <1>2, <1>3, <1>4, <1>5

\* The options that are left to the DIMM stay so.
LEMMA OptionsLeft ==
  ASSUME NEW r, NEW board, NEW conf, NEW pdimm, pop_ctrl_opts(r, board, conf, pdimm).ok
  PROVE  LeftToDimm(pop_ctrl_opts(r, board, conf, pdimm).opts, pdimm)
<1>. DEFINE odt  == PickOdt(board, pdimm.n_ranks, conf.cs_in_use)
            bus  == BusWidth(pdimm.primary_sdram_width)
            mem  == 0 \in conf.cs_in_use
            banks == auto_bank_intlv(conf.cs_in_use)
            otf  == Wide(pdimm)
            base == [NoOpts EXCEPT
                       !.cs_local_opts = odt, !.registered_dimm_en = pdimm.registered_dimm,
                       !.mirrored_dimm = pdimm.mirrored_dimm, !.ecc_mode = TRUE,
                       !.ecc_init_using_memctl = TRUE, !.self_refresh_in_sleep = TRUE]
            bussed == [base EXCEPT
              !.data_bus_width = bus, !.data_bus_used = bus, !.x4_en = pdimm.device_width = 4,
              !.ap_en = pdimm.registered_dimm,
              !.bstopre = picos_to_mclk(r, pdimm.refresh_rate_ps) \div 4]
            spread == [bussed EXCEPT
              !.tfaw_window_four_activates_ps = pdimm.tfaw_ps,
              !.memctl_interleaving = mem,
              !.ba_intlv_ctl = banks,
              !.quad_rank_present = pdimm.n_ranks = 4,
              !.rcw_override = pdimm.registered_dimm]
            full   == [spread EXCEPT
              !.rcw_1 = IF pdimm.registered_dimm THEN \h000a5a00 ELSE 0,
              !.rcw_2 = IF ~pdimm.registered_dimm \/ r <= 800 THEN 0
                        ELSE IF r <= 1066 THEN \h00100000 ELSE IF r <= 1333 THEN \h00200000
                        ELSE \h00300000,
              !.otf_burst_chop_en = otf,
              !.burst_length = IF bus = 0 THEN "OTF" ELSE "BL8"]
            Kept(o) == /\ LeftFields \subseteq DOMAIN o
                       /\ o.cas_latency_override = FALSE /\ o.additive_latency_override = FALSE
<1>1. Kept(NoOpts)
<2>1. LeftFields \subseteq DOMAIN NoOpts
  BY SMT DEF NoOpts, LeftFields
<2>2. NoOpts.cas_latency_override = FALSE /\ NoOpts.additive_latency_override = FALSE
  BY Zenon DEF NoOpts
<2> QED
  BY <2>1, <2>2
<1>2. Kept(base)
  BY <1>1, SMT DEF LeftFields
<1>3. odt # <<>> /\ bus # -1
  BY SMT DEF pop_ctrl_opts
<1>. HIDE DEF base
<1>4. pop_ctrl_opts(r, board, conf, pdimm).opts = full
  BY <1>3, SMT DEF pop_ctrl_opts, base, Wide
<1>. HIDE DEF odt, bus, mem, banks
<1>5. Kept(bussed)
  BY <1>2, SMT DEF LeftFields
<1>. HIDE DEF bussed
<1>6. Kept(spread) /\ spread.tfaw_window_four_activates_ps = pdimm.tfaw_ps
  BY <1>5, SMT DEF LeftFields
<1>. HIDE DEF spread
<1>. HIDE DEF otf
<1>8. Kept(full) /\ full.tfaw_window_four_activates_ps = pdimm.tfaw_ps /\ full.otf_burst_chop_en = otf
  BY <1>6, SMT DEF LeftFields
<1>. HIDE DEF full
<1>9. LeftToDimm(full, pdimm)
  BY <1>8 DEF LeftToDimm, otf
<1>. QED
  BY <1>4, <1>9

LEMMA BoardKeepsLeft ==
  ASSUME NEW r, NEW board, NEW opts, NEW conf, NEW pdimm, LeftToDimm(opts, pdimm)
  PROVE  LeftToDimm(ddr_board_options(r, board, opts, conf, pdimm), pdimm)
<1> DEFINE new == ddr_board_options(r, board, opts, conf, pdimm)
<1>1. DOMAIN new = DOMAIN opts
  BY Zenon DEF ddr_board_options
<1>2. /\ new.cas_latency_override = opts.cas_latency_override
      /\ new.additive_latency_override = opts.additive_latency_override
      /\ new.otf_burst_chop_en = opts.otf_burst_chop_en
      /\ new.tfaw_window_four_activates_ps = opts.tfaw_window_four_activates_ps
  BY Zenon DEF ddr_board_options, LeftToDimm, LeftFields
<1> HIDE DEF new
<1>3. LeftToDimm(new, pdimm)
  BY <1>1, <1>2, Zenon DEF LeftToDimm
<1> QED
  BY <1>3 DEF new

LEMMA InterleavingKeepsLeft ==
  ASSUME NEW ctrls, NEW opts, NEW conf, NEW dimms, NEW c \in ctrls, NEW pdimm, LeftToDimm(opts[c], pdimm)
  PROVE  LeftToDimm(check_interleaving_options(ctrls, opts, conf, dimms)[c], pdimm)
<1> DEFINE new == check_interleaving_options(ctrls, opts, conf, dimms)
<1>1. new[c] = opts[c] \/ new[c] = [opts[c] EXCEPT !.memctl_interleaving = FALSE]
  BY SMT DEF check_interleaving_options
<1> HIDE DEF new
<1>2. LeftToDimm(new[c], pdimm)
  BY <1>1 DEF LeftToDimm, LeftFields
<1> QED
  BY <1>2 DEF new

\* What parse_spd() has found of a controller in use.
FoundDimm(board, slot, dimm) ==
  parse_spd_ctrl(board, slot).conf.in_use /\ parse_spd_ctrl(board, slot).dimm = dimm

\* The registers of a controller in use are those for its DIMM, at a CAS latency.
ComputedFor(r, regs, opts, dimm) ==
  /\ ChooseCasLatency(r, opts, dimm) # 0
  /\ \E conf : regs = compute_ddrc_regs(r, opts, conf, dimm)

TimesInv ==
  \A c \in MainCtrls :
    /\ ddrPc \in {"opts", "addr"} \cup DdrSetPlaces /\ ddrPriv.conf[c].in_use =>
         FoundDimm(Board, ddrSetup.slots[c], ddrPriv.dimms[c])
    /\ ddrPc \in {"addr"} \cup DdrSetPlaces /\ ddrPriv.conf[c].in_use =>
         LeftToDimm(ddrPriv.opts[c], ddrPriv.dimms[c])
    /\ ddrPc \in DdrSetPlaces /\ ddrPriv.conf[c].in_use =>
         ComputedFor(Rate, Regs(c), ddrPriv.opts[c], ddrPriv.dimms[c])

LEMMA NothingFound ==
  ASSUME ddrPc' \notin {"opts", "addr"} \cup DdrSetPlaces
  PROVE  TimesInv'
  BY DEF TimesInv

LEMMA TimesStay ==
  ASSUME TimesInv, UNCHANGED <<ddrSetup, ddrPriv>>,
         ddrPc' = ddrPc \/ (ddrPc \in DdrSetPlaces /\ ddrPc' \in DdrSetPlaces \cup {"done"})
  PROVE  TimesInv'
<1>1. MainCtrls' = MainCtrls /\ Board' = Board /\ Rate' = Rate /\ \A c : Regs(c)' = Regs(c)
  BY DEF MainCtrls, Board, Rate, Regs
<1>2. CASE ddrPc' = ddrPc
  BY <1>1, <1>2 DEF TimesInv
<1>3. CASE ddrPc \in DdrSetPlaces /\ ddrPc' \in DdrSetPlaces
  BY <1>1, <1>3 DEF TimesInv
<1>4. CASE ddrPc' = "done"
  BY <1>4, NothingFound DEF DdrSetPlaces
<1> QED
  BY <1>2, <1>3, <1>4

LEMMA ParsingTimes ==
  ASSUME ParseSpd
  PROVE  TimesInv'
<1> DEFINE found == [c \in MainCtrls |-> parse_spd_ctrl(Board, ddrSetup.slots[c])]
<1>1. UNCHANGED ddrSetup /\ MainCtrls' = MainCtrls /\ Board' = Board /\ ddrPc' \in {"opts", "done"}
  BY DEF ParseSpd, MainCtrls, Board
<1>2. CASE ddrPc' = "done"
  BY <1>2, NothingFound DEF DdrSetPlaces
<1>3. CASE ddrPc' = "opts"
<2>1. ddrPriv' = [conf |-> [c \in MainCtrls |-> found[c].conf], dimms |-> [c \in MainCtrls |-> found[c].dimm]]
  BY <1>3, Zenon DEF ParseSpd
<2>2. \A c \in MainCtrls : found[c] = parse_spd_ctrl(Board, ddrSetup.slots[c])
  OBVIOUS
<2> HIDE DEF found
<2>3. \A c \in MainCtrls : ddrPriv'.conf[c] = found[c].conf /\ ddrPriv'.dimms[c] = found[c].dimm
  BY <2>1
<2>4. "opts" \notin {"addr"} \cup DdrSetPlaces
  BY DEF DdrSetPlaces
<2> QED
  BY <1>1, <1>3, <2>2, <2>3, <2>4 DEF TimesInv, FoundDimm
<1> QED
  BY <1>1, <1>2, <1>3

LEMMA PopulatingTimes ==
  ASSUME DdrInv, TimesInv, PopulateOptions
  PROVE  TimesInv'
<1>. DEFINE pop(c)  == pop_ctrl_opts(Rate, Board, ddrPriv.conf[c], ddrPriv.dimms[c])
            done    == [c \in MainCtrls |-> IF ddrPriv.conf[c].in_use THEN pop(c)
                                            ELSE [ok |-> FALSE, opts |-> NoOpts]]
            conf    == [c \in MainCtrls |-> [ddrPriv.conf[c] EXCEPT !.in_use = done[c].ok]]
            opts    == [c \in MainCtrls |->
                          ddr_board_options(Rate, Board, done[c].opts, conf[c], ddrPriv.dimms[c])]
            chosen  == check_interleaving_options(MainCtrls, opts, conf, ddrPriv.dimms)
<1>1. ddrPc = "opts" /\ UNCHANGED ddrSetup /\ MainCtrls' = MainCtrls /\ Board' = Board /\ ddrPc' \in {"addr", "hang"}
  BY DEF PopulateOptions, MainCtrls, Board
<1>2. CASE ddrPc' = "hang"
  BY <1>2, NothingFound DEF DdrSetPlaces
<1>3. CASE ddrPc' = "addr"
<2>1. ddrPriv' = [conf |-> conf, dimms |-> ddrPriv.dimms, opts |-> chosen]
  BY <1>3, Zenon DEF PopulateOptions
<2>2. ASSUME NEW c \in MainCtrls, conf[c].in_use
      PROVE  ddrPriv.conf[c].in_use /\ LeftToDimm(chosen[c], ddrPriv.dimms[c])
<3>1. "in_use" \in DOMAIN ddrPriv.conf[c]
  BY <1>1 DEF DdrInv, PlanFollows
<3>2. conf[c] = [ddrPriv.conf[c] EXCEPT !.in_use = done[c].ok]
  OBVIOUS
<3>3. done[c] = IF ddrPriv.conf[c].in_use THEN pop(c) ELSE [ok |-> FALSE, opts |-> NoOpts]
  OBVIOUS
<3>4. opts[c] = ddr_board_options(Rate, Board, done[c].opts, conf[c], ddrPriv.dimms[c])
  OBVIOUS
<3>. HIDE DEF conf, done, pop
<3>5. done[c].ok
  BY <2>2, <3>1, <3>2
<3>6. ddrPriv.conf[c].in_use
  BY <3>3, <3>5
<3>7. done[c] = pop(c) /\ pop(c).ok
  BY <3>3, <3>5, <3>6
<3>8. LeftToDimm(done[c].opts, ddrPriv.dimms[c])
  BY <3>7, OptionsLeft DEF pop
<3>9. LeftToDimm(opts[c], ddrPriv.dimms[c])
<4> HIDE DEF opts
<4> QED
  BY <3>4, <3>8, BoardKeepsLeft
<3>. HIDE DEF opts
<3>. QED
  BY <3>6, <3>9, InterleavingKeepsLeft
<2>. HIDE DEF pop, done, conf, opts, chosen
<2>3. ddrPriv'.conf = conf /\ ddrPriv'.opts = chosen /\ ddrPriv'.dimms = ddrPriv.dimms
  BY <2>1
<2>4. "addr" \notin DdrSetPlaces
  BY DEF DdrSetPlaces
<2>. QED
  BY <1>1, <1>3, <2>2, <2>3, <2>4 DEF TimesInv
<1> QED
  BY <1>1, <1>2, <1>3

LEMMA ComputingTimes ==
  ASSUME DdrInv, TimesInv, ComputeRegisters
  PROVE  TimesInv'
<1>. DEFINE conf == assign_addresses(MainCtrls, ddrPriv.opts, ddrPriv.conf, ddrPriv.dimms, 0)
            Cas(c) == ChooseCasLatency(Rate, ddrPriv.opts[c], ddrPriv.dimms[c])
            regs == [c \in MainCtrls |->
                       IF conf[c].in_use
                       THEN compute_ddrc_regs(Rate, ddrPriv.opts[c], conf[c], ddrPriv.dimms[c])
                       ELSE ZeroRegs]
            bad  == {c \in MainCtrls : conf[c].in_use /\ (Cas(c) = 0 \/ ~check_ddrc_regs(regs[c]))}
<1>1. /\ ddrPc = "addr" /\ UNCHANGED ddrSetup
      /\ MainCtrls' = MainCtrls /\ Board' = Board /\ Rate' = Rate
  BY DEF ComputeRegisters, MainCtrls, Board, Rate
<1>2. CASE bad # {}
<2>1. ddrPc' = "done"
  BY <1>2, SMT DEF ComputeRegisters
<2> QED
  BY <2>1, NothingFound DEF DdrSetPlaces
<1>3. CASE bad = {}
<2>1. /\ ddrPriv' = [conf |-> conf, dimms |-> ddrPriv.dimms, opts |-> ddrPriv.opts, regs |-> regs]
      /\ ddrPc' = "set"
  BY <1>3, SMT DEF ComputeRegisters
<2>2. ASSUME NEW c \in MainCtrls, conf[c].in_use
      PROVE  ddrPriv.conf[c].in_use /\ ComputedFor(Rate, regs[c], ddrPriv.opts[c], ddrPriv.dimms[c])
<3>1. "in_use" \in DOMAIN ddrPriv.conf[c]
  BY <1>1 DEF DdrInv, PlanFollows
<3>2. ddrPriv.conf[c].in_use
  BY <2>2, <3>1, AddressesKeepInUse
<3>3. regs[c] = compute_ddrc_regs(Rate, ddrPriv.opts[c], conf[c], ddrPriv.dimms[c])
  BY <2>2
<3>4. c \notin bad
  BY <1>3
<3>5. Cas(c) # 0
<4>1. ~(conf[c].in_use /\ Cas(c) = 0)
  BY <3>4
<4> QED
  BY <2>2, <4>1
<3> HIDE DEF conf, regs
<3> QED
  BY <3>2, <3>3, <3>5 DEF ComputedFor
<2>. HIDE DEF conf, Cas, regs, bad
<2>3. /\ ddrPriv'.conf = conf /\ ddrPriv'.opts = ddrPriv.opts /\ ddrPriv'.dimms = ddrPriv.dimms
      /\ \A c : Regs(c)' = regs[c]
  BY <2>1 DEF Regs
<2>. QED
  BY <1>1, <2>1, <2>2, <2>3 DEF TimesInv
<1>. QED
  BY <1>2, <1>3

LEMMA TimesStart == DdrInit => TimesInv
  BY DEF DdrInit, TimesInv, DdrSetPlaces

LEMMA TimesSteps == DdrInv /\ TimesInv /\ [DdrNext]_ddrVars => TimesInv'
<1> SUFFICES ASSUME DdrInv, TimesInv, [DdrNext]_ddrVars PROVE TimesInv'
  OBVIOUS
<1>1. CASE \E setup \in DdrSetups : DramInit(setup)
<2>1. ddrPc' = "spd"
  BY <1>1 DEF DramInit
<2> QED
  BY <2>1, NothingFound DEF DdrSetPlaces
<1>2. CASE ParseSpd \/ PopulateOptions \/ ComputeRegisters
  BY <1>2, ParsingTimes, PopulatingTimes, ComputingTimes
<1>3. CASE \/ SetRegisters \/ EnableController \/ IdleInTime \/ WriteMode \/ RestartDeskew \/ DeskewInTime
           \/ RestoreDInit \/ DInitDone \/ StartBist
<2>1. /\ UNCHANGED <<ddrSetup, ddrPriv>>
      /\ ddrPc \in DdrSetPlaces /\ ddrPc' \in DdrSetPlaces
  BY <1>3 DEF SetRegisters, EnableController, IdleInTime, WriteMode, RestartDeskew, DeskewInTime, RestoreDInit,
         DInitDone, StartBist, DdrSetPlaces, ModesWritten
<2> QED
  BY <2>1, TimesStay
<1>4. CASE \/ IdleTimeout \/ DInitTimesOut \/ TrainingError
           \/ \E outcome \in {"passed", "ecc", "failed", "unfinished"} : EndBist(outcome)
<2>1. /\ UNCHANGED <<ddrSetup, ddrPriv>>
      /\ ddrPc \in DdrSetPlaces /\ ddrPc' \in {"set", "done"}
  BY <1>4 DEF IdleTimeout, DInitTimesOut, TrainingError, EndBist, ReturnFromSetRegs, DdrSetPlaces
<2> QED
  BY <2>1, TimesStay DEF DdrSetPlaces
<1>5. CASE DdrHardware \/ UNCHANGED ddrVars
<2>1. UNCHANGED <<ddrSetup, ddrPriv, ddrPc>>
  BY <1>5 DEF DdrHardware, HwDataInit, HwModeSent, ddrVars
<2> QED
  BY <2>1, TimesStay
<1> QED
  BY <1>1, <1>2, <1>3, <1>4, <1>5 DEF DdrNext, DdrCode

\* A setup in which the controller and the memory can be told what the DIMM asks for.
Expressed(setup) ==
  \A c \in setup.board.ctrls :
    LET found == parse_spd_ctrl(setup.board, setup.slots[c])
    IN found.conf.in_use => Expressible(setup.rate, found.dimm)

LEMMA BothAgree ==
  ASSUME DdrInv, TimesInv, \A setup \in DdrSetups : Expressed(setup)
  PROVE  ModesAgree
<1> SUFFICES ASSUME ddrPc = "set", NEW c \in MainCtrls, ddrPriv.conf[c].in_use, NEW i \in Enabled(c)
             PROVE  /\ ShownCasLatency(Regs(c)) = 2 * CasOfMode[Regs(c).mr0[i].CL + 1]
                    /\ WriteRecovery(c) = RecoveryOfMode[Regs(c).mr0[i].WR + 1]
                    /\ Regs(c).timing_cfg_2.WR_LAT = WriteLatencyOfMode[Regs(c).mr2[i].CWL + 1]
                    /\ Regs(c).timing_cfg_7.PAR_LAT = Regs(c).mr5[i].PAR_LAT
                    /\ Lasts(Regs(c).mr6.TCCD_L + 4, ddrPriv.dimms[c].tccdl_ps)
  BY DEF ModesAgree
<1>1. ddrPc \in DdrSetPlaces
  BY DEF DdrSetPlaces
<1>2. ddrSetup \in DdrSetups /\ c \in Board.ctrls /\ i \in ChipSelects
  BY <1>1 DEF DdrInv, DdrTypes, MainCtrls, Enabled, DdrSetPlaces
<1>3. Expressed(ddrSetup)
  BY <1>2
<1>4. PICK opts : opts = ddrPriv.opts[c]
  OBVIOUS
<1>5. PICK dimm : dimm = ddrPriv.dimms[c]
  OBVIOUS
<1>6. PICK slot : slot = ddrSetup.slots[c]
  OBVIOUS
<1>7. FoundDimm(Board, slot, dimm) /\ LeftToDimm(opts, dimm) /\ ComputedFor(Rate, Regs(c), opts, dimm)
  BY <1>1, <1>4, <1>5, <1>6 DEF TimesInv
<1>8. Expressible(Rate, dimm) /\ dimm.twr_ps = Twr
<2>2. parse_spd_ctrl(Board, slot).conf.in_use => Expressible(Rate, parse_spd_ctrl(Board, slot).dimm)
  BY <1>2, <1>3, <1>6 DEF Expressed, Rate, Board
<2>3. parse_spd_ctrl(Board, slot).conf.in_use /\ parse_spd_ctrl(Board, slot).dimm = dimm
  BY <1>7 DEF FoundDimm
<2>4. dimm.twr_ps = Twr
  BY <2>3, ParsedTimes
<2> QED
  BY <2>2, <2>3, <2>4
<1>9. PICK conf : Regs(c) = compute_ddrc_regs(Rate, opts, conf, dimm)
  BY <1>7 DEF ComputedFor
<1>10. PICK r : r = Rate
  OBVIOUS
<1>11. PICK g : g = Regs(c)
  OBVIOUS
<1>12. /\ ShownCasLatency(g) = 2 * CasOfMode[g.mr0[i].CL + 1]
       /\ Shown(g.timing_cfg_1.WRREC, g.timing_cfg_3.EXT_WRREC) - Otf(opts) = RecoveryOfMode[g.mr0[i].WR + 1]
       /\ g.timing_cfg_2.WR_LAT = WriteLatencyOfMode[g.mr2[i].CWL + 1]
       /\ g.timing_cfg_7.PAR_LAT = g.mr5[i].PAR_LAT
       /\ LastsAt(r, g.mr6.TCCD_L + 4, dimm.tccdl_ps)
<2>1. ChooseCasLatency(r, opts, dimm) # 0
  BY <1>7, <1>10 DEF ComputedFor
<2>2. g = compute_ddrc_regs(r, opts, conf, dimm)
  BY <1>9, <1>10, <1>11
<2>3. LeftToDimm(opts, dimm) /\ dimm.twr_ps = Twr /\ Expressible(r, dimm) /\ i \in ChipSelects
  BY <1>2, <1>7, <1>8, <1>10
<2> QED
  BY <2>1, <2>2, <2>3, RegistersAgree
<1>13. WriteRecovery(c) = Shown(g.timing_cfg_1.WRREC, g.timing_cfg_3.EXT_WRREC) - Otf(opts)
  BY <1>4, <1>11, Zenon DEF WriteRecovery, Otf
<1>14. Lasts(g.mr6.TCCD_L + 4, dimm.tccdl_ps)
  BY <1>10, <1>12, SMT DEF Lasts, LastsAt
<1> QED
  BY <1>5, <1>11, <1>12, <1>13, <1>14

\* A memory and its controller are told the same CAS latency, write recovery, write latency and parity
\* latency, and a column to column delay that lasts, whatever the board and the DIMMs, when the registers
\* have codes for what the DIMMs ask for: regs.c derives each value twice, by other roads, from the times
\* that parse_spd() found and from the options that ddr_board_options() may have changed.
THEOREM BothAreTold ==
  ASSUME \A setup \in DdrSetups : Expressed(setup)
  PROVE  DdrSpec => []ModesAgree
<1>1. DdrInit => DdrInv /\ TimesInv
  BY DdrStarts, TimesStart
<1>2. DdrInv /\ TimesInv /\ [DdrNext]_ddrVars => (DdrInv /\ TimesInv)'
  BY DdrSteps, TimesSteps
<1>3. DdrInv /\ TimesInv => ModesAgree
  BY BothAgree
<1> QED
  BY <1>1, <1>2, <1>3, PTL DEF DdrSpec
-----------------------------------------------------------------------------
(***************************************************************************)
(* The controller waits as long as the memory asks for.                    *)
(***************************************************************************)

\* A time that a field has room for.
Fits(r, ps, clocks) == ps \in Nat /\ picos_to_mclk(r, ps) <= clocks

\* The period of the clock is taken in whole ps.  Where that is too long, the halves of a ps that add up over
\* the clocks of the CAS latency are less than what the latency has to spare, and the 1 ps that is forgiven.
RoundedDown(p, r) == p * r <= 2000000
Spares(cas, p, taa) == cas <= 2 * (cas * p - taa) + 2
LatencyLasts(r, dimm) ==
  LET cas == ChooseCasLatency(r, NoOpts, dimm)
      p   == get_memory_clk_period_ps(r)
  IN cas = 0 \/ RoundedDown(p, r) \/ Spares(cas, p, dimm.taa_ps)

\* The fields of the controller have room for the times of the DIMM at rate r.
Coverable(r, dimm) ==
  /\ Expressible(r, dimm)
  /\ Fits(r, dimm.trp_ps, 31) /\ Fits(r, dimm.trcd_ps, 31)
  /\ Fits(r, dimm.tras_ps, 63) /\ Fits(r, dimm.tfaw_ps, 63)
  /\ Fits(r, dimm.trrds_ps, 15) /\ Fits(r, dimm.trrdl_ps, 15)
  /\ Fits(r, dimm.trfc1_ps, 519)
  /\ dimm.taa_ps \in Nat /\ LatencyLasts(r, dimm)
  /\ dimm.rank_density >= 32

\* What the fields and extension fields show together.
LEMMA FieldsShow ==
  ASSUME NEW n \in Nat
  PROVE  /\ n <= 31 => Shown(Field(n, 4), Field(n \div 16, 1)) = n
         /\ n <= 63 => Shown(Field(n, 4), Field(n \div 16, 2)) = n
         /\ n <= 63 => Field(n, 6) = n
         /\ n <= 15 => Field(n, 4) = n
         /\ n <= 519 => Shown(Field(n - 8, 4), Field((n - 8) \div 16, 5)) + 8 \in Nat
         /\ n <= 519 => Shown(Field(n - 8, 4), Field((n - 8) \div 16, 5)) + 8 >= n
<1>1. 2 ^ 6 = 64
  BY SMT
<1>2. n \div 16 \in Int /\ n - 8 \in Int /\ (n - 8) \div 16 \in Int
  BY SMT
<1>3. Field(n, 4) = n % 16 /\ Field(n - 8, 4) = (n - 8) % 16
<2>1. PICK v \in Int : v = n - 8
  OBVIOUS
<2>2. Field(v, 4) = v % 16
  BY FieldsAre
<2>3. Field(n, 4) = n % 16
<3>1. n \in Int
  OBVIOUS
<3> QED
  BY <3>1, FieldsAre
<2> QED
  BY <2>1, <2>2, <2>3
<1>4. /\ Field(n \div 16, 1) = (n \div 16) % 2 /\ Field(n \div 16, 2) = (n \div 16) % 4
      /\ Field((n - 8) \div 16, 5) = ((n - 8) \div 16) % 32
<2>1. PICK v \in Int : v = (n - 8) \div 16
  BY <1>2
<2>2. PICK u \in Int : u = n \div 16
  BY <1>2
<2>3. Field(v, 5) = v % 32
  BY FieldsAre
<2>4. Field(u, 1) = u % 2 /\ Field(u, 2) = u % 4
  BY FieldsAre
<2> QED
  BY <2>1, <2>2, <2>3, <2>4
<1>5. Field(n, 6) = n % 64
  BY <1>1 DEF Field
<1>6. n <= 31 => (n % 16) + 16 * ((n \div 16) % 2) = n
  BY SMT
<1>7. n <= 63 => (n % 16) + 16 * ((n \div 16) % 4) = n /\ n % 64 = n
  BY SMT
<1>8. n <= 15 => n % 16 = n
  BY SMT
<1>9. PICK low : low = (n - 8) % 16
  OBVIOUS
<1>10. PICK ext : ext = ((n - 8) \div 16) % 32
  OBVIOUS
<1>11. low \in Nat /\ ext \in Nat
  BY <1>9, <1>10, SMT
<1>12. n <= 519 => low + 16 * ext + 8 >= n
  BY <1>9, <1>10, SMT
<1>13. n <= 519 => Shown(low, ext) + 8 \in Nat /\ Shown(low, ext) + 8 >= n
  BY <1>11, <1>12 DEF Shown
<1> QED
  BY <1>3, <1>4, <1>5, <1>6, <1>7, <1>8, <1>9, <1>10, <1>13 DEF Shown

\* The registers that hold the times.
LEMMA RegistersTime ==
  ASSUME NEW r, NEW opts, NEW conf, NEW dimm, LeftToDimm(opts, dimm)
  PROVE  LET g == compute_ddrc_regs(r, opts, conf, dimm)
             N(ps) == picos_to_mclk(r, ps)
         IN /\ g.timing_cfg_1.PRETOACT = Field(N(dimm.trp_ps), 4)
            /\ g.timing_cfg_3.EXT_PRETOACT = Field(N(dimm.trp_ps) \div 16, 1)
            /\ g.timing_cfg_1.ACTTOPRE = Field(N(dimm.tras_ps), 4)
            /\ g.timing_cfg_3.EXT_ACTTOPRE = Field(N(dimm.tras_ps) \div 16, 2)
            /\ g.timing_cfg_1.ACTTORW = Field(N(dimm.trcd_ps), 4)
            /\ g.timing_cfg_3.EXT_ACTTORW = Field(N(dimm.trcd_ps) \div 16, 1)
            /\ g.timing_cfg_1.REFREC = Field(N(dimm.trfc1_ps) - 8, 4)
            /\ g.timing_cfg_3.EXT_REFREC = Field((N(dimm.trfc1_ps) - 8) \div 16, 5)
            /\ g.timing_cfg_1.ACTTOACT = Field(Larger(N(dimm.trrds_ps), 4), 4)
            /\ g.timing_cfg_8.ACTTOACT_BG = Field(N(dimm.trrdl_ps), 4)
            /\ g.timing_cfg_2.FOUR_ACT = Field(N(dimm.tfaw_ps), 6)
<1> DEFINE g == compute_ddrc_regs(r, opts, conf, dimm)
           cas == ChooseCasLatency(r, opts, dimm)
           t2 == set_timing_cfg_2(r, opts, 0)
<1>1. /\ g.timing_cfg_1 = set_timing_cfg_1(r, opts, dimm, cas)
      /\ g.timing_cfg_2 = t2
      /\ g.timing_cfg_3 = set_timing_cfg_3(r, opts, dimm, cas, 0)
      /\ g.timing_cfg_8 = set_timing_cfg_8(r, t2, opts, dimm, cas)
<2>1. (IF opts.additive_latency_override THEN opts.additive_latency_override_value ELSE 0) = 0
  BY DEF LeftToDimm
<2> HIDE DEF cas
<2> QED
  BY <2>1, Zenon DEF compute_ddrc_regs, cas
<1> HIDE DEF g, cas
<1>2. /\ g.timing_cfg_1.PRETOACT = Field(picos_to_mclk(r, dimm.trp_ps), 4)
      /\ g.timing_cfg_1.ACTTOPRE = Field(picos_to_mclk(r, dimm.tras_ps), 4)
      /\ g.timing_cfg_1.ACTTORW = Field(picos_to_mclk(r, dimm.trcd_ps), 4)
      /\ g.timing_cfg_1.REFREC = Field(picos_to_mclk(r, dimm.trfc1_ps) - 8, 4)
      /\ g.timing_cfg_1.ACTTOACT = Field(Larger(picos_to_mclk(r, dimm.trrds_ps), 4), 4)
  BY <1>1, SMT DEF set_timing_cfg_1
<1>3. /\ g.timing_cfg_3.EXT_PRETOACT = Field(picos_to_mclk(r, dimm.trp_ps) \div 16, 1)
      /\ g.timing_cfg_3.EXT_ACTTOPRE = Field(picos_to_mclk(r, dimm.tras_ps) \div 16, 2)
      /\ g.timing_cfg_3.EXT_ACTTORW = Field(picos_to_mclk(r, dimm.trcd_ps) \div 16, 1)
      /\ g.timing_cfg_3.EXT_REFREC = Field((picos_to_mclk(r, dimm.trfc1_ps) - 8) \div 16, 5)
  BY <1>1, SMT DEF set_timing_cfg_3
<1>4. g.timing_cfg_2.FOUR_ACT = Field(picos_to_mclk(r, opts.tfaw_window_four_activates_ps), 6)
  BY <1>1, SMT DEF set_timing_cfg_2
<1>5. opts.tfaw_window_four_activates_ps = dimm.tfaw_ps
  BY DEF LeftToDimm
<1> HIDE DEF t2
<1>6. g.timing_cfg_8.ACTTOACT_BG = Field(picos_to_mclk(r, dimm.trrdl_ps), 4)
  BY <1>1, SMT DEF set_timing_cfg_8
<1> QED
  BY <1>2, <1>3, <1>4, <1>5, <1>6 DEF g

\* A set of numbers has a least one.
LEMMA LeastNatural ==
  ASSUME NEW S, S \subseteq Nat, S # {}
  PROVE  \E n \in S : \A m \in S : n <= m
<1> DEFINE R == OpToRel(<, Nat)
<1>1. IsWellFoundedOn(R, Nat)
  BY NatLessThanWellFounded
<1>2. \A a, b \in Nat : a < b => <<a, b>> \in R
  BY DEF OpToRel
<1> HIDE DEF R
<1>3. PICK n \in S : \A m \in S : ~ (<<m, n>> \in R)
  BY <1>1, WFMin
<1>4. ASSUME NEW m \in S PROVE n <= m
  <2>1. m \in Nat /\ n \in Nat
    OBVIOUS
  <2>2. ~(<<m, n>> \in R)
    BY <1>3
  <2>3. ~(m < n)
    BY <1>2, <2>1, <2>2
  <2> QED
    BY <2>1, <2>3
<1> QED
  BY <1>4

\* A number is its quotient and its remainder.
LEMMA Division ==
  ASSUME NEW x \in Nat, NEW p \in Nat, p > 0
  PROVE  x \div p \in Nat /\ x % p \in Nat /\ x % p < p /\ x = p * (x \div p) + (x % p)
<1>1. x \div p \in Nat
  BY SMT
<1>2. x % p \in Nat
  BY SMT
<1>3. x % p < p
  BY SMT
<1>4. x = p * (x \div p) + (x % p)
  BY SMT
<1> QED
  BY <1>1, <1>2, <1>3, <1>4

\* A latency that lasts in clocks of a rounded period lasts.
LEMMA LatencyIsEnough ==
  ASSUME NEW r \in Ddr4Rates, NEW taa \in Nat, NEW cas \in 9..24, NEW p, p = get_memory_clk_period_ps(r),
         cas >= (taa + p - 1) \div p, RoundedDown(p, r) \/ Spares(cas, p, taa)
  PROVE  LastsAt(r, cas, taa)
<1>0. r \in Nat /\ r > 0
  BY SMT DEF Ddr4Rates
<1>1. p \in Nat /\ p >= 833
  BY PeriodIs
<1>2. 2 * (p * r) <= 4000000 + r
<2> DEFINE q == 2000000 \div r
           m == 2000000 % r
           up == IF 2 * m >= r THEN 1 ELSE 0
<2>1. p = q + up
  BY DEF get_memory_clk_period_ps, Flag
<2>2. q \in Nat /\ m \in Nat /\ 2000000 = r * q + m /\ m < r
  BY <1>0, SMT
<2>3. up = 0 \/ (up = 1 /\ 2 * m >= r)
  OBVIOUS
<2> HIDE DEF q, m, up
<2>4. CASE up = 0
<3>1. p * r = r * q
  BY <2>1, <2>2, <2>4, <1>0, SMT
<3> QED
  BY <2>2, <3>1, <1>0, SMT
<2>5. CASE up = 1 /\ 2 * m >= r
<3>1. p * r = r * q + r
  BY <2>1, <2>2, <2>5, <1>0, SMT
<3>2. 2 * (p * r) = 4000000 - 2 * m + 2 * r
  BY <2>2, <3>1, <1>0, SMT
<3> QED
  BY <2>2, <2>5, <3>2, <1>0, SMT
<2> QED
  BY <2>3, <2>4, <2>5
<1>3. cas * p >= taa
<2> DEFINE first == (taa + p - 1) \div p
<2>1. first \in Nat /\ first * p >= taa
<3>0. PICK x \in Nat : x = taa + p - 1
  BY <1>1, SMT
<3>1. PICK rest : rest = x % p
  OBVIOUS
<3>2. first \in Nat /\ rest \in Nat /\ rest < p /\ taa + p - 1 = p * first + rest
<4>1. p > 0
  BY <1>1, SMT
<4>2. x \div p \in Nat /\ x % p \in Nat /\ x % p < p /\ x = p * (x \div p) + (x % p)
  BY <1>1, <4>1, Division
<4> QED
  BY <3>0, <3>1, <4>2
<3> HIDE DEF first
<3>3. first * p = p * first
  BY <1>1, <3>2, SMT
<3> QED
  BY <1>1, <3>2, <3>3, SMT
<2>2. cas >= first
  OBVIOUS
<2> HIDE DEF first
<2>3. cas * p >= first * p
  BY <1>1, <2>1, <2>2, SMT
<2>4. first * p \in Nat /\ cas * p \in Nat
  BY <1>1, <2>1, SMT
<2> QED
  BY <2>1, <2>3, <2>4, SMT
<1>4. PICK pr \in Nat : pr = p * r
  BY <1>0, <1>1
<1>5. PICK m \in Nat : cas * p = taa + m
<2>1. cas * p \in Nat
  BY <1>1, SMT
<2>2. cas * p - taa \in Nat /\ cas * p = taa + (cas * p - taa)
  BY <1>3, <2>1, SMT
<2> QED
  BY <2>2
<1>6. taa * r + m * r = cas * pr
<2>1. (taa + m) * r = (cas * p) * r
  BY <1>5
<2>2. (cas * p) * r = cas * pr
  BY <1>0, <1>1, <1>4, SMT
<2>3. (taa + m) * r = taa * r + m * r
  BY <1>0, <1>5, SMT
<2> QED
  BY <2>1, <2>2, <2>3
<1>7. PICK tr \in Nat : tr = taa * r
  BY <1>0
<1>8. PICK mr \in Nat : mr = m * r
  BY <1>0
<1>9. tr + mr = cas * pr
  BY <1>6, <1>7, <1>8
<1>10. CASE pr <= 2000000
<2>1. cas * pr <= cas * 2000000
  BY <1>10, SMT
<2> QED
  BY <1>0, <1>7, <1>9, <2>1, SMT DEF LastsAt
<1>11. CASE Spares(cas, p, taa)
<2>1. cas <= 2 * m + 2
  BY <1>1, <1>5, <1>11, SMT DEF Spares
<2>2. PICK cr \in Nat : cr = cas * r
  BY <1>0
<2>3. cr <= 2 * mr + 2 * r
<3>1. cas * r <= (2 * m + 2) * r
  BY <1>0, <2>1, SMT
<3>2. (2 * m + 2) * r = 2 * (m * r) + 2 * r
  BY <1>0, SMT
<3> QED
  BY <1>8, <2>2, <3>1, <3>2
<2>4. 2 * (cas * pr) <= cas * 4000000 + cr
<3>1. cas * (2 * pr) <= cas * (4000000 + r)
  BY <1>0, <1>2, <1>4, SMT
<3>2. cas * (2 * pr) = 2 * (cas * pr)
  BY SMT
<3>3. cas * (4000000 + r) = cas * 4000000 + cas * r
  BY <1>0, SMT
<3> QED
  BY <2>2, <3>1, <3>2, <3>3
<2>5. 2 * tr + 2 * mr <= cas * 4000000 + cr
  BY <1>9, <2>4, SMT
<2> QED
  BY <1>0, <1>7, <2>3, <2>5, SMT DEF LastsAt
<1>12. RoundedDown(p, r) => pr <= 2000000
  BY <1>4, SMT DEF RoundedDown
<1> QED
  BY <1>10, <1>11, <1>12

\* The latency that is chosen is at least what the DIMM asks for in clocks of the rounded period.
LEMMA ChosenFollows ==
  ASSUME NEW r, NEW dimm, ChooseCasLatency(r, NoOpts, dimm) \in 9..24, dimm.taa_ps \in Nat,
         get_memory_clk_period_ps(r) \in Nat, get_memory_clk_period_ps(r) > 0
  PROVE  ChooseCasLatency(r, NoOpts, dimm)
           >= (dimm.taa_ps + get_memory_clk_period_ps(r) - 1) \div get_memory_clk_period_ps(r)
<1>1. PICK p \in Nat : p = get_memory_clk_period_ps(r) /\ p > 0
  OBVIOUS
<1>2. PICK first : first = (dimm.taa_ps + p - 1) \div p
  OBVIOUS
<1> DEFINE start(o) == IF o.cas_latency_override THEN o.cas_latency_override_value
                       ELSE (dimm.taa_ps + get_memory_clk_period_ps(r) - 1) \div get_memory_clk_period_ps(r)
           among(f) == {n \in dimm.caslat_x : n \in f..(f + 23)}
           least(F) == CHOOSE n \in F : \A m \in F : n <= m
           late(k) == k * get_memory_clk_period_ps(r) > 18000
           chosen(F) == IF F = {} \/ late(least(F)) THEN 0 ELSE least(F)
           found == among(first)
           cas == least(found)
<1>3. NoOpts.cas_latency_override = FALSE
  BY Zenon DEF NoOpts
<1>4. ChooseCasLatency(r, NoOpts, dimm) = chosen(found)
<2>1. \A o : ChooseCasLatency(r, o, dimm) = chosen(among(start(o)))
  BY DEF ChooseCasLatency
<2>2. start(NoOpts) = first
  BY <1>1, <1>2, <1>3
<2> HIDE DEF start, among, chosen, late, least
<2> QED
  BY <2>1, <2>2
<1>5. first \in Int
  BY <1>1, <1>2, SMT
<1>6. found # {} /\ ChooseCasLatency(r, NoOpts, dimm) = cas
<2>1. 0 \notin 9..24
  BY SMT
<2> HIDE DEF found, late, least
<2> QED
  BY <1>4, <2>1
<1>7. first \in Nat
  BY <1>1, <1>2, SMT
<1>8. found \subseteq Nat /\ \A n \in found : n >= first
<2>1. first..(first + 23) \subseteq Nat /\ \A n \in first..(first + 23) : n >= first
  BY <1>7, SMT
<2> QED
  BY <2>1
<1>9. cas \in found
<2>1. \E n \in found : \A m \in found : n <= m
<3> HIDE DEF found
<3> QED
  BY <1>6, <1>8, LeastNatural
<2> QED
  BY <2>1
<1>10. cas >= first
  BY <1>8, <1>9
<1> QED
  BY <1>1, <1>2, <1>6, <1>10

\* A time that fits is covered by what its fields show.
LEMMA FitsLast ==
  ASSUME NEW r \in Nat, r > 0, NEW ps, NEW most, Fits(r, ps, most), NEW n, n = picos_to_mclk(r, ps), most \in Nat
  PROVE  /\ n \in Nat /\ n <= most /\ LastsAt(r, n, ps)
         /\ \A k \in Nat : k >= n => LastsAt(r, k, ps)
<1>1. ps \in Nat /\ n <= most
  BY DEF Fits
<1>2. n \in Nat /\ LastsAt(r, n, ps)
  BY <1>1, ClocksLast
<1>3. ASSUME NEW k \in Nat, k >= n
      PROVE  LastsAt(r, k, ps)
  BY <1>1, <1>2, <1>3, LongerLasts
<1> QED
  BY <1>1, <1>2, <1>3

LEMMA RegistersCover ==
  ASSUME NEW r \in Ddr4Rates, NEW opts, NEW conf, NEW dimm, LeftToDimm(opts, dimm), Coverable(r, dimm)
  PROVE  LET g == compute_ddrc_regs(r, opts, conf, dimm)
         IN /\ LastsAt(r, Shown(g.timing_cfg_1.PRETOACT, g.timing_cfg_3.EXT_PRETOACT), dimm.trp_ps)
            /\ LastsAt(r, Shown(g.timing_cfg_1.ACTTOPRE, g.timing_cfg_3.EXT_ACTTOPRE), dimm.tras_ps)
            /\ LastsAt(r, Shown(g.timing_cfg_1.ACTTORW, g.timing_cfg_3.EXT_ACTTORW), dimm.trcd_ps)
            /\ LastsAt(r, Shown(g.timing_cfg_1.REFREC, g.timing_cfg_3.EXT_REFREC) + 8, dimm.trfc1_ps)
            /\ LastsAt(r, g.timing_cfg_1.ACTTOACT, dimm.trrds_ps)
            /\ LastsAt(r, g.timing_cfg_8.ACTTOACT_BG, dimm.trrdl_ps)
            /\ LastsAt(r, g.timing_cfg_2.FOUR_ACT, dimm.tfaw_ps)
<1> DEFINE g == compute_ddrc_regs(r, opts, conf, dimm)
<1>0. r \in Nat /\ r > 0
  BY SMT DEF Ddr4Rates
<1>1. PICK rp : rp = picos_to_mclk(r, dimm.trp_ps)
  OBVIOUS
<1>2. PICK ras : ras = picos_to_mclk(r, dimm.tras_ps)
  OBVIOUS
<1>3. PICK rcd : rcd = picos_to_mclk(r, dimm.trcd_ps)
  OBVIOUS
<1>4. PICK rfc : rfc = picos_to_mclk(r, dimm.trfc1_ps)
  OBVIOUS
<1>5. PICK rrds : rrds = picos_to_mclk(r, dimm.trrds_ps)
  OBVIOUS
<1>6. PICK rrdl : rrdl = picos_to_mclk(r, dimm.trrdl_ps)
  OBVIOUS
<1>7. PICK faw : faw = picos_to_mclk(r, dimm.tfaw_ps)
  OBVIOUS
<1>8. /\ g.timing_cfg_1.PRETOACT = Field(rp, 4) /\ g.timing_cfg_3.EXT_PRETOACT = Field(rp \div 16, 1)
      /\ g.timing_cfg_1.ACTTOPRE = Field(ras, 4) /\ g.timing_cfg_3.EXT_ACTTOPRE = Field(ras \div 16, 2)
      /\ g.timing_cfg_1.ACTTORW = Field(rcd, 4) /\ g.timing_cfg_3.EXT_ACTTORW = Field(rcd \div 16, 1)
      /\ g.timing_cfg_1.REFREC = Field(rfc - 8, 4) /\ g.timing_cfg_3.EXT_REFREC = Field((rfc - 8) \div 16, 5)
      /\ g.timing_cfg_1.ACTTOACT = Field(Larger(rrds, 4), 4)
      /\ g.timing_cfg_8.ACTTOACT_BG = Field(rrdl, 4)
      /\ g.timing_cfg_2.FOUR_ACT = Field(faw, 6)
  BY <1>1, <1>2, <1>3, <1>4, <1>5, <1>6, <1>7, RegistersTime
<1> HIDE DEF g
<1>9. LastsAt(r, Shown(g.timing_cfg_1.PRETOACT, g.timing_cfg_3.EXT_PRETOACT), dimm.trp_ps)
<2>1. rp \in Nat /\ rp <= 31 /\ LastsAt(r, rp, dimm.trp_ps)
  BY <1>0, <1>1, FitsLast DEF Coverable
<2>2. Shown(Field(rp, 4), Field(rp \div 16, 1)) = rp
  BY <2>1, FieldsShow
<2> QED
  BY <1>8, <2>1, <2>2
<1>10. LastsAt(r, Shown(g.timing_cfg_1.ACTTOPRE, g.timing_cfg_3.EXT_ACTTOPRE), dimm.tras_ps)
<2>1. ras \in Nat /\ ras <= 63 /\ LastsAt(r, ras, dimm.tras_ps)
  BY <1>0, <1>2, FitsLast DEF Coverable
<2>2. Shown(Field(ras, 4), Field(ras \div 16, 2)) = ras
  BY <2>1, FieldsShow
<2> QED
  BY <1>8, <2>1, <2>2
<1>11. LastsAt(r, Shown(g.timing_cfg_1.ACTTORW, g.timing_cfg_3.EXT_ACTTORW), dimm.trcd_ps)
<2>1. rcd \in Nat /\ rcd <= 31 /\ LastsAt(r, rcd, dimm.trcd_ps)
  BY <1>0, <1>3, FitsLast DEF Coverable
<2>2. Shown(Field(rcd, 4), Field(rcd \div 16, 1)) = rcd
  BY <2>1, FieldsShow
<2> QED
  BY <1>8, <2>1, <2>2
<1>12. LastsAt(r, Shown(g.timing_cfg_1.REFREC, g.timing_cfg_3.EXT_REFREC) + 8, dimm.trfc1_ps)
<2>1. rfc \in Nat /\ rfc <= 519 /\ \A k \in Nat : k >= rfc => LastsAt(r, k, dimm.trfc1_ps)
  BY <1>0, <1>4, FitsLast DEF Coverable
<2>2. PICK k : k = Shown(Field(rfc - 8, 4), Field((rfc - 8) \div 16, 5)) + 8
  OBVIOUS
<2>3. k \in Nat /\ k >= rfc
  BY <2>1, <2>2, FieldsShow
<2>4. LastsAt(r, k, dimm.trfc1_ps)
  BY <2>1, <2>3
<2> QED
  BY <1>8, <2>2, <2>4
<1>13. LastsAt(r, g.timing_cfg_1.ACTTOACT, dimm.trrds_ps)
<2>1. rrds \in Nat /\ rrds <= 15 /\ \A k \in Nat : k >= rrds => LastsAt(r, k, dimm.trrds_ps)
  BY <1>0, <1>5, FitsLast DEF Coverable
<2>2. PICK k : k = Larger(rrds, 4)
  OBVIOUS
<2>3. k \in Nat /\ k >= rrds /\ k <= 15
  BY <2>1, <2>2, SMT DEF Larger
<2>4. Field(k, 4) = k
  BY <2>3, FieldsShow
<2>5. LastsAt(r, k, dimm.trrds_ps)
  BY <2>1, <2>3
<2> QED
  BY <1>8, <2>2, <2>4, <2>5
<1>14. LastsAt(r, g.timing_cfg_8.ACTTOACT_BG, dimm.trrdl_ps)
<2>1. rrdl \in Nat /\ rrdl <= 15 /\ LastsAt(r, rrdl, dimm.trrdl_ps)
  BY <1>0, <1>6, FitsLast DEF Coverable
<2>2. Field(rrdl, 4) = rrdl
  BY <2>1, FieldsShow
<2> QED
  BY <1>8, <2>1, <2>2
<1>15. LastsAt(r, g.timing_cfg_2.FOUR_ACT, dimm.tfaw_ps)
<2>1. faw \in Nat /\ faw <= 63 /\ LastsAt(r, faw, dimm.tfaw_ps)
  BY <1>0, <1>7, FitsLast DEF Coverable
<2>2. Field(faw, 6) = faw
  BY <2>1, FieldsShow
<2> QED
  BY <1>8, <2>1, <2>2
<1> QED
  BY <1>9, <1>10, <1>11, <1>12, <1>13, <1>14, <1>15 DEF g

\* The write recovery and the CAS latency.
LEMMA LatenciesCover ==
  ASSUME NEW r, NEW opts, NEW conf, NEW dimm, LeftToDimm(opts, dimm), dimm.twr_ps = Twr,
         Coverable(r, dimm), ChooseCasLatency(r, opts, dimm) # 0
  PROVE  LET g == compute_ddrc_regs(r, opts, conf, dimm)
         IN /\ LastsAt(r, Shown(g.timing_cfg_1.WRREC, g.timing_cfg_3.EXT_WRREC) - Otf(opts), Twr)
            /\ LastsAt(r, ShownCasLatency(g) \div 2, dimm.taa_ps)
<1> DEFINE g == compute_ddrc_regs(r, opts, conf, dimm)
<1>0. PICK wide \in BOOLEAN : wide = Wide(dimm) /\ r \in AgreedRates(wide)
  BY DEF Wide, Coverable, Expressible
<1>1. PICK t : t = picos_to_mclk(r, Twr) /\ t \in RecoveryClocks(wide) /\ r \in Ddr4Rates
  BY <1>0, RecoveryTakes
<1>2. PICK cas : cas = ChooseCasLatency(r, NoOpts, dimm)
  OBVIOUS
<1>3. r \in Nat /\ r > 0
  BY <1>1, SMT DEF Ddr4Rates
<1>4. 0 \in ChipSelects
  BY SMT DEF ChipSelects
<1>5. /\ g.timing_cfg_1.CASLAT = Field((cas - 1) * 2, 4)
      /\ g.timing_cfg_3.EXT_CASLAT = Field((2 * cas - 1) \div 16, 2)
      /\ g.timing_cfg_1.WRREC = Field(wrrec_table[t] + Otf(opts), 4)
      /\ g.timing_cfg_3.EXT_WRREC = Field((t + Otf(opts)) \div 16, 1)
  BY <1>0, <1>1, <1>2, <1>4, RegistersTell
<1> HIDE DEF g
<1>6. cas \in {CasOfMode[k] : k \in 1..12}
  BY <1>2, CasOfDimm DEF Coverable, Expressible
<1>7. LastsAt(r, ShownCasLatency(g) \div 2, dimm.taa_ps)
<2>1. cas \in 9..24 /\ (((cas - 1) * 2) % 16) + 2 + 16 * (((2 * cas - 1) \div 16) % 4) = 2 * cas
  BY <1>6, CasAgrees
<2>2. (cas - 1) * 2 \in Int /\ (2 * cas - 1) \div 16 \in Int
  BY <2>1, SMT
<2>3. g.timing_cfg_1.CASLAT = ((cas - 1) * 2) % 16 /\ g.timing_cfg_3.EXT_CASLAT = ((2 * cas - 1) \div 16) % 4
  BY <1>5, <2>2, FieldsAre
<2>4. ShownCasLatency(g) = 2 * cas
  BY <2>1, <2>3 DEF ShownCasLatency
<2>5. ShownCasLatency(g) \div 2 = cas
  BY <2>1, <2>4, SMT
<2>6. PICK p \in Nat : p = get_memory_clk_period_ps(r) /\ p > 0
<3>1. get_memory_clk_period_ps(r) \in Nat /\ get_memory_clk_period_ps(r) >= 833
  BY <1>1, PeriodIs
<3> QED
  BY <3>1
<2>7. PICK taa \in Nat : taa = dimm.taa_ps
  BY DEF Coverable
<2>8. cas >= (taa + p - 1) \div p
  BY <1>2, <2>1, <2>6, <2>7, ChosenFollows
<2>9. cas # 0
  BY <2>1, SMT
<2>10. RoundedDown(p, r) \/ Spares(cas, p, taa)
  BY <1>2, <2>6, <2>7, <2>9, Zenon DEF Coverable, LatencyLasts
<2>11. LastsAt(r, cas, taa)
  BY <1>1, <2>1, <2>6, <2>8, <2>10, LatencyIsEnough
<2> QED
  BY <2>5, <2>7, <2>11
<1>8. LastsAt(r, Shown(g.timing_cfg_1.WRREC, g.timing_cfg_3.EXT_WRREC) - Otf(opts), Twr)
<2>1. Otf(opts) = IF wide THEN 2 ELSE 0
  BY <1>0 DEF Otf, LeftToDimm
<2>2. PICK otf \in {0, 2} : otf = Otf(opts) /\ otf = IF wide THEN 2 ELSE 0
  BY <2>1
<2>3. /\ t \in RecoveryClocks(wide) /\ t \in Nat /\ wrrec_table[t] \in Nat
      /\ Recovered(t, otf) \in Nat /\ Recovered(t, otf) >= t
<3>1. t \in RecoveryClocks(wide)
  BY <1>0, <1>1, RecoveryTakes
<3>2. t \in Nat
  BY <3>1 DEF RecoveryClocks
<3> QED
  BY <2>2, <3>1, <3>2, RecoveryAgrees
<2>4. wrrec_table[t] + otf \in Int /\ (t + otf) \div 16 \in Int
  BY <2>3, SMT
<2>5. g.timing_cfg_1.WRREC = (wrrec_table[t] + otf) % 16 /\ g.timing_cfg_3.EXT_WRREC = ((t + otf) \div 16) % 2
  BY <1>5, <2>2, <2>4, FieldsAre
<2>6. Shown(g.timing_cfg_1.WRREC, g.timing_cfg_3.EXT_WRREC) - otf = Recovered(t, otf)
<3>1. PICK w : w = wrrec_table[t]
  OBVIOUS
<3>2. PICK low : low = (w + otf) % 16
  OBVIOUS
<3>3. PICK ext : ext = ((t + otf) \div 16) % 2
  OBVIOUS
<3>4. Recovered(t, otf) = (low + 16 * ext) - otf
  BY <3>1, <3>2, <3>3, Zenon DEF Recovered
<3>5. g.timing_cfg_1.WRREC = low /\ g.timing_cfg_3.EXT_WRREC = ext
  BY <2>5, <3>1, <3>2, <3>3, Zenon
<3> QED
  BY <3>4, <3>5 DEF Shown
<2>7. PICK twr \in Nat : twr = Twr
  BY SMT DEF Twr
<2>8. t = picos_to_mclk(r, twr)
  BY <1>1, <2>7
<2>9. LastsAt(r, t, twr)
  BY <1>3, <2>8, ClocksLast
<2>10. PICK rec : rec = Recovered(t, otf)
  OBVIOUS
<2>11. LastsAt(r, rec, twr)
  BY <1>3, <2>3, <2>9, <2>10, LongerLasts
<2> QED
  BY <2>2, <2>6, <2>7, <2>10, <2>11
<1> QED
  BY <1>7, <1>8 DEF g

\* A bus of a width is told by DBW = d.
WidthIs(d, width) == 2 ^ (3 + d) = 8 * width /\ 2 ^ (10 + d) = 1024 * width

LEMMA BusPowers ==
  ASSUME NEW d \in 0..2
  PROVE  \E width \in {1, 2, 4} : WidthIs(d, width)
<1>1. 2 ^ 3 = 8 /\ 2 ^ 4 = 16 /\ 2 ^ 5 = 32 /\ 2 ^ 10 = 1024 /\ 2 ^ 11 = 2048 /\ 2 ^ 12 = 4096
  BY SMT
<1>2. CASE d = 0
<2>1. WidthIs(0, 1)
  BY <1>1 DEF WidthIs
<2> QED
  BY <1>2, <2>1
<1>3. CASE d = 1
<2>1. WidthIs(1, 2)
  BY <1>1 DEF WidthIs
<2> QED
  BY <1>3, <2>1
<1>4. CASE d = 2
<2>1. WidthIs(2, 4)
  BY <1>1 DEF WidthIs
<2> QED
  BY <1>4, <2>1
<1> QED
  BY <1>2, <1>3, <1>4

\* MB a second in the code's reckoning, and the units of 10 ms that it allows for mem times 8 bytes a transfer.
RateUnits(r) == (r * 1000000) \div 2 ^ 20
Units(r, mem) == (100 * (mem * 8)) \div RateUnits(r)

\* Twice the time of a pass, with all that is rounded off.
LEMMA PassCovers ==
  ASSUME NEW r \in Ddr4Rates, NEW mem \in Nat, mem = 0 \/ mem >= 8, NEW less \in Nat, less <= mem
  PROVE  625 * ((4 * Units(r, mem) * r) \div 1024) >= 1024 * less
<1>0. r \in Nat /\ r >= 2 /\ r <= 2402
  BY SMT DEF Ddr4Rates
<1>1. PICK q : q = RateUnits(r)
  OBVIOUS
<1>2. q \in Nat /\ q > 0 /\ q * 1048576 <= r * 1000000
<2>1. 2 ^ 20 = 1048576
  BY SMT
<2>2. q = (r * 1000000) \div 1048576
  BY <1>1, <2>1 DEF RateUnits
<2> QED
  BY <1>0, <2>2, SMT
<1>3. PICK u : u = Units(r, mem)
  OBVIOUS
<1>4. u \in Nat /\ (u + 1) * q > 800 * mem
<2>1. PICK x \in Nat : x = 100 * (mem * 8)
  OBVIOUS
<2>2. x \div q \in Nat /\ x % q \in Nat /\ x % q < q /\ x = q * (x \div q) + (x % q)
  BY <1>2, Division
<2>3. u = x \div q
  BY <1>1, <1>3, <2>1 DEF Units
<2>4. u \in Nat /\ x < q * u + q
  BY <1>2, <2>2, <2>3, SMT
<2>5. (u + 1) * q = q * u + q
  BY <1>2, <2>4, SMT
<2>6. x = 800 * mem
  BY <2>1, SMT
<2> QED
  BY <2>4, <2>5, <2>6
<1>5. (u + 1) * r >= 838 * mem
<2>1. PICK a \in Nat : a = (u + 1) * q
  BY <1>2, <1>4, SMT
<2>2. PICK b \in Nat : b = (u + 1) * r
  BY <1>0, <1>4, SMT
<2>3. a * 1048576 <= b * 1000000
<3>1. (u + 1) * (q * 1048576) <= (u + 1) * (r * 1000000)
  BY <1>0, <1>2, <1>4, SMT
<3>2. (u + 1) * (q * 1048576) = a * 1048576
  BY <1>2, <1>4, <2>1, SMT
<3>3. (u + 1) * (r * 1000000) = b * 1000000
  BY <1>0, <1>4, <2>2, SMT
<3> QED
  BY <3>1, <3>2, <3>3
<2>4. a > 800 * mem
  BY <1>4, <2>1
<2>5. b >= 838 * mem
  BY <2>3, <2>4, SMT
<2> QED
  BY <2>2, <2>5
<1>6. PICK ur \in Nat : ur = u * r
  BY <1>0, <1>4
<1>7. ur + r >= 838 * mem
<2>1. (u + 1) * r = u * r + r
  BY <1>0, <1>4, SMT
<2> QED
  BY <1>5, <1>6, <2>1
<1>8. PICK v : v = (4 * ur) \div 1024
  OBVIOUS
<1>9. v \in Nat /\ 1024 * v + 1024 > 4 * ur
  BY <1>8, SMT
<1>10. 625 * v >= 1024 * less
<2>1. CASE mem = 0
  BY <1>9, <2>1, SMT
<2>2. CASE mem >= 8
  BY <1>0, <1>7, <1>9, <2>2, SMT
<2> QED
  BY <2>1, <2>2
<1>11. (4 * Units(r, mem) * r) \div 1024 = v
<2>1. 4 * u * r = 4 * ur
  BY <1>0, <1>4, <1>6, SMT
<2> QED
  BY <1>3, <1>8, <2>1
<1> QED
  BY <1>10, <1>11

\* What boot waits for D_INIT, for a controller with memory of at least 512 MB or none.
LEMMA TimeoutCovers ==
  ASSUME NEW g, NEW r \in Ddr4Rates, r = Rate, g.ddr_sdram_cfg.DBW \in 0..2, g.cs[0].intlv_en \in BOOLEAN,
         total_mem_per_ctrl(g) \in Nat, total_mem_per_ctrl(g) = 0 \/ total_mem_per_ctrl(g) >= 8
  PROVE  625 * ((DInitTimeout(g) * Rate) \div 1024) >= total_mem_per_ctrl(g) * 2 ^ (10 + g.ddr_sdram_cfg.DBW)
<1>1. PICK total \in Nat : total = total_mem_per_ctrl(g) /\ (total = 0 \/ total >= 8)
  OBVIOUS
<1>2. PICK d \in 0..2 : d = g.ddr_sdram_cfg.DBW
  OBVIOUS
<1>3. PICK width \in {1, 2, 4} : WidthIs(d, width)
  BY BusPowers
<1>4. PICK ways \in {1, 2} : ways = IF g.cs[0].intlv_en THEN 2 ELSE 1
  OBVIOUS
<1>5. PICK mem : mem = (total * ways) * width
  OBVIOUS
<1>6. PICK less : less = total * width
  OBVIOUS
<1>7. mem \in Nat /\ less \in Nat /\ less <= mem /\ (mem = 0 \/ mem >= 8)
  BY <1>1, <1>5, <1>6, SMT
<1>8. DInitTimeout(g) = 4 * Units(r, mem)
<2>1. DInitTimeout(g) = 4 * PassTime(g, total * ways)
  BY <1>1, <1>4, Zenon DEF DInitTimeout
<2>2. PICK tw \in Nat : tw = total * ways
  BY <1>1
<2>3. PassTime(g, tw) = (100 * (tw * (8 * width))) \div RateUnits(r)
  BY <1>2, <1>3 DEF PassTime, RateUnits, WidthIs
<2>4. tw * (8 * width) = mem * 8
  BY <1>5, <2>2, SMT
<2> QED
  BY <2>1, <2>2, <2>3, <2>4 DEF Units
<1>9. 625 * ((4 * Units(r, mem) * r) \div 1024) >= 1024 * less
  BY <1>7, PassCovers
<1>10. total * 2 ^ (10 + d) = 1024 * less
<2>1. total * (1024 * width) = 1024 * (total * width)
  BY SMT
<2> QED
  BY <1>3, <1>6, <2>1 DEF WidthIs
<1> QED
  BY <1>1, <1>2, <1>8, <1>9, <1>10

\* A setup whose times have room in the registers.
Covered(setup) ==
  \A c \in setup.board.ctrls :
    LET found == parse_spd_ctrl(setup.board, setup.slots[c])
    IN found.conf.in_use => Coverable(setup.rate, found.dimm)

\* Boot waits for D_INIT twice as long as a pass over the memory takes.
WaitsTwice(g) ==
  625 * ((DInitTimeout(g) * Rate) \div 1024) >= total_mem_per_ctrl(g) * 2 ^ (10 + g.ddr_sdram_cfg.DBW)

LEMMA MemoryInRange ==
  ASSUME ddrSetup \in DdrSetups, Layout, NEW c \in MainCtrls, ddrPriv.dimms[c].rank_density >= 32
  PROVE  /\ Regs(c).ddr_sdram_cfg.DBW \in 0..2 /\ Regs(c).cs[0].intlv_en \in BOOLEAN
         /\ total_mem_per_ctrl(Regs(c)) \in Nat
         /\ total_mem_per_ctrl(Regs(c)) = 0 \/ total_mem_per_ctrl(Regs(c)) >= 8
<1>1. PICK w, base, size, interleaved : Placed(MainCtrls, ddrPriv.regs, ddrPriv.dimms, w, base, size, interleaved)
  BY DEF Layout
<1>2. interleaved \in BOOLEAN
  BY <1>1 DEF Placed
<1>3. /\ w[c] \in {0, 1, 2, 4} /\ Density(c) \in Nat
      /\ 4 * total_mem_per_ctrl(Regs(c)) = w[c] * Density(c) /\ total_mem_per_ctrl(Regs(c)) \in Nat
      /\ Regs(c).ddr_sdram_cfg.DBW \in 0..2 /\ Regs(c).cs[0].intlv_en = interleaved
  BY <1>1, PlacedFacts
<1>4. PICK total \in Nat : total = total_mem_per_ctrl(Regs(c))
  BY <1>3
<1>5. PICK d \in Nat : d = Density(c) /\ d >= 32
  BY <1>3 DEF Density
<1>6. PICK ranks \in {0, 1, 2, 4} : ranks = w[c]
  BY <1>3
<1>7. 4 * total = ranks * d
  BY <1>3, <1>4, <1>5, <1>6
<1>8. total = 0 \/ total >= 8
  BY <1>5, <1>7, SMT
<1> QED
  BY <1>2, <1>3, <1>4, <1>8

LEMMA TimesCovered ==
  ASSUME DdrInv, LayoutInv, TimesInv, \A setup \in DdrSetups : Covered(setup)
  PROVE  TimingsCovered
<1> SUFFICES ASSUME ddrPc = "set", NEW c \in MainCtrls, ddrPriv.conf[c].in_use
             PROVE  LET g == Regs(c)
                        d == ddrPriv.dimms[c]
                    IN /\ Lasts(Shown(g.timing_cfg_1.PRETOACT, g.timing_cfg_3.EXT_PRETOACT), d.trp_ps)
                       /\ Lasts(Shown(g.timing_cfg_1.ACTTOPRE, g.timing_cfg_3.EXT_ACTTOPRE), d.tras_ps)
                       /\ Lasts(Shown(g.timing_cfg_1.ACTTORW, g.timing_cfg_3.EXT_ACTTORW), d.trcd_ps)
                       /\ Lasts(Shown(g.timing_cfg_1.REFREC, g.timing_cfg_3.EXT_REFREC) + 8, d.trfc1_ps)
                       /\ Lasts(WriteRecovery(c), d.twr_ps)
                       /\ Lasts(g.timing_cfg_1.ACTTOACT, d.trrds_ps)
                       /\ Lasts(g.timing_cfg_8.ACTTOACT_BG, d.trrdl_ps)
                       /\ Lasts(g.timing_cfg_2.FOUR_ACT, d.tfaw_ps)
                       /\ Lasts(ShownCasLatency(g) \div 2, d.taa_ps)
                       /\ WaitsTwice(g)
  BY Zenon DEF TimingsCovered, WaitsTwice
<1>1. ddrPc \in DdrSetPlaces
  BY DEF DdrSetPlaces
<1>2. ddrSetup \in DdrSetups /\ c \in Board.ctrls /\ Layout
  BY <1>1 DEF DdrInv, DdrTypes, MainCtrls, DdrSetPlaces, LayoutInv, LayoutFollows
<1>3. Covered(ddrSetup)
  BY <1>2
<1>4. PICK opts : opts = ddrPriv.opts[c]
  OBVIOUS
<1>5. PICK dimm : dimm = ddrPriv.dimms[c]
  OBVIOUS
<1>6. PICK slot : slot = ddrSetup.slots[c]
  OBVIOUS
<1>7. FoundDimm(Board, slot, dimm) /\ LeftToDimm(opts, dimm) /\ ComputedFor(Rate, Regs(c), opts, dimm)
  BY <1>1, <1>4, <1>5, <1>6 DEF TimesInv
<1>8. Coverable(Rate, dimm) /\ dimm.twr_ps = Twr
<2>1. parse_spd_ctrl(Board, slot).conf.in_use => Coverable(Rate, parse_spd_ctrl(Board, slot).dimm)
  BY <1>2, <1>3, <1>6 DEF Covered, Rate, Board
<2>2. parse_spd_ctrl(Board, slot).conf.in_use /\ parse_spd_ctrl(Board, slot).dimm = dimm
  BY <1>7 DEF FoundDimm
<2>3. dimm.twr_ps = Twr
  BY <2>2, ParsedTimes
<2> QED
  BY <2>1, <2>2, <2>3
<1>9. PICK conf : Regs(c) = compute_ddrc_regs(Rate, opts, conf, dimm)
  BY <1>7 DEF ComputedFor
<1>10. PICK r \in Ddr4Rates : r = Rate
<2>1. PICK wide \in BOOLEAN : wide = Wide(dimm) /\ Rate \in AgreedRates(wide)
  BY <1>8 DEF Wide, Coverable, Expressible
<2>2. Rate \in Ddr4Rates
  BY <2>1, RecoveryTakes
<2> QED
  BY <2>2
<1>11. PICK g : g = Regs(c) /\ g = compute_ddrc_regs(r, opts, conf, dimm)
  BY <1>9, <1>10
<1>12. LeftToDimm(opts, dimm) /\ dimm.twr_ps = Twr /\ Coverable(r, dimm) /\ ChooseCasLatency(r, opts, dimm) # 0
  BY <1>7, <1>8, <1>10 DEF ComputedFor
<1>13. /\ LastsAt(r, Shown(g.timing_cfg_1.PRETOACT, g.timing_cfg_3.EXT_PRETOACT), dimm.trp_ps)
       /\ LastsAt(r, Shown(g.timing_cfg_1.ACTTOPRE, g.timing_cfg_3.EXT_ACTTOPRE), dimm.tras_ps)
       /\ LastsAt(r, Shown(g.timing_cfg_1.ACTTORW, g.timing_cfg_3.EXT_ACTTORW), dimm.trcd_ps)
       /\ LastsAt(r, Shown(g.timing_cfg_1.REFREC, g.timing_cfg_3.EXT_REFREC) + 8, dimm.trfc1_ps)
       /\ LastsAt(r, g.timing_cfg_1.ACTTOACT, dimm.trrds_ps)
       /\ LastsAt(r, g.timing_cfg_8.ACTTOACT_BG, dimm.trrdl_ps)
       /\ LastsAt(r, g.timing_cfg_2.FOUR_ACT, dimm.tfaw_ps)
  BY <1>11, <1>12, RegistersCover
<1>14. /\ LastsAt(r, Shown(g.timing_cfg_1.WRREC, g.timing_cfg_3.EXT_WRREC) - Otf(opts), dimm.twr_ps)
       /\ LastsAt(r, ShownCasLatency(g) \div 2, dimm.taa_ps)
  BY <1>11, <1>12, LatenciesCover
<1>15. WriteRecovery(c) = Shown(g.timing_cfg_1.WRREC, g.timing_cfg_3.EXT_WRREC) - Otf(opts)
  BY <1>4, <1>11, Zenon DEF WriteRecovery, Otf
<1>16. WaitsTwice(g)
<2>1. dimm.rank_density >= 32
  BY <1>12 DEF Coverable
<2>2. /\ g.ddr_sdram_cfg.DBW \in 0..2 /\ g.cs[0].intlv_en \in BOOLEAN
      /\ total_mem_per_ctrl(g) \in Nat
      /\ total_mem_per_ctrl(g) = 0 \/ total_mem_per_ctrl(g) >= 8
  BY <1>2, <1>5, <1>11, <2>1, MemoryInRange
<2> QED
  BY <1>10, <2>2, TimeoutCovers DEF WaitsTwice
<1>17. \A clocks, ps : Lasts(clocks, ps) <=> LastsAt(r, clocks, ps)
  BY <1>10, SMT DEF Lasts, LastsAt
<1>18. /\ Lasts(Shown(g.timing_cfg_1.PRETOACT, g.timing_cfg_3.EXT_PRETOACT), dimm.trp_ps)
       /\ Lasts(Shown(g.timing_cfg_1.ACTTOPRE, g.timing_cfg_3.EXT_ACTTOPRE), dimm.tras_ps)
       /\ Lasts(Shown(g.timing_cfg_1.ACTTORW, g.timing_cfg_3.EXT_ACTTORW), dimm.trcd_ps)
       /\ Lasts(Shown(g.timing_cfg_1.REFREC, g.timing_cfg_3.EXT_REFREC) + 8, dimm.trfc1_ps)
       /\ Lasts(WriteRecovery(c), dimm.twr_ps)
       /\ Lasts(g.timing_cfg_1.ACTTOACT, dimm.trrds_ps)
       /\ Lasts(g.timing_cfg_8.ACTTOACT_BG, dimm.trrdl_ps)
       /\ Lasts(g.timing_cfg_2.FOUR_ACT, dimm.tfaw_ps)
       /\ Lasts(ShownCasLatency(g) \div 2, dimm.taa_ps)
  BY <1>13, <1>14, <1>15, <1>17
<1> QED
  BY <1>5, <1>11, <1>16, <1>18

\* The controller waits as long as the DIMM asks for, and boot waits for D_INIT twice as long as a pass over
\* the memory takes, whatever the board and the DIMMs, when the fields have room for the times of the DIMM:
\* regs.c rounds each time to clocks, looks some up in tables and cuts them into fields and extension fields.
THEOREM TimesAreCovered ==
  ASSUME \A setup \in DdrSetups : Covered(setup)
  PROVE  DdrSpec => []TimingsCovered
<1>1. DdrInit => TimesInv
  BY TimesStart
<1>2. DdrInv /\ TimesInv /\ [DdrNext]_ddrVars => TimesInv'
  BY TimesSteps
<1>3. DdrInv /\ LayoutInv /\ TimesInv => TimingsCovered
  BY TimesCovered
<1>4. DdrSpec => [](DdrInv /\ LayoutInv)
  BY LayoutHolds
<1> QED
  BY <1>1, <1>2, <1>3, <1>4, PTL DEF DdrSpec
=============================================================================
