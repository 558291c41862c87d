------------------------------- MODULE SdMmc -------------------------------
(***************************************************************************)
(* The SD and MMC driver, drivers/sd/sd_mmc.c, and its one caller,         *)
(* test_sd(): identification of the card, the switch to high speed and the *)
(* reads, with the controller and the card as they answer.                 *)
(*                                                                         *)
(* An action is one command and the wait for its response, with every      *)
(* outcome the two functions tell apart.  Only the DMA read is finer: the  *)
(* driver samples two registers one after the other while the controller   *)
(* works, so each sample is a step.                                        *)
(***************************************************************************)
EXTENDS Integers, Sequences, FiniteSets

CONSTANTS
  SdCards,        \* the cards that may be in the slot
  SdDmaSupport,   \* the possible values of the DMA bit of HOSTCAPBLT
  SdPolls         \* bound: iterations of a polling loop before its timer ends

ASSUME SdAssumption ==
  /\ SdCards \subseteq [sort : {"none", "sd1", "sd2", "mmc3", "mmc4"}, hc : BOOLEAN, hs : BOOLEAN, scr : 0..15]
  /\ SdDmaSupport \subseteq BOOLEAN
  /\ SdPolls \in Nat \ {0}

VARIABLES
  sdCard,   \* the card: what it is, its state and its bus mode
  sdHost,   \* the eSDHC: clock, block size, interrupt bits, transfer under way
  mmc,      \* struct mmc
  sdPc,     \* where the driver is
  sdPoll,   \* iterations of the current loop
  sdRet,    \* value returned last by the initialisation or a read
  sdRead,   \* the read under way: test case, next block, buffer place, end
  sdDest    \* the buffer, by block; history of polls that saw no end in sdRead

sdVars == <<sdCard, sdHost, mmc, sdPc, sdPoll, sdRet, sdRead, sdDest>>

CARD_IDENTIFICATION_FREQ == 400000
SD_SS_25MHZ  == 20000000
SD_HS_50MHZ  == 40000000
MMC_SS_20MHZ == 15000000
MMC_HS_26MHZ == 20000000
MMC_HS_52MHZ == 40000000
MAX_PLATFORM_CLOCK == 800000000
BLOCK_LEN_512 == 512

BUSY           == -6
UNUSABLE_CARD  == -2
CARD_DETECT    == -1
COMMUNICATION  == -3
DMA_ERROR      == -5
RESP_TIMEOUT   == 1
COMMAND_ERROR  == 2

NoBlk == -1

\* Test cases of test_sd(): offset and length in blocks, from block 512.
SdTests == <<[offset |-> 0, len |-> 3], [offset |-> 1, len |-> 2], [offset |-> 2, len |-> 1]>>

LowestOf(S) == CHOOSE n \in S : \A m \in S : n <= m

\* The divisors: the smallest prescaler that brings 16 dividers in reach, then the smallest divider.
Prescaler(clock) ==
  IF MAX_PLATFORM_CLOCK \div 16 > clock
  THEN LowestOf({fs \in {2, 4, 8, 16, 32, 64, 128} : MAX_PLATFORM_CLOCK \div fs <= clock * 16} \cup {256})
  ELSE 2

set_speed(clock) ==
  LET fs  == Prescaler(clock)
      dvs == LowestOf({d \in 1..16 : MAX_PLATFORM_CLOCK \div (d * fs) <= clock} \cup {17})
  IN  MAX_PLATFORM_CLOCK \div (fs * (((dvs - 1) % 16) + 1))

\* dropped is a history: the card has reported SWITCH_ERROR in a status and cleared it.
CardIs(card) == [is |-> card, state |-> "idle", mode |-> "default", switchError |-> FALSE, dropped |-> FALSE]

SdInit ==
  /\ sdCard \in {CardIs(card) : card \in SdCards}
  /\ sdHost = [clock |-> 0, blk |-> 0, tc |-> FALSE, err |-> FALSE, dla |-> FALSE,
               moving |-> NoBlk, dsaddr |-> 0]
  /\ mmc = [type |-> "none", version |-> 0, high_capacity |-> FALSE, block_len |-> 0,
            bus_freq |-> 0, dma_support |-> FALSE]
  /\ sdPc = "off"
  /\ sdPoll = 0
  /\ sdRet = 0
  /\ sdRead = [case |-> 0, blk |-> 0, to |-> 0, len |-> 0, unseen |-> FALSE]
  /\ sdDest = [k \in 0..2 |-> NoBlk]

-----------------------------------------------------------------------------
(* The two functions under every command.                                  *)

\* esdhc_send_cmd(): no command leaves while the command or the data line is in use.
LinesFree == ~sdHost.dla /\ sdHost.moving = NoBlk

\* esdhc_send_cmd() and esdhc_wait_response(): what a command can come back with.  A card that would
\* answer may also be missed.
Outcomes(answers) ==
  {BUSY} \cup
  IF ~LinesFree THEN {}
  ELSE {RESP_TIMEOUT, COMMUNICATION} \cup IF answers THEN {0, COMMAND_ERROR} ELSE {}

\* A command that starts the DMA may also find that it failed.
DmaOutcomes(answers) == Outcomes(answers) \cup IF LinesFree /\ answers THEN {DMA_ERROR} ELSE {}

IsSd  == sdCard.is.sort \in {"sd1", "sd2"}
IsMmc == sdCard.is.sort \in {"mmc3", "mmc4"}

\* The card after a command: one that failed may have been lost on the way, or its response.
Received(out, card) == {IF out = BUSY THEN sdCard ELSE card} \cup IF out = 0 THEN {} ELSE {sdCard}
InState(state) == [sdCard EXCEPT !.state = state]

\* irqstat is cleared before a command.
Cleared(host) == [host EXCEPT !.tc = FALSE, !.err = FALSE]

Goto(pc) == sdPc' = pc /\ sdPoll' = 0 /\ UNCHANGED <<sdRet, sdRead, sdDest>>
InitReturns(ret) == sdPc' = "initDone" /\ sdPoll' = 0 /\ sdRet' = ret /\ UNCHANGED <<sdRead, sdDest>>
ReadReturns(ret) == sdPc' = "readDone" /\ sdPoll' = 0 /\ sdRet' = ret

\* One command whose every failure ends the initialisation with an error.
Command(here, answers, card, next) ==
  /\ sdPc = here
  /\ \E out \in Outcomes(answers) :
       /\ sdCard' \in Received(out, card)
       /\ IF out = 0 THEN Goto(next) ELSE InitReturns(COMMUNICATION)
  /\ sdHost' = Cleared(sdHost)

-----------------------------------------------------------------------------
(* Identification.                                                         *)

\* esdhc_init(): reset, the identification clock, card detection and power-up.
esdhc_init(ret) ==
  /\ ret \in (IF sdCard.is.sort = "none" THEN {} ELSE {0}) \cup {BUSY, CARD_DETECT}
  /\ sdHost' = [sdHost EXCEPT !.clock = IF ret = BUSY THEN 0 ELSE set_speed(CARD_IDENTIFICATION_FREQ)]

\* sd_mmc_init() and the first part of esdhc_emmc_init().
sd_mmc_init ==
  /\ sdPc = "off"
  /\ \E ret \in {0, BUSY, CARD_DETECT}, dma \in SdDmaSupport :
       /\ esdhc_init(ret)
       /\ IF ret = 0
          THEN /\ mmc' = [mmc EXCEPT !.bus_freq = CARD_IDENTIFICATION_FREQ, !.dma_support = dma]
               /\ Goto("cmd0")
          ELSE InitReturns(ret) /\ UNCHANGED mmc
  /\ UNCHANGED sdCard

\* CMD0 has no response to miss.
GoIdle ==
  /\ sdPc = "cmd0"
  /\ \E out \in {BUSY, 0, COMMUNICATION} :
       /\ sdCard' \in Received(out, CardIs(sdCard.is))
       /\ IF out = 0 THEN Goto("cmd8") ELSE InitReturns(UNUSABLE_CARD)
  /\ sdHost' = Cleared(sdHost)
  /\ UNCHANGED mmc

\* CMD8: cards of version 2 echo the pattern; only silence still means an older SD card.
SendIfCond ==
  /\ sdPc = "cmd8"
  /\ \E out \in Outcomes(sdCard.is.sort = "sd2") :
       CASE out = BUSY         -> InitReturns(UNUSABLE_CARD) /\ UNCHANGED mmc
         [] out = RESP_TIMEOUT -> Goto("cmd55") /\ mmc' = [mmc EXCEPT !.high_capacity = FALSE]
         [] out = 0            -> Goto("cmd55") /\ mmc' = [mmc EXCEPT !.version = 2]
         [] OTHER              -> Goto("mmc0") /\ UNCHANGED mmc
  /\ sdHost' = Cleared(sdHost)
  /\ UNCHANGED sdCard

\* Mutant: no limit.
LoopOrLeaveMutant(ready, poll, again, leave) ==
  IF ~ready /\ poll <= SdPolls
  THEN sdPc' = again /\ sdPoll' = poll /\ UNCHANGED <<sdRet, sdRead, sdDest>>
  ELSE \/ poll <= SdPolls /\ Goto(leave)
       \/ poll >= SdPolls /\ InitReturns(UNUSABLE_CARD)

\* A loop `while (!ready && get_timer(start) < limit)' and the test `get_timer(start) > limit' after it:
\* at the limit itself the loop is over and the test does not fire.
LoopOrLeave(ready, poll, again, leave) ==
  IF ~ready /\ poll < SdPolls
  THEN sdPc' = again /\ sdPoll' = poll + 1 /\ UNCHANGED <<sdRet, sdRead, sdDest>>
  ELSE \/ poll <= SdPolls /\ Goto(leave)
       \/ poll >= SdPolls /\ InitReturns(UNUSABLE_CARD)

\* A wait for a response that never comes lasts as long as the limit of the loop around it: past the limit.
PollAfter(out) == IF out = COMMUNICATION THEN SdPolls + 1 ELSE sdPoll

\* CMD55 before ACMD41: only a broken response ends the attempt.
AppCommand ==
  /\ sdPc = "cmd55"
  /\ \E out \in Outcomes(IsSd) :
       IF out \in {BUSY, COMMAND_ERROR} THEN InitReturns(UNUSABLE_CARD)
       ELSE sdPc' = "acmd41" /\ sdPoll' = PollAfter(out) /\ UNCHANGED <<sdRet, sdRead, sdDest>>
  /\ sdHost' = Cleared(sdHost)
  /\ UNCHANGED <<sdCard, mmc>>

\* ACMD41: a card gets ready only when the host names its capacity, and then says what it is.
SdSendOpCond ==
  /\ sdPc = "acmd41"
  /\ \E out \in Outcomes(IsSd), up \in BOOLEAN :
       LET ready == up /\ (~sdCard.is.hc \/ mmc.version = 2)
       IN  /\ sdCard' \in Received(out, IF IsSd /\ ready THEN InState("ready") ELSE sdCard)
           /\ CASE out \in {BUSY, COMMAND_ERROR} -> InitReturns(UNUSABLE_CARD) /\ UNCHANGED mmc
                [] out = RESP_TIMEOUT -> Goto("mmc0") /\ UNCHANGED mmc
                [] OTHER ->
                     /\ LoopOrLeave(out = 0 /\ ready, PollAfter(out), "cmd55", "cid")
                     /\ mmc' = IF sdPc' # "cid" THEN mmc
                               ELSE [mmc EXCEPT !.type = "SD",
                                                !.high_capacity = @ \/ (out = 0 /\ ready /\ sdCard.is.hc)]
  /\ sdHost' = Cleared(sdHost)

\* identify_mmc_card(): reset again, then CMD1 until the card is ready.
MmcGoIdle ==
  /\ sdPc = "mmc0"
  /\ \E out \in {BUSY, 0, COMMUNICATION} :
       /\ sdCard' \in Received(out, CardIs(sdCard.is))
       /\ IF out = 0 THEN Goto("cmd1") ELSE InitReturns(UNUSABLE_CARD)
  /\ sdHost' = Cleared(sdHost)
  /\ UNCHANGED mmc

MmcSendOpCond ==
  /\ sdPc = "cmd1"
  /\ \E out \in Outcomes(IsMmc), up \in BOOLEAN :
       /\ sdCard' \in Received(out, IF IsMmc /\ up THEN InState("ready") ELSE sdCard)
       /\ IF out # 0 THEN InitReturns(UNUSABLE_CARD) /\ UNCHANGED mmc
          ELSE /\ LoopOrLeave(up, sdPoll, "cmd1", "cid")
               /\ mmc' = IF sdPc' # "cid" THEN mmc
                         ELSE [mmc EXCEPT !.type = "MMC", !.high_capacity = @ \/ (up /\ sdCard.is.hc)]
  /\ sdHost' = Cleared(sdHost)

\* get_cid_rca_csd(): CMD2, CMD3, CMD9; a card answers each in one state only.
AllSendCid      == Command("cid", sdCard.state = "ready", InState("ident"), "rca") /\ UNCHANGED mmc
SendRelativeAddr == Command("rca", sdCard.state = "ident", InState("stby"), "csd") /\ UNCHANGED mmc

SendCsd ==
  /\ Command("csd", sdCard.state = "stby", sdCard, "select")
  /\ mmc' = IF sdPc' # "select" THEN mmc
            ELSE [mmc EXCEPT !.block_len = BLOCK_LEN_512,
                             !.version = IF mmc.type # "MMC" THEN @
                                         ELSE IF sdCard.is.sort = "mmc4" THEN 4 ELSE 3]

\* change_state_to_transfer_state(): CMD7; the card may refuse and report it in its status.
SelectCard ==
  \E state \in {"tran", "stby"} :
    Command("select", sdCard.state = "stby", InState(state), "status") /\ UNCHANGED mmc

SwitchPc == IF mmc.type = "SD" THEN "app51" ELSE IF mmc.version < 4 THEN "speed" ELSE "mmcSwitch"
SlowFreq == IF mmc.type = "SD" THEN SD_SS_25MHZ ELSE MMC_SS_20MHZ

\* CMD13 until the state is "tran"; R1_ERROR returns `error', which is 0 then.
SendStatus ==
  /\ sdPc = "status"
  /\ \E out \in Outcomes(sdCard.state \in {"stby", "tran"}), r1_error \in BOOLEAN :
       IF out # 0 THEN InitReturns(COMMUNICATION) /\ UNCHANGED mmc
       ELSE IF r1_error \/ sdCard.state = "tran"
       THEN Goto(SwitchPc) /\ mmc' = [mmc EXCEPT !.bus_freq = SlowFreq]
       ELSE /\ UNCHANGED mmc
            /\ IF sdPoll < SdPolls
               THEN sdPc' = "status" /\ sdPoll' = sdPoll + 1 /\ UNCHANGED <<sdRet, sdRead, sdDest>>
               ELSE InitReturns(COMMUNICATION)
  /\ sdHost' = Cleared(sdHost)
  /\ UNCHANGED sdCard

-----------------------------------------------------------------------------
(* The switch to high speed.                                               *)

\* esdhc_set_data_attributes(): refused while the data line is active, which no caller notices.
WithBlkattr(host, len) == IF host.dla THEN host ELSE [host EXCEPT !.blk = len]

\* esdhc_read_data() of at most 64 bytes: esdhc_read_data_nodma(), whatever the DMA support.
SdApp51 ==
  /\ Command("app51", sdCard.state = "tran", sdCard, "acmd51")
  /\ UNCHANGED mmc

\* ACMD51 and the 8 bytes of the SCR.
SendScr ==
  /\ sdPc = "acmd51"
  /\ sdHost' = Cleared(WithBlkattr(sdHost, 8))
  /\ \E out \in Outcomes(sdCard.state = "tran"), data \in {0, COMMUNICATION} :
       IF out # 0 \/ data # 0 THEN InitReturns(COMMUNICATION) /\ UNCHANGED mmc
       ELSE /\ mmc' = [mmc EXCEPT !.version = sdCard.is.scr]
            /\ Goto(IF sdCard.is.scr = 0 THEN "speed" ELSE "check")
  /\ UNCHANGED sdCard

\* CMD6 in check mode, at most four times while the function group is busy.
CheckSwitch ==
  /\ sdPc = "check"
  /\ sdHost' = Cleared(WithBlkattr(sdHost, 64))
  /\ \E out \in Outcomes(sdCard.state = "tran"), data \in {0, COMMUNICATION}, groupBusy \in BOOLEAN :
       IF out # 0 \/ data # 0 THEN InitReturns(COMMUNICATION)
       ELSE IF groupBusy /\ sdPoll < 3
       THEN sdPc' = "check" /\ sdPoll' = sdPoll + 1 /\ UNCHANGED <<sdRet, sdRead, sdDest>>
       ELSE Goto(IF sdCard.is.hs THEN "switch" ELSE "speed")
  /\ UNCHANGED <<sdCard, mmc>>

\* Mutant: the status of the switch is not looked at.
SwitchedFreqMutant(tookHigh) == SD_HS_50MHZ

\* CMD6 in switch mode: the card says in its status which mode it took.
SwitchedFreq(tookHigh) == IF tookHigh THEN SD_HS_50MHZ ELSE SD_SS_25MHZ

SdSwitch ==
  /\ sdPc = "switch"
  /\ sdHost' = Cleared(WithBlkattr(sdHost, 64))
  /\ \E out \in Outcomes(sdCard.state = "tran"), data \in {0, COMMUNICATION}, tookHigh \in BOOLEAN :
       /\ sdCard' \in Received(out, [sdCard EXCEPT !.mode = IF tookHigh THEN "high" ELSE @])
       /\ IF out # 0 \/ data # 0 THEN InitReturns(COMMUNICATION) /\ UNCHANGED mmc
          ELSE Goto("speed") /\ mmc' = [mmc EXCEPT !.bus_freq = SwitchedFreq(tookHigh)]

\* mmc_switch_to_high_frquency(): CMD6, which the card may fail to carry out.
MmcSwitch ==
  \E tookHigh \in {FALSE} \cup {sdCard.is.hs} :
    /\ Command("mmcSwitch", sdCard.state = "tran",
               [sdCard EXCEPT !.mode = IF tookHigh THEN "high" ELSE @, !.switchError = ~tookHigh],
               "mmcStatus")
    /\ UNCHANGED mmc

\* The card has told SWITCH_ERROR, which it may repeat in its next status or not.
StatusTold(repeats) ==
  [sdCard EXCEPT !.switchError = @ /\ repeats, !.dropped = @ \/ (sdCard.switchError /\ ~repeats)]

\* CMD13 while it shows SWITCH_ERROR and time is left: only the last status counts.
MmcSwitchStatus ==
  /\ sdPc = "mmcStatus"
  /\ \E out \in Outcomes(sdCard.state = "tran"), repeats \in BOOLEAN :
       /\ sdCard' \in Received(out, StatusTold(repeats))
       /\ IF out # 0 THEN InitReturns(COMMUNICATION) /\ UNCHANGED mmc
          ELSE IF sdCard.switchError /\ sdPoll < SdPolls
          THEN /\ sdPc' = "mmcStatus" /\ sdPoll' = sdPoll + 1
               /\ UNCHANGED <<mmc, sdRet, sdRead, sdDest>>
          ELSE /\ mmc' = [mmc EXCEPT !.bus_freq = IF sdCard.switchError THEN MMC_HS_26MHZ ELSE MMC_HS_52MHZ]
               /\ Goto("speed")
  /\ sdHost' = Cleared(sdHost)

\* The end of esdhc_emmc_init().
SetBusSpeed ==
  /\ sdPc = "speed"
  /\ sdHost' = [sdHost EXCEPT !.clock = set_speed(mmc.bus_freq)]
  /\ InitReturns(0)
  /\ UNCHANGED <<sdCard, mmc>>

-----------------------------------------------------------------------------
(* Reading.                                                                *)

\* test_sd() makes its three reads whatever the initialisation and the reads return.
\* A struct that was never filled has block length 0; x % 0 is x on this processor: -1 is returned.
esdhc_read ==
  /\ sdPc \in {"initDone", "readDone"}
  /\ sdRead.case < Len(SdTests)
  /\ LET test == SdTests[sdRead.case + 1]
     IN  /\ sdRead' = [case |-> sdRead.case + 1, blk |-> 512 + test.offset, to |-> 0,
                       len |-> test.len, unseen |-> FALSE]
         /\ IF mmc.block_len = 0 THEN ReadReturns(-1)
            ELSE sdPc' = "cmd16" /\ sdPoll' = 0 /\ UNCHANGED sdRet
  /\ UNCHANGED <<sdCard, sdHost, mmc, sdDest>>

\* esdhc_read_block(): CMD16.
SetBlocklen ==
  /\ sdPc = "cmd16"
  /\ \E out \in Outcomes(sdCard.state = "tran") :
       IF out = 0 THEN Goto("cmd17")
       ELSE ReadReturns(IF out = BUSY THEN BUSY ELSE COMMUNICATION) /\ UNCHANGED <<sdRead, sdDest>>
  /\ sdHost' = Cleared(sdHost)
  /\ UNCHANGED <<sdCard, mmc>>

\* Mutant: a card of high capacity is addressed in bytes too.
OffsetMutant(block) == block * mmc.block_len

Offset(block) == IF mmc.high_capacity THEN block ELSE block * mmc.block_len

\* The block a card sends for an argument of CMD17.
Addressed(argument) == IF sdCard.is.hc THEN argument ELSE argument \div BLOCK_LEN_512

\* A block has been read: on to the next one, or back from esdhc_read().
BlockDone ==
  IF sdRead.to + 1 < sdRead.len
  THEN /\ sdPc' = "cmd16" /\ sdPoll' = 0 /\ UNCHANGED sdRet
       /\ sdRead' = [sdRead EXCEPT !.blk = @ + 1, !.to = @ + 1]
  ELSE ReadReturns(0) /\ UNCHANGED sdRead

\* CMD17 without DMA: esdhc_read_data_nodma() copies the block and waits for TC.
ReadSingleBlockPio ==
  /\ sdPc = "cmd17" /\ ~mmc.dma_support
  /\ \E out \in Outcomes(sdCard.state = "tran"), data \in {0, COMMUNICATION} :
       IF out # 0 THEN ReadReturns(out) /\ UNCHANGED <<sdRead, sdDest>>
       ELSE \/ /\ data = 0
               /\ sdDest' = [sdDest EXCEPT ![sdRead.to] = Addressed(Offset(sdRead.blk))]
               /\ BlockDone
            \/ /\ data = COMMUNICATION
               /\ \E copied \in {sdDest[sdRead.to], NoBlk} : sdDest' = [sdDest EXCEPT ![sdRead.to] = copied]
               /\ ReadReturns(data) /\ UNCHANGED sdRead
  /\ sdHost' = Cleared(WithBlkattr(sdHost, mmc.block_len))
  /\ UNCHANGED <<sdCard, mmc>>

\* CMD17 with DMA: the controller starts to move the block.
ReadSingleBlockDma ==
  /\ sdPc = "cmd17" /\ mmc.dma_support
  /\ \E out \in DmaOutcomes(sdCard.state = "tran") :
       LET host == Cleared(WithBlkattr(sdHost, mmc.block_len))
       IN  IF out # 0 THEN ReadReturns(out) /\ sdHost' = host /\ UNCHANGED <<sdRead, sdDest>>
           ELSE /\ sdHost' = [host EXCEPT !.dla = TRUE, !.moving = Addressed(Offset(sdRead.blk)),
                                          !.dsaddr = sdRead.to]
                /\ Goto("pollIrq")
  /\ UNCHANGED <<sdCard, mmc>>

\* esdhc_read_data_dma(): the sample of irqstat, with the errors it looks for.
PollIrqstat ==
  /\ sdPc = "pollIrq"
  /\ \/ /\ sdHost.err
        /\ \E ret \in {COMMUNICATION, DMA_ERROR} : ReadReturns(ret)
        /\ sdHost' = Cleared(sdHost)
        /\ UNCHANGED sdRead
     \/ /\ ~sdHost.err /\ sdHost.tc
        /\ \/ BlockDone
           \/ sdPoll = SdPolls /\ ReadReturns(COMMUNICATION) /\ UNCHANGED sdRead
        /\ sdHost' = Cleared(sdHost)
     \/ /\ ~sdHost.err /\ ~sdHost.tc
        /\ sdPc' = "pollPrs"
        /\ UNCHANGED <<sdHost, sdPoll, sdRet, sdRead>>
  /\ UNCHANGED <<sdCard, mmc, sdDest>>

\* The sample of prsstat, then the clock: the loop goes on while the line is active and time is left.
\* Past the limit the read fails; at the limit, and when the line went idle, it succeeds.
PollPrsstat ==
  /\ sdPc = "pollPrs"
  /\ IF sdHost.dla /\ sdPoll < SdPolls
     THEN sdPc' = "pollIrq" /\ sdPoll' = sdPoll + 1 /\ UNCHANGED <<sdHost, sdRet, sdRead>>
     ELSE /\ sdHost' = Cleared(sdHost)
          /\ \/ sdPoll = SdPolls /\ ReadReturns(COMMUNICATION) /\ UNCHANGED sdRead
             \/ IF sdRead.to + 1 < sdRead.len
                THEN /\ sdPc' = "cmd16" /\ sdPoll' = 0 /\ UNCHANGED sdRet
                     /\ sdRead' = [sdRead EXCEPT !.blk = @ + 1, !.to = @ + 1, !.unseen = TRUE]
                ELSE ReadReturns(0) /\ sdRead' = [sdRead EXCEPT !.unseen = TRUE]
  /\ UNCHANGED <<sdCard, mmc, sdDest>>

\* The controller: the last bit leaves the card, the last word reaches memory, or the transfer fails.
HwLineIdle ==
  /\ sdHost.dla
  /\ sdHost' = [sdHost EXCEPT !.dla = FALSE]
  /\ UNCHANGED <<sdCard, mmc, sdPc, sdPoll, sdRet, sdRead, sdDest>>

HwTransferDone ==
  /\ sdHost.moving # NoBlk /\ ~sdHost.dla
  /\ sdHost' = [sdHost EXCEPT !.moving = NoBlk, !.tc = TRUE]
  /\ sdDest' = [sdDest EXCEPT ![sdHost.dsaddr] = sdHost.moving]
  /\ UNCHANGED <<sdCard, mmc, sdPc, sdPoll, sdRet, sdRead>>

HwTransferFails ==
  /\ sdHost.moving # NoBlk
  /\ sdHost' = [sdHost EXCEPT !.moving = NoBlk, !.dla = FALSE, !.err = TRUE]
  /\ UNCHANGED <<sdCard, mmc, sdPc, sdPoll, sdRet, sdRead, sdDest>>

-----------------------------------------------------------------------------
SdDriver ==
  \/ GoIdle \/ SendIfCond \/ AppCommand \/ SdSendOpCond \/ MmcGoIdle \/ MmcSendOpCond
  \/ AllSendCid \/ SendRelativeAddr \/ SendCsd \/ SelectCard \/ SendStatus
  \/ SdApp51 \/ SendScr \/ CheckSwitch \/ SdSwitch \/ MmcSwitch \/ MmcSwitchStatus \/ SetBusSpeed
  \/ esdhc_read \/ SetBlocklen \/ ReadSingleBlockPio \/ ReadSingleBlockDma \/ PollIrqstat \/ PollPrsstat

SdController == HwLineIdle \/ HwTransferDone \/ HwTransferFails

SdNext == sd_mmc_init \/ SdDriver \/ SdController
\* The driver is the only program of the boot core: it keeps running.  The controller promises nothing.
SdFair == WF_sdVars(SdDriver)
SdSpec == SdInit /\ [][SdNext]_sdVars /\ SdFair

-----------------------------------------------------------------------------
SdDone == sdPc = "readDone" /\ sdRead.case = Len(SdTests)

BufferHoldsBlocks ==
  \A k \in 0..sdRead.len - 1 : sdDest[k] = 512 + SdTests[sdRead.case].offset + k

\* A read that reports success has put the blocks asked for into the buffer, for every kind of card
\* and both ways to read, when each DMA transfer was seen to complete.
ReadIsRight ==
  sdPc = "readDone" /\ sdRet = 0 /\ ~sdRead.unseen => BufferHoldsBlocks

\* What a card allows in the mode it is really in.
ModeLimit ==
  CASE sdCard.mode = "high" -> IF IsSd THEN 50000000 ELSE 52000000
    [] sdCard.mode = "default" /\ sdCard.state \in {"stby", "tran"} ->
         IF IsSd THEN 25000000 ELSE IF sdCard.is.sort = "mmc4" THEN 26000000 ELSE 20000000
    [] OTHER -> 400000

\* A card that refuses the switch to high speed is not clocked at 52 MHz: "if SWITCH Error, freq = 26 MHz;
\* if no error, freq = 52 MHz" (sd_mmc.c:355-356).  The clock never exceeds what the card allows.
ClockFitsCard == sdPc # "off" => sdHost.clock <= ModeLimit

\* Short of that the clock fits: a card, SD or MMC, that has cleared no refusal when the driver read it is never
\* clocked above what it allows, whether it took the switch, refused it or was reset since.
ClockFitsStatus == ~sdCard.dropped => ClockFitsCard

\* The driver always gets to the end of test_sd(), whatever the card and the controller do.
SdEnds == sdPc = "cmd0" ~> SdDone
=============================================================================
