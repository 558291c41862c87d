----------------------------- MODULE BusProofs ------------------------------
(***************************************************************************)
(* Proofs about the two drivers that read boot's data over a bus: the      *)
(* EEPROMs of the DIMMs over I2C (I2c), and the SD or MMC card (SdMmc).    *)
(*                                                                         *)
(* Both invariants follow a transfer that is under way: which part of the  *)
(* data the buffer has, and that nothing of an earlier transfer, which the *)
(* driver may not have waited for, can still reach it.                     *)
(***************************************************************************)
EXTENDS I2c, SdMmc, SequenceTheorems, WellFoundedInduction, TLAPS

-----------------------------------------------------------------------------
(* Reading the EEPROM of a DIMM (I2c), for any length of a page.           *)

I2cController == [ma : BOOLEAN, nak : BOOLEAN, bb : BOOLEAN]
I2cEeprom == [present : BOOLEAN, page : {0, 1}, place : Int, talks : BOOLEAN]

I2cTypes ==
  /\ i2c \in I2cController
  /\ eeprom \in I2cEeprom
  /\ i2cPc \in {"off", "idle", "start", "chip", "addr", "write", "restart", "byte", "done"}
  /\ i2cCall \in 0..4 /\ (i2cPc # "off" => i2cCall # 0)
  /\ i2cRet \in Int
  /\ selected \in BOOLEAN

\* The first n bytes of the EEPROM.
SpdByte(k) == <<(k - 1) \div SpdBytes, (k - 1) % SpdBytes>>
Bytes(n) == [k \in 1..n |-> SpdByte(k)]

\* The page of a transfer, and the bytes read before it.
PageOf(n) == IF n \in {1, 2} THEN 0 ELSE 1
ReadBefore(n) == IF n \in {1, 2} THEN 0 ELSE SpdBytes

\* While a transfer reads, i bytes of the page are in the buffer and the next one is on its way; the
\* last one is on its way without an acknowledge, which silences the EEPROM.
Reading(i) ==
  /\ i2cBuf = Bytes(ReadBefore(i2cCall) + i)
  /\ eeprom.place = i + 1
  /\ i2c.nak = (IF i = SpdBytes - 1 THEN TRUE ELSE FALSE)
  /\ eeprom.talks = (IF i = SpdBytes - 1 THEN FALSE ELSE TRUE)

\* What every place of the driver knows when nothing has failed so far.
TransferFollows ==
  /\ i2cPc \in {"off", "idle", "start", "done"} => ~i2c.ma /\ ~i2c.bb
  /\ i2cPc \in {"chip", "addr", "write", "restart", "byte"} => i2c.ma
  /\ i2cPc # "byte" => ~eeprom.talks
  /\ i2cPc \in {"write"} => i2cCall \in {1, 3}
  /\ i2cPc \in {"restart", "byte"} => i2cCall \in {2, 4}
  /\ i2cCall \in {2, 4} \/ (i2cCall \in {1, 3} /\ i2cPc \in {"addr", "write"}) => eeprom.page = PageOf(i2cCall)
  /\ i2cPc = "off" => i2cBuf = Bytes(0)
  /\ i2cPc \in {"idle", "start", "chip", "addr", "write", "restart"} => i2cBuf = Bytes(ReadBefore(i2cCall))
  /\ i2cPc = "restart" => eeprom.place = 0
  /\ i2cPc = "byte" => \E i \in 0..(SpdBytes - 1) : Reading(i)
  /\ i2cPc = "done" => i2cCall = 4 /\ i2cBuf = Bytes(2 * SpdBytes)

I2cInv ==
  /\ I2cTypes
  /\ selected /\ i2cRet # 0 => i2cPc = "done"
  /\ selected /\ i2cRet = 0 => TransferFollows


-----------------------------------------------------------------------------
LEMMA PlaceOfByte ==
  ASSUME NEW S \in Nat \ {0}, NEW i \in 0..(S - 1)
  PROVE  /\ i \div S = 0 /\ i % S = i
         /\ (S + i) \div S = 1 /\ (S + i) % S = i
  OBVIOUS

LEMMA OneMoreByte ==
  ASSUME NEW n \in Nat
  PROVE  Len(Bytes(n)) = n /\ Append(Bytes(n), SpdByte(n + 1)) = Bytes(n + 1)
<1> DEFINE b == SpdByte(n + 1)
           B == {SpdByte(k) : k \in Nat}
<1> HIDE DEF b
<1>1. Bytes(n) \in Seq(B) /\ Len(Bytes(n)) = n /\ b \in B
  BY DEF Bytes, b
<1>2. Bytes(n + 1) \in Seq(B) /\ Len(Bytes(n + 1)) = n + 1
  BY DEF Bytes
<1>3. /\ Append(Bytes(n), b) \in Seq(B) /\ Len(Append(Bytes(n), b)) = n + 1
      /\ \A k \in 1..n : Append(Bytes(n), b)[k] = Bytes(n)[k]
      /\ Append(Bytes(n), b)[n + 1] = b
  BY <1>1, AppendProperties
<1>4. \A k \in 1..(n + 1) : Append(Bytes(n), b)[k] = Bytes(n + 1)[k]
  BY <1>3 DEF Bytes, b
<1>5. Append(Bytes(n), b) = Bytes(n + 1)
  BY <1>2, <1>3, <1>4, SeqEqual
<1> QED
  BY <1>1, <1>5 DEF b

\* The next byte of a transfer is the one at its place of its page.
LEMMA NextByte ==
  ASSUME NEW n \in 1..4, NEW i \in 0..(SpdBytes - 1)
  PROVE  /\ SpdByte(ReadBefore(n) + i + 1) = <<PageOf(n), i>>
         /\ (ReadBefore(n) + i) % SpdBytes = i
<1>1. (ReadBefore(n) + i + 1) - 1 = ReadBefore(n) + i
  BY I2cAssumption DEF ReadBefore
<1>2. /\ i \div SpdBytes = 0 /\ i % SpdBytes = i
      /\ (SpdBytes + i) \div SpdBytes = 1 /\ (SpdBytes + i) % SpdBytes = i
  BY I2cAssumption, PlaceOfByte
<1>3. CASE n \in {1, 2}
  <2>1. ReadBefore(n) + i = i
    BY <1>3 DEF ReadBefore
  <2> QED
    BY <1>1, <1>2, <1>3, <2>1 DEF SpdByte, PageOf
<1>4. CASE n \notin {1, 2}
  <2>1. ReadBefore(n) + i = SpdBytes + i
    BY <1>4 DEF ReadBefore
  <2> QED
    BY <1>1, <1>2, <1>4, <2>1 DEF SpdByte, PageOf
<1> QED
  BY <1>3, <1>4

LEMMA TransferKind ==
  ASSUME i2cCall \in 1..4
  PROVE  /\ i2cCall \in {1, 3} => Transfer.write = TRUE /\ Transfer.page = PageOf(i2cCall)
         /\ i2cCall \in {2, 4} => Transfer.write = FALSE
<1>1. /\ Transfers[1] = [write |-> TRUE, page |-> 0]
      /\ Transfers[2] = [write |-> FALSE, page |-> 0]
      /\ Transfers[3] = [write |-> TRUE, page |-> 1]
      /\ Transfers[4] = [write |-> FALSE, page |-> 1]
  BY DEF Transfers
<1> QED
  BY <1>1 DEF Transfer, PageOf

\* What a wait can end with.
LEMMA AllOutcomes ==
  /\ \A r \in Waits(TRUE) : r \in Int
  /\ \A r \in Waits(FALSE) : r \in Int /\ r # 0
  /\ \A r \in Sends(TRUE) : r \in Int
  /\ \A r \in Sends(FALSE) : r \in Int /\ r # 0
<1>1. ERSTART = -5 /\ ETIME = -4 /\ ENODEV = -2
  BY DEF ERSTART, ETIME, ENODEV
<1>2. \A r \in Waits(TRUE) : r \in {0, ERSTART, ETIME}
  BY DEF Waits
<1>3. \A r \in Waits(FALSE) : r \in {ERSTART, ETIME}
  BY DEF Waits
<1>4. \A r \in Sends(TRUE) : r \in Waits(TRUE)
  BY DEF Sends
<1>5. \A r \in Sends(FALSE) : r \in {ERSTART, ETIME, ENODEV}
  BY <1>2 DEF Sends
<1>6. \A r \in {0, ERSTART, ETIME} : r \in Int
  BY <1>1
<1>7. \A r \in {ERSTART, ETIME, ENODEV} : r \in Int /\ r # 0
  BY <1>1
<1>8. \A r \in {ERSTART, ETIME} : r \in Int /\ r # 0
  BY <1>1
<1> QED
  BY <1>2, <1>3, <1>4, <1>5, <1>6, <1>7, <1>8

LEMMA WaitOutcomes ==
  ASSUME NEW possible \in BOOLEAN, NEW ret \in Waits(possible)
  PROVE  ret \in Int /\ (ret = 0 => possible)
<1>1. CASE possible = TRUE
  BY <1>1, AllOutcomes
<1>2. CASE possible = FALSE
  BY <1>2, AllOutcomes
<1> QED
  BY <1>1, <1>2

LEMMA SendOutcomes ==
  ASSUME NEW possible \in BOOLEAN, NEW ret \in Sends(possible)
  PROVE  ret \in Int /\ (ret = 0 => possible)
<1>1. CASE possible = TRUE
  BY <1>1, AllOutcomes
<1>2. CASE possible = FALSE
  BY <1>2, AllOutcomes
<1> QED
  BY <1>1, <1>2

\* A transfer that fails: a write clears the history, a read ends read_spd().
LEMMA TransferFails ==
  ASSUME I2cTypes, i2cPc # "off", NEW ret \in Int, ret # 0, TransferEnds(ret),
         i2c' \in I2cController, eeprom' \in I2cEeprom
  PROVE  I2cInv'
<1>1. i2cCall \in 1..4
  BY DEF I2cTypes
<1>2. /\ i2cCall \in {1, 3} => Transfer.write = TRUE
      /\ i2cCall \in {2, 4} => Transfer.write = FALSE
  BY <1>1, TransferKind
<1>3. /\ i2cRet' = ret
      /\ i2cCall \in {1, 3} => i2cCall' = i2cCall + 1 /\ i2cPc' = "idle" /\ selected' = FALSE
      /\ i2cCall \in {2, 4} => i2cCall' = i2cCall /\ i2cPc' = "done" /\ selected' = selected
  <2>1. i2cRet' = ret
    BY DEF TransferEnds
  <2>2. ASSUME i2cCall \in {1, 3}
        PROVE  i2cCall' = i2cCall + 1 /\ i2cPc' = "idle" /\ selected' = FALSE
    <3>1. Transfer.write = TRUE /\ i2cCall < 4
      BY <1>2, <2>2
    <3> QED
      BY <3>1 DEF TransferEnds
  <2>3. ASSUME i2cCall \in {2, 4}
        PROVE  i2cCall' = i2cCall /\ i2cPc' = "done" /\ selected' = selected
    <3>1. Transfer.write = FALSE
      BY <1>2, <2>3
    <3>2. selected \in BOOLEAN
      BY DEF I2cTypes
    <3>3. selected' = selected
      BY <3>1, <3>2 DEF TransferEnds
    <3> QED
      BY <3>1, <3>3 DEF TransferEnds
  <2> QED
    BY <2>1, <2>2, <2>3
<1>4. i2cPc' \in {"idle", "done"} /\ i2cCall' \in 1..4 /\ selected' \in BOOLEAN
      /\ (selected' => i2cPc' = "done")
  <2>1. selected \in BOOLEAN
    BY DEF I2cTypes
  <2>2. CASE i2cCall \in {1, 3}
    <3>1. i2cCall + 1 \in 1..4
      BY <2>2
    <3> QED
      BY <1>3, <2>2, <3>1
  <2>3. CASE i2cCall \in {2, 4}
    BY <1>3, <2>1, <2>3
  <2> QED
    BY <1>1, <2>2, <2>3
<1>5. I2cTypes'
  BY <1>3, <1>4 DEF I2cTypes
<1> QED
  BY <1>3, <1>4, <1>5 DEF I2cInv

LEMMA StopTypes ==
  ASSUME I2cTypes, NEW ctl \in I2cController, NEW ret
  PROVE  gen_stop(ctl) \in I2cController /\ AfterWait(ctl, ret) \in I2cController
BY DEF gen_stop, AfterWait, I2cController, I2cTypes, I2cEeprom

LEMMA StepInside ==
  ASSUME I2cInv, i2cPc # "off", i2cPc # "done",
         NEW next \in {"start", "chip", "addr", "write", "restart", "byte"}, Step(next),
         i2c' \in I2cController, eeprom' \in I2cEeprom, TransferFollows => TransferFollows'
  PROVE  I2cInv'
<1>1. i2cPc' = next /\ i2cCall' = i2cCall /\ i2cRet' = i2cRet /\ selected' = selected
  BY DEF Step
<1>2. I2cTypes'
  BY <1>1 DEF I2cTypes, I2cInv
<1>3. selected' => i2cRet' = 0
  BY <1>1 DEF I2cInv
<1> QED
  BY <1>1, <1>2, <1>3 DEF I2cInv

LEMMA I2cStarts == I2cInit => I2cInv
<1> SUFFICES ASSUME I2cInit PROVE I2cInv
  OBVIOUS
<1>1. i2cBuf = Bytes(0)
  BY DEF I2cInit, Bytes
<1>2. I2cTypes
  <2>1. i2c \in I2cController
    BY DEF I2cInit, I2cController
  <2>2. eeprom \in I2cEeprom
    <3>1. 0 \in Int /\ FALSE \in BOOLEAN
      OBVIOUS
    <3>2. \A e \in [present : BOOLEAN, page : {0, 1}, place : {0}, talks : {FALSE}] : e \in I2cEeprom
      BY <3>1, Zenon DEF I2cEeprom
    <3> QED
      BY <3>2 DEF I2cInit
  <2> QED
    BY <2>1, <2>2 DEF I2cInit, I2cTypes
<1>3. TransferFollows
  <2>1. i2cPc = "off" /\ i2cCall = 0 /\ ~i2c.ma /\ ~i2c.bb /\ ~eeprom.talks
    BY DEF I2cInit
  <2> QED
    BY <1>1, <2>1 DEF TransferFollows
<1> QED
  BY <1>2, <1>3 DEF I2cInv, I2cInit

\* What the invariant says at a place of the driver that is not the end.
LEMMA Inside ==
  ASSUME I2cInv, i2cPc # "off", i2cPc # "done"
  PROVE  I2cTypes /\ i2cCall \in 1..4
BY DEF I2cInv, I2cTypes

LEMMA SpdStarts ==
  ASSUME I2cInv, read_spd
  PROVE  I2cInv'
<1>1. I2cTypes /\ i2cCall' = 1 /\ i2cPc' = "idle" /\ eeprom' = eeprom /\ i2cBuf' = i2cBuf
      /\ i2cRet' = i2cRet /\ selected' = selected /\ i2cPc = "off"
      /\ i2c' = [i2c EXCEPT !.ma = FALSE, !.nak = FALSE]
  BY DEF read_spd, I2cInv
<1>2. i2c' \in I2cController /\ i2c'.ma = FALSE /\ i2c'.bb = i2c.bb
  BY <1>1 DEF I2cTypes, I2cController
<1>3. I2cTypes'
  BY <1>1, <1>2 DEF I2cTypes
<1>4. selected' => i2cRet' = 0
  BY <1>1 DEF I2cInv
<1>5. ASSUME selected' = TRUE PROVE TransferFollows'
  <2>1. TransferFollows
    BY <1>1, <1>4, <1>5 DEF I2cInv
  <2>2. ReadBefore(1) = 0
    BY DEF ReadBefore
  <2>3. i2cBuf' = Bytes(ReadBefore(1))
    BY <1>1, <2>1, <2>2 DEF TransferFollows
  <2>4. ~eeprom.talks /\ ~i2c.bb
    BY <1>1, <2>1 DEF TransferFollows
  <2> QED
    BY <1>1, <1>2, <2>3, <2>4 DEF TransferFollows
<1>6. selected' \in BOOLEAN
  BY <1>3 DEF I2cTypes
<1> QED
  BY <1>3, <1>4, <1>5, <1>6 DEF I2cInv

\* A wait that fails before the address is on the bus.
LEMMA AddressFailure ==
  ASSUME I2cInv, i2cPc # "off", i2cPc # "done", NEW ctl \in I2cController, NEW ret \in Int, ret # 0,
         AddressFails(ctl, ret), eeprom' = eeprom
  PROVE  I2cInv'
<1>1. I2cTypes /\ eeprom' \in I2cEeprom
  BY Inside DEF I2cTypes
<1>2. gen_stop(ctl) \in I2cController /\ AfterWait(ctl, ret) \in I2cController
  BY <1>1, StopTypes
<1>3. i2c' \in I2cController /\ TransferEnds(ret)
  BY <1>2 DEF AddressFails
<1> QED
  BY <1>1, <1>3, TransferFails

\* A wait that fails later.
LEMMA StopFailure ==
  ASSUME I2cInv, i2cPc # "off", i2cPc # "done", NEW ret \in Int, ret # 0,
         i2c' = gen_stop(i2c), TransferEnds(ret), eeprom' = eeprom
  PROVE  I2cInv'
<1>1. I2cTypes /\ eeprom' \in I2cEeprom /\ i2c \in I2cController
  BY Inside DEF I2cTypes
<1>2. i2c' \in I2cController
  BY <1>1, StopTypes
<1> QED
  BY <1>1, <1>2, TransferFails

LEMMA WaitIdleKeeps ==
  ASSUME I2cInv, WaitIdle
  PROVE  I2cInv'
<1>1. I2cTypes /\ i2cPc = "idle" /\ i2c \in I2cController /\ eeprom' = eeprom /\ i2cCall \in 1..4
  BY Inside DEF WaitIdle, I2cTypes
<1>2. PICK ret \in Waits(~i2c.bb) : IF ret # 0 THEN AddressFails(i2c, ret) ELSE i2c' = i2c /\ Step("start")
  BY DEF WaitIdle
<1>3. ret \in Int
  BY <1>1, <1>2, WaitOutcomes
<1>4. CASE ret # 0
  BY <1>1, <1>2, <1>3, <1>4, AddressFailure
<1>5. CASE ret = 0
  <2>1. i2c' = i2c /\ Step("start") /\ i2c' \in I2cController /\ eeprom' \in I2cEeprom
    BY <1>1, <1>2, <1>5 DEF I2cTypes
  <2>2. i2cPc' = "start" /\ i2cCall' = i2cCall /\ i2cBuf' = i2cBuf
    BY <2>1 DEF Step
  <2>3. TransferFollows => TransferFollows'
    BY <1>1, <2>1, <2>2 DEF TransferFollows
  <2> QED
    BY <1>1, <2>1, <2>3, StepInside
<1> QED
  BY <1>4, <1>5

LEMMA StartKeeps ==
  ASSUME I2cInv, Start
  PROVE  I2cInv'
<1> DEFINE ctl == [i2c EXCEPT !.ma = TRUE, !.bb = ~i2c.ma]
<1>1. I2cTypes /\ i2cPc = "start" /\ i2c \in I2cController /\ eeprom' = eeprom /\ i2cCall \in 1..4
  BY Inside DEF Start, I2cTypes
<1>2. ctl \in I2cController
  BY <1>1 DEF I2cController
<1>3. PICK ret \in Waits(~i2c.ma) :
        IF ret # 0 THEN AddressFails(ctl, ret) ELSE i2c' = [ctl EXCEPT !.nak = TRUE] /\ Step("chip")
  BY DEF Start
<1>4. ret \in Int
  BY <1>1, <1>3, WaitOutcomes
<1>5. CASE ret # 0
  <2> HIDE DEF ctl
  <2> QED
    BY <1>1, <1>2, <1>3, <1>4, <1>5, AddressFailure
<1>6. CASE ret = 0
  <2>1. i2c' = [ctl EXCEPT !.nak = TRUE] /\ Step("chip")
    BY <1>3, <1>6
  <2>2. i2c' \in I2cController /\ i2c'.ma = TRUE
    BY <1>1, <2>1 DEF I2cController
  <2>3. eeprom' \in I2cEeprom
    BY <1>1 DEF I2cTypes
  <2>4. i2cPc' = "chip" /\ i2cCall' = i2cCall /\ i2cBuf' = i2cBuf
    BY <2>1 DEF Step
  <2>5. TransferFollows => TransferFollows'
    BY <1>1, <2>2, <2>4 DEF TransferFollows
  <2> QED
    BY <1>1, <2>1, <2>2, <2>3, <2>5, StepInside
<1> QED
  BY <1>5, <1>6

LEMMA SendChipKeeps ==
  ASSUME I2cInv, SendChip
  PROVE  I2cInv'
<1>1. I2cTypes /\ i2cPc = "chip" /\ i2c \in I2cController /\ eeprom \in I2cEeprom /\ i2cCall \in 1..4
  BY Inside DEF SendChip, I2cTypes
<1>2. PICK ret \in Sends(eeprom.present) :
        /\ IF ret # 0 THEN i2c' = gen_stop(i2c) /\ TransferEnds(ret) ELSE i2c' = i2c /\ Step("addr")
        /\ eeprom' = IF ret = 0 /\ Transfer.write THEN [eeprom EXCEPT !.page = Transfer.page] ELSE eeprom
  BY DEF SendChip
<1>3. ret \in Int
  BY <1>1, <1>2, SendOutcomes DEF I2cEeprom
<1>4. CASE ret # 0
  BY <1>1, <1>2, <1>3, <1>4, StopFailure
<1>5. CASE ret = 0
  <2>1. i2c' = i2c /\ Step("addr")
    BY <1>2, <1>5
  <2>2. i2cPc' = "addr" /\ i2cCall' = i2cCall /\ i2cBuf' = i2cBuf
    BY <2>1 DEF Step
  <2>3. CASE i2cCall \in {1, 3}
    <3>1. Transfer.write = TRUE /\ Transfer.page = PageOf(i2cCall) /\ PageOf(i2cCall) \in {0, 1}
      BY <1>1, <2>3, TransferKind DEF PageOf
    <3>2. eeprom' = [eeprom EXCEPT !.page = PageOf(i2cCall)]
      BY <1>2, <1>5, <3>1
    <3>3. eeprom' \in I2cEeprom /\ eeprom'.page = PageOf(i2cCall) /\ eeprom'.talks = eeprom.talks
      BY <1>1, <3>1, <3>2 DEF I2cEeprom
    <3>4. PageOf(i2cCall') = PageOf(i2cCall)
      BY <2>2
    <3>5. TransferFollows => TransferFollows'
      BY <1>1, <2>1, <2>2, <2>3, <3>3, <3>4 DEF TransferFollows
    <3> QED
      BY <1>1, <2>1, <3>3, <3>5, StepInside
  <2>4. CASE i2cCall \in {2, 4}
    <3>1. Transfer.write = FALSE
      BY <1>1, <2>4, TransferKind
    <3>2. eeprom' = eeprom
      BY <1>2, <3>1
    <3>3. TransferFollows => TransferFollows'
      BY <1>1, <2>1, <2>2, <2>4, <3>2 DEF TransferFollows
    <3> QED
      BY <1>1, <2>1, <3>2, <3>3, StepInside
  <2> QED
    BY <1>1, <2>3, <2>4
<1> QED
  BY <1>4, <1>5

LEMMA SendAddressKeeps ==
  ASSUME I2cInv, SendAddress
  PROVE  I2cInv'
<1>1. I2cTypes /\ i2cPc = "addr" /\ i2c \in I2cController /\ eeprom \in I2cEeprom /\ i2cCall \in 1..4
  BY Inside DEF SendAddress, I2cTypes
<1>2. PICK ret \in Sends(TRUE) :
        /\ IF ret # 0 THEN i2c' = gen_stop(i2c) /\ TransferEnds(ret)
           ELSE i2c' = i2c /\ Step(IF Transfer.write THEN "write" ELSE "restart")
        /\ eeprom' = IF ret = 0 /\ ~Transfer.write THEN [eeprom EXCEPT !.place = 0] ELSE eeprom
  BY DEF SendAddress
<1>3. ret \in Int
  BY <1>2, SendOutcomes
<1>4. CASE ret # 0
  BY <1>1, <1>2, <1>3, <1>4, StopFailure
<1>5. CASE ret = 0 /\ i2cCall \in {1, 3}
  <2>1. Transfer.write = TRUE
    BY <1>1, <1>5, TransferKind
  <2>2. i2c' = i2c /\ Step("write") /\ eeprom' = eeprom
    BY <1>2, <1>5, <2>1
  <2>3. i2cPc' = "write" /\ i2cCall' = i2cCall /\ i2cBuf' = i2cBuf
    BY <2>2 DEF Step
  <2>4. TransferFollows => TransferFollows'
    BY <1>1, <1>5, <2>2, <2>3 DEF TransferFollows
  <2> QED
    BY <1>1, <2>2, <2>4, StepInside
<1>6. CASE ret = 0 /\ i2cCall \in {2, 4}
  <2>1. Transfer.write = FALSE
    BY <1>1, <1>6, TransferKind
  <2>2. i2c' = i2c /\ Step("restart") /\ eeprom' = [eeprom EXCEPT !.place = 0]
    BY <1>2, <1>6, <2>1
  <2>3. i2cPc' = "restart" /\ i2cCall' = i2cCall /\ i2cBuf' = i2cBuf
    BY <2>2 DEF Step
  <2>4. eeprom' \in I2cEeprom /\ eeprom'.place = 0 /\ eeprom'.page = eeprom.page
        /\ eeprom'.talks = eeprom.talks
    BY <1>1, <2>2 DEF I2cEeprom
  <2>5. TransferFollows => TransferFollows'
    BY <1>1, <1>6, <2>2, <2>3, <2>4 DEF TransferFollows
  <2> QED
    BY <1>1, <2>2, <2>4, <2>5, StepInside
<1> QED
  BY <1>1, <1>4, <1>5, <1>6

LEMMA WriteKeeps ==
  ASSUME I2cInv, write_data
  PROVE  I2cInv'
<1>1. /\ I2cTypes /\ i2cPc = "write" /\ i2c \in I2cController /\ eeprom \in I2cEeprom /\ i2cCall \in 1..4
      /\ eeprom' = eeprom
  BY Inside DEF write_data, I2cTypes
<1>2. PICK ret \in Sends(TRUE) : i2c' = gen_stop(i2c) /\ TransferEnds(ret)
  BY DEF write_data
<1>3. ret \in Int
  BY <1>2, SendOutcomes
<1>4. CASE ret # 0
  BY <1>1, <1>2, <1>3, <1>4, StopFailure
<1>5. CASE ret = 0 /\ i2cCall \in {2, 4}
  <2>1. selected => i2cRet = 0 /\ TransferFollows
    BY <1>1 DEF I2cInv
  <2>2. selected = FALSE
    BY <1>1, <1>5, <2>1 DEF TransferFollows, I2cTypes
  <2>3. Transfer.write = FALSE
    BY <1>1, <1>5, TransferKind
  <2>4. selected' = FALSE /\ i2cRet' = 0
    BY <1>2, <1>5, <2>2, <2>3 DEF TransferEnds
  <2>5. (i2cPc' = "idle" /\ i2cCall < 4 /\ i2cCall' = i2cCall + 1) \/ (i2cPc' = "done" /\ i2cCall' = i2cCall)
    BY <1>2 DEF TransferEnds
  <2>6. i2c' \in I2cController
    BY <1>1, <1>2, StopTypes
  <2>7. i2cCall' \in 1..4
    BY <1>1, <2>5
  <2>8. I2cTypes'
    <3>1. i2cPc' \in {"idle", "done"} /\ selected' \in BOOLEAN /\ i2cRet' \in Int
      <4>1. 0 \in Int /\ FALSE \in BOOLEAN
        OBVIOUS
      <4> QED
        BY <2>4, <2>5, <4>1
    <3> QED
      BY <1>1, <2>6, <2>7, <3>1 DEF I2cTypes
  <2> QED
    BY <2>4, <2>8 DEF I2cInv
<1>6. CASE ret = 0 /\ i2cCall \in {1, 3}
  <2>1. Transfer.write = TRUE
    BY <1>1, <1>6, TransferKind
  <2>2. /\ i2cRet' = 0 /\ i2cCall' = i2cCall + 1 /\ i2cPc' = "idle" /\ i2cBuf' = i2cBuf
        /\ selected' = selected
    <3>1. i2cCall < 4 /\ selected \in BOOLEAN
      BY <1>1, <1>6 DEF I2cTypes
    <3> QED
      BY <1>2, <1>6, <2>1, <3>1 DEF TransferEnds
  <2>3. i2c' \in I2cController /\ i2c'.ma = FALSE /\ i2c'.bb = eeprom.talks
    BY <1>1, <1>2, StopTypes DEF gen_stop, I2cController
  <2>4. i2cCall' \in 1..4
    BY <1>1, <1>6, <2>2
  <2>5. I2cTypes'
    BY <1>1, <2>2, <2>3, <2>4 DEF I2cTypes
  <2>6. ASSUME selected' = TRUE PROVE TransferFollows'
    <3>1. TransferFollows
      BY <1>1, <2>2, <2>6 DEF I2cInv
    <3>2. ~eeprom.talks /\ eeprom.page = PageOf(i2cCall) /\ i2cBuf = Bytes(ReadBefore(i2cCall))
      BY <1>1, <1>6, <3>1 DEF TransferFollows
    <3>3. PageOf(i2cCall + 1) = PageOf(i2cCall) /\ ReadBefore(i2cCall + 1) = ReadBefore(i2cCall)
      BY <1>6 DEF PageOf, ReadBefore
    <3>4. eeprom'.page = PageOf(i2cCall')
      BY <1>1, <2>2, <3>2, <3>3
    <3>5. i2cBuf' = Bytes(ReadBefore(i2cCall'))
      BY <2>2, <3>2, <3>3
    <3> QED
      BY <1>1, <2>2, <2>3, <3>2, <3>4, <3>5 DEF TransferFollows
  <2>7. selected' \in BOOLEAN
    BY <2>5 DEF I2cTypes
  <2> QED
    BY <2>2, <2>5, <2>6, <2>7 DEF I2cInv
<1> QED
  BY <1>1, <1>4, <1>5, <1>6

\* The byte on its way has been acknowledged or not.
LEMMA ByteGoes ==
  ASSUME eeprom \in I2cEeprom, NEW nak \in BOOLEAN, ByteStarts(nak)
  PROVE  /\ eeprom' \in I2cEeprom /\ eeprom'.place = eeprom.place + 1
         /\ eeprom'.page = eeprom.page /\ eeprom'.talks = (IF nak THEN FALSE ELSE TRUE)
<1>1. eeprom.place \in Int /\ eeprom' = [eeprom EXCEPT !.place = eeprom.place + 1, !.talks = ~nak]
  BY DEF ByteStarts, I2cEeprom
<1>2. PICK p \in Int : p = eeprom.place + 1
  BY <1>1
<1>3. eeprom' = [eeprom EXCEPT !.place = p, !.talks = ~nak]
  BY <1>1, <1>2
<1>4. eeprom' \in I2cEeprom /\ eeprom'.place = p /\ eeprom'.page = eeprom.page /\ eeprom'.talks = ~nak
  BY <1>2, <1>3 DEF I2cEeprom
<1> QED
  BY <1>2, <1>4

LEMMA RestartKeeps ==
  ASSUME I2cInv, Restart
  PROVE  I2cInv'
<1>1. I2cTypes /\ i2cPc = "restart" /\ i2c \in I2cController /\ eeprom \in I2cEeprom /\ i2cCall \in 1..4
  BY Inside DEF Restart, I2cTypes
<1>2. PICK ret \in Sends(TRUE) :
       IF ret # 0 THEN i2c' = gen_stop(i2c) /\ TransferEnds(ret) /\ UNCHANGED eeprom
       ELSE /\ i2c' = [i2c EXCEPT !.nak = SpdBytes = 1]
            /\ ByteStarts(SpdBytes = 1)
            /\ Step("byte")
  BY DEF Restart
<1>3. ret \in Int
  BY <1>2, SendOutcomes
<1>4. CASE ret # 0
  BY <1>1, <1>2, <1>3, <1>4, StopFailure
<1>5. CASE ret = 0
  <2>1. PICK nak \in BOOLEAN : nak = (SpdBytes = 1)
    OBVIOUS
  <2>2. i2c' = [i2c EXCEPT !.nak = nak] /\ ByteStarts(nak) /\ Step("byte")
    BY <1>2, <1>5, <2>1
  <2>3. i2c' \in I2cController /\ i2c'.nak = nak /\ i2c'.ma = i2c.ma
    BY <1>1, <2>2 DEF I2cController
  <2>4. /\ eeprom' \in I2cEeprom /\ eeprom'.place = eeprom.place + 1
        /\ eeprom'.page = eeprom.page /\ eeprom'.talks = (IF nak THEN FALSE ELSE TRUE)
    BY <1>1, <2>2, ByteGoes
  <2>5. i2cPc' = "byte" /\ i2cCall' = i2cCall /\ i2cBuf' = i2cBuf
    BY <2>2 DEF Step
  <2>6. ASSUME TransferFollows PROVE TransferFollows'
    <3>1. i2c.ma /\ i2cCall \in {2, 4} /\ eeprom.page = PageOf(i2cCall) /\ eeprom.place = 0
          /\ i2cBuf = Bytes(ReadBefore(i2cCall))
      BY <1>1, <2>6 DEF TransferFollows
    <3>2. 0 \in 0..(SpdBytes - 1) /\ (0 = SpdBytes - 1 <=> SpdBytes = 1) /\ ReadBefore(i2cCall) + 0 = ReadBefore(i2cCall)
      BY I2cAssumption DEF ReadBefore
    <3>3. i2cBuf' = Bytes(ReadBefore(i2cCall') + 0)
      BY <2>5, <3>1, <3>2
    <3>4. i2c'.nak = (IF 0 = SpdBytes - 1 THEN TRUE ELSE FALSE)
      BY <2>1, <2>3, <3>2
    <3>5. eeprom'.talks = (IF 0 = SpdBytes - 1 THEN FALSE ELSE TRUE)
      BY <2>1, <2>4, <3>2
    <3>6. eeprom'.place = 0 + 1
      BY <2>4, <3>1
    <3>8. Reading(0)'
      BY <3>3, <3>4, <3>5, <3>6 DEF Reading
    <3>9. (\E i \in 0..(SpdBytes - 1) : Reading(i))'
      BY <3>2, <3>8
    <3>10. eeprom'.page = PageOf(i2cCall')
      BY <2>4, <2>5, <3>1
    <3> QED
      BY <2>3, <2>5, <3>1, <3>9, <3>10 DEF TransferFollows
  <2> QED
    BY <1>1, <2>2, <2>3, <2>4, <2>6, StepInside
<1> QED
  BY <1>4, <1>5

\* One byte is taken, and the next one starts unless it was the last.
LEMMA ByteIsTaken ==
  ASSUME I2cInv, i2cPc = "byte", i2cRet = 0, selected = TRUE
  PROVE  \E i \in 0..(SpdBytes - 1) :
           /\ Reading(i) /\ i2c.ma = TRUE /\ i2cCall \in {2, 4}
           /\ Len(i2cBuf) % SpdBytes = i
           /\ Append(i2cBuf, <<eeprom.page, eeprom.place - 1>>) = Bytes(ReadBefore(i2cCall) + i + 1)
<1>1. TransferFollows
  BY DEF I2cInv
<1>2. PICK i \in 0..(SpdBytes - 1) : Reading(i)
  BY <1>1 DEF TransferFollows
<1>3. i2c.ma /\ i2cCall \in {2, 4} /\ eeprom.page = PageOf(i2cCall) /\ i2c \in I2cController
  BY <1>1 DEF TransferFollows, I2cInv, I2cTypes
<1>4. PICK n \in 1..4 : n = i2cCall
  BY <1>3
<1>5. PICK b \in Nat : b = ReadBefore(n) + i
  BY <1>2, I2cAssumption DEF ReadBefore
<1>6. i2cBuf = Bytes(b) /\ eeprom.place = i + 1
  BY <1>2, <1>4, <1>5 DEF Reading
<1>7. SpdByte(b + 1) = <<PageOf(n), i>> /\ b % SpdBytes = i
  BY <1>2, <1>4, <1>5, NextByte
<1>8. Len(Bytes(b)) = b /\ Append(Bytes(b), SpdByte(b + 1)) = Bytes(b + 1)
  BY <1>5, OneMoreByte
<1>9. eeprom.place - 1 = i
  BY <1>2, <1>6
<1>10. <<eeprom.page, eeprom.place - 1>> = SpdByte(b + 1)
  BY <1>3, <1>4, <1>7, <1>9
<1>11. Append(i2cBuf, <<eeprom.page, eeprom.place - 1>>) = Bytes(b + 1)
  BY <1>6, <1>8, <1>10
<1>12. Len(i2cBuf) % SpdBytes = i
  BY <1>6, <1>7, <1>8
<1> QED
  BY <1>2, <1>3, <1>4, <1>5, <1>11, <1>12 DEF I2cController

\* ReadByte when its wait succeeds.
ByteTaken(i, next, byte) ==
  /\ i2c' = next
  /\ IF next.ma THEN ByteStarts(next.nak) ELSE UNCHANGED eeprom
  /\ i2cBuf' = Append(i2cBuf, byte) /\ UNCHANGED selected
  /\ IF i < SpdBytes - 1 THEN UNCHANGED <<i2cPc, i2cCall, i2cRet>>
     ELSE /\ i2cRet' = 0
          /\ IF i2cCall < 4 THEN i2cCall' = i2cCall + 1 /\ i2cPc' = "idle"
             ELSE i2cPc' = "done" /\ UNCHANGED i2cCall

LEMMA ReadByteTypes ==
  ASSUME I2cInv, ReadByte
  PROVE  \/ I2cInv'
         \/ /\ I2cTypes'
            /\ ByteTaken(Len(i2cBuf) % SpdBytes, BeforeByte(Len(i2cBuf) % SpdBytes),
                         <<eeprom.page, eeprom.place - 1>>)
<1> DEFINE i    == Len(i2cBuf) % SpdBytes
           next == BeforeByte(i)
           byte == <<eeprom.page, eeprom.place - 1>>
           taken == ByteTaken(i, next, byte)
<1>1. I2cTypes /\ i2cPc = "byte" /\ i2c \in I2cController /\ eeprom \in I2cEeprom /\ i2cCall \in 1..4
  BY Inside DEF ReadByte, I2cTypes
<1>2. PICK ret \in Waits(TRUE) :
        IF ret # 0 THEN i2c' = gen_stop(i2c) /\ TransferEnds(ret) /\ UNCHANGED eeprom ELSE taken
  BY DEF ReadByte, ByteTaken
<1>3. ret \in Int
  BY <1>2, WaitOutcomes
<1>4. CASE ret # 0
  BY <1>1, <1>2, <1>3, <1>4, StopFailure
<1>5. CASE ret = 0
  <2>1. taken
    BY <1>2, <1>5
  <2>2. next \in I2cController
    <3>1. gen_stop(i2c) \in I2cController
      BY <1>1, StopTypes
    <3> HIDE DEF i
    <3> QED
      BY <1>1, <3>1 DEF BeforeByte, I2cController
  <2> HIDE DEF i, next, byte
  <2>a. /\ i2c' = next /\ (IF next.ma THEN ByteStarts(next.nak) ELSE UNCHANGED eeprom)
        /\ selected' = selected
        /\ \/ i2cPc' = i2cPc /\ i2cCall' = i2cCall /\ i2cRet' = i2cRet
           \/ i2cRet' = 0 /\ i2cPc' = "idle" /\ i2cCall < 4 /\ i2cCall' = i2cCall + 1
           \/ i2cRet' = 0 /\ i2cPc' = "done" /\ i2cCall' = i2cCall
    BY <2>1 DEF ByteTaken
  <2>3. next.ma \in BOOLEAN /\ next.nak \in BOOLEAN
    BY <2>2 DEF I2cController
  <2>4. eeprom' \in I2cEeprom
    <3>1. CASE next.ma
      BY <1>1, <2>a, <2>3, <3>1, ByteGoes
    <3>2. CASE ~next.ma
      BY <1>1, <2>a, <3>2
    <3> QED
      BY <3>1, <3>2
  <2>5. selected' = selected /\ (i2cRet' = i2cRet \/ i2cRet' = 0)
    BY <2>a
  <2>6. i2cPc' \in {"byte", "idle", "done"} /\ i2cCall' \in 1..4
    BY <1>1, <2>a
  <2>7. I2cTypes'
    <3>1. i2cRet' \in Int /\ i2c' \in I2cController
      BY <1>1, <2>a, <2>2, <2>5 DEF I2cTypes
    <3> QED
      BY <1>1, <2>4, <2>5, <2>6, <3>1 DEF I2cTypes
  <2> QED
    BY <2>1, <2>7 DEF i, next, byte
<1> QED
  BY <1>4, <1>5

LEMMA ReadByteKeeps ==
  ASSUME I2cInv, ReadByte
  PROVE  I2cInv'
<1> SUFFICES ASSUME I2cTypes',
                    ByteTaken(Len(i2cBuf) % SpdBytes, BeforeByte(Len(i2cBuf) % SpdBytes),
                              <<eeprom.page, eeprom.place - 1>>)
             PROVE  I2cInv'
  BY ReadByteTypes
<1>1. I2cTypes /\ i2cPc = "byte" /\ i2c \in I2cController /\ eeprom \in I2cEeprom /\ i2cCall \in 1..4
      /\ i2cRet \in Int /\ selected \in BOOLEAN
  BY Inside DEF ReadByte, I2cTypes
<1>2. selected' = selected /\ selected' \in BOOLEAN /\ i2cPc' \in {"byte", "idle", "done"}
  BY <1>1 DEF ByteTaken
<1>3. selected => i2cRet = 0
  BY <1>1 DEF I2cInv
<1>4. selected' => i2cRet' = 0
  BY <1>2, <1>3 DEF ByteTaken
<1>5. ASSUME selected' = TRUE PROVE TransferFollows'
  <2>1. i2cRet = 0 /\ selected = TRUE
    BY <1>2, <1>3, <1>5
  <2>2. eeprom.page = PageOf(i2cCall)
    <3>1. TransferFollows /\ i2cCall \in {2, 4}
      BY <1>1, <2>1, ByteIsTaken DEF I2cInv
    <3> QED
      BY <3>1 DEF TransferFollows
  <2>3. PICK i \in 0..(SpdBytes - 1) :
           /\ Reading(i) /\ i2c.ma = TRUE /\ i2cCall \in {2, 4}
           /\ Len(i2cBuf) % SpdBytes = i
           /\ Append(i2cBuf, <<eeprom.page, eeprom.place - 1>>) = Bytes(ReadBefore(i2cCall) + i + 1)
    BY <1>1, <2>1, ByteIsTaken
  <2>4. ByteTaken(i, BeforeByte(i), <<eeprom.page, eeprom.place - 1>>)
    BY <2>3
  <2>5. i2cBuf' = Bytes(ReadBefore(i2cCall) + i + 1)
    BY <2>3, <2>4 DEF ByteTaken
  <2>6. eeprom.place = i + 1 /\ i2c.nak = (IF i = SpdBytes - 1 THEN TRUE ELSE FALSE)
        /\ eeprom.talks = (IF i = SpdBytes - 1 THEN FALSE ELSE TRUE)
    BY <2>3 DEF Reading
  <2>7. CASE i < SpdBytes - 1
    <3>1. i2cPc' = "byte" /\ i2cCall' = i2cCall /\ i2cRet' = i2cRet
      BY <1>1, <2>4, <2>7 DEF ByteTaken
    <3>2. PICK j : j = i + 1
      OBVIOUS
    <3>3. j \in 0..(SpdBytes - 1) /\ SpdBytes \in Nat
      BY <2>7, <3>2, I2cAssumption
    <3>4. PICK nak \in BOOLEAN : nak = (IF j = SpdBytes - 1 THEN TRUE ELSE FALSE)
      OBVIOUS
    <3>5. BeforeByte(i) \in I2cController /\ BeforeByte(i).ma = TRUE /\ BeforeByte(i).nak = nak
      <4>1. CASE i = SpdBytes - 2
        <5>1. nak = TRUE /\ BeforeByte(i) = [i2c EXCEPT !.nak = TRUE]
          BY <2>7, <3>2, <3>3, <3>4, <4>1 DEF BeforeByte
        <5> QED
          BY <1>1, <2>3, <5>1 DEF I2cController
      <4>2. CASE i # SpdBytes - 2
        <5>1. nak = FALSE /\ BeforeByte(i) = i2c
          BY <2>7, <3>2, <3>3, <3>4, <4>2 DEF BeforeByte
        <5>2. i2c.nak = FALSE
          BY <2>6, <2>7
        <5> QED
          BY <1>1, <2>3, <5>1, <5>2
      <4> QED
        BY <4>1, <4>2
    <3>6. i2c' = BeforeByte(i) /\ ByteStarts(nak)
      BY <2>4, <3>5 DEF ByteTaken
    <3>7. eeprom'.place = eeprom.place + 1 /\ eeprom'.page = eeprom.page /\ eeprom'.talks = (IF nak THEN FALSE ELSE TRUE)
      BY <1>1, <3>4, <3>6, ByteGoes
    <3>8. i2cBuf' = Bytes(ReadBefore(i2cCall') + j)
      <4>1. ReadBefore(i2cCall) + i + 1 = ReadBefore(i2cCall) + j
        BY <2>3, <3>2, I2cAssumption DEF ReadBefore
      <4> QED
        BY <2>5, <3>1, <4>1
    <3>9. eeprom'.place = j + 1
      BY <2>6, <3>2, <3>7
    <3>10. i2c'.nak = (IF j = SpdBytes - 1 THEN TRUE ELSE FALSE)
      BY <3>4, <3>5, <3>6
    <3>11. eeprom'.talks = (IF j = SpdBytes - 1 THEN FALSE ELSE TRUE)
      BY <3>4, <3>7
    <3>12. Reading(j)'
      BY <3>8, <3>9, <3>10, <3>11 DEF Reading
    <3>13. (\E k \in 0..(SpdBytes - 1) : Reading(k))'
      BY <3>3, <3>12
    <3>14. eeprom'.page = PageOf(i2cCall') /\ i2c'.ma = TRUE
      BY <2>2, <3>1, <3>5, <3>6, <3>7
    <3> QED
      BY <2>3, <3>1, <3>13, <3>14 DEF TransferFollows
  <2>8. CASE i = SpdBytes - 1
    <3>1. SpdBytes \in Nat /\ ~(i < SpdBytes - 1)
      BY <2>8, I2cAssumption
    <3>2. /\ i2cRet' = 0
          /\ IF i2cCall < 4 THEN i2cCall' = i2cCall + 1 /\ i2cPc' = "idle"
             ELSE i2cPc' = "done" /\ i2cCall' = i2cCall
      BY <2>4, <3>1 DEF ByteTaken
    <3>3. BeforeByte(i) = gen_stop(i2c)
      BY <2>8 DEF BeforeByte
    <3>4. eeprom.talks = FALSE
      BY <2>6, <2>8
    <3>5. gen_stop(i2c) \in I2cController /\ gen_stop(i2c).ma = FALSE /\ gen_stop(i2c).bb = FALSE
      BY <1>1, <3>4 DEF gen_stop, I2cController
    <3>6. i2c' = gen_stop(i2c) /\ eeprom' = eeprom
      BY <2>4, <3>3, <3>5 DEF ByteTaken
    <3>7. ReadBefore(i2cCall) + i + 1 = ReadBefore(i2cCall) + SpdBytes
      BY <2>8, <3>1 DEF ReadBefore
    <3>8. i2cBuf' = Bytes(ReadBefore(i2cCall) + SpdBytes)
      BY <2>5, <3>7
    <3>9. CASE i2cCall = 2
      <4>1. i2cCall' = 3 /\ i2cPc' = "idle"
        BY <3>2, <3>9
      <4>2. ReadBefore(2) + SpdBytes = SpdBytes /\ ReadBefore(3) = SpdBytes
        BY <3>1 DEF ReadBefore
      <4>3. i2cBuf' = Bytes(ReadBefore(i2cCall'))
        BY <3>8, <3>9, <4>1, <4>2
      <4> QED
        BY <3>4, <3>5, <3>6, <4>1, <4>3 DEF TransferFollows
    <3>10. CASE i2cCall = 4
      <4>1. i2cCall' = 4 /\ i2cPc' = "done"
        BY <3>2, <3>10
      <4>2. ReadBefore(4) + SpdBytes = 2 * SpdBytes
        BY <3>1 DEF ReadBefore
      <4>3. i2cBuf' = Bytes(2 * SpdBytes)
        BY <3>8, <3>10, <4>2
      <4>4. eeprom'.page = PageOf(i2cCall')
        BY <2>2, <3>6, <3>10, <4>1
      <4> QED
        BY <3>4, <3>5, <3>6, <4>1, <4>3, <4>4 DEF TransferFollows
    <3> QED
      BY <2>3, <3>9, <3>10
  <2> QED
    BY <2>3, <2>7, <2>8, I2cAssumption
<1> QED
  BY <1>2, <1>4, <1>5 DEF I2cInv

LEMMA I2cKeeps == I2cInv /\ [I2cNext]_i2cVars => I2cInv'
<1> SUFFICES ASSUME I2cInv, [I2cNext]_i2cVars PROVE I2cInv'
  OBVIOUS
<1>1. CASE read_spd
  BY <1>1, SpdStarts
<1>2. CASE WaitIdle
  BY <1>2, WaitIdleKeeps
<1>3. CASE Start
  BY <1>3, StartKeeps
<1>4. CASE SendChip
  BY <1>4, SendChipKeeps
<1>5. CASE SendAddress
  BY <1>5, SendAddressKeeps
<1>6. CASE write_data
  BY <1>6, WriteKeeps
<1>7. CASE Restart
  BY <1>7, RestartKeeps
<1>8. CASE ReadByte
  BY <1>8, ReadByteKeeps
<1>9. CASE UNCHANGED i2cVars
  BY <1>9 DEF i2cVars, I2cInv, I2cTypes, TransferFollows, Reading
<1> QED
  BY <1>1, <1>2, <1>3, <1>4, <1>5, <1>6, <1>7, <1>8, <1>9 DEF I2cNext

\* read_spd() of drivers/ddr/nxp-ddr/dimm.c, for pages of any length: as long as no wait fails and both
\* page addresses are acknowledged, every transfer leaves the bus free and the EEPROM silent for the
\* next one, and at the end the buffer holds every byte of both pages once and in order.
THEOREM SpdReadWhole == I2cSpec => []SpdIsWhole
<1>1. I2cInv => SpdIsWhole
  <2> SUFFICES ASSUME I2cInv, i2cRet = 0, selected PROVE
         /\ i2cPc \in {"idle", "done"} => ~eeprom.talks /\ ~i2c.bb /\ ~i2c.ma
         /\ i2cPc = "done" =>
              i2cBuf = [k \in 1..2 * SpdBytes |-> <<(k - 1) \div SpdBytes, (k - 1) % SpdBytes>>]
    BY DEF SpdIsWhole
  <2>1. TransferFollows
    BY DEF I2cInv
  <2> QED
    BY <2>1 DEF TransferFollows, Bytes, SpdByte
<1> QED
  BY <1>1, I2cStarts, I2cKeeps, PTL DEF I2cSpec

-----------------------------------------------------------------------------
(* The SD and MMC driver (SdMmc), for any cards and any patience.          *)

\* Every set of natural numbers has a least element.
LEMMA LeastNatural ==
  ASSUME NEW S, S \subseteq Nat, S # {}
  PROVE  \E n \in S : \A m \in S : n <= m
<1> DEFINE R == OpToRel(<, Nat)
<1>1. IsWellFoundedOn(R, Nat)
  BY NatLessThanWellFounded
<1>2. \A a, b \in Nat : a < b => <<a, b>> \in R
  BY DEF OpToRel
<1> HIDE DEF R
<1>3. PICK n \in S : \A m \in S : ~ (<<m, n>> \in R)
  BY <1>1, WFMin
<1>4. ASSUME NEW m \in S PROVE n <= m
  <2>1. m \in Nat /\ n \in Nat
    OBVIOUS
  <2>2. ~(<<m, n>> \in R)
    BY <1>3
  <2>3. ~(m < n)
    BY <1>2, <2>1, <2>2
  <2> QED
    BY <2>1, <2>3
<1> QED
  BY <1>4

-----------------------------------------------------------------------------
(* The SD and MMC driver (SdMmc).                                          *)

SdStartPlaces == {"off", "cmd0", "cmd8", "cmd55", "acmd41", "mmc0", "cmd1"}
SdInitPlaces == SdStartPlaces \cup
  {"cid", "rca", "csd", "select", "status", "app51", "acmd51", "check", "switch", "mmcSwitch", "mmcStatus", "speed"}
SdReadPlaces == {"cmd16", "cmd17", "pollIrq", "pollPrs"}

SdCardStates == [is : SdCards, state : {"idle", "ready", "ident", "stby", "tran"},
                 mode : {"default", "high"}, switchError : BOOLEAN, dropped : BOOLEAN]
SdHosts == [clock : Int, blk : Int, tc : BOOLEAN, err : BOOLEAN, dla : BOOLEAN, moving : Int, dsaddr : Int]
MmcStructs == [type : {"none", "SD", "MMC"}, version : Int, high_capacity : BOOLEAN, block_len : Int,
               bus_freq : Int, dma_support : BOOLEAN]
SdReads == [case : 0..3, blk : Int, to : Int, len : Int, unseen : BOOLEAN]

SdTypes ==
  /\ sdCard \in SdCardStates
  /\ sdHost \in SdHosts
  /\ mmc \in MmcStructs
  /\ sdPc \in SdInitPlaces \cup SdReadPlaces \cup {"initDone", "readDone"}
  /\ sdPoll \in Int /\ sdRet \in Int
  /\ sdRead \in SdReads
  /\ sdDest \in [0..2 -> Int]

\* The driver knows the capacity of the card it has identified: one that is ready, or further.
CapacityKnown ==
  /\ sdPc \in SdStartPlaces => ~mmc.high_capacity /\ mmc.block_len = 0
  /\ sdPc \in SdStartPlaces \ {"mmc0"} => sdCard.state = "idle"
  /\ sdPc \in {"cid", "rca", "csd"} => mmc.block_len = 0
  /\ sdPc = "cid" /\ sdCard.state = "ready" => mmc.high_capacity = sdCard.is.hc
  /\ sdPc \in {"rca", "csd"} => mmc.high_capacity = sdCard.is.hc
  /\ mmc.block_len # 0 => mmc.block_len = BLOCK_LEN_512 /\ mmc.high_capacity = sdCard.is.hc

\* Nothing moves before the first read.
NothingMoves == sdHost.moving = NoBlk /\ ~sdHost.dla

FirstBlock == 512 + SdTests[sdRead.case].offset

\* The blocks before the one under way are in the buffer, and no transfer of an earlier block, seen or
\* not, can still write over them.
ReadFollows ==
  /\ sdPc \in SdInitPlaces \cup {"initDone"} => NothingMoves /\ sdRead.case = 0
  /\ sdPc \in SdReadPlaces \cup {"readDone"} =>
       sdRead.case \in 1..3 /\ sdRead.len = SdTests[sdRead.case].len
  /\ sdPc \in SdReadPlaces =>
       /\ mmc.block_len # 0
       /\ sdRead.to \in 0..2 /\ sdRead.to < sdRead.len /\ sdRead.blk = FirstBlock + sdRead.to
       /\ ~sdRead.unseen => \A k \in 0..(sdRead.to - 1) : sdDest[k] = FirstBlock + k
  /\ sdPc = "cmd16" /\ ~sdRead.unseen /\ sdRead.to > 0 => sdHost.moving = NoBlk
  /\ sdPc = "cmd17" => NothingMoves
  /\ sdPc \in {"pollIrq", "pollPrs"} =>
       /\ sdHost.dsaddr = sdRead.to /\ sdHost.moving \in {NoBlk, sdRead.blk}
       /\ sdHost.tc => sdHost.moving = NoBlk /\ sdDest[sdRead.to] = sdRead.blk
  /\ sdPc = "readDone" /\ sdRet = 0 /\ ~sdRead.unseen => BufferHoldsBlocks /\ sdHost.moving = NoBlk

SdInv == SdTypes /\ CapacityKnown /\ ReadFollows

\* The speed asked for is one that the card has in the mode it is in, unless it has cleared a refusal.
Slow == 20000000
MayBeFast == sdCard.mode = "high" \/ sdCard.dropped
SdSpeedPlaces == {"app51", "acmd51", "check", "switch", "mmcSwitch", "mmcStatus", "speed"}
SpeedFollows ==
  /\ sdPc \in {"select", "status"} \cup SdSpeedPlaces => sdCard.state \in {"stby", "tran"}
  /\ sdPc \in SdSpeedPlaces =>
       mmc.bus_freq \in {SD_SS_25MHZ, MMC_SS_20MHZ} \/ (mmc.bus_freq = SD_HS_50MHZ /\ MayBeFast)
  /\ sdPc = "mmcStatus" /\ ~sdCard.switchError => MayBeFast

\* The clock is that of the identification until the end of the initialisation.
BusClock ==
  /\ sdPc \in SdInitPlaces => sdHost.clock <= CARD_IDENTIFICATION_FREQ
  /\ \/ sdHost.clock <= CARD_IDENTIFICATION_FREQ
     \/ sdCard.state \in {"stby", "tran"} /\ sdHost.clock <= Slow
     \/ MayBeFast /\ sdHost.clock <= SD_HS_50MHZ

ClockFollows == SpeedFollows /\ BusClock
-----------------------------------------------------------------------------
LEMMA SdNumbers ==
  /\ BUSY = -6 /\ UNUSABLE_CARD = -2 /\ CARD_DETECT = -1 /\ COMMUNICATION = -3 /\ DMA_ERROR = -5
  /\ RESP_TIMEOUT = 1 /\ COMMAND_ERROR = 2 /\ NoBlk = -1 /\ BLOCK_LEN_512 = 512
BY DEF BUSY, UNUSABLE_CARD, CARD_DETECT, COMMUNICATION, DMA_ERROR, RESP_TIMEOUT, COMMAND_ERROR, NoBlk, BLOCK_LEN_512

LEMMA LowestIsThere ==
  ASSUME NEW S, S \subseteq Nat, S # {}
  PROVE  LowestOf(S) \in S /\ \A m \in S : LowestOf(S) <= m
<1>1. \E n \in S : \A m \in S : n <= m
  BY LeastNatural
<1> QED
  BY <1>1 DEF LowestOf

LeastClock == 195313

\* The divisors of set_speed() exist for every clock that the driver asks for: the clock on the bus is
\* no faster than that.
LEMMA SpeedIsReached ==
  ASSUME NEW c \in Nat, c >= LeastClock, c < MAX_PLATFORM_CLOCK
  PROVE  set_speed(c) \in Int /\ set_speed(c) <= c
<1> DEFINE wide == {f \in {2, 4, 8, 16, 32, 64, 128} : MAX_PLATFORM_CLOCK \div f <= c * 16} \cup {256}
<1>0. MAX_PLATFORM_CLOCK \in Nat
  BY SMT DEF MAX_PLATFORM_CLOCK
<1>1. wide \subseteq Nat /\ 256 \in wide
  OBVIOUS
<1>2. LowestOf(wide) \in wide
  <2> HIDE DEF wide
  <2> QED
    BY <1>1, LowestIsThere
<1>3. PICK fs \in {2, 4, 8, 16, 32, 64, 128, 256} :
        fs = Prescaler(c) /\ MAX_PLATFORM_CLOCK \div fs <= c * 16
  <2>1. CASE MAX_PLATFORM_CLOCK \div 16 > c
    <3>1. Prescaler(c) = LowestOf(wide)
      BY <2>1 DEF Prescaler
    <3>2. MAX_PLATFORM_CLOCK \div 256 <= c * 16
      BY SMT DEF MAX_PLATFORM_CLOCK, LeastClock
    <3> QED
      BY <1>2, <3>1, <3>2
  <2>2. CASE ~(MAX_PLATFORM_CLOCK \div 16 > c)
    <3>1. Prescaler(c) = 2
      BY <2>2 DEF Prescaler
    <3>2. MAX_PLATFORM_CLOCK \div 2 <= c * 16
      BY <2>2, SMT DEF MAX_PLATFORM_CLOCK
    <3> QED
      BY <3>1, <3>2
  <2> QED
    BY <2>1, <2>2
<1> DEFINE close == {d \in 1..16 : MAX_PLATFORM_CLOCK \div (d * fs) <= c}
<1>4. MAX_PLATFORM_CLOCK \div (16 * fs) <= c
  BY <1>3, SMT DEF MAX_PLATFORM_CLOCK
<1>5. 16 \in close /\ close \cup {17} \subseteq Nat
  BY <1>4
<1>6. PICK d : d = LowestOf(close \cup {17})
  OBVIOUS
<1>7. d \in close \cup {17} /\ d <= 16
  <2>1. close \cup {17} \subseteq Nat /\ 16 \in close \cup {17}
    BY <1>5
  <2> HIDE DEF close
  <2>2. d \in close \cup {17} /\ \A m \in close \cup {17} : d <= m
    BY <1>6, <2>1, LowestIsThere
  <2> QED
    BY <2>1, <2>2
<1>8. d \in 1..16 /\ MAX_PLATFORM_CLOCK \div (d * fs) <= c
  BY <1>7
<1>9. ((d - 1) % 16) + 1 = d
  BY <1>8
<1>10. set_speed(c) = MAX_PLATFORM_CLOCK \div (fs * d)
  BY <1>3, <1>6, <1>9 DEF set_speed
<1>11. fs * d = d * fs /\ d * fs \in Nat \ {0}
  BY <1>3, <1>8
<1> QED
  BY <1>0, <1>8, <1>10, <1>11

\* The clock is a number whatever the driver asks for.
LEMMA SpeedIsNumber ==
  ASSUME NEW c \in Int
  PROVE  set_speed(c) \in Int
<1>0. MAX_PLATFORM_CLOCK \in Int
  BY SMT DEF MAX_PLATFORM_CLOCK
<1> DEFINE wide == {f \in {2, 4, 8, 16, 32, 64, 128} : MAX_PLATFORM_CLOCK \div f <= c * 16} \cup {256}
<1>1. LowestOf(wide) \in wide
  <2>1. wide \subseteq Nat /\ 256 \in wide
    OBVIOUS
  <2> HIDE DEF wide
  <2> QED
    BY <2>1, LowestIsThere
<1>2. PICK fs \in {2, 4, 8, 16, 32, 64, 128, 256} : fs = Prescaler(c)
  BY <1>1 DEF Prescaler
<1> DEFINE close == {d \in 1..16 : MAX_PLATFORM_CLOCK \div (d * fs) <= c} \cup {17}
<1>3. LowestOf(close) \in close
  <2>1. close \subseteq Nat /\ close # {}
    OBVIOUS
  <2> HIDE DEF close
  <2> QED
    BY <2>1, LowestIsThere
<1>4. PICK d \in 1..17 : d = LowestOf(close)
  BY <1>3
<1>5. PICK dv \in 1..16 : dv = ((d - 1) % 16) + 1
  OBVIOUS
<1>6. set_speed(c) = MAX_PLATFORM_CLOCK \div (fs * dv)
  BY <1>2, <1>4, <1>5 DEF set_speed
<1>7. fs * dv \in Nat \ {0}
  BY <1>2, <1>5
<1> QED
  BY <1>0, <1>6, <1>7

\* The frequencies the driver asks for.
LEMMA Frequencies ==
  \A freq \in {SD_SS_25MHZ, SD_HS_50MHZ, MMC_SS_20MHZ, MMC_HS_26MHZ, MMC_HS_52MHZ} :
    freq \in Nat /\ freq >= LeastClock /\ freq < MAX_PLATFORM_CLOCK
BY SMT DEF SD_SS_25MHZ, SD_HS_50MHZ, MMC_SS_20MHZ, MMC_HS_26MHZ, MMC_HS_52MHZ, LeastClock, MAX_PLATFORM_CLOCK

LEMMA IdentificationClock ==
  /\ set_speed(CARD_IDENTIFICATION_FREQ) \in Int
  /\ set_speed(CARD_IDENTIFICATION_FREQ) <= CARD_IDENTIFICATION_FREQ
<1>1. CARD_IDENTIFICATION_FREQ \in Nat /\ CARD_IDENTIFICATION_FREQ >= LeastClock
      /\ CARD_IDENTIFICATION_FREQ < MAX_PLATFORM_CLOCK
  BY SMT DEF CARD_IDENTIFICATION_FREQ, MAX_PLATFORM_CLOCK, LeastClock
<1> QED
  BY <1>1, SpeedIsReached

\* What a command can come back with, and when it has left at all.
LEMMA CommandOutcomes ==
  ASSUME NEW answers, NEW out \in Outcomes(answers)
  PROVE  /\ out \in Int /\ out \in {BUSY, 0, COMMUNICATION, COMMAND_ERROR, RESP_TIMEOUT}
         /\ out = 0 => answers /\ LinesFree
<1>1. \/ out \in {BUSY, RESP_TIMEOUT, COMMUNICATION}
      \/ out \in {0, COMMAND_ERROR} /\ answers /\ LinesFree
  BY DEF Outcomes
<1> QED
  BY <1>1, SdNumbers

LEMMA CardReceived ==
  ASSUME NEW out, NEW card, sdCard' \in Received(out, card)
  PROVE  sdCard' \in {sdCard, card} /\ (out = 0 => sdCard' = card)
<1>1. sdCard' \in {sdCard, card}
  BY DEF Received
<1>2. ASSUME out = 0 PROVE sdCard' = card
  <2>1. out # BUSY
    BY <1>2, SdNumbers
  <2> QED
    BY <1>2, <2>1 DEF Received
<1> QED
  BY <1>1, <1>2

LEMMA HostCleared ==
  ASSUME sdHost \in SdHosts, NEW len \in Int
  PROVE  /\ Cleared(sdHost) \in SdHosts /\ Cleared(WithBlkattr(sdHost, len)) \in SdHosts
         /\ Cleared(sdHost).moving = sdHost.moving /\ Cleared(sdHost).dla = sdHost.dla
         /\ Cleared(sdHost).clock = sdHost.clock /\ Cleared(sdHost).tc = FALSE
         /\ Cleared(WithBlkattr(sdHost, len)).moving = sdHost.moving
         /\ Cleared(WithBlkattr(sdHost, len)).dla = sdHost.dla
         /\ Cleared(WithBlkattr(sdHost, len)).clock = sdHost.clock
BY DEF Cleared, WithBlkattr, SdHosts

\* A step of the initialisation, which leaves reads and transfers alone.
SdInitStep ==
  /\ sdPc \in SdInitPlaces /\ sdPc' \in SdInitPlaces \cup {"initDone"}
  /\ sdCard' \in SdCardStates /\ sdCard'.is = sdCard.is
  /\ sdHost' \in SdHosts /\ sdHost'.moving = sdHost.moving /\ sdHost'.dla = sdHost.dla
  /\ mmc' \in MmcStructs
  /\ sdPoll' \in Int /\ sdRet' \in Int
  /\ sdRead' = sdRead /\ sdDest' = sdDest

LEMMA SdInitStepKeeps ==
  ASSUME SdInv, SdInitStep, CapacityKnown'
  PROVE  SdInv'
<1>1. SdTypes'
  BY DEF SdInv, SdTypes, SdInitStep
<1>2. ReadFollows'
  <2>1. sdPc' \notin SdReadPlaces \cup {"readDone"} /\ NothingMoves /\ sdRead.case = 0
    BY DEF SdInv, ReadFollows, SdInitStep, SdInitPlaces, SdStartPlaces, SdReadPlaces
  <2>2. sdHost'.moving = NoBlk /\ ~sdHost'.dla
    BY <2>1 DEF NothingMoves, SdInitStep
  <2>3. sdRead'.case = 0
    BY <2>1 DEF SdInitStep
  <2>4. sdPc' \notin {"cmd16", "cmd17", "pollIrq", "pollPrs", "readDone"}
    BY <2>1 DEF SdReadPlaces
  <2> QED
    BY <2>1, <2>2, <2>3, <2>4 DEF ReadFollows, NothingMoves
<1> QED
  BY <1>1, <1>2 DEF SdInv

\* The ends of a step: on to the next place, or back with a failure.
LEMMA StepEnds ==
  ASSUME SdTypes, NEW place, NEW ret \in Int
  PROVE  /\ Goto(place) => /\ sdPc' = place /\ sdPoll' \in Int /\ sdRet' \in Int
                           /\ sdRead' = sdRead /\ sdDest' = sdDest
         /\ InitReturns(ret) => /\ sdPc' = "initDone" /\ sdPoll' \in Int /\ sdRet' \in Int
                                /\ sdRead' = sdRead /\ sdDest' = sdDest
         /\ UNCHANGED <<sdRet, sdRead, sdDest>> => sdRet' \in Int /\ sdRead' = sdRead /\ sdDest' = sdDest
BY DEF Goto, InitReturns, SdTypes

LEMMA LoopEnds ==
  ASSUME SdTypes, NEW ready, NEW poll \in Int, NEW again, NEW leave, LoopOrLeave(ready, poll, again, leave)
  PROVE  /\ sdPoll' \in Int /\ sdRet' \in Int /\ sdRead' = sdRead /\ sdDest' = sdDest
         /\ \/ sdPc' = again /\ ~ready /\ poll < SdPolls
            \/ sdPc' = leave /\ poll <= SdPolls
            \/ sdPc' = "initDone"
<1>1. SdPolls \in Int /\ UNUSABLE_CARD \in Int
  BY SdAssumption, SdNumbers
<1>2. CASE ~ready /\ poll < SdPolls
  BY <1>1, <1>2 DEF LoopOrLeave, SdTypes
<1>3. CASE ~(~ready /\ poll < SdPolls)
  <2>1. (poll <= SdPolls /\ Goto(leave)) \/ InitReturns(UNUSABLE_CARD)
    BY <1>1, <1>3 DEF LoopOrLeave
  <2> QED
    BY <1>1, <2>1, StepEnds
<1> QED
  BY <1>2, <1>3

\* A command whose failures end the initialisation.
LEMMA CommandEnds ==
  ASSUME SdInv, NEW here \in SdInitPlaces, NEW answers, NEW card \in SdCardStates, card.is = sdCard.is,
         NEW next \in SdInitPlaces, Command(here, answers, card, next), mmc' \in MmcStructs
  PROVE  /\ SdInitStep /\ sdPc = here
         /\ sdHost'.clock = sdHost.clock
         /\ \/ sdPc' = next /\ sdCard' = card /\ answers
            \/ sdPc' = "initDone" /\ sdCard' \in {sdCard, card}
<1>1. SdTypes /\ sdHost \in SdHosts /\ sdCard \in SdCardStates /\ COMMUNICATION \in Int /\ sdPc = here
  BY SdNumbers DEF SdInv, SdTypes, Command
<1>2. PICK out \in Outcomes(answers) :
        /\ sdCard' \in Received(out, card)
        /\ IF out = 0 THEN Goto(next) ELSE InitReturns(COMMUNICATION)
  BY DEF Command
<1>3. sdHost' = Cleared(sdHost)
  BY DEF Command
<1>4. /\ sdHost' \in SdHosts /\ sdHost'.moving = sdHost.moving /\ sdHost'.dla = sdHost.dla
      /\ sdHost'.clock = sdHost.clock
  <2>1. 0 \in Int
    OBVIOUS
  <2> QED
    BY <1>1, <1>3, <2>1, HostCleared
<1>5. sdCard' \in {sdCard, card}
  BY <1>2, CardReceived
<1>6. CASE out = 0
  <2>1. Goto(next) /\ answers
    BY <1>2, <1>6, CommandOutcomes
  <2>2. sdCard' = card
    BY <1>2, <1>6, CardReceived
  <2> QED
    BY <1>1, <1>4, <2>1, <2>2, StepEnds DEF SdInitStep
<1>7. CASE out # 0
  <2>1. InitReturns(COMMUNICATION)
    BY <1>2, <1>7
  <2> QED
    BY <1>1, <1>4, <1>5, <2>1, StepEnds DEF SdInitStep
<1> QED
  BY <1>6, <1>7

\* What the two invariants ask of the cards and of the structure while the card is still unknown.
LEMMA UnknownCard ==
  ASSUME SdInv, sdPc \in SdStartPlaces
  PROVE  sdCard \in SdCardStates /\ (sdPc # "mmc0" => sdCard.state = "idle") /\ mmc \in MmcStructs
         /\ mmc.high_capacity = FALSE /\ mmc.block_len = 0
BY DEF SdInv, SdTypes, CapacityKnown, MmcStructs

LEMMA StillUnknown ==
  ASSUME sdPc' \in SdStartPlaces \cup {"initDone"}, mmc'.block_len = 0, mmc'.high_capacity = FALSE,
         sdPc' \notin {"initDone", "mmc0"} => sdCard'.state = "idle"
  PROVE  CapacityKnown'
BY DEF CapacityKnown, SdStartPlaces

LEMMA OpensKeeps ==
  ASSUME SdInv, sd_mmc_init
  PROVE  SdInv'
<1>1. SdTypes /\ sdPc = "off" /\ sdPc \in SdStartPlaces /\ sdHost \in SdHosts /\ sdCard' = sdCard
  BY DEF SdInv, SdTypes, sd_mmc_init, SdStartPlaces
<1>2. PICK ret \in {0, BUSY, CARD_DETECT}, dma \in SdDmaSupport :
       /\ esdhc_init(ret)
       /\ IF ret = 0
          THEN /\ mmc' = [mmc EXCEPT !.bus_freq = CARD_IDENTIFICATION_FREQ, !.dma_support = dma]
               /\ Goto("cmd0")
          ELSE InitReturns(ret) /\ UNCHANGED mmc
  BY DEF sd_mmc_init
<1>3. sdCard \in SdCardStates /\ sdCard.state = "idle" /\ mmc \in MmcStructs
      /\ mmc.high_capacity = FALSE /\ mmc.block_len = 0
  BY <1>1, UnknownCard
<1>4. PICK clock : clock = IF ret = BUSY THEN 0 ELSE set_speed(CARD_IDENTIFICATION_FREQ)
  OBVIOUS
<1>5. sdHost' = [sdHost EXCEPT !.clock = clock]
  BY <1>2, <1>4 DEF esdhc_init
<1>6. clock \in Int
  BY <1>4, IdentificationClock
<1>7. sdHost' \in SdHosts /\ sdHost'.moving = sdHost.moving /\ sdHost'.dla = sdHost.dla
  BY <1>1, <1>5, <1>6 DEF SdHosts
<1>8. CASE ret = 0
  <2>1. mmc' = [mmc EXCEPT !.bus_freq = CARD_IDENTIFICATION_FREQ, !.dma_support = dma] /\ Goto("cmd0")
    BY <1>2, <1>8
  <2>2. dma \in BOOLEAN /\ CARD_IDENTIFICATION_FREQ \in Int
    BY SdAssumption, SMT DEF CARD_IDENTIFICATION_FREQ
  <2>3. mmc' \in MmcStructs /\ mmc'.high_capacity = FALSE /\ mmc'.block_len = 0
    BY <1>3, <2>1, <2>2 DEF MmcStructs
  <2>4. sdPc' = "cmd0" /\ sdPoll' \in Int /\ sdRet' \in Int /\ sdRead' = sdRead /\ sdDest' = sdDest
    BY <1>1, <2>1, StepEnds, SdNumbers
  <2>5. CapacityKnown'
    BY <1>1, <1>3, <2>3, <2>4, StillUnknown DEF SdStartPlaces
  <2>6. SdInitStep
    BY <1>1, <1>3, <1>7, <2>3, <2>4 DEF SdInitStep, SdInitPlaces, SdStartPlaces
  <2> QED
    BY <2>5, <2>6, SdInitStepKeeps
<1>9. CASE ret # 0
  <2>1. mmc' = mmc /\ InitReturns(ret) /\ ret \in Int
    BY <1>2, <1>9, SdNumbers
  <2>2. sdPc' = "initDone" /\ sdPoll' \in Int /\ sdRet' \in Int /\ sdRead' = sdRead /\ sdDest' = sdDest
    BY <1>1, <2>1, StepEnds
  <2>3. CapacityKnown'
    BY <1>3, <2>1, <2>2, StillUnknown
  <2>4. SdInitStep
    BY <1>1, <1>3, <1>7, <2>1, <2>2 DEF SdInitStep, SdInitPlaces
  <2> QED
    BY <2>3, <2>4, SdInitStepKeeps
<1> QED
  BY <1>8, <1>9

\* CMD0 of both paths.
LEMMA IdleKeeps ==
  ASSUME SdInv, GoIdle \/ MmcGoIdle
  PROVE  SdInv'
<1>1. SdTypes /\ sdPc \in SdStartPlaces /\ sdHost \in SdHosts /\ mmc' = mmc /\ sdHost' = Cleared(sdHost)
  BY DEF SdInv, SdTypes, GoIdle, MmcGoIdle, SdStartPlaces
<1>2. PICK next \in {"cmd8", "cmd1"}, out \in {BUSY, 0, COMMUNICATION} :
        /\ sdCard' \in Received(out, CardIs(sdCard.is))
        /\ IF out = 0 THEN Goto(next) ELSE InitReturns(UNUSABLE_CARD)
  BY DEF GoIdle, MmcGoIdle
<1>3. sdCard \in SdCardStates /\ mmc \in MmcStructs
      /\ mmc.high_capacity = FALSE /\ mmc.block_len = 0
  BY <1>1, UnknownCard
<1>4. sdCard' \in SdCardStates /\ (sdPc' # "initDone" => sdCard'.state = "idle") /\ sdCard'.is = sdCard.is
  <2>1. CardIs(sdCard.is) \in SdCardStates /\ CardIs(sdCard.is).state = "idle" /\ CardIs(sdCard.is).is = sdCard.is
    BY <1>3 DEF CardIs, SdCardStates
  <2>2. sdCard' \in {sdCard, CardIs(sdCard.is)} /\ (out = 0 => sdCard' = CardIs(sdCard.is))
    BY <1>2, CardReceived
  <2>3. out # 0 => sdPc' = "initDone"
    BY <1>2 DEF InitReturns
  <2> QED
    BY <1>3, <2>1, <2>2, <2>3
<1>5. sdHost' \in SdHosts /\ sdHost'.moving = sdHost.moving /\ sdHost'.dla = sdHost.dla
  <2>1. 0 \in Int
    OBVIOUS
  <2> QED
    BY <1>1, <2>1, HostCleared
<1>6. /\ sdPc' \in {"cmd8", "cmd1", "initDone"} /\ sdPoll' \in Int /\ sdRet' \in Int
      /\ sdRead' = sdRead /\ sdDest' = sdDest
  <2>1. UNUSABLE_CARD \in Int
    BY SdNumbers
  <2> QED
    BY <1>1, <1>2, <2>1, StepEnds
<1>7. CapacityKnown'
  BY <1>1, <1>3, <1>4, <1>6, StillUnknown DEF SdStartPlaces
<1>8. SdInitStep
  BY <1>1, <1>3, <1>4, <1>5, <1>6 DEF SdInitStep, SdInitPlaces, SdStartPlaces
<1> QED
  BY <1>7, <1>8, SdInitStepKeeps

LEMMA SendIfCondKeeps ==
  ASSUME SdInv, SendIfCond
  PROVE  SdInv'
<1>1. SdTypes /\ sdPc \in SdStartPlaces /\ sdPc # "mmc0" /\ sdHost \in SdHosts /\ sdCard' = sdCard
      /\ sdHost' = Cleared(sdHost)
  BY DEF SdInv, SdTypes, SendIfCond, SdStartPlaces
<1>2. PICK out \in Outcomes(sdCard.is.sort = "sd2") :
       CASE out = BUSY         -> InitReturns(UNUSABLE_CARD) /\ UNCHANGED mmc
         [] out = RESP_TIMEOUT -> Goto("cmd55") /\ mmc' = [mmc EXCEPT !.high_capacity = FALSE]
         [] out = 0            -> Goto("cmd55") /\ mmc' = [mmc EXCEPT !.version = 2]
         [] OTHER              -> Goto("mmc0") /\ UNCHANGED mmc
  BY DEF SendIfCond
<1>3. sdCard \in SdCardStates /\ sdCard.state = "idle" /\ mmc \in MmcStructs
      /\ mmc.high_capacity = FALSE /\ mmc.block_len = 0
  BY <1>1, UnknownCard
<1>4. /\ InitReturns(UNUSABLE_CARD) \/ Goto("cmd55") \/ Goto("mmc0")
      /\ mmc' = mmc \/ mmc' = [mmc EXCEPT !.high_capacity = FALSE] \/ mmc' = [mmc EXCEPT !.version = 2]
  BY <1>2, SdNumbers
<1>5. mmc' \in MmcStructs /\ mmc'.high_capacity = FALSE /\ mmc'.block_len = 0
  <2>1. CASE mmc' = mmc
    BY <1>3, <2>1
  <2>2. CASE mmc' = [mmc EXCEPT !.high_capacity = FALSE]
    BY <1>3, <2>2 DEF MmcStructs
  <2>3. CASE mmc' = [mmc EXCEPT !.version = 2]
    BY <1>3, <2>3 DEF MmcStructs
  <2> QED
    BY <1>4, <2>1, <2>2, <2>3
<1>6. sdHost' \in SdHosts /\ sdHost'.moving = sdHost.moving /\ sdHost'.dla = sdHost.dla
  <2>1. 0 \in Int
    OBVIOUS
  <2> QED
    BY <1>1, <2>1, HostCleared
<1>7. /\ sdPc' \in {"cmd55", "mmc0", "initDone"} /\ sdPoll' \in Int /\ sdRet' \in Int
      /\ sdRead' = sdRead /\ sdDest' = sdDest
  <2>1. UNUSABLE_CARD \in Int
    BY SdNumbers
  <2> QED
    BY <1>1, <1>4, <2>1, StepEnds
<1>8. CapacityKnown'
  BY <1>1, <1>3, <1>5, <1>7, StillUnknown DEF SdStartPlaces
<1>9. SdInitStep
  BY <1>1, <1>3, <1>5, <1>6, <1>7 DEF SdInitStep, SdInitPlaces, SdStartPlaces
<1> QED
  BY <1>8, <1>9, SdInitStepKeeps

LEMMA AppCommandKeeps ==
  ASSUME SdInv, AppCommand
  PROVE  SdInv'
<1>1. SdTypes /\ sdPc \in SdStartPlaces /\ sdPc # "mmc0" /\ sdHost \in SdHosts /\ sdCard' = sdCard
      /\ sdHost' = Cleared(sdHost)
      /\ mmc' = mmc
  BY DEF SdInv, SdTypes, AppCommand, SdStartPlaces
<1>2. PICK out \in Outcomes(IsSd) :
       IF out \in {BUSY, COMMAND_ERROR} THEN InitReturns(UNUSABLE_CARD)
       ELSE sdPc' = "acmd41" /\ sdPoll' = PollAfter(out) /\ UNCHANGED <<sdRet, sdRead, sdDest>>
  BY DEF AppCommand
<1>3. sdCard \in SdCardStates /\ sdCard.state = "idle" /\ mmc \in MmcStructs
      /\ mmc.high_capacity = FALSE /\ mmc.block_len = 0
  BY <1>1, UnknownCard
<1>4. sdHost' \in SdHosts /\ sdHost'.moving = sdHost.moving /\ sdHost'.dla = sdHost.dla
  <2>1. 0 \in Int
    OBVIOUS
  <2> QED
    BY <1>1, <2>1, HostCleared
<1>5. /\ sdPc' \in {"acmd41", "initDone"} /\ sdPoll' \in Int /\ sdRet' \in Int
      /\ sdRead' = sdRead /\ sdDest' = sdDest
  <2>1. UNUSABLE_CARD \in Int /\ PollAfter(out) \in Int
    BY <1>1, SdNumbers, SdAssumption DEF PollAfter, SdTypes
  <2> QED
    BY <1>1, <1>2, <2>1, StepEnds
<1>6. CapacityKnown'
  BY <1>1, <1>3, <1>5, StillUnknown DEF SdStartPlaces
<1>7. SdInitStep
  BY <1>1, <1>3, <1>4, <1>5 DEF SdInitStep, SdInitPlaces, SdStartPlaces
<1> QED
  BY <1>6, <1>7, SdInitStepKeeps

\* The end of a step that sends a card of a class (SD or MMC) its operating conditions.
LEMMA OpCondKeeps ==
  ASSUME SdInv, sdPc \in SdStartPlaces \ {"mmc0"}, sdHost' = Cleared(sdHost),
         NEW up \in BOOLEAN, NEW seen \in BOOLEAN,
         NEW type \in {"SD", "MMC"},
         sdCard' = IF up THEN InState("ready") ELSE sdCard,
         /\ sdPc' \in SdStartPlaces \cup {"cid", "initDone"} /\ sdPoll' \in Int /\ sdRet' \in Int
         /\ sdRead' = sdRead /\ sdDest' = sdDest,
         mmc' = IF sdPc' # "cid" THEN mmc
                ELSE [mmc EXCEPT !.type = type, !.high_capacity = @ \/ (seen /\ sdCard.is.hc)],
         sdPc' \in SdStartPlaces \ {"mmc0"} => ~up,
         sdPc' = "cid" /\ up => seen
  PROVE  SdInv'
<1>1. SdTypes /\ sdHost \in SdHosts
  BY DEF SdInv, SdTypes
<1>2. sdCard \in SdCardStates /\ sdCard.state = "idle" /\ mmc \in MmcStructs
      /\ mmc.high_capacity = FALSE /\ mmc.block_len = 0
  BY UnknownCard
<1>3. sdHost' \in SdHosts /\ sdHost'.moving = sdHost.moving /\ sdHost'.dla = sdHost.dla
  <2>1. 0 \in Int
    OBVIOUS
  <2> QED
    BY <1>1, <2>1, HostCleared
<1>4. sdCard' \in SdCardStates /\ sdCard'.is = sdCard.is /\ (~up => sdCard'.state = "idle")
  BY <1>2 DEF InState, SdCardStates
<1>5. sdCard.is.hc \in BOOLEAN
  BY <1>2, SdAssumption DEF SdCardStates
<1>6. PICK big \in BOOLEAN : big = (mmc.high_capacity \/ (seen /\ sdCard.is.hc))
  OBVIOUS
<1>7. mmc' \in MmcStructs /\ mmc'.block_len = 0
      /\ (sdPc' # "cid" => mmc' = mmc) /\ (sdPc' = "cid" => mmc'.high_capacity = big)
  <2>1. (mmc' = mmc /\ sdPc' # "cid") \/ (sdPc' = "cid" /\ mmc' = [mmc EXCEPT !.type = type, !.high_capacity = big])
    BY <1>6
  <2>2. CASE mmc' = mmc /\ sdPc' # "cid"
    BY <1>2, <2>2
  <2>3. CASE sdPc' = "cid" /\ mmc' = [mmc EXCEPT !.type = type, !.high_capacity = big]
    BY <1>2, <2>3 DEF MmcStructs
  <2> QED
    BY <2>1, <2>2, <2>3
<1>8. CapacityKnown'
  <2>1. CASE sdPc' = "cid"
    <3>1. up => big = sdCard.is.hc
      BY <1>2, <1>5, <1>6, <2>1
    <3>2. sdCard'.state = "ready" => up
      BY <1>4
    <3> QED
      BY <1>4, <1>7, <2>1, <3>1, <3>2 DEF CapacityKnown, SdStartPlaces
  <2>2. CASE sdPc' # "cid"
    BY <1>2, <1>4, <1>7, <2>2, StillUnknown
  <2> QED
    BY <2>1, <2>2
<1>9. SdInitStep
  BY <1>3, <1>4, <1>7 DEF SdInitStep, SdInitPlaces
<1> QED
  BY <1>8, <1>9, SdInitStepKeeps

LEMMA SdSendOpCondKeeps ==
  ASSUME SdInv, SdSendOpCond
  PROVE  SdInv'
<1>1. SdTypes /\ sdPc \in SdStartPlaces \ {"mmc0"} /\ sdHost' = Cleared(sdHost) /\ IsSd \in BOOLEAN
      /\ UNUSABLE_CARD \in Int
  BY SdNumbers DEF SdInv, SdSendOpCond, SdStartPlaces, IsSd
<1>2. PICK out \in Outcomes(IsSd), up \in BOOLEAN :
       LET ready == up /\ (~sdCard.is.hc \/ mmc.version = 2)
       IN  /\ sdCard' \in Received(out, IF IsSd /\ ready THEN InState("ready") ELSE sdCard)
           /\ CASE out \in {BUSY, COMMAND_ERROR} -> InitReturns(UNUSABLE_CARD) /\ UNCHANGED mmc
                [] out = RESP_TIMEOUT -> Goto("mmc0") /\ UNCHANGED mmc
                [] OTHER ->
                     /\ LoopOrLeave(out = 0 /\ ready, PollAfter(out), "cmd55", "cid")
                     /\ mmc' = IF sdPc' # "cid" THEN mmc
                               ELSE [mmc EXCEPT !.type = "SD",
                                                !.high_capacity = @ \/ (out = 0 /\ ready /\ sdCard.is.hc)]
  BY DEF SdSendOpCond
<1>3. PICK ready \in BOOLEAN : ready = (up /\ (~sdCard.is.hc \/ mmc.version = 2))
  OBVIOUS
<1>4. sdCard' \in {sdCard, IF IsSd /\ ready THEN InState("ready") ELSE sdCard}
  BY <1>2, <1>3, CardReceived
<1>5. PICK became \in BOOLEAN :
        /\ sdCard' = IF became THEN InState("ready") ELSE sdCard
        /\ became => ready
  BY <1>4
<1>6. out \in {BUSY, 0, COMMUNICATION, COMMAND_ERROR, RESP_TIMEOUT}
  BY CommandOutcomes
<1>7. PICK seen \in BOOLEAN : seen = (out = 0 /\ ready)
  OBVIOUS
<1>8. CASE out \in {BUSY, COMMAND_ERROR}
  <2>1. InitReturns(UNUSABLE_CARD) /\ mmc' = mmc
    BY <1>2, <1>8, SdNumbers
  <2>2. sdPc' = "initDone" /\ sdPoll' \in Int /\ sdRet' \in Int /\ sdRead' = sdRead /\ sdDest' = sdDest
    BY <1>1, <2>1, StepEnds
  <2> QED
    BY <1>1, <1>5, <2>1, <2>2, OpCondKeeps DEF SdStartPlaces
<1>9. CASE out = RESP_TIMEOUT
  <2>1. Goto("mmc0") /\ mmc' = mmc
    BY <1>2, <1>9, SdNumbers
  <2>2. sdPc' = "mmc0" /\ sdPoll' \in Int /\ sdRet' \in Int /\ sdRead' = sdRead /\ sdDest' = sdDest
    BY <1>1, <2>1, StepEnds
  <2> QED
    BY <1>1, <1>5, <2>1, <2>2, OpCondKeeps DEF SdStartPlaces
<1>10. CASE out \in {0, COMMUNICATION}
  <2>1. /\ LoopOrLeave(seen, PollAfter(out), "cmd55", "cid")
        /\ mmc' = IF sdPc' # "cid" THEN mmc
                  ELSE [mmc EXCEPT !.type = "SD", !.high_capacity = @ \/ (seen /\ sdCard.is.hc)]
    <3>1. LoopOrLeave(out = 0 /\ up /\ (~sdCard.is.hc \/ mmc.version = 2), PollAfter(out), "cmd55", "cid")
          /\ mmc' = IF sdPc' # "cid" THEN mmc
                    ELSE [mmc EXCEPT !.type = "SD",
                                     !.high_capacity = @ \/ (out = 0 /\ up /\ (~sdCard.is.hc \/ mmc.version = 2)
                                                             /\ sdCard.is.hc)]
      BY <1>2, <1>10, SdNumbers
    <3>2. LoopOrLeave(seen, PollAfter(out), "cmd55", "cid")
      BY <1>3, <1>7, <3>1 DEF LoopOrLeave
    <3> QED
      BY <1>3, <1>7, <3>1, <3>2
  <2>2. PollAfter(out) \in Int /\ (out = COMMUNICATION => PollAfter(out) > SdPolls)
    BY <1>1, SdNumbers, SdAssumption DEF PollAfter, SdTypes
  <2>3. /\ sdPoll' \in Int /\ sdRet' \in Int /\ sdRead' = sdRead /\ sdDest' = sdDest
        /\ \/ sdPc' = "cmd55" /\ ~seen /\ PollAfter(out) < SdPolls
           \/ sdPc' = "cid" /\ PollAfter(out) <= SdPolls
           \/ sdPc' = "initDone"
    BY <1>1, <2>1, <2>2, LoopEnds
  <2>4. sdPc' # "initDone" => out = 0
    BY <1>10, <2>2, <2>3, SdAssumption
  <2>5. /\ sdPc' = "cmd55" => ~became
        /\ sdPc' = "cid" /\ became => seen
    BY <1>5, <1>7, <2>3, <2>4
  <2>6. sdPc' \in SdStartPlaces \cup {"cid", "initDone"} /\ (sdPc' \in SdStartPlaces => ~became)
    BY <2>3, <2>5 DEF SdStartPlaces
  <2> QED
    BY <1>1, <1>5, <2>1, <2>3, <2>5, <2>6, OpCondKeeps
<1> QED
  BY <1>6, <1>8, <1>9, <1>10

LEMMA MmcSendOpCondKeeps ==
  ASSUME SdInv, MmcSendOpCond
  PROVE  SdInv'
<1>1. SdTypes /\ sdPc \in SdStartPlaces \ {"mmc0"} /\ sdHost' = Cleared(sdHost) /\ IsMmc \in BOOLEAN
      /\ UNUSABLE_CARD \in Int /\ sdPoll \in Int
  BY SdNumbers DEF SdInv, SdTypes, MmcSendOpCond, SdStartPlaces, IsMmc
<1>2. PICK out \in Outcomes(IsMmc), up \in BOOLEAN :
       /\ sdCard' \in Received(out, IF IsMmc /\ up THEN InState("ready") ELSE sdCard)
       /\ IF out # 0 THEN InitReturns(UNUSABLE_CARD) /\ UNCHANGED mmc
          ELSE /\ LoopOrLeave(up, sdPoll, "cmd1", "cid")
               /\ mmc' = IF sdPc' # "cid" THEN mmc
                         ELSE [mmc EXCEPT !.type = "MMC", !.high_capacity = @ \/ (up /\ sdCard.is.hc)]
  BY DEF MmcSendOpCond
<1>3. sdCard' \in {sdCard, IF IsMmc /\ up THEN InState("ready") ELSE sdCard}
  BY <1>2, CardReceived
<1>4. PICK became \in BOOLEAN :
        /\ sdCard' = IF became THEN InState("ready") ELSE sdCard
        /\ became => up
  BY <1>3
<1>5. CASE out # 0
  <2>1. InitReturns(UNUSABLE_CARD) /\ mmc' = mmc
    BY <1>2, <1>5
  <2>2. sdPc' = "initDone" /\ sdPoll' \in Int /\ sdRet' \in Int /\ sdRead' = sdRead /\ sdDest' = sdDest
    BY <1>1, <2>1, StepEnds
  <2> QED
    BY <1>1, <1>4, <2>1, <2>2, OpCondKeeps DEF SdStartPlaces
<1>6. CASE out = 0
  <2>1. /\ LoopOrLeave(up, sdPoll, "cmd1", "cid")
        /\ mmc' = IF sdPc' # "cid" THEN mmc
                  ELSE [mmc EXCEPT !.type = "MMC", !.high_capacity = @ \/ (up /\ sdCard.is.hc)]
    BY <1>2, <1>6
  <2>2. /\ sdPoll' \in Int /\ sdRet' \in Int /\ sdRead' = sdRead /\ sdDest' = sdDest
        /\ \/ sdPc' = "cmd1" /\ ~up
           \/ sdPc' = "cid"
           \/ sdPc' = "initDone"
    BY <1>1, <2>1, LoopEnds
  <2>3. sdPc' \in SdStartPlaces \cup {"cid", "initDone"} /\ (sdPc' \in SdStartPlaces => ~became)
        /\ (sdPc' = "cid" /\ became => up)
    BY <1>4, <2>2 DEF SdStartPlaces
  <2> QED
    BY <1>1, <1>4, <2>1, <2>2, <2>3, OpCondKeeps
<1> QED
  BY <1>5, <1>6

SdKnownPlaces == {"select", "status", "app51", "acmd51", "check", "switch", "mmcSwitch", "mmcStatus", "speed"}

\* Once the card is known, its capacity is settled.
LEMMA CapacitySettled ==
  ASSUME SdInv, sdPc' \in SdKnownPlaces \cup {"initDone"}, sdCard'.is = sdCard.is,
         mmc'.block_len = mmc.block_len, mmc'.high_capacity = mmc.high_capacity
  PROVE  CapacityKnown'
<1>1. sdPc' \notin SdStartPlaces \cup {"cid", "rca", "csd"}
  BY DEF SdKnownPlaces, SdStartPlaces
<1>2. mmc.block_len # 0 => mmc.block_len = BLOCK_LEN_512 /\ mmc.high_capacity = sdCard.is.hc
  BY DEF SdInv, CapacityKnown
<1> QED
  BY <1>1, <1>2 DEF CapacityKnown

LEMMA IdentifyKeeps ==
  ASSUME SdInv, AllSendCid \/ SendRelativeAddr
  PROVE  SdInv'
<1>1. SdTypes /\ mmc' = mmc /\ mmc' \in MmcStructs /\ sdCard \in SdCardStates
  BY DEF SdInv, SdTypes, AllSendCid, SendRelativeAddr
<1>2. InState("ident") \in SdCardStates /\ InState("stby") \in SdCardStates
      /\ InState("ident").is = sdCard.is /\ InState("stby").is = sdCard.is
  BY <1>1 DEF InState, SdCardStates
<1>3. CASE AllSendCid
  <2>1. Command("cid", sdCard.state = "ready", InState("ident"), "rca")
        /\ "cid" \in SdInitPlaces /\ "rca" \in SdInitPlaces
    BY <1>3 DEF AllSendCid, SdInitPlaces
  <2>2. /\ SdInitStep /\ sdPc = "cid"
        /\ \/ sdPc' = "rca" /\ sdCard.state = "ready"
           \/ sdPc' = "initDone"
    BY <1>1, <1>2, <2>1, CommandEnds
  <2>3. sdCard'.is = sdCard.is /\ mmc.block_len = 0 /\ (sdCard.state = "ready" => mmc.high_capacity = sdCard.is.hc)
    BY <2>2 DEF SdInv, CapacityKnown, SdInitStep
  <2>4. CapacityKnown'
    BY <1>1, <2>2, <2>3 DEF CapacityKnown, SdStartPlaces
  <2> QED
    BY <2>2, <2>4, SdInitStepKeeps
<1>4. CASE SendRelativeAddr
  <2>1. Command("rca", sdCard.state = "ident", InState("stby"), "csd")
        /\ "rca" \in SdInitPlaces /\ "csd" \in SdInitPlaces
    BY <1>4 DEF SendRelativeAddr, SdInitPlaces
  <2>2. SdInitStep /\ sdPc = "rca" /\ (sdPc' = "csd" \/ sdPc' = "initDone")
    BY <1>1, <1>2, <2>1, CommandEnds
  <2>3. sdCard'.is = sdCard.is /\ mmc.block_len = 0 /\ mmc.high_capacity = sdCard.is.hc
    BY <2>2 DEF SdInv, CapacityKnown, SdInitStep
  <2>4. CapacityKnown'
    BY <1>1, <2>2, <2>3 DEF CapacityKnown, SdStartPlaces
  <2> QED
    BY <2>2, <2>4, SdInitStepKeeps
<1> QED
  BY <1>3, <1>4

LEMMA SendCsdKeeps ==
  ASSUME SdInv, SendCsd
  PROVE  SdInv'
<1>1. SdTypes /\ sdCard \in SdCardStates /\ mmc \in MmcStructs
      /\ Command("csd", sdCard.state = "stby", sdCard, "select")
      /\ "csd" \in SdInitPlaces /\ "select" \in SdInitPlaces
  BY DEF SdInv, SdTypes, SendCsd, SdInitPlaces
<1>2. PICK version \in Int :
        version = IF mmc.type # "MMC" THEN mmc.version ELSE IF sdCard.is.sort = "mmc4" THEN 4 ELSE 3
  BY <1>1 DEF MmcStructs
<1>3. mmc' = IF sdPc' # "select" THEN mmc ELSE [mmc EXCEPT !.block_len = BLOCK_LEN_512, !.version = version]
  BY <1>2 DEF SendCsd
<1>4. mmc' \in MmcStructs /\ mmc'.high_capacity = mmc.high_capacity
      /\ (sdPc' # "select" => mmc' = mmc) /\ (sdPc' = "select" => mmc'.block_len = BLOCK_LEN_512)
  <2>1. CASE sdPc' # "select"
    BY <1>1, <1>3, <2>1
  <2>2. CASE sdPc' = "select"
    <3>1. mmc' = [mmc EXCEPT !.block_len = BLOCK_LEN_512, !.version = version] /\ BLOCK_LEN_512 \in Int
      BY <1>3, <2>2, SdNumbers
    <3> QED
      BY <1>1, <2>2, <3>1 DEF MmcStructs
  <2> QED
    BY <2>1, <2>2
<1>5. SdInitStep /\ sdPc = "csd" /\ (sdPc' = "select" \/ sdPc' = "initDone")
  BY <1>1, <1>4, CommandEnds
<1>6. sdCard'.is = sdCard.is /\ mmc.block_len = 0 /\ mmc.high_capacity = sdCard.is.hc
  BY <1>5 DEF SdInv, CapacityKnown, SdInitStep
<1>7. CapacityKnown'
  BY <1>4, <1>5, <1>6 DEF CapacityKnown, SdStartPlaces
<1> QED
  BY <1>5, <1>7, SdInitStepKeeps

\* CMD7, CMD55 of ACMD51 and the CMD6 of MMC cards: commands that change the card alone.
LEMMA KnownCommandKeeps ==
  ASSUME SdInv, SelectCard \/ SdApp51 \/ MmcSwitch
  PROVE  SdInv'
<1>1. SdTypes /\ mmc' = mmc /\ mmc' \in MmcStructs /\ sdCard \in SdCardStates
  BY DEF SdInv, SdTypes, SelectCard, SdApp51, MmcSwitch
<1>2. \E here, next \in SdKnownPlaces, card \in SdCardStates :
        \/ Command(here, sdCard.state = "tran", card, next) /\ card.is = sdCard.is
        \/ Command(here, sdCard.state = "stby", card, next) /\ card.is = sdCard.is
  <2>1. CASE SelectCard
    <3>1. PICK state \in {"tran", "stby"} : Command("select", sdCard.state = "stby", InState(state), "status")
      BY <2>1 DEF SelectCard
    <3>2. InState(state) \in SdCardStates /\ InState(state).is = sdCard.is
      BY <1>1 DEF InState, SdCardStates
    <3>3. "select" \in SdKnownPlaces /\ "status" \in SdKnownPlaces
      BY DEF SdKnownPlaces
    <3> QED
      BY <3>1, <3>2, <3>3
  <2>2. CASE SdApp51
    <3>1. Command("app51", sdCard.state = "tran", sdCard, "acmd51")
      BY <2>2 DEF SdApp51
    <3>2. "app51" \in SdKnownPlaces /\ "acmd51" \in SdKnownPlaces
      BY DEF SdKnownPlaces
    <3> QED
      BY <1>1, <3>1, <3>2
  <2>3. CASE MmcSwitch
    <3>1. PICK tookHigh \in {FALSE} \cup {sdCard.is.hs} :
            Command("mmcSwitch", sdCard.state = "tran",
                    [sdCard EXCEPT !.mode = IF tookHigh THEN "high" ELSE @, !.switchError = ~tookHigh],
                    "mmcStatus")
      BY <2>3 DEF MmcSwitch
    <3>2. PICK mode \in {"default", "high"}, error \in BOOLEAN :
            mode = (IF tookHigh THEN "high" ELSE sdCard.mode) /\ error = ~tookHigh
      BY <1>1 DEF SdCardStates
    <3>3. PICK card : card = [sdCard EXCEPT !.mode = mode, !.switchError = error]
      OBVIOUS
    <3>4. Command("mmcSwitch", sdCard.state = "tran", card, "mmcStatus")
      BY <3>1, <3>2, <3>3
    <3>5. card \in SdCardStates /\ card.is = sdCard.is
      BY <1>1, <3>3 DEF SdCardStates
    <3>6. "mmcSwitch" \in SdKnownPlaces /\ "mmcStatus" \in SdKnownPlaces
      BY DEF SdKnownPlaces
    <3> QED
      BY <3>4, <3>5, <3>6
  <2> QED
    BY <2>1, <2>2, <2>3
<1>3. PICK here \in SdKnownPlaces, next \in SdKnownPlaces, card \in SdCardStates :
        \/ Command(here, sdCard.state = "tran", card, next) /\ card.is = sdCard.is
        \/ Command(here, sdCard.state = "stby", card, next) /\ card.is = sdCard.is
  BY <1>2
<1>4. here \in SdInitPlaces /\ next \in SdInitPlaces
  BY DEF SdKnownPlaces, SdInitPlaces
<1>5. SdInitStep /\ (sdPc' = next \/ sdPc' = "initDone")
  <2>1. CASE Command(here, sdCard.state = "tran", card, next) /\ card.is = sdCard.is
    BY <1>1, <1>4, <2>1, CommandEnds
  <2>2. CASE Command(here, sdCard.state = "stby", card, next) /\ card.is = sdCard.is
    BY <1>1, <1>4, <2>2, CommandEnds
  <2> QED
    BY <1>3, <2>1, <2>2
<1>6. sdPc' \in SdKnownPlaces \cup {"initDone"} /\ sdCard'.is = sdCard.is
  BY <1>5 DEF SdInitStep
<1>7. CapacityKnown'
  BY <1>1, <1>6, CapacitySettled
<1> QED
  BY <1>5, <1>7, SdInitStepKeeps

\* A step after the card is known: what the driver learns is the version and the speed.
LEMMA KnownStepKeeps ==
  ASSUME SdInv, sdPc \in SdKnownPlaces, sdPc' \in SdKnownPlaces \cup {"initDone"},
         sdCard' \in SdCardStates, sdCard'.is = sdCard.is, NEW len \in Int, NEW clock \in Int,
         sdHost' = Cleared(sdHost) \/ sdHost' = Cleared(WithBlkattr(sdHost, len))
           \/ sdHost' = [sdHost EXCEPT !.clock = clock],
         NEW version \in Int, NEW freq \in Int,
         mmc' = mmc \/ mmc' = [mmc EXCEPT !.version = version] \/ mmc' = [mmc EXCEPT !.bus_freq = freq],
         sdPoll' \in Int, sdRet' \in Int, sdRead' = sdRead, sdDest' = sdDest
  PROVE  SdInv'
<1>1. SdTypes /\ sdHost \in SdHosts /\ mmc \in MmcStructs
  BY DEF SdInv, SdTypes
<1>2. sdHost' \in SdHosts /\ sdHost'.moving = sdHost.moving /\ sdHost'.dla = sdHost.dla
  <2>1. CASE sdHost' = [sdHost EXCEPT !.clock = clock]
    BY <1>1, <2>1 DEF SdHosts
  <2> QED
    BY <1>1, <2>1, HostCleared
<1>3. mmc' \in MmcStructs /\ mmc'.block_len = mmc.block_len /\ mmc'.high_capacity = mmc.high_capacity
  <2>1. CASE mmc' = [mmc EXCEPT !.version = version]
    BY <1>1, <2>1 DEF MmcStructs
  <2>2. CASE mmc' = [mmc EXCEPT !.bus_freq = freq]
    BY <1>1, <2>2 DEF MmcStructs
  <2> QED
    BY <1>1, <2>1, <2>2
<1>4. CapacityKnown'
  BY <1>3, CapacitySettled
<1>5. sdPc \in SdInitPlaces /\ sdPc' \in SdInitPlaces \cup {"initDone"}
  BY DEF SdKnownPlaces, SdInitPlaces
<1>6. SdInitStep
  BY <1>2, <1>3, <1>5 DEF SdInitStep
<1> QED
  BY <1>4, <1>6, SdInitStepKeeps

LEMMA SendStatusKeeps ==
  ASSUME SdInv, SendStatus
  PROVE  SdInv'
<1>1. SdTypes /\ sdPc \in SdKnownPlaces /\ sdHost' = Cleared(sdHost) /\ sdCard' = sdCard /\ sdCard \in SdCardStates
      /\ sdPoll \in Int /\ COMMUNICATION \in Int
  BY SdNumbers DEF SdInv, SdTypes, SendStatus, SdKnownPlaces
<1>2. PICK freq \in Int : freq = SlowFreq
  BY Frequencies DEF SlowFreq
<1>3. \/ InitReturns(COMMUNICATION) /\ mmc' = mmc
      \/ Goto(SwitchPc) /\ mmc' = [mmc EXCEPT !.bus_freq = freq]
      \/ sdPc' = "status" /\ sdPoll' = sdPoll + 1 /\ UNCHANGED <<sdRet, sdRead, sdDest>> /\ mmc' = mmc
  BY <1>2 DEF SendStatus
<1>4. SwitchPc \in SdKnownPlaces /\ "status" \in SdKnownPlaces
  BY DEF SwitchPc, SdKnownPlaces
<1>5. /\ sdPc' \in SdKnownPlaces \cup {"initDone"} /\ sdPoll' \in Int /\ sdRet' \in Int
      /\ sdRead' = sdRead /\ sdDest' = sdDest
      /\ mmc' = mmc \/ mmc' = [mmc EXCEPT !.bus_freq = freq]
  <2>1. CASE InitReturns(COMMUNICATION) /\ mmc' = mmc
    BY <1>1, <2>1, StepEnds
  <2>2. CASE Goto(SwitchPc) /\ mmc' = [mmc EXCEPT !.bus_freq = freq]
    BY <1>1, <1>4, <2>2, StepEnds
  <2>3. CASE sdPc' = "status" /\ sdPoll' = sdPoll + 1 /\ UNCHANGED <<sdRet, sdRead, sdDest>> /\ mmc' = mmc
    BY <1>1, <1>4, <2>3, StepEnds
  <2> QED
    BY <1>3, <2>1, <2>2, <2>3
<1> QED
  BY <1>1, <1>5, KnownStepKeeps

LEMMA SendScrKeeps ==
  ASSUME SdInv, SendScr
  PROVE  SdInv'
<1>1. SdTypes /\ sdPc \in SdKnownPlaces /\ sdHost' = Cleared(WithBlkattr(sdHost, 8)) /\ sdCard' = sdCard
      /\ sdCard \in SdCardStates /\ COMMUNICATION \in Int /\ 8 \in Int
  BY SdNumbers DEF SdInv, SdTypes, SendScr, SdKnownPlaces
<1>2. PICK version \in Int : version = sdCard.is.scr
  BY <1>1, SdAssumption DEF SdCardStates
<1>3. PICK next \in {"speed", "check"} : next = IF sdCard.is.scr = 0 THEN "speed" ELSE "check"
  OBVIOUS
<1>4. \/ InitReturns(COMMUNICATION) /\ mmc' = mmc
      \/ Goto(next) /\ mmc' = [mmc EXCEPT !.version = version]
  BY <1>2, <1>3 DEF SendScr
<1>5. next \in SdKnownPlaces
  BY DEF SdKnownPlaces
<1>6. /\ sdPc' \in SdKnownPlaces \cup {"initDone"} /\ sdPoll' \in Int /\ sdRet' \in Int
      /\ sdRead' = sdRead /\ sdDest' = sdDest
      /\ mmc' = mmc \/ mmc' = [mmc EXCEPT !.version = version]
  BY <1>1, <1>4, <1>5, StepEnds
<1> QED
  BY <1>1, <1>6, KnownStepKeeps

LEMMA CheckSwitchKeeps ==
  ASSUME SdInv, CheckSwitch
  PROVE  SdInv'
<1>1. SdTypes /\ sdPc \in SdKnownPlaces /\ sdHost' = Cleared(WithBlkattr(sdHost, 64)) /\ sdCard' = sdCard
      /\ sdCard \in SdCardStates /\ COMMUNICATION \in Int /\ 64 \in Int /\ sdPoll \in Int /\ mmc' = mmc
  BY SdNumbers DEF SdInv, SdTypes, CheckSwitch, SdKnownPlaces
<1>2. PICK next \in {"speed", "switch"} : next = IF sdCard.is.hs THEN "switch" ELSE "speed"
  OBVIOUS
<1>3. \/ InitReturns(COMMUNICATION)
      \/ Goto(next)
      \/ sdPc' = "check" /\ sdPoll' = sdPoll + 1 /\ UNCHANGED <<sdRet, sdRead, sdDest>>
  BY <1>2 DEF CheckSwitch
<1>4. next \in SdKnownPlaces /\ "check" \in SdKnownPlaces
  BY DEF SdKnownPlaces
<1>5. /\ sdPc' \in SdKnownPlaces \cup {"initDone"} /\ sdPoll' \in Int /\ sdRet' \in Int
      /\ sdRead' = sdRead /\ sdDest' = sdDest
  <2>1. CASE InitReturns(COMMUNICATION) \/ Goto(next)
    BY <1>1, <1>4, <2>1, StepEnds
  <2>2. CASE sdPc' = "check" /\ sdPoll' = sdPoll + 1 /\ UNCHANGED <<sdRet, sdRead, sdDest>>
    BY <1>1, <1>4, <2>2, StepEnds
  <2> QED
    BY <1>3, <2>1, <2>2
<1> QED
  BY <1>1, <1>5, KnownStepKeeps

LEMMA SdSwitchKeeps ==
  ASSUME SdInv, SdSwitch
  PROVE  SdInv'
<1>1. SdTypes /\ sdPc \in SdKnownPlaces /\ sdHost' = Cleared(WithBlkattr(sdHost, 64))
      /\ sdCard \in SdCardStates /\ COMMUNICATION \in Int /\ 64 \in Int
  BY SdNumbers DEF SdInv, SdTypes, SdSwitch, SdKnownPlaces
<1>2. PICK out \in Outcomes(sdCard.state = "tran"), data \in {0, COMMUNICATION}, tookHigh \in BOOLEAN :
       /\ sdCard' \in Received(out, [sdCard EXCEPT !.mode = IF tookHigh THEN "high" ELSE @])
       /\ IF out # 0 \/ data # 0 THEN InitReturns(COMMUNICATION) /\ UNCHANGED mmc
          ELSE Goto("speed") /\ mmc' = [mmc EXCEPT !.bus_freq = SwitchedFreq(tookHigh)]
  BY DEF SdSwitch
<1>3. PICK freq \in Int : freq = SwitchedFreq(tookHigh)
  BY Frequencies DEF SwitchedFreq
<1>4. PICK mode \in {"default", "high"} : mode = IF tookHigh THEN "high" ELSE sdCard.mode
  BY <1>1 DEF SdCardStates
<1>5. sdCard' \in SdCardStates /\ sdCard'.is = sdCard.is
  <2>1. sdCard' = sdCard \/ sdCard' = [sdCard EXCEPT !.mode = mode]
    BY <1>2, <1>4, CardReceived
  <2>2. CASE sdCard' = [sdCard EXCEPT !.mode = mode]
    BY <1>1, <2>2 DEF SdCardStates
  <2> QED
    BY <1>1, <2>1, <2>2
<1>6. \/ InitReturns(COMMUNICATION) /\ mmc' = mmc
      \/ Goto("speed") /\ mmc' = [mmc EXCEPT !.bus_freq = freq]
  BY <1>2, <1>3
<1>7. "speed" \in SdKnownPlaces
  BY DEF SdKnownPlaces
<1>8. /\ sdPc' \in SdKnownPlaces \cup {"initDone"} /\ sdPoll' \in Int /\ sdRet' \in Int
      /\ sdRead' = sdRead /\ sdDest' = sdDest
      /\ mmc' = mmc \/ mmc' = [mmc EXCEPT !.bus_freq = freq]
  BY <1>1, <1>6, <1>7, StepEnds
<1> QED
  BY <1>1, <1>5, <1>8, KnownStepKeeps

\* A status that was told, whether the card repeats its refusal or not.
LEMMA CardAfterStatus ==
  ASSUME sdCard \in SdCardStates, NEW repeats \in BOOLEAN
  PROVE  /\ StatusTold(repeats) \in SdCardStates
         /\ StatusTold(repeats).is = sdCard.is /\ StatusTold(repeats).state = sdCard.state
         /\ StatusTold(repeats).mode = sdCard.mode
         /\ sdCard.dropped => StatusTold(repeats).dropped
         /\ ~StatusTold(repeats).switchError => ~sdCard.switchError \/ StatusTold(repeats).dropped
<1>1. PICK error \in BOOLEAN, dropped \in BOOLEAN :
        /\ error = (sdCard.switchError /\ repeats)
        /\ dropped = (sdCard.dropped \/ (sdCard.switchError /\ ~repeats))
  OBVIOUS
<1>2. sdCard.switchError \in BOOLEAN /\ sdCard.dropped \in BOOLEAN
  BY DEF SdCardStates
<1>3. StatusTold(repeats) = [sdCard EXCEPT !.switchError = error, !.dropped = dropped]
  BY <1>1 DEF StatusTold
<1>4. PICK told : told = StatusTold(repeats)
  OBVIOUS
<1>5. /\ told \in SdCardStates /\ told.is = sdCard.is /\ told.state = sdCard.state /\ told.mode = sdCard.mode
      /\ told.switchError = error /\ told.dropped = dropped
  BY <1>3, <1>4 DEF SdCardStates
<1>6. (sdCard.dropped => dropped) /\ (~error => ~sdCard.switchError \/ dropped)
  BY <1>1, <1>2
<1> QED
  BY <1>4, <1>5, <1>6

LEMMA MmcSwitchStatusKeeps ==
  ASSUME SdInv, MmcSwitchStatus
  PROVE  SdInv'
<1>1. SdTypes /\ sdPc \in SdKnownPlaces /\ sdHost' = Cleared(sdHost)
      /\ sdCard \in SdCardStates /\ COMMUNICATION \in Int /\ sdPoll \in Int
  BY SdNumbers DEF SdInv, SdTypes, MmcSwitchStatus, SdKnownPlaces
<1>2. PICK freq \in Int : freq = IF sdCard.switchError THEN MMC_HS_26MHZ ELSE MMC_HS_52MHZ
  BY Frequencies
<1>3. PICK out \in Outcomes(sdCard.state = "tran"), repeats \in BOOLEAN :
       /\ sdCard' \in Received(out, StatusTold(repeats))
       /\ \/ InitReturns(COMMUNICATION) /\ mmc' = mmc
          \/ sdPc' = "mmcStatus" /\ sdPoll' = sdPoll + 1 /\ mmc' = mmc /\ UNCHANGED <<sdRet, sdRead, sdDest>>
          \/ mmc' = [mmc EXCEPT !.bus_freq = freq] /\ Goto("speed")
  BY <1>2 DEF MmcSwitchStatus
<1>4. sdCard' \in {sdCard, StatusTold(repeats)}
  BY <1>3, CardReceived
<1>5. sdCard' \in SdCardStates /\ sdCard'.is = sdCard.is
  <2>1. StatusTold(repeats) \in SdCardStates /\ StatusTold(repeats).is = sdCard.is
    BY <1>1, CardAfterStatus
  <2> QED
    BY <1>1, <1>4, <2>1
<1>6. "speed" \in SdKnownPlaces /\ "mmcStatus" \in SdKnownPlaces
  BY DEF SdKnownPlaces
<1>7. /\ sdPc' \in SdKnownPlaces \cup {"initDone"} /\ sdPoll' \in Int /\ sdRet' \in Int
      /\ sdRead' = sdRead /\ sdDest' = sdDest
      /\ mmc' = mmc \/ mmc' = [mmc EXCEPT !.bus_freq = freq]
  <2>1. CASE InitReturns(COMMUNICATION) /\ mmc' = mmc
    BY <1>1, <2>1, StepEnds
  <2>2. CASE sdPc' = "mmcStatus" /\ sdPoll' = sdPoll + 1 /\ mmc' = mmc /\ UNCHANGED <<sdRet, sdRead, sdDest>>
    BY <1>1, <1>6, <2>2, StepEnds
  <2>3. CASE mmc' = [mmc EXCEPT !.bus_freq = freq] /\ Goto("speed")
    BY <1>1, <1>6, <2>3, StepEnds
  <2> QED
    BY <1>3, <2>1, <2>2, <2>3
<1> QED
  BY <1>1, <1>5, <1>7, KnownStepKeeps

LEMMA SetBusSpeedKeeps ==
  ASSUME SdInv, SetBusSpeed
  PROVE  SdInv'
<1>1. SdTypes /\ sdPc \in SdKnownPlaces /\ sdCard \in SdCardStates /\ mmc \in MmcStructs
      /\ sdCard' = sdCard /\ mmc' = mmc /\ InitReturns(0)
  BY DEF SdInv, SdTypes, SetBusSpeed, SdKnownPlaces
<1>2. PICK clock \in Int : clock = set_speed(mmc.bus_freq)
  BY <1>1, SpeedIsNumber DEF MmcStructs
<1>3. sdHost' = [sdHost EXCEPT !.clock = clock]
  BY <1>2 DEF SetBusSpeed
<1>4. 0 \in Int
  OBVIOUS
<1>5. sdPc' = "initDone" /\ sdPoll' \in Int /\ sdRet' \in Int /\ sdRead' = sdRead /\ sdDest' = sdDest
  BY <1>1, <1>4, StepEnds
<1> QED
  BY <1>1, <1>2, <1>3, <1>5, KnownStepKeeps

LEMMA TestTable ==
  /\ Len(SdTests) = 3
  /\ \A case \in 1..3 : SdTests[case].len \in 1..3 /\ SdTests[case].offset \in Int
BY DEF SdTests

\* The argument of CMD17 makes the card send the block that was asked for.
LEMMA RightBlock ==
  ASSUME NEW blk \in Int, mmc.block_len = BLOCK_LEN_512, sdCard.is.hc \in BOOLEAN,
         mmc.high_capacity = sdCard.is.hc
  PROVE  Addressed(Offset(blk)) = blk
BY SdNumbers DEF Addressed, Offset

\* A step of a read leaves the card and the structure alone.
LEMMA CapacityStays ==
  ASSUME SdInv, sdCard' = sdCard, mmc' = mmc,
         sdPc' \in SdReadPlaces \cup {"readDone"} \/ sdPc' = sdPc
  PROVE  CapacityKnown'
<1>1. CapacityKnown
  BY DEF SdInv
<1>2. CASE sdPc' \in SdReadPlaces \cup {"readDone"}
  <2>1. sdPc' \notin SdStartPlaces \cup {"cid", "rca", "csd"}
    BY <1>2 DEF SdReadPlaces, SdStartPlaces
  <2> QED
    BY <1>1, <2>1 DEF CapacityKnown
<1>3. CASE sdPc' = sdPc
  BY <1>1, <1>3 DEF CapacityKnown
<1> QED
  BY <1>2, <1>3

\* What is known of the read under way.
LEMMA ReadKnown ==
  ASSUME SdInv, sdPc \in SdReadPlaces
  PROVE  /\ sdHost \in SdHosts /\ sdRead \in SdReads /\ sdDest \in [0..2 -> Int] /\ sdPoll \in Int /\ sdRet \in Int
         /\ sdCard \in SdCardStates /\ mmc \in MmcStructs
         /\ sdRead.case \in 1..3 /\ sdRead.len = SdTests[sdRead.case].len /\ sdRead.len \in 1..3
         /\ mmc.block_len # 0 /\ FirstBlock \in Int
         /\ sdRead.to \in 0..2 /\ sdRead.to < sdRead.len /\ sdRead.blk = FirstBlock + sdRead.to
         /\ ~sdRead.unseen => \A k \in 0..(sdRead.to - 1) : sdDest[k] = FirstBlock + k
<1>1. SdTypes /\ ReadFollows
  BY DEF SdInv
<1>2. sdRead.case \in 1..3 /\ sdRead.len = SdTests[sdRead.case].len
  BY <1>1 DEF ReadFollows
<1>3. sdRead.len \in 1..3 /\ SdTests[sdRead.case].offset \in Int
  BY <1>2, TestTable
<1>4. FirstBlock \in Int
  BY <1>3 DEF FirstBlock
<1> QED
  BY <1>1, <1>2, <1>3, <1>4 DEF SdTypes, ReadFollows

\* A read that fails says nothing of the buffer.
LEMMA FailureKeeps ==
  ASSUME SdInv, sdPc \in SdReadPlaces, NEW ret \in Int, ret # 0, ReadReturns(ret),
         sdCard' = sdCard, mmc' = mmc, sdHost' \in SdHosts, sdRead' = sdRead, sdDest' \in [0..2 -> Int]
  PROVE  SdInv'
<1>1. sdPc' = "readDone" /\ sdPoll' = 0 /\ sdRet' = ret
  BY DEF ReadReturns
<1>2. SdTypes'
  BY <1>1, ReadKnown DEF SdTypes
<1>3. ReadFollows'
  <2>1. sdPc' \notin SdInitPlaces \cup {"initDone"} \cup SdReadPlaces
    BY <1>1 DEF SdInitPlaces, SdStartPlaces, SdReadPlaces
  <2>2. sdRead'.case \in 1..3 /\ sdRead'.len = SdTests[sdRead'.case].len
    BY ReadKnown
  <2> QED
    BY <1>1, <2>1, <2>2 DEF ReadFollows, SdReadPlaces
<1>4. CapacityKnown'
  BY <1>1, CapacityStays
<1> QED
  BY <1>2, <1>3, <1>4 DEF SdInv

\* The block under way is in the buffer: the next one, or the end of the read.
LEMMA BlockDoneKeeps ==
  ASSUME SdInv, sdPc \in SdReadPlaces, BlockDone, sdCard' = sdCard, mmc' = mmc,
         sdHost' \in SdHosts, sdHost'.moving = NoBlk,
         sdDest' = [sdDest EXCEPT ![sdRead.to] = sdRead.blk]
  PROVE  SdInv'
<1>1. /\ sdRead \in SdReads /\ sdDest \in [0..2 -> Int] /\ sdRet \in Int /\ sdCard \in SdCardStates
      /\ mmc \in MmcStructs /\ sdRead.case \in 1..3 /\ sdRead.len = SdTests[sdRead.case].len
      /\ sdRead.len \in 1..3 /\ mmc.block_len # 0 /\ FirstBlock \in Int
      /\ sdRead.to \in 0..2 /\ sdRead.to < sdRead.len /\ sdRead.blk = FirstBlock + sdRead.to
      /\ ~sdRead.unseen => \A k \in 0..(sdRead.to - 1) : sdDest[k] = FirstBlock + k
  BY ReadKnown
<1>2. sdDest' \in [0..2 -> Int]
  BY <1>1
<1>3. ~sdRead.unseen => \A k \in 0..sdRead.to : sdDest'[k] = FirstBlock + k
  BY <1>1
<1>4. CASE sdRead.to + 1 < sdRead.len
  <2>1. /\ sdPc' = "cmd16" /\ sdPoll' = 0 /\ sdRet' = sdRet
        /\ sdRead' = [sdRead EXCEPT !.blk = @ + 1, !.to = @ + 1]
    BY <1>4 DEF BlockDone
  <2>2. /\ sdRead' \in SdReads /\ sdRead'.case = sdRead.case /\ sdRead'.len = sdRead.len
        /\ sdRead'.unseen = sdRead.unseen /\ sdRead'.to = sdRead.to + 1 /\ sdRead'.blk = sdRead.blk + 1
    <3>1. PICK blk \in Int, to \in Int : blk = sdRead.blk + 1 /\ to = sdRead.to + 1
      BY <1>1
    <3>2. sdRead' = [sdRead EXCEPT !.blk = blk, !.to = to]
      BY <2>1, <3>1
    <3> QED
      BY <1>1, <3>1, <3>2 DEF SdReads
  <2>3. SdTypes'
    BY <1>1, <1>2, <2>1, <2>2 DEF SdTypes, SdReadPlaces
  <2>4. FirstBlock' = FirstBlock
    BY <2>2 DEF FirstBlock
  <2>5. /\ sdRead'.to \in 0..2 /\ sdRead'.to < sdRead'.len /\ sdRead'.blk = FirstBlock' + sdRead'.to
        /\ sdRead'.to - 1 = sdRead.to
    BY <1>1, <1>4, <2>2, <2>4
  <2>6. ~sdRead'.unseen => \A k \in 0..(sdRead'.to - 1) : sdDest'[k] = FirstBlock' + k
    BY <1>3, <2>2, <2>4, <2>5
  <2>7. sdPc' \notin SdInitPlaces \cup {"initDone"}
    BY <2>1 DEF SdInitPlaces, SdStartPlaces
  <2>8. ReadFollows'
    BY <1>1, <2>1, <2>2, <2>5, <2>6, <2>7 DEF ReadFollows
  <2>9. CapacityKnown'
    BY <2>1, CapacityStays DEF SdReadPlaces
  <2> QED
    BY <2>3, <2>8, <2>9 DEF SdInv
<1>5. CASE ~(sdRead.to + 1 < sdRead.len)
  <2>1. sdPc' = "readDone" /\ sdPoll' = 0 /\ sdRet' = 0 /\ sdRead' = sdRead
    BY <1>5 DEF BlockDone, ReadReturns
  <2>2. SdTypes'
    BY <1>1, <1>2, <2>1 DEF SdTypes
  <2>3. ~sdRead.unseen => BufferHoldsBlocks'
    <3>1. sdRead.len - 1 = sdRead.to
      BY <1>1, <1>5
    <3>2. ASSUME ~sdRead.unseen, NEW k \in 0..sdRead.len - 1
          PROVE  sdDest'[k] = 512 + SdTests[sdRead.case].offset + k
      BY <1>3, <3>1, <3>2 DEF FirstBlock
    <3> QED
      BY <2>1, <3>2 DEF BufferHoldsBlocks
  <2>4. sdPc' \notin SdInitPlaces \cup {"initDone"} \cup SdReadPlaces
    BY <2>1 DEF SdInitPlaces, SdStartPlaces, SdReadPlaces
  <2>5. ReadFollows'
    BY <1>1, <2>1, <2>3, <2>4 DEF ReadFollows, SdReadPlaces
  <2>6. CapacityKnown'
    BY <2>1, CapacityStays
  <2> QED
    BY <2>2, <2>5, <2>6 DEF SdInv
<1> QED
  BY <1>4, <1>5

LEMMA ReadStartKeeps ==
  ASSUME SdInv, esdhc_read
  PROVE  SdInv'
<1>1. SdTypes /\ ReadFollows /\ sdCard' = sdCard /\ mmc' = mmc /\ sdHost' = sdHost /\ sdDest' = sdDest
  BY DEF SdInv, esdhc_read
<1>2. PICK case \in 1..3 : case = sdRead.case + 1
  BY <1>1, TestTable DEF esdhc_read, SdTypes, SdReads
<1>3. SdTests[case].len \in 1..3 /\ SdTests[case].offset \in Int
  BY TestTable
<1>4. /\ sdRead' = [case |-> case, blk |-> 512 + SdTests[case].offset, to |-> 0,
                    len |-> SdTests[case].len, unseen |-> FALSE]
      /\ IF mmc.block_len = 0 THEN ReadReturns(-1)
         ELSE sdPc' = "cmd16" /\ sdPoll' = 0 /\ UNCHANGED sdRet
  BY <1>2 DEF esdhc_read
<1>5. FALSE \in BOOLEAN
  OBVIOUS
<1>6. /\ sdRead' \in SdReads /\ sdRead'.case = case /\ sdRead'.len = SdTests[case].len /\ sdRead'.to = 0
      /\ sdRead'.blk = 512 + SdTests[case].offset
  BY <1>3, <1>4, <1>5 DEF SdReads
<1>7. /\ sdPoll' \in Int /\ sdRet' \in Int
      /\ (sdPc' = "readDone" /\ sdRet' = -1) \/ (sdPc' = "cmd16" /\ mmc.block_len # 0)
  BY <1>1, <1>4 DEF ReadReturns, SdTypes
<1>8. SdTypes'
  BY <1>1, <1>6, <1>7 DEF SdTypes, SdReadPlaces
<1>9. sdPc' \in SdReadPlaces \cup {"readDone"} /\ sdPc' \notin SdInitPlaces \cup {"initDone"}
  BY <1>7 DEF SdInitPlaces, SdStartPlaces, SdReadPlaces
<1>10. FirstBlock' = 512 + SdTests[case].offset
  BY <1>6 DEF FirstBlock
<1>11. ReadFollows'
  BY <1>1, <1>3, <1>6, <1>7, <1>9, <1>10 DEF ReadFollows, SdReadPlaces
<1>12. CapacityKnown'
  BY <1>1, <1>9, CapacityStays
<1> QED
  BY <1>8, <1>11, <1>12 DEF SdInv

LEMMA BlocklenKeeps ==
  ASSUME SdInv, SetBlocklen
  PROVE  SdInv'
<1>1. /\ SdTypes /\ ReadFollows /\ sdPc = "cmd16" /\ sdPc \in SdReadPlaces /\ sdHost \in SdHosts
      /\ sdCard' = sdCard /\ mmc' = mmc /\ sdHost' = Cleared(sdHost)
  BY DEF SdInv, SdTypes, SetBlocklen, SdReadPlaces
<1>2. PICK out \in Outcomes(sdCard.state = "tran") :
       IF out = 0 THEN Goto("cmd17")
       ELSE ReadReturns(IF out = BUSY THEN BUSY ELSE COMMUNICATION) /\ UNCHANGED <<sdRead, sdDest>>
  BY DEF SetBlocklen
<1>3. sdHost' \in SdHosts /\ sdHost'.moving = sdHost.moving /\ sdHost'.dla = sdHost.dla
  <2>1. 0 \in Int
    OBVIOUS
  <2> QED
    BY <1>1, <2>1, HostCleared
<1>4. CASE out # 0
  <2>1. PICK ret \in {BUSY, COMMUNICATION} : ReadReturns(ret) /\ sdRead' = sdRead /\ sdDest' = sdDest
    BY <1>2, <1>4
  <2>2. ret \in Int /\ ret # 0 /\ sdDest' \in [0..2 -> Int]
    BY <1>1, <2>1, SdNumbers DEF SdTypes
  <2> QED
    BY <1>1, <1>3, <2>1, <2>2, FailureKeeps
<1>5. CASE out = 0
  <2>1. sdPc' = "cmd17" /\ sdPoll' = 0 /\ sdRet' = sdRet /\ sdRead' = sdRead /\ sdDest' = sdDest
    BY <1>2, <1>5 DEF Goto
  <2>2. LinesFree
    BY <1>5, CommandOutcomes
  <2>3. sdHost'.moving = NoBlk /\ ~sdHost'.dla
    BY <1>3, <2>2 DEF LinesFree
  <2>4. SdTypes'
    BY <1>1, <1>3, <2>1 DEF SdTypes, SdReadPlaces
  <2>5. sdPc' \notin SdInitPlaces \cup {"initDone"} /\ FirstBlock' = FirstBlock
    BY <2>1 DEF SdInitPlaces, SdStartPlaces, FirstBlock
  <2>6. ReadFollows'
    BY <1>1, <2>1, <2>3, <2>5 DEF ReadFollows, NothingMoves
  <2>7. CapacityKnown'
    BY <1>1, <2>1, CapacityStays DEF SdReadPlaces
  <2> QED
    BY <2>4, <2>6, <2>7 DEF SdInv
<1> QED
  BY <1>4, <1>5

\* At CMD17 nothing is under way, and the block to come is the one that is asked for.
LEMMA BeforeBlock ==
  ASSUME SdInv, sdPc = "cmd17"
  PROVE  /\ sdPc \in SdReadPlaces /\ sdHost \in SdHosts /\ mmc.block_len \in Int
         /\ sdHost.moving = NoBlk /\ ~sdHost.dla
         /\ sdRead.blk \in Int /\ Addressed(Offset(sdRead.blk)) = sdRead.blk
<1>1. SdTypes /\ ReadFollows /\ CapacityKnown /\ sdPc \in SdReadPlaces
  BY DEF SdInv, SdReadPlaces
<1>2. mmc.block_len = BLOCK_LEN_512 /\ mmc.high_capacity = sdCard.is.hc
  BY <1>1 DEF ReadFollows, CapacityKnown
<1>3. sdCard.is.hc \in BOOLEAN /\ sdRead.blk \in Int
  BY <1>1, SdAssumption DEF SdTypes, SdCardStates, SdReads
<1>4. Addressed(Offset(sdRead.blk)) = sdRead.blk
  BY <1>2, <1>3, RightBlock
<1>5. mmc.block_len \in Int
  BY <1>2, SdNumbers
<1> QED
  BY <1>1, <1>3, <1>4, <1>5 DEF SdTypes, ReadFollows, NothingMoves

LEMMA PioKeeps ==
  ASSUME SdInv, ReadSingleBlockPio
  PROVE  SdInv'
<1>1. /\ SdTypes /\ sdPc = "cmd17" /\ sdDest \in [0..2 -> Int] /\ COMMUNICATION \in Int /\ COMMUNICATION # 0
      /\ sdCard' = sdCard /\ mmc' = mmc /\ sdHost' = Cleared(WithBlkattr(sdHost, mmc.block_len))
  BY SdNumbers DEF SdInv, SdTypes, ReadSingleBlockPio
<1>2. /\ sdPc \in SdReadPlaces /\ sdHost \in SdHosts /\ mmc.block_len \in Int
      /\ sdHost.moving = NoBlk /\ ~sdHost.dla
      /\ Addressed(Offset(sdRead.blk)) = sdRead.blk
  BY <1>1, BeforeBlock
<1>3. PICK out \in Outcomes(sdCard.state = "tran"), data \in {0, COMMUNICATION} :
       IF out # 0 THEN ReadReturns(out) /\ UNCHANGED <<sdRead, sdDest>>
       ELSE \/ /\ data = 0
               /\ sdDest' = [sdDest EXCEPT ![sdRead.to] = Addressed(Offset(sdRead.blk))]
               /\ BlockDone
            \/ /\ data = COMMUNICATION
               /\ \E copied \in {sdDest[sdRead.to], NoBlk} : sdDest' = [sdDest EXCEPT ![sdRead.to] = copied]
               /\ ReadReturns(data) /\ UNCHANGED sdRead
  BY DEF ReadSingleBlockPio
<1>4. sdHost' \in SdHosts /\ sdHost'.moving = NoBlk
  BY <1>1, <1>2, HostCleared
<1>5. CASE out # 0
  <2>1. ReadReturns(out) /\ sdRead' = sdRead /\ sdDest' = sdDest /\ out \in Int
    BY <1>3, <1>5, CommandOutcomes
  <2> QED
    BY <1>1, <1>2, <1>4, <1>5, <2>1, FailureKeeps
<1>6. CASE out = 0 /\ data = 0
  <2>1. sdDest' = [sdDest EXCEPT ![sdRead.to] = sdRead.blk] /\ BlockDone
    BY <1>1, <1>2, <1>3, <1>6
  <2> QED
    BY <1>1, <1>2, <1>4, <2>1, BlockDoneKeeps
<1>7. CASE out = 0 /\ data = COMMUNICATION
  <2>1. PICK copied \in {sdDest[sdRead.to], NoBlk} : sdDest' = [sdDest EXCEPT ![sdRead.to] = copied]
    BY <1>1, <1>3, <1>7
  <2>2. sdRead.to \in 0..2
    BY <1>2, ReadKnown
  <2>3. copied \in Int
    BY <1>1, <2>2, SdNumbers
  <2>4. sdDest' \in [0..2 -> Int]
    BY <1>1, <2>1, <2>3
  <2>5. ReadReturns(COMMUNICATION) /\ sdRead' = sdRead
    BY <1>1, <1>3, <1>7
  <2> QED
    BY <1>1, <1>2, <1>4, <2>4, <2>5, FailureKeeps
<1> QED
  BY <1>3, <1>5, <1>6, <1>7

LEMMA DmaKeeps ==
  ASSUME SdInv, ReadSingleBlockDma
  PROVE  SdInv'
<1>1. SdTypes /\ ReadFollows /\ sdPc = "cmd17" /\ sdDest \in [0..2 -> Int] /\ sdCard' = sdCard /\ mmc' = mmc
  BY DEF SdInv, SdTypes, ReadSingleBlockDma
<1>2. /\ sdPc \in SdReadPlaces /\ sdHost \in SdHosts /\ mmc.block_len \in Int
      /\ sdHost.moving = NoBlk /\ ~sdHost.dla
      /\ sdRead.blk \in Int /\ Addressed(Offset(sdRead.blk)) = sdRead.blk
  BY <1>1, BeforeBlock
<1>3. PICK host \in SdHosts : host = Cleared(WithBlkattr(sdHost, mmc.block_len)) /\ ~host.tc
  BY <1>2, HostCleared DEF Cleared, WithBlkattr, SdHosts
<1>4. PICK out \in DmaOutcomes(sdCard.state = "tran") :
        IF out # 0 THEN ReadReturns(out) /\ sdHost' = host /\ UNCHANGED <<sdRead, sdDest>>
        ELSE /\ sdHost' = [host EXCEPT !.dla = TRUE, !.moving = sdRead.blk, !.dsaddr = sdRead.to]
             /\ Goto("pollIrq")
  BY <1>2, <1>3 DEF ReadSingleBlockDma
<1>5. CASE out # 0
  <2>1. ReadReturns(out) /\ sdHost' = host /\ sdRead' = sdRead /\ sdDest' = sdDest
    BY <1>4, <1>5
  <2>2. out \in Int
    <3>1. out \in Outcomes(sdCard.state = "tran") \/ out = DMA_ERROR
      BY DEF DmaOutcomes
    <3> QED
      BY <3>1, CommandOutcomes, SdNumbers
  <2> QED
    BY <1>1, <1>2, <1>3, <1>5, <2>1, <2>2, FailureKeeps
<1>6. CASE out = 0
  <2>1. sdPc' = "pollIrq" /\ sdPoll' = 0 /\ sdRet' = sdRet /\ sdRead' = sdRead /\ sdDest' = sdDest
    BY <1>4, <1>6 DEF Goto
  <2>2. sdRead.to \in 0..2
    BY <1>2, ReadKnown
  <2>3. TRUE \in BOOLEAN
    OBVIOUS
  <2>4. sdHost' \in SdHosts /\ sdHost'.moving = sdRead.blk /\ sdHost'.dsaddr = sdRead.to /\ ~sdHost'.tc
    <3>1. PICK blk \in Int, to \in Int : blk = sdRead.blk /\ to = sdRead.to
      BY <1>2, <2>2
    <3>2. sdHost' = [host EXCEPT !.dla = TRUE, !.moving = blk, !.dsaddr = to]
      BY <1>4, <1>6, <3>1
    <3> QED
      BY <1>3, <2>3, <3>1, <3>2 DEF SdHosts
  <2>5. SdTypes'
    BY <1>1, <2>1, <2>4 DEF SdTypes, SdReadPlaces
  <2>6. sdPc' \notin SdInitPlaces \cup {"initDone"} /\ FirstBlock' = FirstBlock
    BY <2>1 DEF SdInitPlaces, SdStartPlaces, FirstBlock
  <2>7. ReadFollows'
    BY <1>1, <1>2, <2>1, <2>4, <2>6 DEF ReadFollows
  <2>8. CapacityKnown'
    BY <1>1, <2>1, CapacityStays DEF SdReadPlaces
  <2> QED
    BY <2>5, <2>7, <2>8 DEF SdInv
<1> QED
  BY <1>5, <1>6

LEMMA PollIrqstatKeeps ==
  ASSUME SdInv, PollIrqstat
  PROVE  SdInv'
<1>1. /\ SdTypes /\ ReadFollows /\ sdPc = "pollIrq" /\ sdPc \in SdReadPlaces /\ sdCard' = sdCard /\ mmc' = mmc
      /\ sdDest' = sdDest /\ sdDest \in [0..2 -> Int] /\ sdHost \in SdHosts
      /\ COMMUNICATION \in Int /\ COMMUNICATION # 0 /\ DMA_ERROR \in Int /\ DMA_ERROR # 0
  BY SdNumbers DEF SdInv, SdTypes, PollIrqstat, SdReadPlaces
<1>2. Cleared(sdHost) \in SdHosts /\ Cleared(sdHost).moving = sdHost.moving
  <2>1. 0 \in Int
    OBVIOUS
  <2> QED
    BY <1>1, <2>1, HostCleared
<1>3. CASE sdHost.err
  <2>1. PICK ret \in {COMMUNICATION, DMA_ERROR} : ReadReturns(ret)
    BY <1>3 DEF PollIrqstat
  <2>2. sdHost' = Cleared(sdHost) /\ sdRead' = sdRead
    BY <1>3 DEF PollIrqstat
  <2> QED
    BY <1>1, <1>2, <2>1, <2>2, FailureKeeps
<1>4. CASE ~sdHost.err /\ sdHost.tc
  <2>1. sdHost' = Cleared(sdHost) /\ (BlockDone \/ (ReadReturns(COMMUNICATION) /\ sdRead' = sdRead))
    BY <1>4 DEF PollIrqstat
  <2>2. sdHost.moving = NoBlk /\ sdDest[sdRead.to] = sdRead.blk /\ sdRead.to \in 0..2
    BY <1>1, <1>4 DEF ReadFollows
  <2>3. sdDest' = [sdDest EXCEPT ![sdRead.to] = sdRead.blk]
    BY <1>1, <2>2
  <2>4. CASE BlockDone
    BY <1>1, <1>2, <2>1, <2>2, <2>3, <2>4, BlockDoneKeeps
  <2>5. CASE ReadReturns(COMMUNICATION) /\ sdRead' = sdRead
    BY <1>1, <1>2, <2>1, <2>5, FailureKeeps
  <2> QED
    BY <2>1, <2>4, <2>5
<1>5. CASE ~sdHost.err /\ ~sdHost.tc
  <2>1. sdPc' = "pollPrs" /\ sdHost' = sdHost /\ sdPoll' = sdPoll /\ sdRet' = sdRet /\ sdRead' = sdRead
    BY <1>5 DEF PollIrqstat
  <2>2. SdTypes'
    BY <1>1, <2>1 DEF SdTypes, SdReadPlaces
  <2>3. sdPc' \notin SdInitPlaces \cup {"initDone"} /\ FirstBlock' = FirstBlock
    BY <2>1 DEF SdInitPlaces, SdStartPlaces, FirstBlock
  <2>4. ReadFollows'
    BY <1>1, <2>1, <2>3 DEF ReadFollows
  <2>5. CapacityKnown'
    BY <1>1, <2>1, CapacityStays DEF SdReadPlaces
  <2> QED
    BY <2>2, <2>4, <2>5 DEF SdInv
<1> QED
  BY <1>3, <1>4, <1>5

LEMMA PollPrsstatKeeps ==
  ASSUME SdInv, PollPrsstat
  PROVE  SdInv'
<1>1. /\ SdTypes /\ ReadFollows /\ sdPc = "pollPrs" /\ sdPc \in SdReadPlaces /\ sdCard' = sdCard /\ mmc' = mmc
      /\ sdDest' = sdDest /\ sdDest \in [0..2 -> Int] /\ sdHost \in SdHosts /\ sdPoll \in Int
      /\ COMMUNICATION \in Int /\ COMMUNICATION # 0
  BY SdNumbers DEF SdInv, SdTypes, PollPrsstat, SdReadPlaces
<1>2. Cleared(sdHost) \in SdHosts
  <2>1. 0 \in Int
    OBVIOUS
  <2> QED
    BY <1>1, <2>1, HostCleared
<1>3. /\ sdRead \in SdReads /\ sdRet \in Int /\ sdRead.case \in 1..3 /\ sdRead.len = SdTests[sdRead.case].len
      /\ sdRead.len \in 1..3 /\ mmc.block_len # 0 /\ FirstBlock \in Int
      /\ sdRead.to \in 0..2 /\ sdRead.to < sdRead.len /\ sdRead.blk = FirstBlock + sdRead.to
  BY <1>1, ReadKnown
<1>4. CASE sdHost.dla /\ sdPoll < SdPolls
  <2>1. sdPc' = "pollIrq" /\ sdPoll' = sdPoll + 1 /\ sdHost' = sdHost /\ sdRet' = sdRet /\ sdRead' = sdRead
    BY <1>4 DEF PollPrsstat
  <2>2. SdTypes'
    BY <1>1, <2>1 DEF SdTypes, SdReadPlaces
  <2>3. sdPc' \notin SdInitPlaces \cup {"initDone"} /\ FirstBlock' = FirstBlock
    BY <2>1 DEF SdInitPlaces, SdStartPlaces, FirstBlock
  <2>4. ReadFollows'
    BY <1>1, <2>1, <2>3 DEF ReadFollows
  <2>5. CapacityKnown'
    BY <1>1, <2>1, CapacityStays DEF SdReadPlaces
  <2> QED
    BY <2>2, <2>4, <2>5 DEF SdInv
<1>5. CASE ~(sdHost.dla /\ sdPoll < SdPolls)
  <2>1. /\ sdHost' = Cleared(sdHost)
        /\ \/ ReadReturns(COMMUNICATION) /\ sdRead' = sdRead
           \/ /\ sdRead.to + 1 < sdRead.len /\ sdPc' = "cmd16" /\ sdPoll' = 0 /\ sdRet' = sdRet
              /\ sdRead' = [sdRead EXCEPT !.blk = @ + 1, !.to = @ + 1, !.unseen = TRUE]
           \/ ReadReturns(0) /\ sdRead' = [sdRead EXCEPT !.unseen = TRUE]
    BY <1>5 DEF PollPrsstat
  <2>2. CASE ReadReturns(COMMUNICATION) /\ sdRead' = sdRead
    BY <1>1, <1>2, <2>1, <2>2, FailureKeeps
  <2>3. CASE /\ sdRead.to + 1 < sdRead.len /\ sdPc' = "cmd16" /\ sdPoll' = 0 /\ sdRet' = sdRet
             /\ sdRead' = [sdRead EXCEPT !.blk = @ + 1, !.to = @ + 1, !.unseen = TRUE]
    <3>1. PICK blk \in Int, to \in Int : blk = sdRead.blk + 1 /\ to = sdRead.to + 1
      BY <1>3
    <3>2. sdRead' = [sdRead EXCEPT !.blk = blk, !.to = to, !.unseen = TRUE] /\ TRUE \in BOOLEAN
      BY <2>3, <3>1
    <3>3. /\ sdRead' \in SdReads /\ sdRead'.case = sdRead.case /\ sdRead'.len = sdRead.len
          /\ sdRead'.to = to /\ sdRead'.blk = blk /\ sdRead'.unseen
      BY <1>3, <3>2 DEF SdReads
    <3>4. FirstBlock' = FirstBlock
      BY <3>3 DEF FirstBlock
    <3>5. sdRead'.to \in 0..2 /\ sdRead'.to < sdRead'.len /\ sdRead'.blk = FirstBlock' + sdRead'.to
      BY <1>3, <2>3, <3>1, <3>3, <3>4
    <3>6. SdTypes'
      BY <1>1, <1>2, <2>1, <2>3, <3>3 DEF SdTypes, SdReadPlaces
    <3>7. sdPc' \notin SdInitPlaces \cup {"initDone"}
      BY <2>3 DEF SdInitPlaces, SdStartPlaces
    <3>8. ReadFollows'
      BY <1>1, <1>3, <2>3, <3>3, <3>5, <3>7 DEF ReadFollows
    <3>9. CapacityKnown'
      BY <1>1, <2>3, CapacityStays DEF SdReadPlaces
    <3> QED
      BY <3>6, <3>8, <3>9 DEF SdInv
  <2>4. CASE ReadReturns(0) /\ sdRead' = [sdRead EXCEPT !.unseen = TRUE]
    <3>1. sdPc' = "readDone" /\ sdPoll' = 0 /\ sdRet' = 0
      BY <2>4 DEF ReadReturns
    <3>2. TRUE \in BOOLEAN
      OBVIOUS
    <3>3. /\ sdRead' \in SdReads /\ sdRead'.case = sdRead.case /\ sdRead'.len = sdRead.len /\ sdRead'.unseen
      BY <1>3, <2>4, <3>2 DEF SdReads
    <3>4. SdTypes'
      BY <1>1, <1>2, <2>1, <3>1, <3>3 DEF SdTypes
    <3>5. sdPc' \notin SdInitPlaces \cup {"initDone"} \cup SdReadPlaces
      BY <3>1 DEF SdInitPlaces, SdStartPlaces, SdReadPlaces
    <3>6. ReadFollows'
      BY <1>3, <3>1, <3>3, <3>5 DEF ReadFollows, SdReadPlaces
    <3>7. CapacityKnown'
      BY <1>1, <3>1, CapacityStays
    <3> QED
      BY <3>4, <3>6, <3>7 DEF SdInv
  <2> QED
    BY <2>1, <2>2, <2>3, <2>4
<1> QED
  BY <1>4, <1>5

\* The steps of the controller: a transfer under way writes the block of the read that waits for it, or
\* belongs to a read that has failed or was not watched to its end.
LEMMA ControllerKeeps ==
  ASSUME SdInv, SdController
  PROVE  SdInv'
<1>1. /\ SdTypes /\ ReadFollows /\ sdHost \in SdHosts /\ sdDest \in [0..2 -> Int]
      /\ sdCard' = sdCard /\ mmc' = mmc /\ sdPc' = sdPc /\ sdPoll' = sdPoll /\ sdRet' = sdRet /\ sdRead' = sdRead
  BY DEF SdInv, SdTypes, SdController, HwLineIdle, HwTransferDone, HwTransferFails
<1>2. CapacityKnown'
  BY <1>1, CapacityStays
<1>3. FALSE \in BOOLEAN /\ TRUE \in BOOLEAN /\ NoBlk \in Int
  BY SdNumbers
<1>4. FirstBlock' = FirstBlock /\ ~(NothingMoves /\ (sdHost.dla \/ sdHost.moving # NoBlk))
  BY <1>1 DEF FirstBlock, NothingMoves
<1>5. CASE HwLineIdle
  <2>1. sdHost' = [sdHost EXCEPT !.dla = FALSE] /\ sdDest' = sdDest /\ sdHost.dla
    BY <1>5 DEF HwLineIdle
  <2>2. sdHost' \in SdHosts /\ sdHost'.moving = sdHost.moving /\ sdHost'.tc = sdHost.tc
        /\ sdHost'.dsaddr = sdHost.dsaddr
    BY <1>1, <1>3, <2>1 DEF SdHosts
  <2>3. SdTypes'
    BY <1>1, <2>1, <2>2 DEF SdTypes
  <2>4. BufferHoldsBlocks' = BufferHoldsBlocks
    BY <1>1, <2>1 DEF BufferHoldsBlocks
  <2>5. sdPc \notin SdInitPlaces \cup {"initDone", "cmd17"}
    BY <1>1, <1>4, <2>1 DEF ReadFollows
  <2>6. ReadFollows'
    BY <1>1, <1>4, <2>1, <2>2, <2>4, <2>5 DEF ReadFollows
  <2> QED
    BY <1>2, <2>3, <2>6 DEF SdInv
<1>6. CASE HwTransferDone
  <2>1. /\ sdHost.moving # NoBlk /\ sdHost' = [sdHost EXCEPT !.moving = NoBlk, !.tc = TRUE]
        /\ sdDest' = [sdDest EXCEPT ![sdHost.dsaddr] = sdHost.moving]
    BY <1>6 DEF HwTransferDone
  <2>2. sdHost' \in SdHosts /\ sdHost'.moving = NoBlk /\ sdHost'.dsaddr = sdHost.dsaddr
    BY <1>1, <1>3, <2>1 DEF SdHosts
  <2>3. sdHost.moving \in Int /\ sdDest' \in [0..2 -> Int]
    BY <1>1, <2>1 DEF SdHosts
  <2>4. SdTypes'
    BY <1>1, <2>2, <2>3 DEF SdTypes
  <2>5. sdPc \notin SdInitPlaces \cup {"initDone", "cmd17"}
    BY <1>1, <1>4, <2>1 DEF ReadFollows
  <2>6. sdPc = "readDone" /\ sdRet = 0 => sdRead.unseen
    BY <1>1, <2>1 DEF ReadFollows
  <2>7. CASE sdPc \in SdReadPlaces
    <3>1. /\ sdRead.to \in 0..2 /\ sdRead.case \in 1..3 /\ sdRead.len = SdTests[sdRead.case].len
          /\ mmc.block_len # 0 /\ sdRead.to < sdRead.len /\ sdRead.blk = FirstBlock + sdRead.to
          /\ ~sdRead.unseen => \A k \in 0..(sdRead.to - 1) : sdDest[k] = FirstBlock + k
      BY <2>7, ReadKnown
    <3>2. sdPc = "cmd16" \/ sdPc \in {"pollIrq", "pollPrs"}
      BY <2>5, <2>7 DEF SdReadPlaces
    <3>3. CASE sdPc = "cmd16"
      <4>1. sdRead.unseen \/ ~(sdRead.to > 0)
        BY <1>1, <2>1, <3>3 DEF ReadFollows
      <4>2. ~sdRead.unseen => \A k \in 0..(sdRead.to - 1) : sdDest'[k] = FirstBlock + k
        BY <3>1, <4>1
      <4>3. ReadFollows'
        BY <1>1, <1>4, <2>2, <2>5, <3>1, <3>3, <4>2 DEF ReadFollows
      <4> QED
        BY <1>2, <2>4, <4>3 DEF SdInv
    <3>4. CASE sdPc \in {"pollIrq", "pollPrs"}
      <4>1. sdHost.dsaddr = sdRead.to /\ sdHost.moving = sdRead.blk
        BY <1>1, <2>1, <3>4 DEF ReadFollows
      <4>2. sdDest'[sdRead.to] = sdRead.blk
        BY <1>1, <2>1, <3>1, <4>1
      <4>3. ~sdRead.unseen => \A k \in 0..(sdRead.to - 1) : sdDest'[k] = FirstBlock + k
        <5>1. ASSUME NEW k \in 0..(sdRead.to - 1) PROVE sdDest'[k] = sdDest[k]
          BY <1>1, <2>1, <3>1, <4>1
        <5> QED
          BY <3>1, <5>1
      <4>4. ReadFollows'
        BY <1>1, <1>4, <2>2, <2>5, <3>1, <3>4, <4>1, <4>2, <4>3 DEF ReadFollows
      <4> QED
        BY <1>2, <2>4, <4>4 DEF SdInv
    <3> QED
      BY <3>2, <3>3, <3>4
  <2>8. CASE sdPc \notin SdReadPlaces
    <3>1. ReadFollows'
      BY <1>1, <2>5, <2>6, <2>8 DEF ReadFollows, SdReadPlaces
    <3> QED
      BY <1>2, <2>4, <3>1 DEF SdInv
  <2> QED
    BY <2>7, <2>8
<1>7. CASE HwTransferFails
  <2>1. /\ sdHost.moving # NoBlk /\ sdDest' = sdDest
        /\ sdHost' = [sdHost EXCEPT !.moving = NoBlk, !.dla = FALSE, !.err = TRUE]
    BY <1>7 DEF HwTransferFails
  <2>2. /\ sdHost' \in SdHosts /\ sdHost'.moving = NoBlk /\ sdHost'.dsaddr = sdHost.dsaddr
        /\ sdHost'.tc = sdHost.tc
    BY <1>1, <1>3, <2>1 DEF SdHosts
  <2>3. SdTypes'
    BY <1>1, <2>1, <2>2 DEF SdTypes
  <2>4. sdPc \notin SdInitPlaces \cup {"initDone", "cmd17"}
    BY <1>1, <1>4, <2>1 DEF ReadFollows
  <2>5. BufferHoldsBlocks' = BufferHoldsBlocks
    BY <1>1, <2>1 DEF BufferHoldsBlocks
  <2>6. ReadFollows'
    BY <1>1, <1>4, <2>1, <2>2, <2>4, <2>5 DEF ReadFollows
  <2> QED
    BY <1>2, <2>3, <2>6 DEF SdInv
<1> QED
  BY <1>5, <1>6, <1>7 DEF SdController

LEMMA SdStarts == SdInit => SdInv
<1> SUFFICES ASSUME SdInit PROVE SdInv
  OBVIOUS
<1>1. PICK card \in SdCards : sdCard = CardIs(card)
  BY DEF SdInit
<1>2. FALSE \in BOOLEAN /\ NoBlk \in Int
  BY SdNumbers
<1>3. sdCard \in SdCardStates /\ sdCard.state = "idle"
  BY <1>1, <1>2 DEF CardIs, SdCardStates
<1>4. sdHost \in SdHosts /\ mmc \in MmcStructs /\ sdRead \in SdReads /\ sdDest \in [0..2 -> Int]
  BY <1>2 DEF SdInit, SdHosts, MmcStructs, SdReads
<1>5. SdTypes
  BY <1>3, <1>4 DEF SdInit, SdTypes, SdInitPlaces, SdStartPlaces
<1>6. CapacityKnown
  BY <1>3 DEF SdInit, CapacityKnown
<1>7. ReadFollows
  BY DEF SdInit, ReadFollows, NothingMoves, SdReadPlaces
<1> QED
  BY <1>5, <1>6, <1>7 DEF SdInv

LEMMA SdStepKeeps ==
  ASSUME SdInv, [SdNext]_sdVars
  PROVE  SdInv'
<1>1. CASE sd_mmc_init
  BY <1>1, OpensKeeps
<1>2. CASE SdDriver
  <2>1. CASE GoIdle \/ SendIfCond \/ AppCommand \/ SdSendOpCond \/ MmcGoIdle \/ MmcSendOpCond
    BY <2>1, IdleKeeps, SendIfCondKeeps, AppCommandKeeps, SdSendOpCondKeeps, MmcSendOpCondKeeps
  <2>2. CASE AllSendCid \/ SendRelativeAddr \/ SendCsd \/ SelectCard \/ SendStatus
    BY <2>2, IdentifyKeeps, SendCsdKeeps, KnownCommandKeeps, SendStatusKeeps
  <2>3. CASE SdApp51 \/ SendScr \/ CheckSwitch \/ SdSwitch \/ MmcSwitch \/ MmcSwitchStatus \/ SetBusSpeed
    BY <2>3, KnownCommandKeeps, SendScrKeeps, CheckSwitchKeeps, SdSwitchKeeps, MmcSwitchStatusKeeps,
       SetBusSpeedKeeps
  <2>4. CASE esdhc_read \/ SetBlocklen \/ ReadSingleBlockPio \/ ReadSingleBlockDma \/ PollIrqstat \/ PollPrsstat
    BY <2>4, ReadStartKeeps, BlocklenKeeps, PioKeeps, DmaKeeps, PollIrqstatKeeps, PollPrsstatKeeps
  <2> QED
    BY <1>2, <2>1, <2>2, <2>3, <2>4 DEF SdDriver
<1>3. CASE SdController
  BY <1>3, ControllerKeeps
<1>4. CASE UNCHANGED sdVars
  <2>1. SdTypes'
    BY <1>4 DEF SdInv, SdTypes, sdVars
  <2>2. CapacityKnown'
    BY <1>4 DEF SdInv, CapacityKnown, sdVars
  <2>3. ReadFollows'
    BY <1>4 DEF SdInv, ReadFollows, NothingMoves, FirstBlock, BufferHoldsBlocks, sdVars
  <2> QED
    BY <2>1, <2>2, <2>3 DEF SdInv
<1> QED
  BY <1>1, <1>2, <1>3, <1>4 DEF SdNext

LEMMA SdInvHolds == SdSpec => []SdInv
<1>1. SdInv /\ [SdNext]_sdVars => SdInv'
  BY SdStepKeeps
<1> QED
  BY SdStarts, <1>1, PTL DEF SdSpec

\* A read that reports success has put the blocks asked for into the buffer: for every set of cards and
\* every number of polls, with DMA and without.
THEOREM EveryReadIsRight == SdSpec => []ReadIsRight
<1>1. SdInv => ReadIsRight
  BY DEF SdInv, ReadFollows, ReadIsRight
<1> QED
  BY SdInvHolds, <1>1, PTL

-----------------------------------------------------------------------------
(* The clock of the card.                                                  *)

LEMMA ClockKept ==
  ASSUME sdHost \in SdHosts, NEW len
  PROVE  Cleared(sdHost).clock = sdHost.clock /\ Cleared(WithBlkattr(sdHost, len)).clock = sdHost.clock
BY DEF Cleared, WithBlkattr, SdHosts

\* The steps of the initialisation before its last leave the clock alone.
LEMMA SlowStep ==
  ASSUME ClockFollows, sdPc \in SdInitPlaces, sdHost'.clock = sdHost.clock, SpeedFollows'
  PROVE  ClockFollows'
BY DEF ClockFollows, BusClock

\* Before the card is known, the driver has asked for no speed.
LEMMA EarlyClock ==
  ASSUME SdInv, ClockFollows,
         GoIdle \/ SendIfCond \/ AppCommand \/ SdSendOpCond \/ MmcGoIdle \/ MmcSendOpCond
           \/ AllSendCid \/ SendRelativeAddr
  PROVE  ClockFollows'
<1>1. SdTypes /\ sdHost \in SdHosts
  BY DEF SdInv, SdTypes
<1>2. sdHost' = Cleared(sdHost)
  BY DEF GoIdle, SendIfCond, AppCommand, SdSendOpCond, MmcGoIdle, MmcSendOpCond, AllSendCid,
         SendRelativeAddr, Command
<1>3. sdHost'.clock = sdHost.clock
  BY <1>1, <1>2, ClockKept
<1> DEFINE early == SdStartPlaces \cup {"cid", "rca", "csd"}
<1>4. sdPc \in early /\ sdPc' \in early \cup {"initDone"}
  <2>1. CASE GoIdle
    BY <2>1 DEF GoIdle, Goto, InitReturns, SdStartPlaces
  <2>2. CASE SendIfCond
    BY <2>2 DEF SendIfCond, Goto, InitReturns, SdStartPlaces
  <2>3. CASE AppCommand
    BY <2>3 DEF AppCommand, InitReturns, SdStartPlaces
  <2>4. CASE SdSendOpCond
    BY <2>4 DEF SdSendOpCond, LoopOrLeave, Goto, InitReturns, SdStartPlaces
  <2>5. CASE MmcGoIdle
    BY <2>5 DEF MmcGoIdle, Goto, InitReturns, SdStartPlaces
  <2>6. CASE MmcSendOpCond
    BY <2>6 DEF MmcSendOpCond, LoopOrLeave, Goto, InitReturns, SdStartPlaces
  <2>7. CASE AllSendCid \/ SendRelativeAddr
    BY <2>7 DEF AllSendCid, SendRelativeAddr, Command, Goto, InitReturns
  <2> QED
    BY <2>1, <2>2, <2>3, <2>4, <2>5, <2>6, <2>7
<1>5. sdPc \in SdInitPlaces /\ sdPc' \notin {"select", "status"} \cup SdSpeedPlaces
  BY <1>4 DEF SdInitPlaces, SdStartPlaces, SdSpeedPlaces
<1>6. SpeedFollows'
  BY <1>5 DEF SpeedFollows, SdSpeedPlaces
<1> QED
  BY <1>3, <1>5, <1>6, SlowStep

\* CMD9, CMD7 and CMD55: a command whose failures end the initialisation.
LEMMA CommandClock ==
  ASSUME SdInv, ClockFollows, SendCsd \/ SelectCard \/ SdApp51 \/ MmcSwitch
  PROVE  ClockFollows'
<1>1. SdTypes /\ sdHost \in SdHosts /\ sdCard \in SdCardStates /\ mmc \in MmcStructs
  BY DEF SdInv, SdTypes
<1>2. sdHost' = Cleared(sdHost) /\ sdPc \in SdInitPlaces
  BY DEF SendCsd, SelectCard, SdApp51, MmcSwitch, Command, SdInitPlaces
<1>3. sdHost'.clock = sdHost.clock
  BY <1>1, <1>2, ClockKept
<1>4. CASE sdPc' = "initDone"
  <2>1. SpeedFollows'
    BY <1>4 DEF SpeedFollows, SdSpeedPlaces
  <2> QED
    BY <1>2, <1>3, <2>1, SlowStep
<1>5. CASE sdPc' # "initDone"
  <2>1. CASE SendCsd
    <3>1. sdPc' = "select" /\ sdCard.state = "stby" /\ sdCard' = sdCard
      <4>1. PICK out \in Outcomes(sdCard.state = "stby") : out = 0 /\ Goto("select") /\ sdCard' \in Received(out, sdCard)
        BY <1>5, <2>1 DEF SendCsd, Command, InitReturns
      <4> QED
        BY <4>1, CommandOutcomes, CardReceived DEF Goto
    <3>2. SpeedFollows'
      BY <3>1 DEF SpeedFollows, SdSpeedPlaces
    <3> QED
      BY <1>2, <1>3, <3>2, SlowStep
  <2>2. CASE SelectCard
    <3>1. PICK state \in {"tran", "stby"} :
            Command("select", sdCard.state = "stby", InState(state), "status") /\ UNCHANGED mmc
      BY <2>2 DEF SelectCard
    <3>2. sdPc' = "status" /\ sdCard' = InState(state)
      <4>1. PICK out \in Outcomes(sdCard.state = "stby") :
              out = 0 /\ Goto("status") /\ sdCard' \in Received(out, InState(state))
        BY <1>5, <3>1 DEF Command, InitReturns
      <4> QED
        BY <4>1, CardReceived DEF Goto
    <3>3. sdCard'.state \in {"stby", "tran"}
      BY <1>1, <3>2 DEF InState, SdCardStates
    <3>4. SpeedFollows'
      BY <3>2, <3>3 DEF SpeedFollows, SdSpeedPlaces
    <3> QED
      BY <1>2, <1>3, <3>4, SlowStep
  <2>3. CASE SdApp51
    <3>1. sdPc = "app51" /\ sdPc' = "acmd51" /\ sdCard' = sdCard /\ mmc' = mmc
      BY <1>5, <2>3 DEF SdApp51, Command, Goto, InitReturns, Received
    <3>2. SpeedFollows'
      BY <3>1 DEF ClockFollows, SpeedFollows, SdSpeedPlaces, MayBeFast
    <3> QED
      BY <1>2, <1>3, <3>2, SlowStep
  <2>4. CASE MmcSwitch
    <3>1. PICK tookHigh \in {FALSE} \cup {sdCard.is.hs} :
            /\ Command("mmcSwitch", sdCard.state = "tran",
                       [sdCard EXCEPT !.mode = IF tookHigh THEN "high" ELSE @, !.switchError = ~tookHigh],
                       "mmcStatus")
            /\ UNCHANGED mmc
      BY <2>4 DEF MmcSwitch
    <3>2. PICK mode \in {"default", "high"}, error \in BOOLEAN :
            mode = (IF tookHigh THEN "high" ELSE sdCard.mode) /\ error = ~tookHigh
      BY <1>1 DEF SdCardStates
    <3>3. PICK card : card = [sdCard EXCEPT !.mode = mode, !.switchError = error]
      OBVIOUS
    <3>4. Command("mmcSwitch", sdCard.state = "tran", card, "mmcStatus") /\ mmc' = mmc
      BY <3>1, <3>2, <3>3
    <3>5. sdPc = "mmcSwitch" /\ sdPc' = "mmcStatus" /\ sdCard' = card
      <4>1. PICK out \in Outcomes(sdCard.state = "tran") :
              out = 0 /\ Goto("mmcStatus") /\ sdCard' \in Received(out, card)
        BY <1>5, <3>4 DEF Command, InitReturns
      <4> QED
        BY <3>4, <4>1, CardReceived DEF Goto, Command
    <3>6. card.mode = mode /\ card.switchError = error /\ card.state = sdCard.state /\ card.dropped = sdCard.dropped
      BY <1>1, <3>3 DEF SdCardStates
    <3>7. (~error => mode = "high") /\ (sdCard.mode = "high" => mode = "high")
      BY <3>2
    <3>8. SpeedFollows'
      BY <3>4, <3>5, <3>6, <3>7 DEF ClockFollows, SpeedFollows, SdSpeedPlaces, MayBeFast
    <3> QED
      BY <1>2, <1>3, <3>8, SlowStep
  <2> QED
    BY <2>1, <2>2, <2>3, <2>4
<1> QED
  BY <1>4, <1>5

\* The steps that may learn a speed.
LEMMA SendStatusClock ==
  ASSUME SdInv, ClockFollows, SendStatus
  PROVE  ClockFollows'
<1>1. SdTypes /\ sdHost \in SdHosts /\ mmc \in MmcStructs /\ sdPc = "status" /\ sdPc \in SdInitPlaces
      /\ sdHost' = Cleared(sdHost) /\ sdCard' = sdCard
  BY DEF SdInv, SdTypes, SendStatus, SdInitPlaces
<1>2. sdHost'.clock = sdHost.clock
  BY <1>1, ClockKept
<1>3. \/ sdPc' = "initDone"
      \/ sdPc' = "status"
      \/ sdPc' = SwitchPc /\ mmc' = [mmc EXCEPT !.bus_freq = SlowFreq]
  BY DEF SendStatus, Goto, InitReturns
<1>4. sdCard.state \in {"stby", "tran"}
  BY <1>1 DEF ClockFollows, SpeedFollows
<1>5. CASE sdPc' \in {"initDone", "status"}
  <2>1. SpeedFollows'
    BY <1>1, <1>4, <1>5 DEF SpeedFollows, SdSpeedPlaces
  <2> QED
    BY <1>1, <1>2, <2>1, SlowStep
<1>6. CASE sdPc' = SwitchPc /\ mmc' = [mmc EXCEPT !.bus_freq = SlowFreq]
  <2>1. PICK freq \in {SD_SS_25MHZ, MMC_SS_20MHZ} : freq = SlowFreq
    BY DEF SlowFreq
  <2>2. mmc'.bus_freq = freq
    BY <1>1, <1>6, <2>1 DEF MmcStructs
  <2>3. sdPc' \in {"app51", "speed", "mmcSwitch"}
    BY <1>6 DEF SwitchPc
  <2>4. SpeedFollows'
    BY <1>1, <1>4, <2>1, <2>2, <2>3 DEF SpeedFollows, SdSpeedPlaces
  <2> QED
    BY <1>1, <1>2, <2>4, SlowStep
<1> QED
  BY <1>3, <1>5, <1>6

LEMMA CheckClock ==
  ASSUME SdInv, ClockFollows, SendScr \/ CheckSwitch
  PROVE  ClockFollows'
<1>1. SdTypes /\ sdHost \in SdHosts /\ mmc \in MmcStructs /\ sdPc \in {"acmd51", "check"} /\ sdPc \in SdInitPlaces
      /\ sdCard' = sdCard
      /\ (sdHost' = Cleared(WithBlkattr(sdHost, 8)) \/ sdHost' = Cleared(WithBlkattr(sdHost, 64)))
  BY DEF SdInv, SdTypes, SendScr, CheckSwitch, SdInitPlaces
<1>2. sdHost'.clock = sdHost.clock
  BY <1>1, ClockKept
<1>3. sdPc' \in {"initDone", "check", "switch", "speed"}
  BY DEF SendScr, CheckSwitch, Goto, InitReturns
<1>4. mmc'.bus_freq = mmc.bus_freq
  <2>1. CASE SendScr
    BY <1>1, <2>1 DEF SendScr, MmcStructs
  <2>2. CASE CheckSwitch
    BY <2>2 DEF CheckSwitch
  <2> QED
    BY <2>1, <2>2
<1>5. SpeedFollows'
  BY <1>1, <1>3, <1>4 DEF ClockFollows, SpeedFollows, SdSpeedPlaces, MayBeFast
<1> QED
  BY <1>1, <1>2, <1>5, SlowStep

LEMMA SdSwitchClock ==
  ASSUME SdInv, ClockFollows, SdSwitch
  PROVE  ClockFollows'
<1>1. SdTypes /\ sdHost \in SdHosts /\ mmc \in MmcStructs /\ sdCard \in SdCardStates
      /\ sdPc = "switch" /\ sdPc \in SdInitPlaces /\ sdHost' = Cleared(WithBlkattr(sdHost, 64))
  BY DEF SdInv, SdTypes, SdSwitch, SdInitPlaces
<1>2. sdHost'.clock = sdHost.clock
  BY <1>1, ClockKept
<1>3. PICK out \in Outcomes(sdCard.state = "tran"), tookHigh \in BOOLEAN :
       /\ sdCard' \in Received(out, [sdCard EXCEPT !.mode = IF tookHigh THEN "high" ELSE @])
       /\ \/ InitReturns(COMMUNICATION)
          \/ out = 0 /\ Goto("speed") /\ mmc' = [mmc EXCEPT !.bus_freq = SwitchedFreq(tookHigh)]
  BY DEF SdSwitch
<1>4. PICK mode \in {"default", "high"} : mode = IF tookHigh THEN "high" ELSE sdCard.mode
  BY <1>1 DEF SdCardStates
<1>5. PICK freq \in {SD_HS_50MHZ, SD_SS_25MHZ} : freq = SwitchedFreq(tookHigh)
  BY DEF SwitchedFreq
<1>6. CASE InitReturns(COMMUNICATION)
  <2>1. sdPc' = "initDone"
    BY <1>6 DEF InitReturns
  <2>2. SpeedFollows'
    BY <2>1 DEF SpeedFollows, SdSpeedPlaces
  <2> QED
    BY <1>1, <1>2, <2>2, SlowStep
<1>7. CASE out = 0 /\ Goto("speed") /\ mmc' = [mmc EXCEPT !.bus_freq = SwitchedFreq(tookHigh)]
  <2>1. sdPc' = "speed" /\ sdCard' = [sdCard EXCEPT !.mode = mode] /\ mmc' = [mmc EXCEPT !.bus_freq = freq]
    BY <1>3, <1>4, <1>5, <1>7, CardReceived DEF Goto
  <2>2. sdCard'.mode = mode /\ sdCard'.state = sdCard.state /\ mmc'.bus_freq = freq
    BY <1>1, <2>1 DEF SdCardStates, MmcStructs
  <2>3. freq = SD_SS_25MHZ \/ (freq = SD_HS_50MHZ /\ mode = "high")
    BY <1>4, <1>5 DEF SwitchedFreq
  <2>4. sdCard.state \in {"stby", "tran"}
    BY <1>1 DEF ClockFollows, SpeedFollows, SdSpeedPlaces
  <2>5. SpeedFollows'
    BY <2>1, <2>2, <2>3, <2>4 DEF SpeedFollows, SdSpeedPlaces, MayBeFast
  <2> QED
    BY <1>1, <1>2, <2>5, SlowStep
<1> QED
  BY <1>3, <1>6, <1>7

\* The one step that looks at the error flag of the card.
LEMMA MmcStatusClock ==
  ASSUME SdInv, ClockFollows, MmcSwitchStatus
  PROVE  ClockFollows'
<1>1. SdTypes /\ sdHost \in SdHosts /\ mmc \in MmcStructs /\ sdCard \in SdCardStates
      /\ sdPc = "mmcStatus" /\ sdPc \in SdInitPlaces /\ sdHost' = Cleared(sdHost)
  BY DEF SdInv, SdTypes, MmcSwitchStatus, SdInitPlaces
<1>2. sdHost'.clock = sdHost.clock
  BY <1>1, ClockKept
<1>3. PICK freq \in {MMC_HS_26MHZ, MMC_HS_52MHZ} : freq = IF sdCard.switchError THEN MMC_HS_26MHZ ELSE MMC_HS_52MHZ
  OBVIOUS
<1>4. PICK out \in Outcomes(sdCard.state = "tran"), repeats \in BOOLEAN :
       /\ sdCard' \in Received(out, StatusTold(repeats))
       /\ \/ InitReturns(COMMUNICATION)
          \/ sdPc' = "mmcStatus" /\ mmc' = mmc
          \/ mmc' = [mmc EXCEPT !.bus_freq = freq] /\ Goto("speed")
  BY <1>3 DEF MmcSwitchStatus
<1>5. /\ sdCard.state \in {"stby", "tran"}
      /\ mmc.bus_freq \in {SD_SS_25MHZ, MMC_SS_20MHZ} \/ (mmc.bus_freq = SD_HS_50MHZ /\ MayBeFast)
      /\ ~sdCard.switchError => MayBeFast
  BY <1>1 DEF ClockFollows, SpeedFollows, SdSpeedPlaces
<1>6. sdCard' \in {sdCard, StatusTold(repeats)}
  BY <1>4, CardReceived
<1>7. /\ sdCard'.state = sdCard.state
      /\ MayBeFast => MayBeFast'
      /\ ~sdCard'.switchError => MayBeFast'
  <2>1. CASE sdCard' = sdCard
    BY <1>5, <2>1 DEF MayBeFast
  <2>2. CASE sdCard' = StatusTold(repeats)
    BY <1>1, <1>5, <2>2, CardAfterStatus DEF MayBeFast
  <2> QED
    BY <1>6, <2>1, <2>2
<1>8. CASE InitReturns(COMMUNICATION)
  <2>1. sdPc' = "initDone"
    BY <1>8 DEF InitReturns
  <2>2. SpeedFollows'
    BY <2>1 DEF SpeedFollows, SdSpeedPlaces
  <2> QED
    BY <1>1, <1>2, <2>2, SlowStep
<1>9. CASE sdPc' = "mmcStatus" /\ mmc' = mmc
  <2>1. SpeedFollows'
    BY <1>5, <1>7, <1>9 DEF SpeedFollows, SdSpeedPlaces
  <2> QED
    BY <1>1, <1>2, <2>1, SlowStep
<1>10. CASE mmc' = [mmc EXCEPT !.bus_freq = freq] /\ Goto("speed")
  <2>1. sdPc' = "speed" /\ mmc'.bus_freq = freq
    BY <1>1, <1>10 DEF Goto, MmcStructs
  <2>2. MMC_HS_26MHZ = SD_SS_25MHZ /\ MMC_HS_52MHZ = SD_HS_50MHZ
    BY SMT DEF MMC_HS_26MHZ, SD_SS_25MHZ, MMC_HS_52MHZ, SD_HS_50MHZ
  <2>3. freq = SD_SS_25MHZ \/ (freq = SD_HS_50MHZ /\ MayBeFast')
    BY <1>3, <1>5, <1>7, <2>2
  <2>4. SpeedFollows'
    BY <1>5, <1>7, <2>1, <2>3 DEF SpeedFollows, SdSpeedPlaces
  <2> QED
    BY <1>1, <1>2, <2>4, SlowStep
<1> QED
  BY <1>4, <1>8, <1>9, <1>10

\* The two steps that set the clock.
LEMMA FastestClocks ==
  /\ set_speed(SD_SS_25MHZ) \in Int /\ set_speed(SD_SS_25MHZ) <= Slow
  /\ set_speed(MMC_SS_20MHZ) \in Int /\ set_speed(MMC_SS_20MHZ) <= Slow
  /\ set_speed(SD_HS_50MHZ) \in Int /\ set_speed(SD_HS_50MHZ) <= SD_HS_50MHZ
<1>1. /\ set_speed(SD_SS_25MHZ) \in Int /\ set_speed(SD_SS_25MHZ) <= SD_SS_25MHZ
      /\ set_speed(MMC_SS_20MHZ) \in Int /\ set_speed(MMC_SS_20MHZ) <= MMC_SS_20MHZ
      /\ set_speed(SD_HS_50MHZ) \in Int /\ set_speed(SD_HS_50MHZ) <= SD_HS_50MHZ
  BY SpeedIsReached, Frequencies
<1>2. SD_SS_25MHZ \in Int /\ SD_SS_25MHZ <= Slow /\ MMC_SS_20MHZ \in Int /\ MMC_SS_20MHZ <= Slow /\ Slow \in Int
  BY SMT DEF SD_SS_25MHZ, MMC_SS_20MHZ, Slow
<1> QED
  BY <1>1, <1>2

LEMMA SetBusSpeedClock ==
  ASSUME SdInv, ClockFollows, SetBusSpeed
  PROVE  ClockFollows'
<1>1. SdTypes /\ sdHost \in SdHosts /\ sdPc = "speed" /\ sdPc' = "initDone" /\ sdCard' = sdCard
      /\ sdHost' = [sdHost EXCEPT !.clock = set_speed(mmc.bus_freq)]
  BY DEF SdInv, SdTypes, SetBusSpeed, InitReturns
<1>2. PICK clock : clock = set_speed(mmc.bus_freq)
  OBVIOUS
<1>3. sdHost'.clock = clock
  BY <1>1, <1>2 DEF SdHosts
<1>4. /\ sdCard.state \in {"stby", "tran"}
      /\ mmc.bus_freq \in {SD_SS_25MHZ, MMC_SS_20MHZ} \/ (mmc.bus_freq = SD_HS_50MHZ /\ MayBeFast)
  BY <1>1 DEF ClockFollows, SpeedFollows, SdSpeedPlaces
<1>5. clock <= Slow \/ (clock <= SD_HS_50MHZ /\ MayBeFast)
  BY <1>2, <1>4, FastestClocks
<1>6. sdPc' \notin SdInitPlaces /\ sdPc' \notin {"select", "status"} \cup SdSpeedPlaces
  BY <1>1 DEF SdInitPlaces, SdStartPlaces, SdSpeedPlaces
<1>7. BusClock'
  BY <1>1, <1>3, <1>4, <1>5, <1>6 DEF BusClock, MayBeFast
<1>8. SpeedFollows'
  BY <1>6 DEF SpeedFollows, SdSpeedPlaces
<1> QED
  BY <1>7, <1>8 DEF ClockFollows

LEMMA OpenClock ==
  ASSUME SdInv, sd_mmc_init
  PROVE  ClockFollows'
<1>1. SdTypes /\ sdHost \in SdHosts
  BY DEF SdInv, SdTypes
<1>2. PICK ret \in {0, BUSY, CARD_DETECT} :
        /\ sdHost' = [sdHost EXCEPT !.clock = IF ret = BUSY THEN 0 ELSE set_speed(CARD_IDENTIFICATION_FREQ)]
        /\ sdPc' \in {"cmd0", "initDone"}
  BY DEF sd_mmc_init, esdhc_init, Goto, InitReturns
<1>3. PICK clock : clock = IF ret = BUSY THEN 0 ELSE set_speed(CARD_IDENTIFICATION_FREQ)
  OBVIOUS
<1>4. sdHost'.clock = clock
  BY <1>1, <1>2, <1>3 DEF SdHosts
<1>5. 0 <= CARD_IDENTIFICATION_FREQ
  BY SMT DEF CARD_IDENTIFICATION_FREQ
<1>6. clock <= CARD_IDENTIFICATION_FREQ
  BY <1>3, <1>5, IdentificationClock
<1>7. sdPc' \notin {"select", "status"} \cup SdSpeedPlaces
  BY <1>2 DEF SdSpeedPlaces
<1>8. SpeedFollows'
  BY <1>7 DEF SpeedFollows, SdSpeedPlaces
<1>9. BusClock'
  BY <1>4, <1>6 DEF BusClock
<1> QED
  BY <1>8, <1>9 DEF ClockFollows

\* A read and the controller leave the clock and the card alone.
LEMMA ReadClock ==
  ASSUME SdInv, ClockFollows,
         esdhc_read \/ SetBlocklen \/ ReadSingleBlockPio \/ ReadSingleBlockDma \/ PollIrqstat \/ PollPrsstat
           \/ SdController
  PROVE  ClockFollows'
<1>1. SdTypes /\ sdHost \in SdHosts
  BY DEF SdInv, SdTypes
<1>2. sdCard' = sdCard /\ mmc' = mmc
  BY DEF esdhc_read, SetBlocklen, ReadSingleBlockPio, ReadSingleBlockDma, PollIrqstat, PollPrsstat,
         SdController, HwLineIdle, HwTransferDone, HwTransferFails
<1>3. sdPc' = sdPc \/ sdPc' \in SdReadPlaces \cup {"readDone"}
  BY DEF esdhc_read, SetBlocklen, ReadSingleBlockPio, ReadSingleBlockDma, PollIrqstat, PollPrsstat,
         SdController, HwLineIdle, HwTransferDone, HwTransferFails, Goto, ReadReturns, BlockDone, SdReadPlaces
<1>4. sdHost'.clock = sdHost.clock
  <2>1. CASE esdhc_read
    BY <2>1 DEF esdhc_read
  <2>2. CASE SetBlocklen \/ PollIrqstat \/ PollPrsstat
    <3>1. sdHost' = sdHost \/ sdHost' = Cleared(sdHost)
      BY <2>2 DEF SetBlocklen, PollIrqstat, PollPrsstat
    <3> QED
      BY <1>1, <3>1, ClockKept
  <2>3. CASE ReadSingleBlockPio
    BY <1>1, <2>3, ClockKept DEF ReadSingleBlockPio
  <2>4. CASE ReadSingleBlockDma
    <3>1. PICK host : host = Cleared(WithBlkattr(sdHost, mmc.block_len))
      OBVIOUS
    <3>2. host.clock = sdHost.clock
      BY <1>1, <3>1, ClockKept
    <3>3. \/ sdHost' = host
          \/ sdHost' = [host EXCEPT !.dla = TRUE, !.moving = Addressed(Offset(sdRead.blk)), !.dsaddr = sdRead.to]
      BY <2>4, <3>1 DEF ReadSingleBlockDma
    <3>4. "clock" \in DOMAIN host
      BY <1>1, <3>1 DEF Cleared, WithBlkattr, SdHosts
    <3> QED
      BY <3>2, <3>3, <3>4
  <2>5. CASE SdController
    BY <1>1, <2>5 DEF SdController, HwLineIdle, HwTransferDone, HwTransferFails, SdHosts
  <2> QED
    BY <2>1, <2>2, <2>3, <2>4, <2>5
<1>5. CASE sdPc' = sdPc
  <2>1. SpeedFollows' /\ BusClock'
    BY <1>2, <1>4, <1>5 DEF ClockFollows, SpeedFollows, BusClock, MayBeFast
  <2> QED
    BY <2>1 DEF ClockFollows
<1>6. CASE sdPc' \in SdReadPlaces \cup {"readDone"}
  <2>1. sdPc' \notin SdInitPlaces /\ sdPc' \notin {"select", "status"} \cup SdSpeedPlaces
    BY <1>6 DEF SdInitPlaces, SdStartPlaces, SdSpeedPlaces, SdReadPlaces
  <2>2. SpeedFollows'
    BY <2>1 DEF SpeedFollows, SdSpeedPlaces
  <2>3. BusClock'
    BY <1>2, <1>4, <2>1 DEF ClockFollows, BusClock, MayBeFast
  <2> QED
    BY <2>2, <2>3 DEF ClockFollows
<1> QED
  BY <1>3, <1>5, <1>6

LEMMA ClockStarts == SdInit => ClockFollows
<1> SUFFICES ASSUME SdInit PROVE ClockFollows
  OBVIOUS
<1>1. sdPc = "off" /\ sdHost.clock = 0
  BY DEF SdInit
<1>2. 0 <= CARD_IDENTIFICATION_FREQ
  BY SMT DEF CARD_IDENTIFICATION_FREQ
<1>3. BusClock
  BY <1>1, <1>2 DEF BusClock
<1>4. SpeedFollows
  BY <1>1 DEF SpeedFollows, SdSpeedPlaces
<1> QED
  BY <1>3, <1>4 DEF ClockFollows

LEMMA ClockSteps ==
  ASSUME SdInv, ClockFollows, [SdNext]_sdVars
  PROVE  ClockFollows'
<1>1. CASE sd_mmc_init
  BY <1>1, OpenClock
<1>2. CASE SdDriver
  <2>1. CASE GoIdle \/ SendIfCond \/ AppCommand \/ SdSendOpCond \/ MmcGoIdle \/ MmcSendOpCond
               \/ AllSendCid \/ SendRelativeAddr
    BY <2>1, EarlyClock
  <2>2. CASE SendCsd \/ SelectCard \/ SdApp51 \/ MmcSwitch
    BY <2>2, CommandClock
  <2>3. CASE SendStatus \/ SendScr \/ CheckSwitch \/ SdSwitch \/ MmcSwitchStatus \/ SetBusSpeed
    BY <2>3, SendStatusClock, CheckClock, SdSwitchClock, MmcStatusClock, SetBusSpeedClock
  <2>4. CASE esdhc_read \/ SetBlocklen \/ ReadSingleBlockPio \/ ReadSingleBlockDma \/ PollIrqstat \/ PollPrsstat
    BY <2>4, ReadClock
  <2> QED
    BY <1>2, <2>1, <2>2, <2>3, <2>4 DEF SdDriver
<1>3. CASE SdController
  BY <1>3, ReadClock
<1>4. CASE UNCHANGED sdVars
  <2>1. SpeedFollows' /\ BusClock'
    BY <1>4 DEF ClockFollows, SpeedFollows, BusClock, MayBeFast, sdVars
  <2> QED
    BY <2>1 DEF ClockFollows
<1> QED
  BY <1>1, <1>2, <1>3, <1>4 DEF SdNext

LEMMA ClockWithinLimit ==
  ASSUME SdInv, ClockFollows, ~sdCard.dropped
  PROVE  ClockFitsCard
<1>1. sdCard \in SdCardStates /\ sdHost.clock \in Int
  BY DEF SdInv, SdTypes, SdHosts
<1>2. PICK clock \in Int : clock = sdHost.clock
  BY <1>1
<1>3. PICK limit \in Int : limit = ModeLimit
  BY <1>1, SMT DEF ModeLimit
<1>4. limit >= CARD_IDENTIFICATION_FREQ
  BY <1>3, SMT DEF ModeLimit, CARD_IDENTIFICATION_FREQ
<1>5. sdCard.state \in {"stby", "tran"} => limit >= Slow
  <2>1. sdCard.mode \in {"default", "high"}
    BY <1>1 DEF SdCardStates
  <2> QED
    BY <1>3, <2>1, SMT DEF ModeLimit, Slow
<1>6. sdCard.mode = "high" => limit >= SD_HS_50MHZ
  BY <1>3, SMT DEF ModeLimit, SD_HS_50MHZ
<1>7. CARD_IDENTIFICATION_FREQ \in Int /\ Slow \in Int /\ SD_HS_50MHZ \in Int
  BY SMT DEF CARD_IDENTIFICATION_FREQ, Slow, SD_HS_50MHZ
<1>8. clock <= limit
  BY <1>2, <1>4, <1>5, <1>6, <1>7 DEF ClockFollows, BusClock, MayBeFast
<1> QED
  BY <1>2, <1>3, <1>8 DEF ClockFitsCard

\* For every set of cards and outcome of the commands, the clock on the bus exceeds what the card allows
\* in the mode it is in only after the card has cleared a refusal that the driver had read.
THEOREM ClockIsLegal == SdSpec => []ClockFitsStatus
<1>1. SdInit => ClockFollows
  BY ClockStarts
<1>2. SdInv /\ ClockFollows /\ [SdNext]_sdVars => ClockFollows'
  BY ClockSteps
<1>3. SdInv /\ ClockFollows => ClockFitsStatus
  BY ClockWithinLimit DEF ClockFitsStatus
<1> QED
  BY SdInvHolds, <1>1, <1>2, <1>3, PTL DEF SdSpec
=============================================================================
