-------------------------------- MODULE I2c --------------------------------
(***************************************************************************)
(* The I2C driver, drivers/i2c/i2c.c, under its one user, read_spd() of    *)
(* drivers/ddr/nxp-ddr/dimm.c: select page 0, read it, select page 1, read *)
(* it.  An action ends where the driver waits for the controller; the bus, *)
(* the EEPROM and the two page addresses answer, stay silent, or lose the  *)
(* bus.  A byte of the EEPROM is named by its page and its place.          *)
(***************************************************************************)
EXTENDS Integers, Sequences

CONSTANTS
  SpdBytes,   \* bytes read from a page (256 in the code)
  I2cFaults   \* whether a wait may time out or lose the arbitration

ASSUME I2cAssumption == SpdBytes \in Nat \ {0} /\ I2cFaults \subseteq BOOLEAN

VARIABLES
  i2c,      \* the controller: MA and TX_NAK of cr, the busy bus
  eeprom,   \* is there one, its page, its place, and whether it drives the bus
  i2cPc,    \* where the driver is
  i2cCall,  \* which of the four transfers of read_spd()
  i2cBuf,   \* the buffer
  i2cRet,   \* what the last transfer returned
  selected  \* history: both selections of a page were acknowledged

i2cVars == <<i2c, eeprom, i2cPc, i2cCall, i2cBuf, i2cRet, selected>>

ERSTART == -5
ETIME   == -4
ENODEV  == -2

\* The transfers of read_spd().
Transfers == <<[write |-> TRUE, page |-> 0], [write |-> FALSE, page |-> 0],
               [write |-> TRUE, page |-> 1], [write |-> FALSE, page |-> 1]>>
Transfer == Transfers[i2cCall]

I2cInit ==
  /\ i2c = [ma |-> FALSE, nak |-> FALSE, bb |-> FALSE]
  /\ eeprom \in [present : BOOLEAN, page : {0, 1}, place : {0}, talks : {FALSE}]
  /\ i2cPc = "off"
  /\ i2cCall = 0
  /\ i2cBuf = <<>>
  /\ i2cRet = 0
  /\ selected = TRUE

\* wait_for_state(): the state comes, or the arbitration is lost, or a second passes.
Waits(possible) ==
  (IF possible THEN {0} ELSE {ETIME}) \cup (IF TRUE \in I2cFaults THEN {ERSTART, ETIME} ELSE {})

\* tx_byte(): also a byte that nobody acknowledges.
Sends(acknowledged) == IF acknowledged THEN Waits(TRUE) ELSE (Waits(TRUE) \ {0}) \cup {ENODEV}

\* The controller drops out of master mode when it loses the arbitration.
AfterWait(ctl, ret) == IF ret = ERSTART THEN [ctl EXCEPT !.ma = FALSE] ELSE ctl

\* gen_stop(): the bus gets free unless the EEPROM still drives it; the result is not looked at.
gen_stop(ctl) == [ctl EXCEPT !.ma = FALSE, !.bb = eeprom.talks]

\* After a transfer: read_spd() ignores the result of a write, and ends with the first failed read.
TransferEnds(ret) ==
  /\ i2cRet' = ret
  /\ selected' = (selected /\ (Transfer.write => ret = 0))
  /\ IF i2cCall < 4 /\ (Transfer.write \/ ret = 0)
     THEN i2cCall' = i2cCall + 1 /\ i2cPc' = "idle" /\ UNCHANGED i2cBuf
     ELSE /\ i2cPc' = "done" /\ UNCHANGED i2cCall
          /\ i2cBuf' = IF ret = 0 THEN i2cBuf ELSE <<>>

Step(next) == i2cPc' = next /\ UNCHANGED <<i2cCall, i2cBuf, i2cRet, selected>>

\* i2c_init(), and the call of read_spd().
read_spd ==
  /\ i2cPc = "off"
  /\ i2c' = [i2c EXCEPT !.ma = FALSE, !.nak = FALSE]
  /\ i2cCall' = 1 /\ i2cPc' = "idle"
  /\ UNCHANGED <<eeprom, i2cBuf, i2cRet, selected>>

\* i2c_write_addr(): no stop if the bus stays busy or the start fails; i2c_read() adds one, i2c_write() not.
AddressFails(ctl, ret) ==
  /\ i2c' = IF Transfer.write THEN AfterWait(ctl, ret) ELSE gen_stop(ctl)
  /\ TransferEnds(ret)

WaitIdle ==
  /\ i2cPc = "idle"
  /\ \E ret \in Waits(~i2c.bb) :
       IF ret # 0 THEN AddressFails(i2c, ret) ELSE i2c' = i2c /\ Step("start")
  /\ UNCHANGED eeprom

\* Setting MA starts a transfer only when it was clear.
Start ==
  /\ i2cPc = "start"
  /\ LET ctl == [i2c EXCEPT !.ma = TRUE, !.bb = ~i2c.ma]
     IN  \E ret \in Waits(~i2c.ma) :
           IF ret # 0 THEN AddressFails(ctl, ret)
           ELSE i2c' = [ctl EXCEPT !.nak = TRUE] /\ Step("chip")
  /\ UNCHANGED eeprom

\* The chip and, for both kinds of transfer, one address byte; the page addresses select by their own.
SendChip ==
  /\ i2cPc = "chip"
  /\ \E ret \in Sends(eeprom.present) :
       /\ IF ret # 0 THEN i2c' = gen_stop(i2c) /\ TransferEnds(ret) ELSE i2c' = i2c /\ Step("addr")
       /\ eeprom' = IF ret = 0 /\ Transfer.write THEN [eeprom EXCEPT !.page = Transfer.page] ELSE eeprom

SendAddress ==
  /\ i2cPc = "addr"
  /\ \E ret \in Sends(TRUE) :
       /\ IF ret # 0 THEN i2c' = gen_stop(i2c) /\ TransferEnds(ret)
          ELSE i2c' = i2c /\ Step(IF Transfer.write THEN "write" ELSE "restart")
       /\ eeprom' = IF ret = 0 /\ ~Transfer.write THEN [eeprom EXCEPT !.place = 0] ELSE eeprom

\* write_data() of one byte.
write_data ==
  /\ i2cPc = "write"
  /\ \E ret \in Sends(TRUE) : i2c' = gen_stop(i2c) /\ TransferEnds(ret)
  /\ UNCHANGED eeprom

\* The acknowledge of the byte that starts now is fixed by TX_NAK: a NAK silences the EEPROM after it.
ByteStarts(nak) == eeprom' = [eeprom EXCEPT !.place = @ + 1, !.talks = ~nak]

\* Repeated start, the chip for reading, and read_data() up to the dummy read of the data register.
Restart ==
  /\ i2cPc = "restart"
  /\ \E ret \in Sends(TRUE) :
       IF ret # 0 THEN i2c' = gen_stop(i2c) /\ TransferEnds(ret) /\ UNCHANGED eeprom
       ELSE /\ i2c' = [i2c EXCEPT !.nak = SpdBytes = 1]
            /\ ByteStarts(SpdBytes = 1)
            /\ Step("byte")

\* Mutant: NAK is set one byte too late.
BeforeByteMutant(i) ==
  IF i = SpdBytes THEN gen_stop(i2c)
  ELSE IF i = SpdBytes - 1 THEN [i2c EXCEPT !.nak = TRUE] ELSE i2c

\* What read_data() does before it takes byte i: the stop for the last one, NAK for the one before it.
BeforeByte(i) ==
  IF i = SpdBytes - 1 THEN gen_stop(i2c)
  ELSE IF i = SpdBytes - 2 THEN [i2c EXCEPT !.nak = TRUE] ELSE i2c

\* One byte: taking it from the data register starts the next one while the controller is master.
ReadByte ==
  /\ i2cPc = "byte"
  /\ \E ret \in Waits(TRUE) :
       IF ret # 0 THEN i2c' = gen_stop(i2c) /\ TransferEnds(ret) /\ UNCHANGED eeprom
       ELSE LET i    == Len(i2cBuf) % SpdBytes
                next == BeforeByte(i)
            IN  /\ i2c' = next
                /\ IF next.ma THEN ByteStarts(next.nak) ELSE UNCHANGED eeprom
                /\ LET byte == <<eeprom.page, eeprom.place - 1>>
                   IN IF i < SpdBytes - 1
                      THEN i2cBuf' = Append(i2cBuf, byte) /\ UNCHANGED <<i2cPc, i2cCall, i2cRet, selected>>
                      ELSE /\ i2cBuf' = Append(i2cBuf, byte) /\ i2cRet' = 0 /\ UNCHANGED selected
                           /\ IF i2cCall < 4 THEN i2cCall' = i2cCall + 1 /\ i2cPc' = "idle"
                              ELSE i2cPc' = "done" /\ UNCHANGED i2cCall

I2cNext ==
  \/ read_spd \/ WaitIdle \/ Start \/ SendChip \/ SendAddress \/ write_data \/ Restart \/ ReadByte

I2cSpec == I2cInit /\ [][I2cNext]_i2cVars

-----------------------------------------------------------------------------
\* As long as nothing failed, every transfer leaves the bus free for the next one, with the EEPROM
\* silenced by the NAK of its last byte; and after the last one the buffer holds page 0 and then
\* page 1, every byte once and in order (read_spd(), i2c_read(), read_data()).
SpdIsWhole ==
  i2cRet = 0 /\ selected =>
    /\ i2cPc \in {"idle", "done"} => ~eeprom.talks /\ ~i2c.bb /\ ~i2c.ma
    /\ i2cPc = "done" =>
         i2cBuf = [k \in 1..2 * SpdBytes |-> <<(k - 1) \div SpdBytes, (k - 1) % SpdBytes>>]
=============================================================================
