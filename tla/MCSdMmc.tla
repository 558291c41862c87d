------------------------------ MODULE MCSdMmc ------------------------------
(***************************************************************************)
(* SdMmc with one MMC card of version 4 that may refuse the switch to high *)
(* speed, for the run SwitchRefused.                                       *)
(***************************************************************************)
EXTENDS SdMmc

MCRefusingCard == {[sort |-> "mmc4", hc |-> TRUE, hs |-> TRUE, scr |-> 0]}
=============================================================================
