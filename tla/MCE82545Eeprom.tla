---------------------------- MODULE MCE82545Eeprom ----------------------------
(* Four words of two bits: one fixed, two free, one the checksum.           *)
EXTENDS E82545Eeprom

MCFixed == [a \in {<<0, 0>>} |-> <<1, 0>>]
===============================================================================
