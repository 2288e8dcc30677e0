----------------------------- MODULE MCFirmware ----------------------------
(***************************************************************************)
(* The firmware with the two drivers it has, of which neither ever fails.  *)
(***************************************************************************)
EXTENDS Firmware

CONSTANTS bme280, mq135

MCDrivers     == {bme280, mq135}
MCReadings    == [d \in MCDrivers |-> IF d = bme280 THEN 3 ELSE 1]
MCRegisterAll == {<<bme280, mq135>>}
=============================================================================
