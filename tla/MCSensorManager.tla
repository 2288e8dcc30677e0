-------------------------- MODULE MCSensorManager --------------------------
(***************************************************************************)
(* A registry of at most three drivers.  The boots registered are the      *)
(* firmware's own (bme280, mq135), one that fills the buffer to its last   *)
(* reading and registers a driver twice, and one that registers a driver   *)
(* too many.  co2 may fail to start or to read; relay has no init and  *)
(* probe no read.                                                          *)
(***************************************************************************)
EXTENDS SensorManager

CONSTANTS bme280, mq135, co2, relay, probe

MCDrivers  == {bme280, mq135, co2, relay, probe}
MCReadings == [d \in MCDrivers |-> IF d \in {bme280, co2} THEN 3 ELSE 1]
MCHasInit  == MCDrivers \ {relay}
MCHasRead  == MCDrivers \ {probe}
MCFail     == {co2}
MCBoots    == { <<bme280, mq135>>,
                <<bme280, co2, bme280>>,
                <<co2, mq135, bme280, bme280>>,
                <<relay, co2, probe>> }
=============================================================================
