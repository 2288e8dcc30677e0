---------------------------- MODULE MCDeviceData ----------------------------
(***************************************************************************)
(* Uptimes of up to twice the size at which a float begins to round, and   *)
(* room for all of the health values but not for all of the ports.         *)
(***************************************************************************)
EXTENDS DeviceData

MCSignals    == {-60}
MCAdcResults == {-1, 2}
=============================================================================
