------------------------------ MODULE MCBme280 ------------------------------
(***************************************************************************)
(* Selections that take every path through the settings: none, each group  *)
(* alone, the two that share a register, humidity with another, all.       *)
(***************************************************************************)
EXTENDS Bme280

MCSelections ==
    { {}, {"osr_h"}, {"osr_p"}, {"osr_h", "osr_t"},
      {"filter", "standby"}, Settings }
=============================================================================
