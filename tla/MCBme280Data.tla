---------------------------- MODULE MCBme280Data ----------------------------
(***************************************************************************)
(* Calibrations and samples at the ends of their ranges, around zero and   *)
(* with different nibbles in the shared byte.                              *)
(***************************************************************************)
EXTENDS Bme280Data

Pick(u16, s16, s12a, s12b, s8, u8) ==
    [n \in Names |-> CASE n \in Unsigned16 -> u16
                       [] n \in Signed16   -> s16
                       [] n = "dig_h4"     -> s12a
                       [] n = "dig_h5"     -> s12b
                       [] n = "dig_h6"     -> s8
                       [] n \in {"dig_h1", "dig_h3"} -> u8]

(* The last one has a different number in every word.                      *)
MCNvms ==
    { Pick(65535, -32768, -2048, 2047, -128, 255), Pick(0, 32767, 2047, -2048, 127, 0),
      Pick(32768, -1, -1, 0, -1, 128), Pick(256, 255, 17, -17, 1, 1),
      [n \in Names |->
          CASE n \in TempPress \ {"dig_h1"} -> 300 * (CHOOSE k \in 1..12 : Words[k] = n)
            [] n = "dig_h1" -> 25 [] n = "dig_h2" -> -300 [] n = "dig_h3" -> 7
            [] n = "dig_h4" -> 291 [] n = "dig_h5" -> -1110 [] n = "dig_h6" -> -30] }

MCSamples ==
    { [pressure |-> 0, temperature |-> 1048575, humidity |-> 256],
      [pressure |-> 1048575, temperature |-> 4097, humidity |-> 65535],
      [pressure |-> 415148, temperature |-> 519888, humidity |-> 0] }
=============================================================================
