----------------------------- MODULE Bme280Data -----------------------------
(***************************************************************************)
(* What src/main/bme280.c makes of the bytes it reads: the calibration     *)
(* data, a sample of pressure, temperature and humidity, and the time a    *)
(* sample takes.                                                           *)
(*                                                                         *)
(* The chip holds numbers (nvm, adc) and offers them as bytes, which the   *)
(* driver puts together again.  The compensation formulas are kept as what *)
(* they are computed from: the temperature formula leaves t_fine behind in *)
(* the device structure, and the other two formulas read it.               *)
(***************************************************************************)
EXTENDS Integers

CONSTANTS
    Nvms,       \* calibrations of the chip: numbers by name, each of its width
    Samples,    \* raw samples: records over Components
    Settings    \* oversampling settings: bytes of the settings structure

Components == {"pressure", "temperature", "humidity"}
Unsigned16 == {"dig_t1", "dig_p1"}
Signed16   == {"dig_t2", "dig_t3", "dig_p2", "dig_p3", "dig_p4", "dig_p5", "dig_p6",
               "dig_p7", "dig_p8", "dig_p9", "dig_h2"}
Signed12   == {"dig_h4", "dig_h5"}
TempPress  == (Unsigned16 \cup Signed16 \cup {"dig_h1"}) \ {"dig_h2"}
Humid      == {"dig_h2", "dig_h3", "dig_h6"} \cup Signed12
Names      == TempPress \cup Humid

(* Numbers by their width, those of more than a byte by their high bits.   *)
Bytes  == 0..255
S8     == -128..127
S12    == -2048..2047
U16    == {n \in Nat : n \div 256 \in Bytes}
S16    == {n \in Int : n \div 256 \in S8}
Bits20 == {n \in Nat : n \div 4096 \in Bytes}

(* The width of each number.                                              *)
Range(n) ==
    CASE n \in Unsigned16 -> U16 [] n \in Signed16 -> S16 [] n \in Signed12 -> S12
      [] n = "dig_h6" -> S8 [] n \in {"dig_h1", "dig_h3"} -> Bytes

ASSUME DataAssumption ==
    /\ \A nvm \in Nvms : nvm \in [Names -> Int] /\ \A n \in Names : nvm[n] \in Range(n)
    /\ \A s \in Samples :
          /\ DOMAIN s = Components /\ s.humidity \in U16
          /\ s.pressure \in Bits20 /\ s.temperature \in Bits20
    /\ Settings \subseteq Bytes

VARIABLES
    nvm,         \* the chip's calibration
    adc,         \* the chip's latest sample
    calib_data,  \* the calibration in the device structure
    t_fine,      \* its last field: what the temperature formula left
    comp_data,   \* the compensated sample a caller was given
    max_delay,   \* what bme280_cal_meas_delay returned, until the next call
    asked        \* history: the last call, with its arguments and its success

vars == <<nvm, adc, calib_data, t_fine, comp_data, max_delay, asked>>

----------------------------------------------------------------------------
(* Bytes into numbers.                                                     *)

Concat(msb, lsb) == msb * 256 + lsb

(* A mistake: the sign of the byte is lost.                                *)
Int8_Unsigned(u) == u
Int8(u) == IF u >= 128 THEN u - 256 ELSE u

(* The sign of two bytes is that of the high one.                          *)
Int16(u) == Int8(u \div 256) * 256 + (u % 256)

(* The registers from TEMP_PRESS_CALIB_DATA (0 to 25) and, for humidity,   *)
(* from HUMIDITY_CALIB_DATA (0 to 6), as the chip lays its numbers out.    *)
Words == << "dig_t1", "dig_t2", "dig_t3", "dig_p1", "dig_p2", "dig_p3", "dig_p4",
            "dig_p5", "dig_p6", "dig_p7", "dig_p8", "dig_p9" >>
TempPressRegs ==
    [r \in 0..25 |-> CASE r = 24 -> 0
                       [] r = 25 -> nvm["dig_h1"]
                       [] r < 24 -> LET w == nvm[Words[r \div 2 + 1]]
                                    IN  IF r % 2 = 0 THEN w % 256 ELSE (w \div 256) % 256]
HumidRegs ==
    [r \in 0..6 |-> CASE r = 0 -> nvm["dig_h2"] % 256
                      [] r = 1 -> (nvm["dig_h2"] \div 256) % 256
                      [] r = 2 -> nvm["dig_h3"]
                      [] r = 3 -> (nvm["dig_h4"] \div 16) % 256
                      [] r = 4 -> (nvm["dig_h4"] % 16) + 16 * (nvm["dig_h5"] % 16)
                      [] r = 5 -> (nvm["dig_h5"] \div 16) % 256
                      [] r = 6 -> nvm["dig_h6"] % 256]

(* parse_temp_press_calib_data: the bytes of word number k are 2k, 2k + 1. *)
ParseTempPress(regs) ==
    [n \in TempPress |->
        IF n = "dig_h1" THEN regs[25]
        ELSE LET k == CHOOSE k \in 0..11 : Words[k + 1] = n
                 u == Concat(regs[2 * k + 1], regs[2 * k])
             IN  IF n \in Unsigned16 THEN u ELSE Int16(u)]

(* parse_humidity_calib_data: two numbers of 12 bits share byte 4.         *)
ParseHumid(regs) ==
    [n \in Humid |->
        CASE n = "dig_h2" -> Int16(Concat(regs[1], regs[0]))
          [] n = "dig_h3" -> regs[2]
          [] n = "dig_h4" -> Int8(regs[3]) * 16 + (regs[4] % 16)
          [] n = "dig_h5" -> Int8(regs[5]) * 16 + regs[4] \div 16
          [] n = "dig_h6" -> Int8(regs[6])]

(* The eight bytes from DATA: msb, lsb and xlsb of pressure and of         *)
(* temperature, msb and lsb of humidity.                                   *)
DataRegs ==
    << adc.pressure \div 4096, (adc.pressure \div 16) % 256, (adc.pressure % 16) * 16,
       adc.temperature \div 4096, (adc.temperature \div 16) % 256,
       (adc.temperature % 16) * 16, adc.humidity \div 256, adc.humidity % 256 >>

Uncomp20(msb, lsb, xlsb) == msb * 4096 + lsb * 16 + xlsb \div 16

ParseSensorData(regs) ==
    [c \in Components |->
        CASE c = "pressure"    -> Uncomp20(regs[1], regs[2], regs[3])
          [] c = "temperature" -> Uncomp20(regs[4], regs[5], regs[6])
          [] c = "humidity"    -> Concat(regs[7], regs[8])]

----------------------------------------------------------------------------
NoCalib == [n \in Names |-> 0]
NoData  == [c \in Components |-> <<>>]

Init ==
    /\ nvm \in Nvms /\ adc \in Samples
    /\ calib_data = NoCalib /\ t_fine = <<>> /\ comp_data = NoData
    /\ max_delay = 0
    /\ asked = [call |-> "none"]

(* The chip takes a new sample.                                            *)
Measure == adc' \in Samples \ {adc} /\ asked' = [call |-> "none"]
           /\ max_delay' = 0
           /\ UNCHANGED <<nvm, calib_data, t_fine, comp_data>>

(* get_calib_data: either transfer may fail, the second after the first    *)
(* part is stored.                                                         *)
GetCalibData ==
    /\ \E tp, h \in BOOLEAN :
          LET got == IF ~ tp THEN {} ELSE IF ~ h THEN TempPress ELSE Names
          IN  /\ calib_data' = [n \in Names |->
                     IF n \notin got THEN calib_data[n]
                     ELSE IF n \in TempPress THEN ParseTempPress(TempPressRegs)[n]
                     ELSE ParseHumid(HumidRegs)[n]]
              /\ asked' = [call |-> "calib", ok |-> tp /\ h]
    /\ max_delay' = 0
    /\ UNCHANGED <<nvm, adc, t_fine, comp_data>>

(* A mistake: pressure is computed before the temperature it needs.        *)
CompensateData_PressFirst(sel, raw) ==
    /\ t_fine' = IF sel = {} THEN t_fine ELSE <<raw.temperature>>
    /\ comp_data' = [c \in Components |->
          IF c # "temperature" /\ c \notin sel THEN <<>>
          ELSE CASE c = "temperature" -> t_fine'
                 [] c = "pressure"    -> <<raw.pressure, t_fine>>
                 [] c = "humidity"    -> <<raw.humidity, t_fine'>>]

(* bme280_compensate_data: everything is cleared; the temperature comes    *)
(* first and whatever is selected.                                         *)
CompensateData(sel, raw) ==
    /\ t_fine' = IF sel = {} THEN t_fine ELSE <<raw.temperature>>
    /\ comp_data' = [c \in Components |->
          CASE sel = {}                              -> <<>>
            [] sel # {} /\ c = "temperature"         -> t_fine'
            [] sel # {} /\ c # "temperature" /\ c \in sel    -> <<raw[c], t_fine'>>
            [] sel # {} /\ c # "temperature" /\ c \notin sel -> <<>>]

GetSensorData(sel) ==
    /\ \/ CompensateData(sel, ParseSensorData(DataRegs))
          /\ asked' = [call |-> "data", ok |-> TRUE, sel |-> sel, of |-> adc]
       \/ UNCHANGED <<t_fine, comp_data>>
          /\ asked' = [call |-> "data", ok |-> FALSE, sel |-> sel, of |-> adc]
    /\ max_delay' = 0
    /\ UNCHANGED <<nvm, adc, calib_data>>

(* bme280_cal_meas_delay, in microseconds (bme280.h:377, 381; the comment  *)
(* at bme280.c:796 says milliseconds): register values above 5 mean an     *)
(* oversampling of 16 as well.                                             *)
OsrTable == <<0, 1, 2, 4, 8, 16>>
ActualOsr_OffByOne(v) == IF v <= 5 THEN OsrTable[IF v = 0 THEN 1 ELSE v] ELSE 16
ActualOsr(v) == IF v <= 5 THEN OsrTable[v + 1] ELSE 16
MeasDelay(t, p, h) ==
    1250 + 2300 * ActualOsr(t) + (2300 * ActualOsr(p) + 575) + (2300 * ActualOsr(h) + 575)

CalMeasDelay(t, p, h) ==
    /\ max_delay' = MeasDelay(t, p, h)
    /\ asked' = [call |-> "delay", t |-> t, p |-> p, h |-> h]
    /\ UNCHANGED <<nvm, adc, calib_data, t_fine, comp_data>>

Next ==
    \/ Measure \/ GetCalibData
    \/ \E sel \in SUBSET Components : GetSensorData(sel)
    \/ \E t, p, h \in Settings : CalMeasDelay(t, p, h)

Spec == Init /\ [][Next]_vars

----------------------------------------------------------------------------
(* A calibration that was read without an error is the chip's, signs and   *)
(* shared bytes included.                                                  *)
CalibIsTrue ==
    asked.call = "calib" /\ asked.ok => calib_data = nvm

(* All that a caller is given belongs to one sample, the chip's latest:    *)
(* pressure and humidity are corrected with the temperature of the same    *)
(* moment, not with the t_fine an earlier call left behind.                *)
OneSample ==
    asked.call = "data" /\ asked.ok /\ asked.sel # {} =>
        LET s == asked.of IN
        /\ comp_data["temperature"] = <<s.temperature>>
        /\ \A c \in Components \ {"temperature"} :
              comp_data[c] = IF c \in asked.sel THEN <<s[c], <<s.temperature>>>> ELSE <<>>

(* The time the data sheet gives the chip: 1.25 ms, 2.3 ms for each        *)
(* oversampled value and 0.575 ms for pressure and for humidity, if taken. *)
Osr(v) ==
    CASE v = 0 -> 0 [] v = 1 -> 1 [] v = 2 -> 2 [] v = 3 -> 4 [] v = 4 -> 8
      [] v >= 5 -> 16
ChipDelay(t, p, h) ==
    1250 + 2300 * (Osr(t) + Osr(p) + Osr(h)) + (IF p > 0 THEN 575 ELSE 0)
         + (IF h > 0 THEN 575 ELSE 0)

(* The delay is never shorter than the chip's measurement, whatever byte   *)
(* is set, and longer by the two fixed parts at most: read as microseconds,*)
(* as the header has it (bme280.h:377, 381).  The comment of the function  *)
(* (bme280.c:796) says milliseconds, which is off by a thousand: who waits *)
(* as it says waits long enough, but a thousand times too long.            *)
DelayCovers ==
    asked.call = "delay" =>
        LET d == ChipDelay(asked.t, asked.p, asked.h)
        IN  d <= max_delay /\ max_delay <= d + 1150

=============================================================================
