-------------------------- MODULE Bme280DataProofs --------------------------
(***************************************************************************)
(* Proofs about Bme280Data, for every calibration and sample the chip may  *)
(* hold and every byte a caller may set.                                   *)
(*                                                                         *)
(* The arithmetic is in the lemmas: taking a number's bytes apart, as the  *)
(* chip does, and putting them together, as the driver does, gives the     *)
(* number back, for every number of its width.                             *)
(***************************************************************************)
EXTENDS Bme280Data, TLAPS

----------------------------------------------------------------------------
(* A number and its bytes.                                                 *)

LEMMA Apart ==
    \A x \in Int : x = (x \div 256) * 256 + (x % 256) /\ x % 256 \in Bytes
BY DEF Bytes

LEMMA Together ==
    \A h \in Int, l \in Bytes : (h * 256 + l) \div 256 = h /\ (h * 256 + l) % 256 = l
BY DEF Bytes

LEMMA SignedByte == \A x \in S8 : Int8(x % 256) = x /\ x % 256 \in Bytes
BY DEF Int8, S8, Bytes

LEMMA Word16 ==
    /\ \A x \in U16 : Concat((x \div 256) % 256, x % 256) = x
    /\ \A x \in S16 : Int16(Concat((x \div 256) % 256, x % 256)) = x
<1>1. ASSUME NEW x \in U16 PROVE Concat((x \div 256) % 256, x % 256) = x
  <2>1. x \in Int /\ x \div 256 \in Bytes
    BY DEF U16
  <2>2. (x \div 256) % 256 = x \div 256
    BY <2>1 DEF Bytes
  <2>3. x = (x \div 256) * 256 + (x % 256)
    BY <2>1, Apart
  <2>4. QED
    BY <2>2, <2>3 DEF Concat
<1>2. ASSUME NEW x \in S16
      PROVE  Int16(Concat((x \div 256) % 256, x % 256)) = x
  <2>. DEFINE h == x \div 256
              l == x % 256
  <2>1. x \in Int /\ h \in S8 /\ h \in Int
    BY DEF S16, S8
  <2>2. l \in Bytes /\ x = h * 256 + l
    BY <2>1, Apart
  <2>3. h % 256 \in Bytes /\ Int8(h % 256) = h
    BY <2>1, SignedByte
  <2>. HIDE DEF h, l
  <2>4. h % 256 \in Int
    BY <2>3 DEF Bytes
  <2>5. /\ ((h % 256) * 256 + l) \div 256 = h % 256
        /\ ((h % 256) * 256 + l) % 256 = l
    BY <2>2, <2>4, Together
  <2>6. Int16(Concat(h % 256, l)) = h * 256 + l
    BY <2>3, <2>5 DEF Int16, Concat
  <2>7. QED
    BY <2>2, <2>6 DEF h, l
<1>3. QED
  BY <1>1, <1>2

(* Two numbers of 12 bits in three bytes, of which the second is shared.   *)
LEMMA Shared12 ==
    ASSUME NEW x \in S12, NEW y \in S12
    PROVE  LET b == (x % 16) + 16 * (y % 16)
           IN  /\ Int8((x \div 16) % 256) * 16 + (b % 16) = x
               /\ Int8((y \div 16) % 256) * 16 + (b \div 16) = y
<1>. DEFINE b == (x % 16) + 16 * (y % 16)
<1>0. x \in Int /\ y \in Int
  BY DEF S12
<1>1. b % 16 = x % 16 /\ b \div 16 = y % 16
  BY <1>0
<1>2. \A z \in S12 : Int8((z \div 16) % 256) = z \div 16
  BY DEF Int8, S12
<1>3. x = (x \div 16) * 16 + (x % 16) /\ y = (y \div 16) * 16 + (y % 16)
  BY <1>0
<1>4. Int8((x \div 16) % 256) = x \div 16 /\ Int8((y \div 16) % 256) = y \div 16
  BY <1>2
<1>. HIDE DEF b
<1>5. Int8((x \div 16) % 256) * 16 + (b % 16) = x
  BY <1>0, <1>1, <1>3, <1>4
<1>6. Int8((y \div 16) % 256) * 16 + (b \div 16) = y
  BY <1>0, <1>1, <1>3, <1>4
<1>7. QED
  BY <1>5, <1>6 DEF b

(* A reading of 20 bits, left-aligned in three bytes.                      *)
LEMMA Reading20 ==
    \A p \in Bits20 :
        Uncomp20(p \div 4096, (p \div 16) % 256, (p % 16) * 16) = p
<1>. SUFFICES ASSUME NEW p \in Bits20
              PROVE  Uncomp20(p \div 4096, (p \div 16) % 256, (p % 16) * 16) = p
  OBVIOUS
<1>0. p \in Nat /\ p \div 4096 \in 0..255
  BY DEF Bits20, Bytes
<1>1. ((p % 16) * 16) \div 16 = p % 16
  BY <1>0
<1>2. p \div 4096 = (p \div 16) \div 256
  BY <1>0
<1>3. p = (p \div 16) * 16 + (p % 16)
  BY <1>0
<1>4. p \div 16 = ((p \div 16) \div 256) * 256 + ((p \div 16) % 256)
  BY <1>0
<1>5. QED
  BY <1>0, <1>1, <1>2, <1>3, <1>4 DEF Uncomp20

LEMMA Reading16 ==
    \A x \in U16 : Concat(x \div 256, x % 256) = x
<1>1. \A x \in U16 : x \in Int
  BY DEF U16
<1>2. QED
  BY <1>1, Apart DEF Concat

----------------------------------------------------------------------------
(* The parsers give back what the chip holds.                              *)

(* Each word has one place among the registers.                            *)
LEMMA WordPlaces ==
    ASSUME NEW n \in TempPress \ {"dig_h1"}
    PROVE  \E k \in 0..11 :
              Words[k + 1] = n /\ \A j \in 0..11 : Words[j + 1] = n => j = k
<1>1. n \in {"dig_t1", "dig_t2", "dig_t3", "dig_p1", "dig_p2", "dig_p3",
             "dig_p4", "dig_p5", "dig_p6", "dig_p7", "dig_p8", "dig_p9"}
  BY DEF TempPress, Unsigned16, Signed16
<1>2. QED
  BY <1>1 DEF Words

LEMMA WordRegs ==
    ASSUME NEW k \in 0..11
    PROVE  LET w == nvm[Words[k + 1]]
           IN  /\ TempPressRegs[2 * k] = w % 256
               /\ TempPressRegs[2 * k + 1] = (w \div 256) % 256
<1>1. /\ 2 * k \in 0..25 /\ 2 * k < 24 /\ (2 * k) % 2 = 0
      /\ (2 * k) \div 2 = k
  OBVIOUS
<1>2. /\ 2 * k + 1 \in 0..25 /\ 2 * k + 1 < 24 /\ (2 * k + 1) % 2 = 1
      /\ (2 * k + 1) \div 2 = k
  OBVIOUS
<1>3. \A r \in 0..25 : r < 24 =>
          TempPressRegs[r] =
              LET w == nvm[Words[r \div 2 + 1]]
              IN  IF r % 2 = 0 THEN w % 256 ELSE (w \div 256) % 256
  BY DEF TempPressRegs
<1>4. QED
  BY <1>1, <1>2, <1>3

LEMMA TempPressRead ==
    ASSUME nvm \in Nvms, NEW n \in TempPress
    PROVE  ParseTempPress(TempPressRegs)[n] = nvm[n]
<1>1. CASE n = "dig_h1"
  BY <1>1 DEF ParseTempPress, TempPressRegs
<1>2. CASE n # "dig_h1"
  <2>. DEFINE k == CHOOSE j \in 0..11 : Words[j + 1] = n
              u == Concat(TempPressRegs[2 * k + 1], TempPressRegs[2 * k])
  <2>1. k \in 0..11 /\ Words[k + 1] = n
    BY <1>2, WordPlaces
  <2>2. u = Concat((nvm[n] \div 256) % 256, nvm[n] % 256)
    <3>. HIDE DEF k
    <3>1. /\ TempPressRegs[2 * k] = nvm[Words[k + 1]] % 256
          /\ TempPressRegs[2 * k + 1] = (nvm[Words[k + 1]] \div 256) % 256
      BY <2>1, WordRegs
    <3>2. QED
      BY <2>1, <3>1, Zenon
  <2>3. ParseTempPress(TempPressRegs)[n] =
            IF n \in Unsigned16 THEN u ELSE Int16(u)
    BY <1>2 DEF ParseTempPress
  <2>4. CASE n \in Unsigned16
    <3>1. nvm[n] \in U16
      BY <2>4, DataAssumption DEF Range, Names, TempPress, Unsigned16, Signed16,
                                  Signed12
    <3>2. QED
      BY <2>2, <2>3, <2>4, <3>1, Word16
  <2>5. CASE n \notin Unsigned16
    <3>1. n \in Signed16
      BY <1>2, <2>5 DEF TempPress
    <3>2. nvm[n] \in S16
      BY <3>1, DataAssumption DEF Range, Names, TempPress, Unsigned16, Signed16,
                                  Signed12
    <3>3. QED
      BY <2>2, <2>3, <2>5, <3>2, Word16
  <2>6. QED
    BY <2>4, <2>5
<1>3. QED
  BY <1>1, <1>2

LEMMA HumidRanges ==
    ASSUME nvm \in Nvms
    PROVE  /\ nvm["dig_h2"] \in S16
           /\ nvm["dig_h4"] \in S12 /\ nvm["dig_h5"] \in S12
           /\ nvm["dig_h6"] \in S8
<1>1. {"dig_h2", "dig_h4", "dig_h5", "dig_h6"} \subseteq Names
  BY DEF Names, Humid, Signed12
<1>2. QED
  BY <1>1, DataAssumption DEF Range, Unsigned16, Signed16, Signed12

LEMMA HumidRead ==
    ASSUME nvm \in Nvms, NEW n \in Humid
    PROVE  ParseHumid(HumidRegs)[n] = nvm[n]
<1>. DEFINE x == nvm["dig_h4"]
            y == nvm["dig_h5"]
<1>1. /\ HumidRegs[0] = nvm["dig_h2"] % 256
      /\ HumidRegs[1] = (nvm["dig_h2"] \div 256) % 256
      /\ HumidRegs[2] = nvm["dig_h3"]
      /\ HumidRegs[3] = (x \div 16) % 256
      /\ HumidRegs[4] = (x % 16) + 16 * (y % 16)
      /\ HumidRegs[5] = (y \div 16) % 256
      /\ HumidRegs[6] = nvm["dig_h6"] % 256
  BY DEF HumidRegs
<1>2. ParseHumid(HumidRegs)["dig_h2"] = nvm["dig_h2"]
  BY <1>1, HumidRanges, Word16 DEF ParseHumid, Humid
<1>3. ParseHumid(HumidRegs)["dig_h3"] = nvm["dig_h3"]
  BY <1>1 DEF ParseHumid, Humid
<1>4. ParseHumid(HumidRegs)["dig_h4"] = x
  BY <1>1, HumidRanges, Shared12 DEF ParseHumid, Humid, Signed12
<1>5. ParseHumid(HumidRegs)["dig_h5"] = y
  BY <1>1, HumidRanges, Shared12 DEF ParseHumid, Humid, Signed12
<1>6. ParseHumid(HumidRegs)["dig_h6"] = nvm["dig_h6"]
  BY <1>1, HumidRanges, SignedByte DEF ParseHumid, Humid
<1>7. QED
  BY <1>2, <1>3, <1>4, <1>5, <1>6 DEF Humid, Signed12

LEMMA SampleRead ==
    ASSUME adc \in Samples, NEW c \in Components
    PROVE  ParseSensorData(DataRegs)[c] = adc[c]
<1>1. /\ adc.pressure \in Bits20 /\ adc.temperature \in Bits20
      /\ adc.humidity \in U16
  BY DataAssumption
<1>2. ParseSensorData(DataRegs)["pressure"] = adc.pressure
  BY <1>1, Reading20 DEF ParseSensorData, DataRegs, Components
<1>3. ParseSensorData(DataRegs)["temperature"] = adc.temperature
  BY <1>1, Reading20 DEF ParseSensorData, DataRegs, Components
<1>4. ParseSensorData(DataRegs)["humidity"] = adc.humidity
  BY <1>1, Reading16 DEF ParseSensorData, DataRegs, Components
<1>5. QED
  BY <1>2, <1>3, <1>4 DEF Components

----------------------------------------------------------------------------
(* The chip holds numbers of its registers' widths.                        *)
Chip == nvm \in Nvms /\ adc \in Samples

LEMMA ChipKept == Chip /\ [Next]_vars => Chip'
BY DEF Chip, Next, vars, Measure, GetCalibData, GetSensorData, CalMeasDelay

(* Each call is judged when it ends, by what it found and what it left.    *)
IInv == Chip /\ CalibIsTrue /\ OneSample /\ DelayCovers

LEMMA Begin == Init => IInv
BY DEF Init, IInv, Chip, CalibIsTrue, OneSample, DelayCovers

LEMMA CalibRead == Chip /\ GetCalibData => CalibIsTrue'
<1>. SUFFICES ASSUME Chip, GetCalibData, asked'.call = "calib", asked'.ok
              PROVE  calib_data' = nvm'
  BY DEF CalibIsTrue
<1>1. calib_data' = [n \in Names |->
          IF n \in TempPress THEN ParseTempPress(TempPressRegs)[n]
          ELSE ParseHumid(HumidRegs)[n]]
  BY DEF GetCalibData
<1>2. \A n \in Names : calib_data'[n] = nvm[n]
  BY <1>1, TempPressRead, HumidRead DEF Chip, Names
<1>3. nvm \in [Names -> Int] /\ nvm' = nvm
  BY DataAssumption DEF Chip, GetCalibData
<1>4. QED
  BY <1>1, <1>2, <1>3

LEMMA SampleCompensated ==
    ASSUME Chip, NEW sel \in SUBSET Components, GetSensorData(sel)
    PROVE  OneSample'
<1>. SUFFICES ASSUME asked'.ok, sel # {}
              PROVE  /\ comp_data'["temperature"] = <<adc.temperature>>
                     /\ \A c \in Components \ {"temperature"} :
                           comp_data'[c] = IF c \in sel
                                           THEN <<adc[c], <<adc.temperature>>>>
                                           ELSE <<>>
  BY DEF GetSensorData, OneSample
<1>. DEFINE raw == ParseSensorData(DataRegs)
<1>1. CompensateData(sel, raw)
  BY DEF GetSensorData
<1>2. \A c \in Components : raw[c] = adc[c]
  BY SampleRead DEF Chip
<1>3. raw.temperature = adc.temperature
  BY <1>2 DEF Components
<1>. HIDE DEF raw
<1>4. t_fine' = <<adc.temperature>>
  BY <1>1, <1>3 DEF CompensateData
<1>5. comp_data'["temperature"] = <<adc.temperature>>
  BY <1>1, <1>4 DEF CompensateData, Components
<1>6. ASSUME NEW c \in Components \ {"temperature"}
      PROVE  comp_data'[c] = IF c \in sel THEN <<adc[c], <<adc.temperature>>>>
                             ELSE <<>>
  BY <1>1, <1>2, <1>4 DEF CompensateData
<1>7. QED
  BY <1>5, <1>6

(* The two tables agree on every byte, and at most the two fixed parts are *)
(* counted although the component is not measured.                         *)
LEMMA DelaysAgree ==
    ASSUME NEW t \in Bytes, NEW p \in Bytes, NEW h \in Bytes
    PROVE  LET d == ChipDelay(t, p, h)
           IN  d <= MeasDelay(t, p, h) /\ MeasDelay(t, p, h) <= d + 1150
<1>1. \A v \in Bytes : ActualOsr(v) = Osr(v) /\ Osr(v) \in 0..16
  <2>. SUFFICES ASSUME NEW v \in Bytes
                PROVE  ActualOsr(v) = Osr(v) /\ Osr(v) \in 0..16
    OBVIOUS
  <2>1. CASE v \in 0..5
    BY <2>1 DEF ActualOsr, OsrTable, Osr
  <2>2. CASE v > 5
    BY <2>2 DEF ActualOsr, Osr, Bytes
  <2>3. QED
    BY <2>1, <2>2 DEF Bytes
<1>2. \A x, y, z \in 0..16 : \A a, b \in {0, 575} :
          LET d == 1250 + 2300 * (x + y + z) + a + b
              m == 1250 + 2300 * x + (2300 * y + 575) + (2300 * z + 575)
          IN  d <= m /\ m <= d + 1150
  OBVIOUS
<1>3. ChipDelay(t, p, h) = 1250 + 2300 * (Osr(t) + Osr(p) + Osr(h))
           + (IF p > 0 THEN 575 ELSE 0) + (IF h > 0 THEN 575 ELSE 0)
  BY DEF ChipDelay
<1>4. MeasDelay(t, p, h) =
          1250 + 2300 * Osr(t) + (2300 * Osr(p) + 575) + (2300 * Osr(h) + 575)
  <2>1. ActualOsr(t) = Osr(t) /\ ActualOsr(p) = Osr(p) /\ ActualOsr(h) = Osr(h)
    BY <1>1
  <2>2. MeasDelay(t, p, h) = 1250 + 2300 * ActualOsr(t) + (2300 * ActualOsr(p) + 575)
                                  + (2300 * ActualOsr(h) + 575)
    BY DEF MeasDelay
  <2>3. QED
    BY <2>1, <2>2
<1>5. Osr(t) \in 0..16 /\ Osr(p) \in 0..16 /\ Osr(h) \in 0..16
  BY <1>1
<1>6. QED
  <2>. DEFINE x == Osr(t)  y == Osr(p)  z == Osr(h)
              a == IF p > 0 THEN 575 ELSE 0
              b == IF h > 0 THEN 575 ELSE 0
  <2>1. x \in 0..16 /\ y \in 0..16 /\ z \in 0..16 /\ a \in {0, 575} /\ b \in {0, 575}
    BY <1>5
  <2>2. /\ ChipDelay(t, p, h) = 1250 + 2300 * (x + y + z) + a + b
        /\ MeasDelay(t, p, h) = 1250 + 2300 * x + (2300 * y + 575) + (2300 * z + 575)
    BY <1>3, <1>4
  <2>. HIDE DEF x, y, z, a, b
  <2>3. QED
    BY <1>2, <2>1, <2>2

LEMMA Step == IInv /\ [Next]_vars => IInv'
<1>. SUFFICES ASSUME IInv, [Next]_vars PROVE IInv'
  OBVIOUS
<1>0. Chip /\ Chip'
  BY ChipKept DEF IInv
<1>1. CASE Measure
  BY <1>0, <1>1 DEF Measure, IInv, CalibIsTrue, OneSample, DelayCovers
<1>2. CASE GetCalibData
  <2>1. OneSample' /\ DelayCovers'
    BY <1>2 DEF GetCalibData, OneSample, DelayCovers
  <2>2. QED
    BY <1>0, <1>2, <2>1, CalibRead DEF IInv
<1>3. ASSUME NEW sel \in SUBSET Components, GetSensorData(sel)
      PROVE  IInv'
  <2>1. CalibIsTrue' /\ DelayCovers'
    BY <1>3 DEF GetSensorData, CalibIsTrue, DelayCovers
  <2>2. QED
    BY <1>0, <1>3, <2>1, SampleCompensated DEF IInv
<1>4. ASSUME NEW t \in Settings, NEW p \in Settings, NEW h \in Settings,
             CalMeasDelay(t, p, h)
      PROVE  IInv'
  <2>1. CalibIsTrue' /\ OneSample'
    BY <1>4 DEF CalMeasDelay, CalibIsTrue, OneSample
  <2>2. /\ max_delay' = MeasDelay(t, p, h)
        /\ asked' = [call |-> "delay", t |-> t, p |-> p, h |-> h]
    BY <1>4 DEF CalMeasDelay
  <2>3. DelayCovers'
    BY <2>2, DelaysAgree, DataAssumption DEF DelayCovers
  <2>4. QED
    BY <1>0, <2>1, <2>3 DEF IInv
<1>5. CASE UNCHANGED vars
  BY <1>0, <1>5 DEF vars, IInv, CalibIsTrue, OneSample, DelayCovers
<1>6. QED
  BY <1>1, <1>2, <1>3, <1>4, <1>5 DEF Next

(* IInv is an inductive invariant.                                         *)
THEOREM Inductive == Spec => []IInv
BY Begin, Step, PTL DEF Spec

(* Whatever numbers the chip is calibrated with, reading them without an   *)
(* error gives exactly them (get_calib_data, bme280.c:1434-1527).          *)
THEOREM CalibrationTrue == Spec => []CalibIsTrue
BY Inductive, PTL DEF IInv

(* A caller's sample is one sample, for every pair of samples and every    *)
(* selection (bme280_get_sensor_data, bme280.c:715-793).                   *)
THEOREM SamplesWhole == Spec => []OneSample
BY Inductive, PTL DEF IInv

(* The delay covers the chip's measurement for every three bytes           *)
(* (bme280_cal_meas_delay, bme280.c:799-850).                              *)
THEOREM DelayIsEnough == Spec => []DelayCovers
BY Inductive, PTL DEF IInv

=============================================================================
