---------------------------- MODULE Bme280Proofs ----------------------------
(***************************************************************************)
(* Proofs about Bme280, for every set of selections and values.            *)
(*                                                                         *)
(* NoStrayMode and ConfigOnlyAsleep compare two states of a step.  What    *)
(* makes them true is an invariant over the whole series of transfers: the *)
(* chip sleeps at each of them that writes a setting, and the register     *)
(* that was read to be written back says so too.                           *)
(*                                                                         *)
(* What a call has achieved by its end is judged by OkMeansDone,           *)
(* CleanCallIsComplete and NothingInvented.  Their invariant, WorkInv,     *)
(* follows each setting through the transfers: what it is before and after *)
(* those that write it, and what was read to be written back.              *)
(***************************************************************************)
EXTENDS Bme280, TLAPS

(* The transfers made to a sleeping chip.                                  *)
AtRest == {"status", "hum", "hum_read", "hum_write", "pt_read", "pt_write",
           "cfg_read", "cfg_write", "pwr_read", "pwr_write"}

(* A reset that is not the caller's is part of a reload, which only        *)
(* set_sensor_mode and set_sensor_settings make.                           *)
SleepInv ==
    /\ pc \in AtRest /\ (pc # "status" \/ op.name \notin {"init", "reset"})
          => Mode(ctrl_meas) = 0
    /\ pc \in {"hum_write", "pt_write"} => Mode(reg_data) = 0
    /\ pc \in {"pwr_read", "pwr_write"} => op.name = "mode"
    /\ pc = "pwr_write" => Mode(reg_data) = op.value

IInv == TypeOK /\ SleepInv

----------------------------------------------------------------------------
(* The registers' fields (bme280_defs.h:248-258).                          *)

LEMMA FieldFits ==
    ASSUME NEW b \in Bytes, NEW unit \in {1, 4, 32}, NEW d \in Nat
    PROVE  SetBits(b, unit, 8, d) \in Bytes
<1>. USE DEF SetBits, GetBits, Bytes
<1>1. d % 8 \in 0..7
  OBVIOUS
<1>2. CASE unit = 1
  BY <1>1, <1>2
<1>3. CASE unit = 4
  BY <1>1, <1>3
<1>4. CASE unit = 32
  BY <1>1, <1>4
<1>5. QED
  BY <1>2, <1>3, <1>4

(* A field of a byte has three bits, and so fits a setting.                *)
LEMMA FieldRange ==
    ASSUME NEW b \in Bytes, NEW f \in Settings
    PROVE  Get(f, b) \in 0..7
<1>1. Unit(f) \in {1, 4, 32}
  BY DEF Unit, Settings
<1>2. QED
  BY <1>1 DEF Get, GetBits, Bytes

(* Writing a field leaves a byte a byte and, but for the humidity's, does  *)
(* not touch the two bits of the mode.                                     *)
LEMMA SetField ==
    ASSUME NEW b \in Bytes, NEW f \in Settings \ {"osr_h"}, NEW d \in Nat
    PROVE  Set(f, b, d) \in Bytes /\ Mode(Set(f, b, d)) = Mode(b)
<1>1. Unit(f) \in {4, 32}
  BY DEF Unit, Settings
<1>2. Set(f, b, d) \in Bytes
  BY <1>1, FieldFits DEF Set
<1>3. d % 8 \in 0..7
  OBVIOUS
<1>4. CASE Unit(f) = 4
  BY <1>3, <1>4 DEF Set, SetBits, GetBits, Mode, Bytes
<1>5. CASE Unit(f) = 32
  BY <1>3, <1>5 DEF Set, SetBits, GetBits, Mode, Bytes
<1>6. QED
  BY <1>1, <1>2, <1>4, <1>5

(* Writing the mode sets the mode.                                         *)
LEMMA SetMode ==
    ASSUME NEW b \in Bytes, NEW m \in Modes
    PROVE  SetBits(b, 1, 4, m) \in Bytes /\ Mode(SetBits(b, 1, 4, m)) = m
BY DEF SetBits, GetBits, Mode, Bytes, Modes

LEMMA SetLow ==
    ASSUME NEW b \in Bytes, NEW m \in 0..255
    PROVE  SetBits(b, 1, 4, m) \in Bytes
BY DEF SetBits, GetBits, Bytes

LEMMA ResetMode == Mode(0) = 0
BY DEF Mode, GetBits

----------------------------------------------------------------------------
(* The values written.                                                     *)

LEMMA OpValue ==
    ASSUME TypeOK
    PROVE  /\ op.value \in 0..255
           /\ op.name = "mode" => op.value \in Modes /\ op.sel = {}
           /\ op.name \in {"init", "reset", "get", "mode", "settings"}
<1>1. op \in Ops
  BY DEF TypeOK
<1>2. CASE op \in {[name |-> n, sel |-> {}, value |-> 0] : n \in {"init", "reset", "get"}}
  BY <1>2
<1>3. CASE op \in [name : {"mode"}, sel : {{}}, value : Modes]
  BY <1>3 DEF Modes
<1>4. CASE op \in [name : {"settings"}, sel : Selections, value : Values]
  BY <1>4, Bme280Assumption
<1>5. QED
  BY <1>1, <1>2, <1>3, <1>4 DEF Ops

LEMMA WantedValue ==
    ASSUME TypeOK, NEW f \in Settings
    PROVE  Wanted(f) \in 0..255
<1>1. settings[f] \in 0..7
  BY DEF TypeOK
<1>2. QED
  BY <1>1, OpValue DEF Wanted

LEMMA FilledByte ==
    ASSUME TypeOK, NEW b \in Bytes, NEW f \in Settings \ {"osr_h"}
    PROVE  Filled(f, b) \in Bytes /\ Mode(Filled(f, b)) = Mode(b)
<1>1. Wanted(f) \in Nat
  BY WantedValue
<1>2. QED
  BY <1>1, SetField DEF Filled

LEMMA ParsedType ==
    ASSUME TypeOK
    PROVE  Parsed \in [Settings -> 0..7]
<1>1. ctrl_hum \in Bytes /\ ctrl_meas \in Bytes /\ config \in Bytes
  BY DEF TypeOK
<1>2. \A f \in Settings : Get(f, ctrl_hum) \in 0..7 /\ Get(f, ctrl_meas) \in 0..7
                          /\ Get(f, config) \in 0..7
  BY <1>1, FieldRange
<1>3. QED
  BY <1>2 DEF Parsed, Settings

----------------------------------------------------------------------------
(* Every variable keeps its type: no field written to a register spills    *)
(* out of its byte, and no other name is ever next or returned.            *)
THEOREM TypeCorrect == Spec => []TypeOK
<1>1. Init => TypeOK
  <2>. SUFFICES ASSUME Init PROVE TypeOK
    OBVIOUS
  <2>1. op \in Ops
    <3>1. op = [name |-> "get", sel |-> {}, value |-> 0]
      BY DEF Init
    <3>2. QED
      BY <3>1 DEF Ops
  <2>2. {ctrl_hum, ctrl_meas, config, reg_data} \subseteq Bytes /\ hum_used \in Bytes
    BY DEF Init, Bytes
  <2>3. settings \in [Settings -> 0..7] /\ before \in [Settings -> 0..7]
    BY DEF Init, NoSettings
  <2>4. /\ pc = "idle" /\ reload = FALSE /\ failed = FALSE /\ try_run \in 0..5
        /\ calib = "none" /\ result = "none"
    BY DEF Init
  <2>5. QED
    BY <2>1, <2>2, <2>3, <2>4 DEF TypeOK
<1>2. TypeOK /\ [Next]_vars => TypeOK'
  <2>. SUFFICES ASSUME TypeOK, [Next]_vars PROVE TypeOK'
    OBVIOUS
  <2>. USE DEF chip, local, call, Read, Goto, Return, BusError
  <2>1. ASSUME NEW o \in Ops, Call(o) PROVE TypeOK'
    <3>1. pc' \in {"id", "reset", "save", "mode"}
      BY <2>1, Zenon DEF Call
    <3>2. /\ op' \in Ops /\ before' = Parsed /\ failed' = FALSE /\ result' = "none"
          /\ reload' = FALSE /\ settings' = NoSettings /\ reg_data' = 0 /\ try_run' = 0
          /\ UNCHANGED <<ctrl_hum, hum_used, ctrl_meas, config, calib>>
      BY <2>1 DEF Call
    <3>3. settings' \in [Settings -> 0..7] /\ before' \in [Settings -> 0..7]
      BY <3>2, ParsedType DEF NoSettings
    <3>4. reg_data' \in Bytes /\ try_run' \in 0..5
      BY <3>2 DEF Bytes
    <3>5. QED
      BY <3>1, <3>2, <3>3, <3>4 DEF TypeOK
  <2>2. CASE ReadChipId
    BY <2>2 DEF ReadChipId, TypeOK
  <2>3. CASE GetMode
    BY <2>3 DEF GetMode, Asleep, TypeOK
  <2>4. CASE ReadSettings
    BY <2>4, ParsedType DEF ReadSettings, TypeOK
  <2>5. CASE WriteReset
    <3>1. {ctrl_hum', ctrl_meas', config'} \subseteq Bytes /\ hum_used' \in Bytes
      BY <2>5 DEF WriteReset, ChipResets, TypeOK, Bytes
    <3>2. try_run' \in 0..5
      BY <2>5 DEF WriteReset, TypeOK
    <3>3. /\ pc' \in {"status", "idle"} /\ failed' \in BOOLEAN
          /\ result' \in {result, "COMM_FAIL"}
          /\ UNCHANGED <<reload, settings, reg_data, op, before, calib>>
      BY <2>5 DEF WriteReset, TypeOK
    <3>4. QED
      BY <3>1, <3>2, <3>3 DEF TypeOK
  <2>6. CASE ReadStatus
    <3>1. try_run' \in 0..5
      BY <2>6 DEF ReadStatus, TypeOK
    <3>2. /\ pc' \in {"calib_tp", "hum", "status", "idle"} /\ failed' \in BOOLEAN
          /\ result' \in {result, "OK", "COMM_FAIL", "NVM_COPY_FAILED"}
          /\ UNCHANGED <<ctrl_hum, hum_used, ctrl_meas, config>>
          /\ UNCHANGED <<reload, settings, reg_data, op, before, calib>>
      BY <2>6 DEF ReadStatus, TypeOK
    <3>3. QED
      BY <3>1, <3>2 DEF TypeOK
  <2>7. CASE ReadCalib
    BY <2>7 DEF ReadCalib, TypeOK
  <2>8. CASE WriteHum
    <3>1. Wanted("osr_h") \in 0..255
      BY WantedValue DEF Settings
    <3>2. Wanted("osr_h") % 8 \in Bytes
      BY <3>1 DEF Bytes
    <3>3. QED
      BY <2>8, <3>2 DEF WriteHum, HumFails, TypeOK
  <2>9. CASE HumRead
    BY <2>9 DEF HumRead, HumFails, TypeOK
  <2>10. CASE HumWrite
    BY <2>10 DEF HumWrite, WriteMeas, HumNext, OsrWritten, Written, Asleep, HumFails, TypeOK
  <2>11. CASE PressTempRead
    <3>1. Filled("osr_t", Filled("osr_p", ctrl_meas)) \in Bytes
      <4>1. ctrl_meas \in Bytes /\ {"osr_p", "osr_t"} \subseteq Settings \ {"osr_h"}
        BY DEF TypeOK, Settings
      <4>2. Filled("osr_p", ctrl_meas) \in Bytes
        BY <4>1, FilledByte
      <4>3. QED
        BY <4>1, <4>2, FilledByte
    <3>2. QED
      BY <2>11, <3>1 DEF PressTempRead, TypeOK
  <2>12. CASE PressTempWrite
    BY <2>12 DEF PressTempWrite, WriteMeas, OsrWritten, Written, Asleep, TypeOK
  <2>13. CASE ConfigRead
    <3>1. Filled("standby", Filled("filter", config)) \in Bytes
      <4>1. config \in Bytes /\ {"filter", "standby"} \subseteq Settings \ {"osr_h"}
        BY DEF TypeOK, Settings
      <4>2. Filled("filter", config) \in Bytes
        BY <4>1, FilledByte
      <4>3. QED
        BY <4>1, <4>2, FilledByte
    <3>2. QED
      BY <2>13, <3>1 DEF ConfigRead, TypeOK
  <2>14. CASE ConfigWrite
    BY <2>14 DEF ConfigWrite, Written, Asleep, TypeOK
  <2>15. CASE PowerRead
    <3>1. SetBits(ctrl_meas, 1, 4, op.value) \in Bytes
      BY SetLow, OpValue DEF TypeOK
    <3>2. QED
      BY <2>15, <3>1 DEF PowerRead, TypeOK
  <2>16. CASE PowerWrite
    BY <2>16 DEF PowerWrite, WriteMeas, TypeOK
  <2>17. CASE ForcedDone
    BY <2>17, SetMode DEF ForcedDone, TypeOK, Modes
  <2>18. CASE UNCHANGED vars
    BY <2>18 DEF vars, TypeOK
  <2>19. QED
    BY <2>1, <2>2, <2>3, <2>4, <2>5, <2>6, <2>7, <2>8, <2>9, <2>10, <2>11, <2>12,
       <2>13, <2>14, <2>15, <2>16, <2>17, <2>18 DEF Next, Transfer
<1>3. QED
  BY <1>1, <1>2, PTL DEF Spec

----------------------------------------------------------------------------
(* What is read to be written back, from a chip that sleeps.               *)
LEMMA FilledTwice ==
    ASSUME TypeOK, NEW b \in Bytes, NEW f \in Settings \ {"osr_h"},
           NEW g \in Settings \ {"osr_h"}
    PROVE  Mode(Filled(g, Filled(f, b))) = Mode(b)
<1>1. Filled(f, b) \in Bytes /\ Mode(Filled(f, b)) = Mode(b)
  BY FilledByte
<1>2. QED
  BY <1>1, FilledByte

LEMMA SleepKept == IInv /\ [Next]_vars => SleepInv'
<1>. SUFFICES ASSUME IInv, [Next]_vars PROVE SleepInv'
  OBVIOUS
<1>. USE DEF IInv, SleepInv, AtRest, chip, local, call, Read, Goto, Return, BusError
<1>1. ASSUME NEW o \in Ops, Call(o) PROVE SleepInv'
  <2>1. pc' \in {"id", "reset", "save", "mode"}
    BY <1>1, Zenon DEF Call
  <2>2. QED
    BY <2>1
<1>2. CASE ReadChipId
  BY <1>2 DEF ReadChipId
<1>3. CASE GetMode
  <2>1. CASE Mode(ctrl_meas) = 0 /\ Asleep
    <3>1. /\ pc' \in {"hum", "pt_read", "cfg_read", "idle", "pwr_read"}
          /\ pc' = "pwr_read" => op.name = "mode"
      BY <2>1 DEF Asleep
    <3>2. UNCHANGED <<ctrl_meas, op>>
      BY <1>3 DEF GetMode
    <3>3. Mode(ctrl_meas') = 0
      BY <2>1, <3>2
    <3>4. QED
      BY <3>1, <3>2, <3>3
  <2>2. CASE pc' \in {"save", "idle"}
    BY <2>2
  <2>3. QED
    BY <1>3, <2>1, <2>2 DEF GetMode
<1>4. CASE ReadSettings
  BY <1>4 DEF ReadSettings
<1>5. CASE WriteReset
  BY <1>5, ResetMode DEF WriteReset, ChipResets
<1>6. CASE ReadStatus
  BY <1>6 DEF ReadStatus
<1>7. CASE ReadCalib
  BY <1>7 DEF ReadCalib
<1>8. CASE WriteHum
  BY <1>8 DEF WriteHum, HumFails
<1>9. CASE HumRead
  BY <1>9 DEF HumRead, HumFails
<1>10. CASE HumWrite
  <2>1. Mode(ctrl_meas') = 0 /\ UNCHANGED op
    BY <1>10 DEF HumWrite, WriteMeas
  <2>2. /\ pc' \in {"hum", "pt_read", "cfg_read", "idle", "pwr_read"}
        /\ pc' = "pwr_read" => op.name = "mode"
    BY <1>10 DEF HumWrite, HumNext, HumFails, OsrWritten, Written, Asleep
  <2>3. QED
    BY <2>1, <2>2
<1>11. CASE PressTempRead
  <2>1. Mode(Filled("osr_t", Filled("osr_p", ctrl_meas))) = Mode(ctrl_meas)
    BY FilledTwice DEF TypeOK, Settings
  <2>2. QED
    BY <1>11, <2>1 DEF PressTempRead
<1>12. CASE PressTempWrite
  <2>1. Mode(ctrl_meas') = 0 /\ UNCHANGED op
    BY <1>12 DEF PressTempWrite, WriteMeas
  <2>2. /\ pc' \in {"hum", "pt_read", "cfg_read", "idle", "pwr_read"}
        /\ pc' = "pwr_read" => op.name = "mode"
    BY <1>12 DEF PressTempWrite, OsrWritten, Written, Asleep
  <2>3. QED
    BY <2>1, <2>2
<1>13. CASE ConfigRead
  BY <1>13 DEF ConfigRead
<1>14. CASE ConfigWrite
  <2>1. Mode(ctrl_meas') = 0 /\ UNCHANGED op
    BY <1>14 DEF ConfigWrite
  <2>2. /\ pc' \in {"hum", "pt_read", "cfg_read", "idle", "pwr_read"}
        /\ pc' = "pwr_read" => op.name = "mode"
    BY <1>14 DEF ConfigWrite, Written, Asleep
  <2>3. QED
    BY <2>1, <2>2
<1>15. CASE PowerRead
  <2>1. op.value \in Modes
    BY <1>15, OpValue DEF PowerRead
  <2>2. Mode(SetBits(ctrl_meas, 1, 4, op.value)) = op.value
    BY <2>1, SetMode DEF TypeOK
  <2>3. QED
    BY <1>15, <2>2 DEF PowerRead
<1>16. CASE PowerWrite
  BY <1>16 DEF PowerWrite
<1>17. CASE ForcedDone
  <2>1. Mode(SetBits(ctrl_meas, 1, 4, 0)) = 0
    BY SetMode DEF TypeOK, Modes
  <2>2. Mode(ctrl_meas') = 0 /\ UNCHANGED <<pc, op, reg_data>>
    BY <1>17, <2>1 DEF ForcedDone
  <2>3. QED
    BY <2>2
<1>18. CASE UNCHANGED vars
  BY <1>18 DEF vars
<1>19. QED
  BY <1>1, <1>2, <1>3, <1>4, <1>5, <1>6, <1>7, <1>8, <1>9, <1>10, <1>11, <1>12,
     <1>13, <1>14, <1>15, <1>16, <1>17, <1>18 DEF Next, Transfer

(* The chip sleeps at every transfer that writes a setting, whichever      *)
(* transfers failed before, and what is written back leaves it asleep.     *)
THEOREM WritesAtRest == Spec => []IInv
<1>1. Init => SleepInv
  BY DEF Init, SleepInv, AtRest
<1>2. IInv /\ [Next]_vars => SleepInv'
  BY SleepKept
<1>3. QED
  BY <1>1, <1>2, TypeCorrect, PTL DEF Spec, IInv

(* A measurement begins in one place and as the caller asked               *)
(* (write_power_mode, bme280.c:1056): settings share its register but      *)
(* their transfers never start one.                                        *)
THEOREM ModeOnlyOnRequest == Spec => NoStrayMode
<1>. DEFINE Step == LET mode == Mode(ctrl_meas)
                    IN  mode' \notin {0, mode} => pc = "pwr_write" /\ mode' = op.value
<1>1. IInv /\ [Next]_vars => [Step]_vars
  <2>. SUFFICES ASSUME IInv, Next PROVE Step
    OBVIOUS
  <2>. USE DEF IInv, SleepInv, chip
  <2>1. CASE UNCHANGED ctrl_meas
    BY <2>1
  <2>2. CASE ctrl_meas' = 0
    BY <2>2, ResetMode
  <2>3. CASE HumWrite \/ PressTempWrite
    BY <2>3 DEF HumWrite, PressTempWrite, WriteMeas
  <2>4. CASE PowerWrite
    BY <2>4 DEF PowerWrite, WriteMeas
  <2>5. CASE ForcedDone
    <3>1. Mode(SetBits(ctrl_meas, 1, 4, 0)) = 0
      BY SetMode DEF TypeOK, Modes
    <3>2. QED
      BY <2>5, <3>1 DEF ForcedDone
  <2>6. CASE WriteReset
    BY <2>6, <2>1, <2>2 DEF WriteReset, ChipResets
  <2>7. ASSUME NEW o \in Ops, Call(o) PROVE UNCHANGED ctrl_meas
    BY <2>7 DEF Call
  <2>8. CASE ReadChipId \/ GetMode \/ ReadSettings \/ ReadStatus \/ ReadCalib
    BY <2>8, <2>1 DEF ReadChipId, GetMode, ReadSettings, ReadStatus, ReadCalib
  <2>9. CASE WriteHum \/ HumRead \/ PressTempRead \/ ConfigRead \/ ConfigWrite \/ PowerRead
    BY <2>9, <2>1 DEF WriteHum, HumRead, PressTempRead, ConfigRead, ConfigWrite, PowerRead
  <2>10. QED
    BY <2>1, <2>3, <2>4, <2>5, <2>6, <2>7, <2>8, <2>9 DEF Next, Transfer
<1>2. QED
  BY <1>1, WritesAtRest, PTL DEF Spec, NoStrayMode

(* The configuration register, whose writes a measuring chip may ignore,   *)
(* is written while the chip sleeps (bme280.c:566).                        *)
THEOREM ConfigAtRest == Spec => ConfigOnlyAsleep
<1>1. IInv /\ [Next]_vars => [config' # config => Mode(ctrl_meas) = 0 \/ ChipResets]_vars
  <2>. SUFFICES ASSUME IInv, Next, config' # config
                PROVE  Mode(ctrl_meas) = 0 \/ ChipResets
    OBVIOUS
  <2>. USE DEF chip
  <2>1. CASE ConfigWrite
    BY <2>1 DEF ConfigWrite, IInv, SleepInv, AtRest
  <2>2. CASE WriteReset
    BY <2>2 DEF WriteReset
  <2>3. ASSUME NEW o \in Ops, Call(o) PROVE FALSE
    BY <2>3 DEF Call
  <2>4. CASE ReadChipId \/ GetMode \/ ReadSettings \/ ReadStatus \/ ReadCalib
    BY <2>4 DEF ReadChipId, GetMode, ReadSettings, ReadStatus, ReadCalib
  <2>5. CASE WriteHum \/ HumRead \/ PressTempRead \/ ConfigRead \/ PowerRead
    BY <2>5 DEF WriteHum, HumRead, PressTempRead, ConfigRead, PowerRead
  <2>6. CASE HumWrite \/ PressTempWrite \/ PowerWrite \/ ForcedDone
    BY <2>6 DEF HumWrite, PressTempWrite, PowerWrite, WriteMeas, ForcedDone
  <2>7. QED
    BY <2>1, <2>2, <2>3, <2>4, <2>5, <2>6 DEF Next, Transfer
<1>2. QED
  BY <1>1, WritesAtRest, PTL DEF Spec, ConfigOnlyAsleep

----------------------------------------------------------------------------
(* What a call has done by the time it makes its next transfer.  A series  *)
(* of writes goes from one value of each setting to another: with reload   *)
(* from the defaults to the settings as they were, and without it from     *)
(* those to the caller's.                                                  *)
PressTemp == {"osr_p", "osr_t"}
FiltStand == {"filter", "standby"}

HumSteps == {"hum", "hum_read", "hum_write"}
PtSteps  == {"pt_read", "pt_write"}
CfgSteps == {"cfg_read", "cfg_write"}
PwrSteps == {"pwr_read", "pwr_write"}
Writing  == HumSteps \cup PtSteps \cup CfgSteps

From(f)  == IF reload THEN 0 ELSE before[f]
Asked(f) == IF f \in op.sel THEN op.value % 8 ELSE before[f]
Goal(f)  == IF reload THEN before[f] ELSE Asked(f)

(* Who makes which transfer.                                               *)
Maker ==
    /\ pc = "id" => op.name = "init" /\ ~ reload
    /\ pc = "mode" => op.name \in {"mode", "settings"} /\ ~ reload
    /\ pc = "save" => op.name \in IF reload THEN {"mode", "settings"} ELSE {"get"}
    /\ pc \in {"reset", "status"} =>
          op.name \in IF reload THEN {"mode", "settings"} ELSE {"init", "reset"}
    /\ pc \in {"calib_tp", "calib_h"} => op.name = "init"
    /\ pc \in Writing =>
          op.name \in IF reload THEN {"mode", "settings"} ELSE {"settings"}
    /\ pc \in PwrSteps => op.name = "mode" /\ ~ reload
    /\ pc # "idle" => result = "none"
    /\ result \notin {"none", "OK"} => failed

(* Until the chip is reset or written it is as it was; a reset clears it.  *)
Untouched ==
    /\ pc \in {"id", "mode", "save", "reset"} => Parsed = before /\ ~ failed
    /\ pc \in {"status", "calib_tp", "calib_h"} =>
          ctrl_hum = 0 /\ ctrl_meas = 0 /\ config = 0
    /\ reload /\ pc \in {"reset", "status"} \cup Writing => settings = before

(* Pressure and temperature, and the register read to be written back.     *)
PressTempWork ==
    \A f \in PressTemp :
        /\ pc \in HumSteps \cup PtSteps => Parsed[f] = From(f)
        /\ pc \in CfgSteps => Parsed[f] = Goal(f)
        /\ pc \in PwrSteps => Parsed[f] = before[f]
        /\ pc = "hum_write" => Get(f, reg_data) = From(f)
        /\ pc = "pt_write"  => Get(f, reg_data) = Goal(f)
        /\ pc = "pwr_write" => Get(f, reg_data) = before[f]

(* Filter and standby.                                                     *)
ConfigWork ==
    \A f \in FiltStand :
        /\ pc \in Writing => Parsed[f] = From(f)
        /\ pc \in PwrSteps => Parsed[f] = before[f]
        /\ pc = "cfg_write" => Get(f, reg_data) = Goal(f)

(* Humidity, whose failures are not always noticed.                        *)
HumWork ==
    /\ pc = "hum" =>
          Parsed["osr_h"] = From("osr_h") \/ (failed /\ Parsed["osr_h"] = 0)
    /\ pc \in (Writing \ {"hum"}) \cup PwrSteps =>
          \/ Parsed["osr_h"] = Goal("osr_h")
          \/ failed /\ Parsed["osr_h"] \in {0, before["osr_h"]}
    /\ pc \in HumSteps => reload \/ "osr_h" \in op.sel
    /\ pc \in PtSteps \cup CfgSteps /\ ~ reload /\ ~ failed /\ "osr_h" \in op.sel
          => hum_used = ctrl_hum

Stage == Maker /\ Untouched /\ PressTempWork /\ ConfigWork /\ HumWork

Judged == OkMeansDone /\ CleanCallIsComplete

(* NothingInvented, but at every transfer of a call.                       *)
Kept ==
    \A f \in Settings :
        \/ Parsed[f] = before[f]
        \/ f \in op.sel /\ Parsed[f] = op.value % 8
        \/ Parsed[f] = 0 /\ \/ reload \/ op.name \in {"init", "reset"}
                            \/ f = "osr_h" /\ failed

WorkInv == Stage /\ Judged /\ Kept

----------------------------------------------------------------------------
(* Fields: reading back what was written, and the other field of the same  *)
(* register.                                                               *)

LEMMA GetSet ==
    ASSUME NEW b \in Bytes, NEW d \in Nat,
           NEW f \in Settings \ {"osr_h"}, NEW g \in Settings \ {"osr_h"},
           Unit(f) # Unit(g)
    PROVE  Get(f, Set(f, b, d)) = d % 8 /\ Get(g, Set(f, b, d)) = Get(g, b)
<1>1. Unit(f) \in {4, 32} /\ Unit(g) \in {4, 32}
  BY DEF Unit, Settings
<1>2. d % 8 \in 0..7
  OBVIOUS
<1>3. CASE Unit(f) = 4 /\ Unit(g) = 32
  BY <1>2, <1>3 DEF Get, Set, SetBits, GetBits, Bytes
<1>4. CASE Unit(f) = 32 /\ Unit(g) = 4
  BY <1>2, <1>4 DEF Get, Set, SetBits, GetBits, Bytes
<1>5. QED
  BY <1>1, <1>3, <1>4

(* The mode is not part of a setting.                                      *)
LEMMA GetSetMode ==
    ASSUME NEW b \in Bytes, NEW m \in Modes, NEW f \in PressTemp
    PROVE  Get(f, SetBits(b, 1, 4, m)) = Get(f, b)
<1>1. Unit(f) \in {4, 32}
  BY DEF Unit, PressTemp
<1>2. QED
  BY <1>1 DEF Get, SetBits, GetBits, Bytes, Modes

LEMMA GetZero == \A f \in Settings : Get(f, 0) = 0
<1>. SUFFICES ASSUME NEW f \in Settings PROVE Get(f, 0) = 0
  OBVIOUS
<1>1. Unit(f) \in {1, 4, 32}
  BY DEF Unit, Settings
<1>2. QED
  BY <1>1 DEF Get, GetBits

LEMMA GetHum == \A b \in Bytes : Get("osr_h", b) = b % 8
BY DEF Get, Unit, GetBits, Bytes

(* Parsed, setting by setting.                                             *)
LEMMA ParsedIs ==
    ASSUME TypeOK
    PROVE  /\ Parsed["osr_h"] = ctrl_hum % 8
           /\ \A f \in PressTemp : Parsed[f] = Get(f, ctrl_meas)
           /\ \A f \in FiltStand : Parsed[f] = Get(f, config)
<1>1. Parsed["osr_h"] = Get("osr_h", ctrl_hum)
  BY DEF Parsed, Settings
<1>2. \A f \in PressTemp : Parsed[f] = Get(f, ctrl_meas)
  BY DEF Parsed, Settings, PressTemp
<1>3. \A f \in FiltStand : Parsed[f] = Get(f, config)
  BY DEF Parsed, Settings, FiltStand
<1>4. QED
  BY <1>1, <1>2, <1>3, GetHum DEF TypeOK

LEMMA ParsedNextIs ==
    ASSUME TypeOK'
    PROVE  /\ Parsed'["osr_h"] = ctrl_hum' % 8
           /\ \A f \in PressTemp : Parsed'[f] = Get(f, ctrl_meas')
           /\ \A f \in FiltStand : Parsed'[f] = Get(f, config')
<1>1. Parsed'["osr_h"] = Get("osr_h", ctrl_hum')
  BY DEF Parsed, Settings
<1>2. \A f \in PressTemp : Parsed'[f] = Get(f, ctrl_meas')
  BY DEF Parsed, Settings, PressTemp
<1>3. \A f \in FiltStand : Parsed'[f] = Get(f, config')
  BY DEF Parsed, Settings, FiltStand
<1>4. QED
  BY <1>1, <1>2, <1>3, GetHum DEF TypeOK

LEMMA ParsedNextType ==
    ASSUME TypeOK'
    PROVE  Parsed' \in [Settings -> 0..7]
<1>1. ctrl_hum' \in Bytes /\ ctrl_meas' \in Bytes /\ config' \in Bytes
  BY DEF TypeOK
<1>2. \A f \in Settings : Get(f, ctrl_hum') \in 0..7 /\ Get(f, ctrl_meas') \in 0..7
                          /\ Get(f, config') \in 0..7
  BY <1>1, FieldRange
<1>3. QED
  BY <1>2 DEF Parsed, Settings

LEMMA AllSettings ==
    /\ Settings = {"osr_h"} \cup PressTemp \cup FiltStand
    /\ Settings \ {"osr_h"} = PressTemp \cup FiltStand
BY DEF Settings, PressTemp, FiltStand

LEMMA ParsedSame ==
    ASSUME UNCHANGED <<ctrl_hum, ctrl_meas, config>>
    PROVE  Parsed' = Parsed
BY DEF Parsed

LEMMA ParsedZero ==
    ASSUME TypeOK, ctrl_hum = 0, ctrl_meas = 0, config = 0
    PROVE  \A f \in Settings : Parsed[f] = 0
BY ParsedIs, GetZero, AllSettings

LEMMA OpSel ==
    ASSUME TypeOK
    PROVE  op.name # "settings" => op.sel = {}
<1>1. op \in Ops
  BY DEF TypeOK
<1>2. QED
  BY <1>1 DEF Ops

LEMMA AnyOf ==
    /\ Any({"osr_p", "osr_t"}) <=> \E f \in PressTemp : reload \/ f \in op.sel
    /\ Any({"filter", "standby"}) <=> \E f \in FiltStand : reload \/ f \in op.sel
BY DEF Any, Selected, PressTemp, FiltStand

----------------------------------------------------------------------------
(* The ways on from a transfer.                                            *)

(* A failure that ends the call.                                           *)
LEMMA Fails ==
    ASSUME failed', pc' = "idle", result' \in {"COMM_FAIL", "NVM_COPY_FAILED", "DEV_NOT_FOUND"}
    PROVE  Stage' /\ Judged'
BY DEF Stage, Maker, Untouched, PressTempWork, ConfigWork, HumWork, Judged,
       OkMeansDone, CleanCallIsComplete, Succeeded, HumSteps, PtSteps, CfgSteps,
       PwrSteps, Writing

(* A call that ends with success.                                          *)
LEMMA Ends ==
    ASSUME pc' = "idle", result' = "OK",
           \A f \in Settings \ {"osr_h"} : Parsed'[f] = Expected(f)',
           ~ failed' => Parsed'["osr_h"] = Expected("osr_h")',
           op'.name = "mode" =>
              Mode(ctrl_meas') = op'.value \/ (op'.value = 1 /\ Mode(ctrl_meas') = 0),
           op'.name \in {"init", "reset", "settings"} => Mode(ctrl_meas') = 0,
           op'.name = "init" => calib' = "all",
           op'.name = "get" => settings' = before',
           ~ failed' /\ (op'.name = "mode" \/ "osr_h" \in op'.sel) =>
              hum_used' = ctrl_hum'
    PROVE  Stage' /\ Judged'
<1>1. Stage'
  BY DEF Stage, Maker, Untouched, PressTempWork, ConfigWork, HumWork, HumSteps,
         PtSteps, CfgSteps, PwrSteps, Writing
<1>2. Judged'
  BY DEF Judged, OkMeansDone, CleanCallIsComplete, Succeeded
<1>3. QED
  BY <1>1, <1>2

(* The settings are as they were and the chip sleeps: the caller's turn.   *)
LEMMA Begins ==
    ASSUME TypeOK, Asleep, UNCHANGED <<op, before>>, result = "none", ~ reload',
           op.name \in {"mode", "settings"}, Mode(ctrl_meas') = 0,
           \A f \in Settings \ {"osr_h"} : Parsed'[f] = before[f],
           Parsed'["osr_h"] = before["osr_h"] \/ (failed' /\ Parsed'["osr_h"] = 0)
    PROVE  Stage' /\ Judged'
<1>. USE DEF Goto, Return
<1>1. CASE pc' = "pwr_read" /\ op.name = "mode" /\ UNCHANGED result
  <2>1. op.sel = {}
    BY <1>1, OpSel
  <2>2. Stage'
    BY <1>1, <2>1, AllSettings
       DEF Stage, Maker, Untouched, PressTempWork, ConfigWork, HumWork, HumSteps,
           PtSteps, CfgSteps, PwrSteps, Writing, Goal, Asked
  <2>3. Judged'
    BY <1>1 DEF Judged, OkMeansDone, CleanCallIsComplete, Succeeded
  <2>4. QED
    BY <2>2, <2>3
<1>2. CASE pc' \in {"hum", "pt_read", "cfg_read"} /\ UNCHANGED result
  <2>1. op.name = "settings"
    BY <1>2, OpSel DEF Asleep
  <2>2. /\ pc' = "hum" => "osr_h" \in op.sel
        /\ pc' = "pt_read" => "osr_h" \notin op.sel
        /\ pc' = "cfg_read" => \A f \in OSR : f \notin op.sel
    BY <1>2 DEF Asleep, OSR
  <2>3. Stage'
    BY <1>2, <2>1, <2>2, AllSettings
       DEF Stage, Maker, Untouched, PressTempWork, ConfigWork, HumWork, HumSteps,
           PtSteps, CfgSteps, PwrSteps, Writing, From, Goal, Asked, OSR, PressTemp
  <2>4. Judged'
    BY <1>2 DEF Judged, OkMeansDone, CleanCallIsComplete, Succeeded
  <2>5. QED
    BY <2>3, <2>4
<1>3. CASE op.name = "settings" /\ op.sel = {} /\ Return("OK")
  <2>1. \A f \in Settings : Expected(f)' = before[f]
    BY <1>3 DEF Expected
  <2>2. QED
    BY <1>3, <2>1, Ends DEF Settings
<1>4. QED
  BY <1>1, <1>2, <1>3 DEF Asleep

(* A series of writes is complete.                                         *)
LEMMA Completes ==
    ASSUME TypeOK, Written, Maker, pc \in Writing, UNCHANGED <<op, before>>,
           Mode(ctrl_meas') = 0,
           \A f \in Settings \ {"osr_h"} : Parsed'[f] = Goal(f),
           \/ Parsed'["osr_h"] = Goal("osr_h")
           \/ failed' /\ Parsed'["osr_h"] \in {0, before["osr_h"]},
           ~ reload /\ ~ failed' /\ "osr_h" \in op.sel => hum_used' = ctrl_hum'
    PROVE  Stage' /\ Judged'
<1>1. CASE reload
  <2>1. Asleep /\ ~ reload' /\ op.name \in {"mode", "settings"} /\ result = "none"
    BY <1>1 DEF Written, Maker, Writing, HumSteps, PtSteps, CfgSteps
  <2>2. /\ \A f \in Settings \ {"osr_h"} : Parsed'[f] = before[f]
        /\ Parsed'["osr_h"] = before["osr_h"] \/ (failed' /\ Parsed'["osr_h"] = 0)
    BY <1>1 DEF Goal
  <2>3. QED
    BY <2>1, <2>2, Begins
<1>2. CASE ~ reload
  <2>1. pc' = "idle" /\ result' = "OK" /\ op.name = "settings"
    BY <1>2 DEF Written, Return, Maker
  <2>2. \A f \in Settings : Expected(f)' = Goal(f)
    BY <1>2, <2>1 DEF Expected, Goal, Asked
  <2>3. QED
    BY <1>2, <2>1, <2>2, Ends DEF Settings
<1>3. QED
  BY <1>1, <1>2

LEMMA OsrEnds ==
    ASSUME TypeOK, OsrWritten, Stage, pc \in HumSteps \cup PtSteps,
           UNCHANGED <<op, before, settings>>, Mode(ctrl_meas') = 0,
           \A f \in PressTemp : Parsed'[f] = Goal(f),
           \A f \in FiltStand : Parsed'[f] = Parsed[f],
           \/ Parsed'["osr_h"] = Goal("osr_h")
           \/ failed' /\ Parsed'["osr_h"] \in {0, before["osr_h"]},
           ~ reload /\ ~ failed' /\ "osr_h" \in op.sel => hum_used' = ctrl_hum'
    PROVE  Stage' /\ Judged'
<1>0. /\ \A f \in FiltStand : Parsed[f] = From(f)
      /\ Maker /\ pc \in Writing /\ result = "none"
      /\ reload => settings = before
  BY DEF Stage, ConfigWork, Writing, Maker, Untouched, HumSteps, PtSteps, CfgSteps
<1>1. CASE Any({"filter", "standby"})
  <2>1. pc' = "cfg_read" /\ result' = "none" /\ UNCHANGED <<reload, failed>>
    BY <1>0, <1>1 DEF OsrWritten, Goto
  <2>2. Maker' /\ Untouched'
    BY <1>0, <2>1 DEF Maker, Untouched, Writing, HumSteps, PtSteps, CfgSteps,
                      PwrSteps
  <2>3. PressTempWork' /\ ConfigWork'
    BY <1>0, <2>1 DEF PressTempWork, ConfigWork, Writing, HumSteps, PtSteps,
                      CfgSteps, PwrSteps, From, Goal, Asked
  <2>4. HumWork'
    BY <2>1 DEF HumWork, Writing, HumSteps, PtSteps, CfgSteps, PwrSteps, Goal,
                Asked
  <2>5. Judged'
    BY <2>1 DEF Judged, OkMeansDone, CleanCallIsComplete, Succeeded
  <2>6. QED
    BY <2>2, <2>3, <2>4, <2>5 DEF Stage
<1>2. CASE ~ Any({"filter", "standby"})
  <2>1. \A f \in FiltStand : From(f) = Goal(f)
    BY <1>2, AnyOf DEF From, Goal, Asked
  <2>2. \A f \in Settings \ {"osr_h"} : Parsed'[f] = Goal(f)
    BY <1>0, <2>1, AllSettings
  <2>3. Written
    BY <1>2 DEF OsrWritten
  <2>4. QED
    BY <1>0, <2>2, <2>3, Completes
<1>3. QED
  BY <1>1, <1>2

(* The failure of a write or read for the humidity.                        *)
LEMMA HumFailsOn ==
    ASSUME TypeOK, HumFails, Stage, pc \in HumSteps,
           UNCHANGED <<reload, op, before, settings>>,
           \A f \in PressTemp \cup FiltStand : Parsed'[f] = Parsed[f],
           Parsed'["osr_h"] \in {Goal("osr_h"), 0, before["osr_h"]}
    PROVE  Stage' /\ Judged'
<1>1. CASE Any({"osr_p", "osr_t"})
  <2>0. /\ Maker /\ result = "none"
        /\ reload => settings = before
        /\ \A f \in PressTemp \cup FiltStand : Parsed[f] = From(f)
    BY DEF Stage, Maker, Untouched, PressTempWork, ConfigWork, Writing, HumSteps,
           PtSteps, CfgSteps
  <2>1. pc' = "pt_read" /\ result' = "none" /\ failed'
    BY <1>1, <2>0 DEF HumFails, Goto
  <2>2. Maker' /\ Untouched'
    BY <2>0, <2>1 DEF Stage, Maker, Untouched, Writing, HumSteps, PtSteps,
                      CfgSteps, PwrSteps
  <2>3. PressTempWork' /\ ConfigWork'
    BY <2>0, <2>1 DEF PressTempWork, ConfigWork, Writing, HumSteps, PtSteps,
                      CfgSteps, PwrSteps, From, Goal, Asked
  <2>4. HumWork'
    BY <2>1 DEF HumWork, Writing, HumSteps, PtSteps, CfgSteps, PwrSteps, Goal,
                Asked
  <2>5. Judged'
    BY <2>1 DEF Judged, OkMeansDone, CleanCallIsComplete, Succeeded
  <2>6. QED
    BY <2>2, <2>3, <2>4, <2>5 DEF Stage
<1>2. CASE ~ Any({"osr_p", "osr_t"})
  BY <1>2, Fails DEF HumFails, Return
<1>3. QED
  BY <1>1, <1>2

----------------------------------------------------------------------------
(* Each transfer keeps Stage and Judged.                                   *)

LEMMA CallStage ==
    ASSUME TypeOK, NEW o \in Ops, Call(o)
    PROVE  Stage' /\ Judged'
<1>1. /\ o.name \in {"init", "reset", "get", "mode", "settings"}
      /\ pc' = CASE o.name = "init" -> "id" [] o.name = "reset" -> "reset"
                 [] o.name = "get" -> "save" [] OTHER -> "mode"
  BY DEF Call, Ops
<1>2. \/ o.name = "init" /\ pc' = "id"
      \/ o.name = "reset" /\ pc' = "reset"
      \/ o.name = "get" /\ pc' = "save"
      \/ o.name \in {"mode", "settings"} /\ pc' = "mode"
  BY <1>1, Zenon
<1>3. op' = o /\ before' = Parsed /\ failed' = FALSE /\ result' = "none" /\ reload' = FALSE
  BY DEF Call
<1>4. Parsed' = Parsed
  BY ParsedSame DEF Call, chip
<1>5. Maker' /\ Untouched'
  BY <1>2, <1>3, <1>4 DEF Maker, Untouched, Writing, HumSteps, PtSteps, CfgSteps,
                          PwrSteps
<1>6. PressTempWork' /\ ConfigWork' /\ HumWork' /\ Judged'
  BY <1>2, <1>3 DEF PressTempWork, ConfigWork, HumWork, Writing, HumSteps,
                    PtSteps, CfgSteps, PwrSteps, Judged, OkMeansDone,
                    CleanCallIsComplete, Succeeded
<1>7. QED
  BY <1>5, <1>6 DEF Stage

LEMMA ReadsStage ==
    ASSUME TypeOK, Stage,
           ReadChipId \/ GetMode \/ ReadSettings \/ WriteReset \/ ReadStatus \/ ReadCalib
    PROVE  Stage' /\ Judged'
<1>. USE DEF chip, local, call, Read, Goto, Return
<1>0. Maker /\ Untouched
  BY DEF Stage
<1>1. CASE BusError
  BY <1>1, Fails DEF BusError
<1>2. ASSUME ~ BusError, pc' # "idle", pc' \notin Writing \cup PwrSteps,
             result' = "none", Maker', Untouched'
      PROVE  Stage' /\ Judged'
  BY <1>2 DEF Stage, PressTempWork, ConfigWork, HumWork, Writing, HumSteps,
              PtSteps, CfgSteps, PwrSteps, Judged, OkMeansDone,
              CleanCallIsComplete, Succeeded
<1>3. CASE ReadChipId
  <2>1. CASE Read("reset")
    <3>1. /\ pc = "id" /\ Parsed' = Parsed /\ pc' = "reset" /\ result' = result
          /\ UNCHANGED <<op, before, reload, settings, failed>>
      BY <1>3, <2>1, ParsedSame DEF ReadChipId
    <3>2. op.name = "init" /\ ~ reload /\ result = "none" /\ Parsed = before /\ ~ failed
      BY <1>0, <3>1 DEF Maker, Untouched
    <3>3. Maker' /\ Untouched'
      BY <3>1, <3>2
         DEF Maker, Untouched, Writing, HumSteps, PtSteps, CfgSteps, PwrSteps
    <3>4. QED
      BY <1>1, <1>2, <3>1, <3>2, <3>3 DEF Writing, HumSteps, PtSteps, CfgSteps, PwrSteps
  <2>2. CASE Return("DEV_NOT_FOUND") /\ failed' = TRUE
    BY <2>2, Fails
  <2>3. QED
    BY <1>1, <1>3, <2>1, <2>2 DEF ReadChipId
<1>4. CASE GetMode
  <2>0. /\ pc = "mode" /\ ~ reload /\ result = "none" /\ ~ failed
        /\ Parsed' = Parsed /\ Parsed = before
        /\ op.name \in {"mode", "settings"}
        /\ UNCHANGED <<op, before, ctrl_meas>>
    BY <1>0, <1>4, ParsedSame DEF GetMode, Maker, Untouched
  <2>1. CASE reload' = TRUE /\ Read("save")
    <3>1. Maker' /\ Untouched' /\ pc' = "save" /\ result' = "none"
      BY <2>0, <2>1
         DEF Maker, Untouched, Writing, HumSteps, PtSteps, CfgSteps, PwrSteps
    <3>2. QED
      BY <1>1, <1>2, <3>1 DEF Writing, HumSteps, PtSteps, CfgSteps, PwrSteps
  <2>2. CASE Mode(ctrl_meas) = 0 /\ UNCHANGED <<reload, failed>> /\ Asleep
    <3>1. Mode(ctrl_meas') = 0
      BY <2>0, <2>2
    <3>2. ~ reload'
      BY <2>0, <2>2
    <3>3. QED
      BY <2>0, <2>2, <3>1, <3>2, Begins
  <2>3. QED
    BY <1>1, <1>4, <2>1, <2>2 DEF GetMode
<1>5. CASE ReadSettings
  <2>0. /\ pc = "save" /\ result = "none" /\ ~ failed
        /\ Parsed' = Parsed /\ Parsed = before
        /\ UNCHANGED <<op, before, reload>>
    BY <1>0, <1>5, ParsedSame DEF ReadSettings, Maker, Untouched
  <2>1. CASE settings' = Parsed /\ reload /\ Read("reset")
    <3>1. Maker' /\ Untouched' /\ pc' = "reset" /\ result' = "none"
      BY <1>0, <2>0, <2>1
         DEF Maker, Untouched, Writing, HumSteps, PtSteps, CfgSteps, PwrSteps
    <3>2. QED
      BY <1>1, <1>2, <3>1 DEF Writing, HumSteps, PtSteps, CfgSteps, PwrSteps
  <2>2. CASE settings' = Parsed /\ ~ reload /\ Return("OK") /\ UNCHANGED failed
    <3>1. op.name = "get" /\ op.sel = {}
      BY <1>0, <2>0, <2>2, OpSel DEF Maker
    <3>2. \A f \in Settings : Expected(f)' = before[f]
      BY <2>0, <3>1 DEF Expected
    <3>3. QED
      BY <2>0, <2>2, <3>1, <3>2, Ends DEF Settings
  <2>3. QED
    BY <1>1, <1>5, <2>1, <2>2 DEF ReadSettings
<1>6. CASE WriteReset
  <2>1. CASE ChipResets /\ Read("status")
    <3>1. Maker' /\ Untouched' /\ pc' = "status" /\ result' = "none"
      BY <1>0, <1>6, <2>1
         DEF WriteReset, ChipResets, Maker, Untouched, Writing, HumSteps, PtSteps,
             CfgSteps, PwrSteps
    <3>2. QED
      BY <1>1, <1>2, <3>1 DEF Writing, HumSteps, PtSteps, CfgSteps, PwrSteps
  <2>2. QED
    BY <1>1, <1>6, <2>1 DEF WriteReset
<1>z. ASSUME ctrl_hum = 0, ctrl_meas = 0, config = 0,
             UNCHANGED <<ctrl_hum, hum_used, ctrl_meas, config>>, UNCHANGED op,
             op.name \in {"init", "reset"}, pc' = "idle", result' = "OK",
             op.name = "init" => calib' = "all", hum_used' = hum_used
      PROVE  Stage' /\ Judged'
  <2>1. \A f \in Settings : Parsed[f] = 0
    BY <1>z, ParsedZero
  <2>2. \A f \in Settings : Parsed'[f] = 0 /\ Expected(f)' = 0
    BY <1>z, <2>1, ParsedSame DEF Expected
  <2>3. op.sel = {} /\ Mode(ctrl_meas') = 0
    BY <1>z, OpSel, ResetMode
  <2>4. QED
    BY <1>z, <2>2, <2>3, Ends DEF Settings
<1>7. CASE ReadStatus
  <2>0. /\ pc = "status" /\ ctrl_hum = 0 /\ ctrl_meas = 0 /\ config = 0
        /\ UNCHANGED <<ctrl_hum, hum_used, ctrl_meas, config, reload, op, before,
                       settings>>
        /\ result = "none"
    BY <1>0, <1>7 DEF ReadStatus, Maker, Untouched
  <2>1. CASE (op.name = "init" /\ Read("calib_tp")) \/ Read("status")
    <3>1. Maker' /\ Untouched' /\ pc' \in {"calib_tp", "status"} /\ result' = "none"
      BY <1>0, <2>0, <2>1
         DEF Maker, Untouched, Writing, HumSteps, PtSteps, CfgSteps, PwrSteps
    <3>2. QED
      BY <1>1, <1>2, <3>1 DEF Writing, HumSteps, PtSteps, CfgSteps, PwrSteps
  <2>2. CASE op.name = "reset" /\ Return("OK")
    BY <1>z, <2>0, <2>2
  <2>3. CASE op.name \notin {"init", "reset"} /\ Read("hum")
    <3>1. reload /\ pc' = "hum" /\ result' = "none" /\ settings = before
      BY <1>0, <2>0, <2>3 DEF Maker, Untouched
    <3>2. \A f \in Settings : Parsed'[f] = 0
      BY <2>0, ParsedZero, ParsedSame
    <3>3. Stage'
      BY <1>0, <2>0, <3>1, <3>2, AllSettings
         DEF Stage, Maker, Untouched, PressTempWork, ConfigWork, HumWork,
             Writing, HumSteps, PtSteps, CfgSteps, PwrSteps, From
    <3>4. Judged'
      BY <3>1 DEF Judged, OkMeansDone, CleanCallIsComplete, Succeeded
    <3>5. QED
      BY <3>3, <3>4
  <2>4. CASE failed' = TRUE /\ Return("NVM_COPY_FAILED")
    BY <2>4, Fails
  <2>5. QED
    BY <1>1, <1>7, <2>1, <2>2, <2>3, <2>4 DEF ReadStatus
<1>8. CASE ReadCalib
  <2>1. CASE pc = "calib_tp" /\ Read("calib_h")
    <3>1. Maker' /\ Untouched' /\ pc' = "calib_h" /\ result' = "none"
      BY <1>0, <1>8, <2>1
         DEF ReadCalib, Maker, Untouched, Writing, HumSteps, PtSteps, CfgSteps, PwrSteps
    <3>2. QED
      BY <1>1, <1>2, <3>1 DEF Writing, HumSteps, PtSteps, CfgSteps, PwrSteps
  <2>2. CASE pc = "calib_h" /\ calib' = "all" /\ Return("OK")
    BY <1>0, <1>8, <1>z, <2>2 DEF ReadCalib, Maker, Untouched
  <2>3. QED
    BY <1>1, <1>8, <2>1, <2>2 DEF ReadCalib
<1>9. QED
  BY <1>3, <1>4, <1>5, <1>6, <1>7, <1>8

(* What a selected setting is set to, and the others stay at.              *)
LEMMA WantedIsGoal ==
    ASSUME TypeOK, reload => settings = before, NEW f \in Settings
    PROVE  /\ Selected(f) => Wanted(f) % 8 = Goal(f)
           /\ ~ Selected(f) => From(f) = Goal(f)
<1>1. before[f] \in 0..7
  BY DEF TypeOK
<1>2. before[f] % 8 = before[f]
  BY <1>1
<1>3. QED
  BY <1>2 DEF Selected, Wanted, Goal, Asked, From

LEMMA FilledGet ==
    ASSUME TypeOK, reload => settings = before, NEW b \in Bytes,
           NEW f \in Settings \ {"osr_h"}, NEW g \in Settings \ {"osr_h"},
           Unit(f) # Unit(g), Get(f, b) = From(f), Get(g, b) = From(g)
    PROVE  /\ Get(f, Filled(g, Filled(f, b))) = Goal(f)
           /\ Get(g, Filled(g, Filled(f, b))) = Goal(g)
<1>1. Wanted(f) \in Nat /\ Wanted(g) \in Nat
  BY WantedValue
<1>2. DEFINE c == Filled(f, b)
<1>3. c \in Bytes
  BY FilledByte
<1>4. Get(f, c) = Goal(f) /\ Get(g, c) = From(g)
  BY <1>1, GetSet, WantedIsGoal DEF Filled
<1>5. Get(g, Filled(g, c)) = Goal(g) /\ Get(f, Filled(g, c)) = Goal(f)
  <2>. HIDE DEF c
  <2>1. CASE Selected(g)
    <3>1. Filled(g, c) = Set(g, c, Wanted(g))
      BY <2>1 DEF Filled
    <3>2. Get(g, Set(g, c, Wanted(g))) = Wanted(g) % 8 /\ Get(f, Set(g, c, Wanted(g))) = Get(f, c)
      BY <1>1, <1>3, GetSet
    <3>3. QED
      BY <1>4, <2>1, <3>1, <3>2, WantedIsGoal
  <2>2. CASE ~ Selected(g)
    BY <1>4, <2>2, WantedIsGoal DEF Filled
  <2>3. QED
    BY <2>1, <2>2
<1>6. QED
  BY <1>5

(* A transfer of a series that goes on with the next of it.                *)
LEMMA GoesOn ==
    ASSUME Stage, pc \in Writing, pc' \in Writing \ {"hum"}, UNCHANGED result,
           UNCHANGED <<reload, op, before, settings>>,
           \A f \in PressTemp : Parsed'[f] = IF pc' \in CfgSteps THEN Goal(f) ELSE From(f),
           \A f \in FiltStand : Parsed'[f] = From(f),
           \A f \in PressTemp :
              /\ pc' = "hum_write" => Get(f, reg_data') = From(f)
              /\ pc' = "pt_write"  => Get(f, reg_data') = Goal(f),
           \A f \in FiltStand : pc' = "cfg_write" => Get(f, reg_data') = Goal(f),
           \/ Parsed'["osr_h"] = Goal("osr_h")
           \/ failed' /\ Parsed'["osr_h"] \in {0, before["osr_h"]},
           pc' \in HumSteps => pc \in HumSteps,
           pc' \in PtSteps \cup CfgSteps /\ ~ reload /\ ~ failed' /\ "osr_h" \in op.sel
              => hum_used' = ctrl_hum'
    PROVE  Stage' /\ Judged'
<1>0. /\ pc' # "idle" /\ result' = "none"
      /\ op.name \in IF reload THEN {"mode", "settings"} ELSE {"settings"}
      /\ reload => settings = before
      /\ pc \in HumSteps => reload \/ "osr_h" \in op.sel
  BY DEF Stage, Maker, Untouched, HumWork, Writing, HumSteps, PtSteps, CfgSteps
<1>1. Maker' /\ Untouched'
  BY <1>0 DEF Maker, Untouched, Writing, HumSteps, PtSteps, CfgSteps, PwrSteps
<1>2. \A f \in Settings : From(f)' = From(f) /\ Goal(f)' = Goal(f)
  BY DEF From, Goal, Asked
<1>3. PressTempWork'
  BY <1>2, AllSettings DEF PressTempWork, Writing, HumSteps, PtSteps, CfgSteps, PwrSteps,
         From, Goal, Asked
<1>4. ConfigWork'
  BY <1>2, AllSettings DEF ConfigWork, Writing, HumSteps, PtSteps, CfgSteps, PwrSteps,
         From, Goal, Asked
<1>5. HumWork'
  BY <1>0 DEF HumWork, Writing, HumSteps, PtSteps, CfgSteps, PwrSteps, Goal, Asked
<1>6. Judged'
  BY <1>0 DEF Judged, OkMeansDone, CleanCallIsComplete, Succeeded
<1>7. QED
  BY <1>1, <1>3, <1>4, <1>5, <1>6 DEF Stage

(* What Stage says in the middle of a series.                              *)
LEMMA Midway ==
    ASSUME Stage, pc \in Writing
    PROVE  /\ Maker /\ result = "none"
           /\ reload => settings = before
           /\ pc \in HumSteps \cup PtSteps => \A f \in PressTemp : Parsed[f] = From(f)
           /\ pc \in CfgSteps => \A f \in PressTemp : Parsed[f] = Goal(f)
           /\ \A f \in FiltStand : Parsed[f] = From(f)
           /\ pc # "hum" => \/ Parsed["osr_h"] = Goal("osr_h")
                            \/ failed /\ Parsed["osr_h"] \in {0, before["osr_h"]}
           /\ pc \in HumSteps => Selected("osr_h")
           /\ pc = "hum" => Parsed["osr_h"] \in {0, before["osr_h"]}
           /\ pc \in PtSteps \cup CfgSteps /\ ~ reload /\ ~ failed /\ "osr_h" \in op.sel
                 => hum_used = ctrl_hum
BY DEF Stage, Maker, Untouched, PressTempWork, ConfigWork, HumWork, Selected, From,
       Writing, HumSteps, PtSteps, CfgSteps

LEMMA WriteHumStage ==
    ASSUME TypeOK, TypeOK', Stage, WriteHum
    PROVE  Stage' /\ Judged'
<1>0. /\ pc = "hum" /\ pc \in Writing /\ pc \in HumSteps
      /\ UNCHANGED <<ctrl_meas, config, hum_used, reload, op, before, settings, reg_data>>
  BY DEF WriteHum, local, call, Writing, HumSteps
<1>1. \A f \in PressTemp \cup FiltStand : Parsed'[f] = Parsed[f]
  BY <1>0, ParsedIs, ParsedNextIs
<1>2. Wanted("osr_h") \in 0..255 /\ Wanted("osr_h") % 8 = Goal("osr_h")
  BY <1>0, Midway, WantedIsGoal, WantedValue, AllSettings
<1>3. ctrl_hum' = Wanted("osr_h") % 8 => Parsed'["osr_h"] = Goal("osr_h")
  BY <1>2, ParsedNextIs
<1>4. ctrl_hum' = ctrl_hum => Parsed'["osr_h"] = Parsed["osr_h"]
  BY ParsedIs, ParsedNextIs
<1>5. CASE ctrl_hum' = Wanted("osr_h") % 8 /\ Read("hum_read")
  <2>1. pc' = "hum_read" /\ UNCHANGED result
    BY <1>5 DEF Read, Goto
  <2>2. pc' \in HumSteps /\ pc' \in Writing \ {"hum"} /\ pc' \notin PtSteps \cup CfgSteps
    BY <2>1 DEF Writing, HumSteps, PtSteps, CfgSteps
  <2>3. /\ \A f \in PressTemp : Parsed'[f] = IF pc' \in CfgSteps THEN Goal(f) ELSE From(f)
        /\ \A f \in FiltStand : Parsed'[f] = From(f)
    BY <1>0, <1>1, <2>2, Midway
  <2>4. QED
    BY <1>0, <1>3, <1>5, <2>1, <2>2, <2>3, GoesOn
<1>6. CASE (ctrl_hum' = Wanted("osr_h") % 8 \/ UNCHANGED ctrl_hum) /\ HumFails
  <2>1. Parsed["osr_h"] \in {0, before["osr_h"]}
    BY <1>0, Midway
  <2>2. Parsed'["osr_h"] \in {Goal("osr_h"), 0, before["osr_h"]}
    BY <1>3, <1>4, <1>6, <2>1
  <2>3. QED
    BY <1>0, <1>1, <1>6, <2>2, HumFailsOn
<1>7. QED
  BY <1>5, <1>6 DEF WriteHum

LEMMA HumReadStage ==
    ASSUME TypeOK, TypeOK', Stage, HumRead
    PROVE  Stage' /\ Judged'
<1>0. /\ pc = "hum_read" /\ pc \in Writing /\ pc \in HumSteps
      /\ UNCHANGED <<ctrl_hum, ctrl_meas, config, hum_used, reload, op, before, settings>>
  BY DEF HumRead, chip, call, Writing, HumSteps
<1>1. Parsed' = Parsed
  BY <1>0, ParsedSame
<1>2. CASE reg_data' = ctrl_meas /\ Read("hum_write")
  <2>1. pc' = "hum_write" /\ UNCHANGED <<result, failed>>
    BY <1>2 DEF Read, Goto
  <2>2. pc' \in HumSteps /\ pc' \in Writing \ {"hum"} /\ pc' \notin PtSteps \cup CfgSteps
    BY <2>1 DEF Writing, HumSteps, PtSteps, CfgSteps
  <2>3. /\ \A f \in PressTemp : Parsed'[f] = IF pc' \in CfgSteps THEN Goal(f) ELSE From(f)
        /\ \A f \in FiltStand : Parsed'[f] = From(f)
        /\ \A f \in PressTemp : Get(f, reg_data') = From(f)
    BY <1>0, <1>1, <1>2, <2>2, Midway, ParsedIs
  <2>4. \/ Parsed'["osr_h"] = Goal("osr_h")
        \/ failed' /\ Parsed'["osr_h"] \in {0, before["osr_h"]}
    BY <1>0, <1>1, <2>1, Midway
  <2>5. QED
    BY <1>0, <2>1, <2>2, <2>3, <2>4, GoesOn
<1>3. CASE HumFails
  <2>1. Parsed'["osr_h"] \in {Goal("osr_h"), 0, before["osr_h"]}
    BY <1>0, <1>1, Midway
  <2>2. QED
    BY <1>0, <1>1, <1>3, <2>1, HumFailsOn
<1>4. QED
  BY <1>2, <1>3 DEF HumRead

(* The write of ctrl_meas, of what was read from it.                       *)
LEMMA MeasWritten ==
    ASSUME TypeOK, TypeOK', WriteMeas(reg_data)
    PROVE  /\ \A f \in PressTemp : Parsed'[f] = Get(f, reg_data)
           /\ \A f \in FiltStand : Parsed'[f] = Parsed[f]
           /\ Parsed'["osr_h"] = Parsed["osr_h"]
           /\ hum_used' = ctrl_hum'
           /\ Mode(ctrl_meas') = Mode(reg_data)
BY ParsedIs, ParsedNextIs DEF WriteMeas

LEMMA HumWriteStage ==
    ASSUME TypeOK, TypeOK', SleepInv, Stage, HumWrite
    PROVE  Stage' /\ Judged'
<1>0. /\ pc = "hum_write" /\ pc \in Writing /\ pc \in HumSteps /\ pc \notin CfgSteps
      /\ UNCHANGED <<op, before, settings, reg_data>>
      /\ Mode(reg_data) = 0
      /\ \A f \in PressTemp : Get(f, reg_data) = From(f)
  BY DEF HumWrite, call, Writing, HumSteps, CfgSteps, SleepInv, Stage, PressTempWork
<1>1. \/ Parsed["osr_h"] = Goal("osr_h")
      \/ failed /\ Parsed["osr_h"] \in {0, before["osr_h"]}
  BY <1>0, Midway
<1>2. CASE WriteMeas(reg_data) /\ HumNext
  <2>1. /\ \A f \in PressTemp : Parsed'[f] = From(f)
        /\ \A f \in FiltStand : Parsed'[f] = Parsed[f] /\ Parsed[f] = From(f)
        /\ Parsed'["osr_h"] = Parsed["osr_h"]
        /\ hum_used' = ctrl_hum' /\ Mode(ctrl_meas') = 0
    BY <1>0, <1>2, MeasWritten, Midway
  <2>2. failed' = failed
    BY <1>2 DEF HumNext, Read, OsrWritten
  <2>3. CASE Any({"osr_p", "osr_t"})
    <3>1. pc' = "pt_read" /\ UNCHANGED <<result, reload>>
      BY <1>2, <2>3 DEF HumNext, Read, Goto
    <3>2. pc' \in Writing \ {"hum"} /\ pc' \notin HumSteps \cup CfgSteps
      BY <3>1 DEF Writing, HumSteps, PtSteps, CfgSteps
    <3>3. QED
      BY <1>0, <1>1, <2>1, <2>2, <3>1, <3>2, GoesOn
  <2>4. CASE ~ Any({"osr_p", "osr_t"})
    <3>1. OsrWritten
      BY <1>2, <2>4 DEF HumNext
    <3>2. \A f \in PressTemp : ~ Selected(f)
      BY <2>4, AnyOf DEF Selected
    <3>3. \A f \in PressTemp : From(f) = Goal(f)
      BY <1>0, <3>2, Midway, WantedIsGoal, AllSettings
    <3>4. QED
      BY <1>0, <1>1, <2>1, <2>2, <3>1, <3>3, OsrEnds
  <2>5. QED
    BY <2>3, <2>4
<1>3. CASE (WriteMeas(reg_data) \/ UNCHANGED chip) /\ UNCHANGED reload /\ HumFails
  <2>1. CASE WriteMeas(reg_data)
    <3>1. \A f \in PressTemp \cup FiltStand \cup {"osr_h"} : Parsed'[f] = Parsed[f]
      BY <1>0, <2>1, MeasWritten, Midway
    <3>2. QED
      BY <1>0, <1>1, <1>3, <3>1, HumFailsOn
  <2>2. CASE UNCHANGED chip
    <3>1. Parsed' = Parsed
      BY <2>2, ParsedSame DEF chip
    <3>2. QED
      BY <1>0, <1>1, <1>3, <3>1, HumFailsOn
  <2>3. QED
    BY <1>3, <2>1, <2>2
<1>4. QED
  BY <1>2, <1>3 DEF HumWrite

LEMMA PressTempReadStage ==
    ASSUME TypeOK, TypeOK', Stage, PressTempRead
    PROVE  Stage' /\ Judged'
<1>0. /\ pc = "pt_read" /\ pc \in Writing /\ pc \in PtSteps
      /\ UNCHANGED <<ctrl_hum, ctrl_meas, config, hum_used, reload, op, before, settings>>
  BY DEF PressTempRead, chip, call, Writing, PtSteps
<1>1. CASE reg_data' = Filled("osr_t", Filled("osr_p", ctrl_meas)) /\ Read("pt_write")
  <2>1. pc' = "pt_write" /\ UNCHANGED <<result, failed>>
    BY <1>1 DEF Read, Goto
  <2>2. pc' \in PtSteps /\ pc' \in Writing \ {"hum"} /\ pc' \notin HumSteps \cup CfgSteps
    BY <2>1 DEF Writing, HumSteps, PtSteps, CfgSteps
  <2>3. /\ \A f \in PressTemp : Parsed'[f] = From(f) /\ Get(f, ctrl_meas) = From(f)
        /\ \A f \in FiltStand : Parsed'[f] = From(f)
        /\ \/ Parsed'["osr_h"] = Goal("osr_h")
           \/ failed' /\ Parsed'["osr_h"] \in {0, before["osr_h"]}
    BY <1>0, <2>1, Midway, ParsedIs, ParsedSame
  <2>4. Unit("osr_p") # Unit("osr_t") /\ {"osr_p", "osr_t"} \subseteq Settings \ {"osr_h"}
    BY DEF Unit, Settings
  <2>5. \A f \in PressTemp : Get(f, reg_data') = Goal(f)
    BY <1>0, <1>1, <2>3, <2>4, FilledGet, Midway DEF PressTemp, TypeOK
  <2>6. ~ reload /\ ~ failed' /\ "osr_h" \in op.sel => hum_used' = ctrl_hum'
    BY <1>0, <2>1, Midway
  <2>7. QED
    BY <1>0, <2>1, <2>2, <2>3, <2>5, <2>6, GoesOn
<1>2. CASE BusError
  BY <1>2, Fails DEF BusError, Return
<1>3. QED
  BY <1>1, <1>2 DEF PressTempRead

LEMMA PressTempWriteStage ==
    ASSUME TypeOK, TypeOK', SleepInv, Stage, PressTempWrite
    PROVE  Stage' /\ Judged'
<1>0. /\ pc = "pt_write" /\ pc \in Writing /\ pc \in HumSteps \cup PtSteps
      /\ UNCHANGED <<op, before, settings, reg_data>>
      /\ Mode(reg_data) = 0
      /\ \A f \in PressTemp : Get(f, reg_data) = Goal(f)
  BY DEF PressTempWrite, call, Writing, PtSteps, SleepInv, Stage, PressTempWork
<1>1. CASE WriteMeas(reg_data) /\ OsrWritten
  <2>1. /\ \A f \in PressTemp : Parsed'[f] = Goal(f)
        /\ \A f \in FiltStand : Parsed'[f] = Parsed[f]
        /\ Parsed'["osr_h"] = Parsed["osr_h"]
        /\ hum_used' = ctrl_hum' /\ Mode(ctrl_meas') = 0
    BY <1>0, <1>1, MeasWritten
  <2>2. /\ failed' = failed
        /\ \/ Parsed["osr_h"] = Goal("osr_h")
           \/ failed /\ Parsed["osr_h"] \in {0, before["osr_h"]}
    BY <1>0, <1>1, Midway DEF OsrWritten
  <2>3. QED
    BY <1>0, <1>1, <2>1, <2>2, OsrEnds
<1>2. CASE BusError
  BY <1>2, Fails DEF BusError, Return
<1>3. QED
  BY <1>1, <1>2 DEF PressTempWrite

LEMMA ConfigReadStage ==
    ASSUME TypeOK, TypeOK', Stage, ConfigRead
    PROVE  Stage' /\ Judged'
<1>0. /\ pc = "cfg_read" /\ pc \in Writing /\ pc \in CfgSteps
      /\ UNCHANGED <<ctrl_hum, ctrl_meas, config, hum_used, reload, op, before, settings>>
  BY DEF ConfigRead, chip, call, Writing, CfgSteps
<1>1. CASE reg_data' = Filled("standby", Filled("filter", config)) /\ Read("cfg_write")
  <2>1. pc' = "cfg_write" /\ UNCHANGED <<result, failed>>
    BY <1>1 DEF Read, Goto
  <2>2. pc' \in CfgSteps /\ pc' \in Writing \ {"hum"} /\ pc' \notin HumSteps \cup PtSteps
    BY <2>1 DEF Writing, HumSteps, PtSteps, CfgSteps
  <2>3. /\ \A f \in PressTemp : Parsed'[f] = Goal(f)
        /\ \A f \in FiltStand : Parsed'[f] = From(f) /\ Get(f, config) = From(f)
        /\ \/ Parsed'["osr_h"] = Goal("osr_h")
           \/ failed' /\ Parsed'["osr_h"] \in {0, before["osr_h"]}
    BY <1>0, <2>1, Midway, ParsedIs, ParsedSame
  <2>4. Unit("filter") # Unit("standby") /\ {"filter", "standby"} \subseteq Settings \ {"osr_h"}
    BY DEF Unit, Settings
  <2>5. \A f \in FiltStand : Get(f, reg_data') = Goal(f)
    BY <1>0, <1>1, <2>3, <2>4, FilledGet, Midway DEF FiltStand, TypeOK
  <2>6. ~ reload /\ ~ failed' /\ "osr_h" \in op.sel => hum_used' = ctrl_hum'
    BY <1>0, <2>1, Midway
  <2>7. QED
    BY <1>0, <2>1, <2>2, <2>3, <2>5, <2>6, GoesOn
<1>2. CASE BusError
  BY <1>2, Fails DEF BusError, Return
<1>3. QED
  BY <1>1, <1>2 DEF ConfigRead

LEMMA ConfigWriteStage ==
    ASSUME TypeOK, TypeOK', SleepInv, Stage, ConfigWrite
    PROVE  Stage' /\ Judged'
<1>0. /\ pc = "cfg_write" /\ pc \in Writing /\ pc \in CfgSteps /\ pc # "hum"
      /\ UNCHANGED <<ctrl_hum, ctrl_meas, hum_used, op, before, settings>>
      /\ Mode(ctrl_meas') = 0
      /\ \A f \in FiltStand : Get(f, reg_data) = Goal(f)
  BY DEF ConfigWrite, call, Writing, CfgSteps, SleepInv, AtRest, Stage, ConfigWork
<1>1. CASE config' = reg_data /\ Written /\ UNCHANGED failed
  <2>1. /\ \A f \in FiltStand : Parsed'[f] = Goal(f)
        /\ \A f \in PressTemp : Parsed'[f] = Goal(f)
        /\ Parsed'["osr_h"] = Parsed["osr_h"]
    BY <1>0, <1>1, ParsedIs, ParsedNextIs, Midway
  <2>2. \A f \in Settings \ {"osr_h"} : Parsed'[f] = Goal(f)
    BY <2>1, AllSettings
  <2>3. /\ \/ Parsed'["osr_h"] = Goal("osr_h")
           \/ failed' /\ Parsed'["osr_h"] \in {0, before["osr_h"]}
        /\ ~ reload /\ ~ failed' /\ "osr_h" \in op.sel => hum_used' = ctrl_hum'
    BY <1>0, <1>1, <2>1, Midway
  <2>4. Maker
    BY DEF Stage
  <2>5. QED
    BY <1>0, <1>1, <2>2, <2>3, <2>4, Completes
<1>2. CASE BusError
  BY <1>2, Fails DEF BusError, Return
<1>3. QED
  BY <1>1, <1>2 DEF ConfigWrite

LEMMA PowerStage ==
    ASSUME TypeOK, TypeOK', SleepInv, Stage, PowerRead \/ PowerWrite
    PROVE  Stage' /\ Judged'
<1>0. /\ pc \in PwrSteps /\ op.name = "mode" /\ ~ reload /\ result = "none"
      /\ UNCHANGED <<op, before, reload, config, ctrl_hum>>
      /\ \A f \in PressTemp \cup FiltStand : Parsed[f] = before[f]
      /\ Parsed["osr_h"] = before["osr_h"] \/ (failed /\ Parsed["osr_h"] = 0)
  <2>1. pc \in PwrSteps /\ UNCHANGED <<op, before, reload>>
    BY DEF PowerRead, PowerWrite, PwrSteps, local, call
  <2>2. UNCHANGED <<config, ctrl_hum>> \/ BusError
    BY DEF PowerRead, PowerWrite, chip, WriteMeas
  <2>3. UNCHANGED <<config, ctrl_hum>>
    BY DEF PowerRead, PowerWrite, chip, WriteMeas
  <2>4. op.sel = {}
    BY <2>1, OpSel DEF Stage, Maker
  <2>5. QED
    BY <2>1, <2>3, <2>4
       DEF Stage, Maker, PressTempWork, ConfigWork, HumWork, PwrSteps, Goal, Asked
<1>1. CASE BusError
  BY <1>1, Fails DEF BusError, Return
<1>2. CASE PowerRead /\ ~ BusError
  <2>1. /\ pc = "pwr_read" /\ pc' = "pwr_write" /\ UNCHANGED <<result, failed, ctrl_meas>>
        /\ reg_data' = SetBits(ctrl_meas, 1, 4, op.value)
    BY <1>2 DEF PowerRead, Read, Goto, chip
  <2>2. \A f \in PressTemp : Get(f, reg_data') = before[f]
    BY <1>0, <2>1, GetSetMode, OpValue, ParsedIs DEF TypeOK
  <2>3. Parsed' = Parsed
    BY <1>0, <2>1, ParsedSame
  <2>4. Maker' /\ Untouched'
    BY <1>0, <2>1 DEF Maker, Untouched, Writing, HumSteps, PtSteps, CfgSteps, PwrSteps
  <2>5. PressTempWork' /\ ConfigWork'
    BY <1>0, <2>1, <2>2, <2>3
       DEF PressTempWork, ConfigWork, Writing, HumSteps, PtSteps, CfgSteps, PwrSteps
  <2>6. HumWork'
    BY <1>0, <2>1, <2>3, OpSel
       DEF HumWork, Writing, HumSteps, PtSteps, CfgSteps, PwrSteps, Goal, Asked
  <2>7. Judged'
    BY <2>1 DEF Judged, OkMeansDone, CleanCallIsComplete, Succeeded
  <2>8. QED
    BY <2>4, <2>5, <2>6, <2>7 DEF Stage
<1>3. CASE PowerWrite /\ ~ BusError
  <2>1. /\ pc = "pwr_write" /\ WriteMeas(reg_data) /\ pc' = "idle" /\ result' = "OK"
        /\ failed' = failed
    BY <1>3 DEF PowerWrite, Return
  <2>2. Mode(reg_data) = op.value /\ \A f \in PressTemp : Get(f, reg_data) = before[f]
    BY <2>1 DEF SleepInv, Stage, PressTempWork
  <2>3. /\ \A f \in PressTemp \cup FiltStand : Parsed'[f] = before[f]
        /\ Parsed'["osr_h"] = Parsed["osr_h"]
        /\ hum_used' = ctrl_hum' /\ Mode(ctrl_meas') = op.value
    BY <1>0, <2>1, <2>2, MeasWritten
  <2>4. \A f \in Settings : Expected(f)' = before[f]
    BY <1>0 DEF Expected
  <2>5. QED
    BY <1>0, <2>1, <2>3, <2>4, AllSettings, Ends
<1>4. QED
  BY <1>1, <1>2, <1>3

(* The end of a forced measurement changes nothing but the mode, and does  *)
(* not come in the middle of a series, where the chip sleeps.              *)
LEMMA ForcedStage ==
    ASSUME TypeOK, TypeOK', SleepInv, Stage, Judged, ForcedDone
    PROVE  Stage' /\ Judged'
<1>0. /\ Mode(ctrl_meas) = 1 /\ ctrl_meas' = SetBits(ctrl_meas, 1, 4, 0)
      /\ UNCHANGED <<ctrl_hum, hum_used, config, pc, reload, settings, reg_data, op, before>>
      /\ UNCHANGED <<calib, result, failed>>
  BY DEF ForcedDone, local, call
<1>1. Mode(ctrl_meas') = 0
  BY <1>0, SetMode DEF TypeOK, Modes
<1>2. Parsed' = Parsed
  <2>1. \A f \in PressTemp : Get(f, ctrl_meas') = Get(f, ctrl_meas)
    BY <1>0, GetSetMode DEF TypeOK, Modes
  <2>2. \A f \in Settings : Parsed'[f] = Parsed[f]
    BY <1>0, <2>1, ParsedIs, ParsedNextIs, AllSettings
  <2>3. Parsed \in [Settings -> 0..7] /\ Parsed' \in [Settings -> 0..7]
    BY ParsedType, ParsedNextType
  <2>4. QED
    BY <2>2, <2>3
<1>3. pc \notin {"status", "calib_tp", "calib_h"} \cup Writing \cup PwrSteps
  BY <1>0, ResetMode DEF SleepInv, AtRest, Stage, Maker, Untouched, Writing, HumSteps,
         PtSteps, CfgSteps, PwrSteps
<1>4. Stage'
  BY <1>0, <1>2, <1>3
     DEF Stage, Maker, Untouched, PressTempWork, ConfigWork, HumWork, Writing, HumSteps,
         PtSteps, CfgSteps, PwrSteps
<1>5. \A f \in Settings : Expected(f)' = Expected(f)
  BY <1>0 DEF Expected
<1>6. Judged'
  BY <1>0, <1>1, <1>2, <1>5 DEF Judged, OkMeansDone, CleanCallIsComplete, Succeeded, Settings
<1>7. QED
  BY <1>4, <1>6

LEMMA StutterStage == Stage /\ Judged /\ UNCHANGED vars => Stage' /\ Judged'
<1>. SUFFICES ASSUME Stage, Judged, UNCHANGED vars PROVE Stage' /\ Judged'
  OBVIOUS
<1>1. /\ UNCHANGED <<ctrl_hum, hum_used, ctrl_meas, config, pc, reload, settings, reg_data>>
      /\ UNCHANGED <<op, before, calib, result, failed>>
  BY DEF vars, chip, local, call
<1>2. Parsed' = Parsed
  BY <1>1, ParsedSame
<1>3. \A f \in Settings : Expected(f)' = Expected(f)
  BY <1>1 DEF Expected
<1>4. Stage'
  BY <1>1, <1>2
     DEF Stage, Maker, Untouched, PressTempWork, ConfigWork, HumWork, From, Goal, Asked
<1>5. Judged'
  BY <1>1, <1>2, <1>3 DEF Judged, OkMeansDone, CleanCallIsComplete, Succeeded, Settings
<1>6. QED
  BY <1>4, <1>5


LEMMA JudgedKept ==
    ASSUME TypeOK, TypeOK', SleepInv, Stage, Judged, [Next]_vars
    PROVE  Stage' /\ Judged'
<1>1. ASSUME NEW o \in Ops, Call(o) PROVE Stage' /\ Judged'
  BY <1>1, CallStage
<1>2. CASE ReadChipId \/ GetMode \/ ReadSettings \/ WriteReset \/ ReadStatus \/ ReadCalib
  BY <1>2, ReadsStage
<1>3. CASE WriteHum \/ HumRead \/ HumWrite
  BY <1>3, WriteHumStage, HumReadStage, HumWriteStage
<1>4. CASE PressTempRead \/ PressTempWrite
  BY <1>4, PressTempReadStage, PressTempWriteStage
<1>5. CASE ConfigRead \/ ConfigWrite
  BY <1>5, ConfigReadStage, ConfigWriteStage
<1>6. CASE PowerRead \/ PowerWrite
  BY <1>6, PowerStage
<1>7. CASE ForcedDone
  BY <1>7, ForcedStage
<1>8. CASE UNCHANGED vars
  BY <1>8, StutterStage
<1>9. QED
  BY <1>1, <1>2, <1>3, <1>4, <1>5, <1>6, <1>7, <1>8 DEF Next, Transfer

----------------------------------------------------------------------------
(* No transfer makes up a value of a setting.                              *)

(* Nothing is written, and no excuse is lost.                              *)
LEMMA KeptUnwritten ==
    ASSUME Kept, UNCHANGED <<ctrl_hum, ctrl_meas, config, op, before>>,
           reload => reload', failed => failed'
    PROVE  Kept'
<1>1. Parsed' = Parsed
  BY ParsedSame
<1>2. QED
  BY <1>1 DEF Kept

(* After a reset every register has still to be written: the reload ends   *)
(* with the last of them only.                                             *)
LEMMA ReloadGoesOn ==
    ASSUME TypeOK, TypeOK', HumWrite \/ PressTempWrite
    PROVE  reload' = reload
<1>1. CASE reload
  <2>1. Any({"osr_p", "osr_t"}) /\ Any({"filter", "standby"})
    BY <1>1, AnyOf DEF PressTemp, FiltStand
  <2>2. QED
    BY <2>1 DEF HumWrite, PressTempWrite, HumNext, OsrWritten
<1>2. CASE ~ reload
  <2>1. reload' = FALSE \/ reload' = reload
    BY DEF HumWrite, PressTempWrite, HumNext, OsrWritten, Written
  <2>2. QED
    BY <1>2, <2>1 DEF TypeOK
<1>3. QED
  BY <1>1, <1>2

LEMMA FailedStays ==
    ASSUME TypeOK, Transfer, failed
    PROVE  failed'
BY DEF TypeOK, Transfer, ReadChipId, GetMode, ReadSettings, WriteReset, ReadStatus, ReadCalib,
       WriteHum, HumRead, HumWrite, PressTempRead, PressTempWrite, ConfigRead, ConfigWrite,
       PowerRead, PowerWrite, Read, BusError, HumFails, HumNext, OsrWritten

LEMMA KeptKept ==
    ASSUME TypeOK, TypeOK', Stage, Kept, [Next]_vars
    PROVE  Kept'
<1>. DEFINE Touched(f) == \/ Parsed'[f] = before[f]
                          \/ f \in op.sel /\ Parsed'[f] = op.value % 8
                          \/ Parsed'[f] = 0 /\ (reload' \/ (f = "osr_h" /\ failed'))
<1>0. ASSUME UNCHANGED <<op, before>>, \A f \in Settings : Touched(f)
      PROVE  Kept'
  BY <1>0 DEF Kept
<1>1. ASSUME NEW f \in Settings
      PROVE  /\ Goal(f) = before[f] \/ (f \in op.sel /\ Goal(f) = op.value % 8)
             /\ From(f) = before[f] \/ (From(f) = 0 /\ reload)
  <2>1. CASE reload
    BY <2>1 DEF Goal, From
  <2>2. CASE ~ reload
    BY <2>2 DEF Goal, Asked, From
  <2>3. QED
    BY <2>1, <2>2
<1>2. ASSUME NEW o \in Ops, Call(o) PROVE Kept'
  <2>1. Parsed' = Parsed /\ before' = Parsed
    BY <1>2, ParsedSame DEF Call, chip
  <2>2. QED
    BY <2>1 DEF Kept
<1>3. CASE \/ ReadChipId \/ GetMode \/ ReadSettings \/ ReadStatus \/ ReadCalib
           \/ HumRead \/ PressTempRead \/ ConfigRead \/ PowerRead
  <2>1. UNCHANGED <<ctrl_hum, ctrl_meas, config, op, before>> /\ (reload => reload')
    BY <1>3 DEF ReadChipId, GetMode, ReadSettings, ReadStatus, ReadCalib, HumRead,
                PressTempRead, ConfigRead, PowerRead, chip, local, call
  <2>2. QED
    BY <1>3, <2>1, FailedStays, KeptUnwritten DEF Transfer
<1>4. CASE WriteReset
  <2>1. UNCHANGED <<op, before, reload>>
    BY <1>4 DEF WriteReset, call
  <2>2. CASE UNCHANGED chip
    BY <1>4, <2>1, <2>2, FailedStays, KeptUnwritten DEF Transfer, chip
  <2>3. CASE ChipResets
    <3>1. \A f \in Settings : Parsed'[f] = 0
      <4>1. ctrl_hum' = 0 /\ ctrl_meas' = 0 /\ config' = 0
        BY <2>3 DEF ChipResets
      <4>2. QED
        BY <4>1, ParsedNextIs, GetZero, AllSettings
    <3>2. reload \/ op.name \in {"init", "reset"}
      BY <1>4 DEF WriteReset, Stage, Maker
    <3>3. QED
      BY <2>1, <3>1, <3>2 DEF Kept
  <2>4. QED
    BY <1>4, <2>2, <2>3 DEF WriteReset
<1>5. CASE WriteHum
  <2>1. /\ UNCHANGED <<op, before, reload, ctrl_meas, config>> /\ pc = "hum"
    BY <1>5 DEF WriteHum, local, call
  <2>2. CASE UNCHANGED ctrl_hum
    BY <1>5, <2>1, <2>2, FailedStays, KeptUnwritten DEF Transfer
  <2>3. CASE ctrl_hum' = Wanted("osr_h") % 8
    <3>1. Wanted("osr_h") \in 0..255 /\ Wanted("osr_h") % 8 = Goal("osr_h")
      BY <2>1, Midway, WantedIsGoal, WantedValue, AllSettings DEF Writing, HumSteps
    <3>2. Parsed'["osr_h"] = Goal("osr_h")
      BY <2>3, <3>1, ParsedNextIs
    <3>3. \A f \in PressTemp \cup FiltStand : Parsed'[f] = Parsed[f]
      BY <2>1, ParsedIs, ParsedNextIs
    <3>4. failed => failed'
      BY <1>5, FailedStays DEF Transfer
    <3>5. QED
      BY <1>1, <2>1, <3>2, <3>3, <3>4, AllSettings DEF Kept
  <2>4. QED
    BY <1>5, <2>2, <2>3 DEF WriteHum
<1>6. CASE HumWrite \/ PressTempWrite
  <2>1. UNCHANGED <<op, before>> /\ reload' = reload /\ (failed => failed')
    BY <1>6, ReloadGoesOn, FailedStays DEF Transfer, HumWrite, PressTempWrite, call
  <2>2. CASE UNCHANGED chip
    BY <2>1, <2>2, KeptUnwritten DEF chip
  <2>3. CASE WriteMeas(reg_data)
    <3>1. \A f \in PressTemp : Get(f, reg_data) = From(f) \/ Get(f, reg_data) = Goal(f)
      BY <1>6 DEF HumWrite, PressTempWrite, Stage, PressTempWork
    <3>2. \A f \in PressTemp : Parsed'[f] = From(f) \/ Parsed'[f] = Goal(f)
      BY <2>3, <3>1, MeasWritten
    <3>3. \A f \in FiltStand \cup {"osr_h"} : Parsed'[f] = Parsed[f]
      BY <2>3, MeasWritten
    <3>4. QED
      BY <1>1, <2>1, <3>2, <3>3, AllSettings DEF Kept
  <2>4. QED
    BY <1>6, <2>2, <2>3 DEF HumWrite, PressTempWrite
<1>7. CASE ConfigWrite
  <2>1. /\ pc = "cfg_write" /\ pc \in Writing /\ pc \in CfgSteps /\ pc # "hum"
        /\ UNCHANGED <<op, before, ctrl_hum, ctrl_meas>> /\ (failed => failed')
    BY <1>7, FailedStays DEF Transfer, ConfigWrite, call, Writing, CfgSteps
  <2>2. /\ \A f \in PressTemp : Parsed'[f] = Goal(f)
        /\ Parsed'["osr_h"] = Parsed["osr_h"]
        /\ \/ Parsed["osr_h"] = Goal("osr_h")
           \/ failed /\ Parsed["osr_h"] \in {0, before["osr_h"]}
    BY <2>1, Midway, ParsedIs, ParsedNextIs
  <2>3. CASE config' = reg_data
    <3>1. \A f \in FiltStand : Parsed'[f] = Goal(f)
      BY <2>1, <2>3, ParsedNextIs DEF Stage, ConfigWork
    <3>2. QED
      BY <1>1, <2>1, <2>2, <3>1, AllSettings DEF Kept
  <2>4. CASE config' = config /\ UNCHANGED reload
    BY <2>1, <2>4, KeptUnwritten
  <2>5. QED
    BY <1>7, <2>3, <2>4 DEF ConfigWrite
<1>8. CASE PowerWrite
  <2>1. /\ UNCHANGED <<op, before, reload>> /\ (failed => failed')
    BY <1>8, FailedStays DEF Transfer, PowerWrite, local, call
  <2>2. CASE UNCHANGED chip
    BY <2>1, <2>2, KeptUnwritten DEF chip
  <2>3. CASE WriteMeas(reg_data)
    <3>1. \A f \in PressTemp : Parsed'[f] = before[f]
      BY <1>8, <2>3, MeasWritten DEF PowerWrite, Stage, PressTempWork
    <3>2. \A f \in FiltStand \cup {"osr_h"} : Parsed'[f] = Parsed[f]
      BY <2>3, MeasWritten
    <3>3. QED
      BY <2>1, <3>1, <3>2, AllSettings DEF Kept
  <2>4. QED
    BY <1>8, <2>2, <2>3 DEF PowerWrite
<1>9. CASE ForcedDone
  <2>1. /\ UNCHANGED <<ctrl_hum, config, op, before, reload, failed>>
        /\ ctrl_meas' = SetBits(ctrl_meas, 1, 4, 0)
    BY <1>9 DEF ForcedDone, local, call
  <2>2. \A f \in PressTemp : Get(f, ctrl_meas') = Get(f, ctrl_meas)
    BY <2>1, GetSetMode DEF TypeOK, Modes
  <2>3. \A f \in Settings : Parsed'[f] = Parsed[f]
    BY <2>1, <2>2, ParsedIs, ParsedNextIs, AllSettings
  <2>4. QED
    BY <2>1, <2>3 DEF Kept
<1>10. CASE UNCHANGED vars
  BY <1>10, KeptUnwritten DEF vars, chip, local, call
<1>11. QED
  BY <1>2, <1>3, <1>4, <1>5, <1>6, <1>7, <1>8, <1>9, <1>10 DEF Next, Transfer

----------------------------------------------------------------------------
(* The work of every call is where its next transfer expects it, through   *)
(* failures, resets and reloads (bme280.c:413-710, 859-1125).              *)
THEOREM WorkIsKept == Spec => []WorkInv
<1>1. Init => WorkInv
  <2>. SUFFICES ASSUME Init PROVE WorkInv
    OBVIOUS
  <2>1. pc = "idle" /\ result = "none" /\ before = NoSettings
    BY DEF Init
  <2>2. \A f \in Settings : Parsed[f] = 0
    <3>1. ctrl_hum = 0 /\ ctrl_meas = 0 /\ config = 0
      BY DEF Init
    <3>2. \A f \in Settings : Get(f, 0) = 0
      BY GetZero
    <3>3. QED
      BY <3>1, <3>2 DEF Parsed, Settings
  <2>3. Stage
    BY <2>1 DEF Stage, Maker, Untouched, PressTempWork, ConfigWork, HumWork, Writing,
                HumSteps, PtSteps, CfgSteps, PwrSteps
  <2>4. Judged
    BY <2>1 DEF Judged, OkMeansDone, CleanCallIsComplete, Succeeded
  <2>5. Kept
    BY <2>1, <2>2 DEF Kept, NoSettings
  <2>6. QED
    BY <2>3, <2>4, <2>5 DEF WorkInv
<1>2. IInv /\ IInv' /\ WorkInv /\ [Next]_vars => WorkInv'
  BY JudgedKept, KeptKept DEF IInv, WorkInv
<1>3. QED
  BY <1>1, <1>2, WritesAtRest, PTL DEF Spec

(* A call that returns 0 has set, reset or read all it was asked to, also  *)
(* when it had to reset and reload the chip (set_sensor_settings,          *)
(* bme280.c:555-597, set_sensor_mode, bme280.c:627-651).                   *)
THEOREM SuccessIsReal == Spec => []OkMeansDone
<1>1. WorkInv => OkMeansDone
  BY DEF WorkInv, Judged
<1>2. QED
  BY <1>1, WorkIsKept, PTL

(* Without a failure of the bus a call succeeds, and the oversampling of   *)
(* humidity is right and in effect too (bme280.c:859-905).                 *)
THEOREM CleanIsComplete == Spec => []CleanCallIsComplete
<1>1. WorkInv => CleanCallIsComplete
  BY DEF WorkInv, Judged
<1>2. QED
  BY <1>1, WorkIsKept, PTL

(* Wherever a call fails, each setting is the old one, the one asked for   *)
(* or the default of a chip that was reset (put_device_to_sleep and        *)
(* reload_device_settings, bme280.c:1082-1125).                            *)
THEOREM OldOrAsked == Spec => []NothingInvented
<1>1. WorkInv => NothingInvented
  BY DEF WorkInv, Kept, NothingInvented
<1>2. QED
  BY <1>1, WorkIsKept, PTL

----------------------------------------------------------------------------
(* The most transfers a call can still make.  That it falls with each is   *)
(* what CallEnds rests on, besides fairness.                               *)
TransfersLeft ==
    CASE pc = "idle" -> 0
      [] pc \in {"cfg_write", "pwr_write", "calib_h"} -> IF reload THEN 9 ELSE 1
      [] pc \in {"cfg_read", "pwr_read", "calib_tp"} -> IF reload THEN 10 ELSE 2
      [] pc = "pt_write" -> IF reload THEN 11 ELSE 3
      [] pc = "pt_read" -> IF reload THEN 12 ELSE 4
      [] pc = "hum_write" -> IF reload THEN 13 ELSE 5
      [] pc = "hum_read" -> IF reload THEN 14 ELSE 6
      [] pc = "hum" -> IF reload THEN 15 ELSE 7
      [] pc = "status" -> 16 + try_run
      [] pc = "reset" -> 22
      [] pc \in {"id", "save"} -> 23
      [] pc = "mode" -> 24

(* The table, row by row, for a state and the next.                        *)
LEMMA TransfersLeftIs ==
    ASSUME TypeOK
    PROVE  /\ pc = "idle" => TransfersLeft = 0
           /\ pc \in {"cfg_write", "pwr_write", "calib_h"} =>
                 TransfersLeft = IF reload THEN 9 ELSE 1
           /\ pc \in {"cfg_read", "pwr_read", "calib_tp"} =>
                 TransfersLeft = IF reload THEN 10 ELSE 2
           /\ pc = "pt_write" => TransfersLeft = IF reload THEN 11 ELSE 3
           /\ pc = "pt_read" => TransfersLeft = IF reload THEN 12 ELSE 4
           /\ pc = "hum_write" => TransfersLeft = IF reload THEN 13 ELSE 5
           /\ pc = "hum_read" => TransfersLeft = IF reload THEN 14 ELSE 6
           /\ pc = "hum" => TransfersLeft = IF reload THEN 15 ELSE 7
           /\ pc = "status" => TransfersLeft = 16 + try_run
           /\ pc = "reset" => TransfersLeft = 22
           /\ pc \in {"id", "save"} => TransfersLeft = 23
           /\ pc = "mode" => TransfersLeft = 24
           /\ try_run \in 0..5
           /\ TransfersLeft \in 0..24
BY DEF TransfersLeft, TypeOK

LEMMA TransfersLeftNextIs ==
    ASSUME TypeOK'
    PROVE  /\ pc' = "idle" => TransfersLeft' = 0
           /\ pc' \in {"cfg_write", "pwr_write", "calib_h"} =>
                 TransfersLeft' = IF reload' THEN 9 ELSE 1
           /\ pc' \in {"cfg_read", "pwr_read", "calib_tp"} =>
                 TransfersLeft' = IF reload' THEN 10 ELSE 2
           /\ pc' = "pt_write" => TransfersLeft' = IF reload' THEN 11 ELSE 3
           /\ pc' = "pt_read" => TransfersLeft' = IF reload' THEN 12 ELSE 4
           /\ pc' = "hum_write" => TransfersLeft' = IF reload' THEN 13 ELSE 5
           /\ pc' = "hum_read" => TransfersLeft' = IF reload' THEN 14 ELSE 6
           /\ pc' = "hum" => TransfersLeft' = IF reload' THEN 15 ELSE 7
           /\ pc' = "status" => TransfersLeft' = 16 + try_run'
           /\ pc' = "reset" => TransfersLeft' = 22
           /\ pc' \in {"id", "save"} => TransfersLeft' = 23
           /\ pc' = "mode" => TransfersLeft' = 24
           /\ try_run' \in 0..5
BY DEF TransfersLeft, TypeOK

(* Every transfer goes on to one with less ahead of it, or ends the call.  *)
LEMMA TransfersFall ==
    ASSUME TypeOK, TypeOK', Stage, Transfer
    PROVE  TransfersLeft' < TransfersLeft
<1>. USE TransfersLeftIs, TransfersLeftNextIs DEF Read, Goto, Return, BusError, local
<1>1. ASSUME pc' = "idle", pc # "idle" PROVE TransfersLeft' < TransfersLeft
  <2>1. TransfersLeft > 0
    BY <1>1 DEF TypeOK
  <2>2. QED
    BY <1>1, <2>1
<1>2. ASSUME Asleep, ~ reload'
      PROVE  \/ pc' = "idle"
             \/ TransfersLeft' \in 0..7 /\ pc' \in {"hum", "pt_read", "cfg_read", "pwr_read"}
  BY <1>2 DEF Asleep
<1>3. CASE ReadChipId \/ ReadSettings
  BY <1>1, <1>3 DEF ReadChipId, ReadSettings
<1>4. CASE GetMode
  <2>1. pc = "mode" /\ ~ reload
    BY <1>4 DEF GetMode, Stage, Maker
  <2>2. CASE Read("save")
    BY <2>1, <2>2
  <2>3. CASE Asleep /\ UNCHANGED reload
    BY <1>2, <2>1, <2>3
  <2>4. QED
    BY <1>1, <1>4, <2>1, <2>2, <2>3 DEF GetMode
<1>5. CASE WriteReset
  BY <1>1, <1>5 DEF WriteReset
<1>6. CASE ReadStatus
  <2>1. pc = "status" /\ UNCHANGED reload
    BY <1>6 DEF ReadStatus
  <2>2. CASE Read("calib_tp") \/ Read("hum")
    BY <2>1, <2>2
  <2>3. CASE try_run > 0 /\ try_run' = try_run - 1 /\ Read("status")
    BY <2>1, <2>3
  <2>4. CASE pc' = "idle"
    BY <1>1, <2>1, <2>4
  <2>5. QED
    BY <1>6, <2>2, <2>3, <2>4 DEF ReadStatus
<1>7. CASE ReadCalib
  BY <1>1, <1>7 DEF ReadCalib
<1>8. CASE WriteHum \/ HumRead
  BY <1>1, <1>8 DEF WriteHum, HumRead, HumFails
<1>9. ASSUME OsrWritten, pc \in {"hum_write", "pt_write"}
      PROVE  TransfersLeft' < TransfersLeft
  <2>1. CASE Goto("cfg_read") /\ UNCHANGED reload
    BY <1>9, <2>1
  <2>2. CASE Written /\ ~ reload
    BY <1>1, <1>9, <2>2 DEF Written
  <2>3. CASE Written /\ reload
    BY <1>2, <1>9, <2>3 DEF Written
  <2>4. QED
    BY <1>9, <2>1, <2>2, <2>3 DEF OsrWritten
<1>10. CASE HumWrite
  <2>1. pc = "hum_write"
    BY <1>10 DEF HumWrite
  <2>2. CASE Goto("pt_read") /\ UNCHANGED reload
    BY <2>1, <2>2
  <2>3. CASE pc' = "idle"
    BY <1>1, <2>1, <2>3
  <2>4. QED
    BY <1>9, <1>10, <2>1, <2>2, <2>3 DEF HumWrite, HumNext, HumFails
<1>11. CASE PressTempRead \/ ConfigRead
  BY <1>1, <1>11 DEF PressTempRead, ConfigRead
<1>12. CASE PressTempWrite
  BY <1>1, <1>9, <1>12 DEF PressTempWrite
<1>13. CASE ConfigWrite
  <2>1. pc = "cfg_write"
    BY <1>13 DEF ConfigWrite
  <2>2. CASE Written /\ ~ reload
    BY <1>1, <2>1, <2>2 DEF Written
  <2>3. CASE Written /\ reload
    BY <1>2, <2>1, <2>3 DEF Written
  <2>4. QED
    BY <1>1, <1>13, <2>1, <2>2, <2>3 DEF ConfigWrite
<1>14. CASE PowerRead \/ PowerWrite
  BY <1>1, <1>14 DEF PowerRead, PowerWrite
<1>15. QED
  BY <1>3, <1>4, <1>5, <1>6, <1>7, <1>8, <1>10, <1>11, <1>12, <1>13, <1>14 DEF Transfer

(* No call makes more than 24 transfers, not even one that resets and      *)
(* reloads a chip that never seems to finish copying (the loop of          *)
(* bme280_soft_reset, bme280.c:693-699): each leaves fewer to make.        *)
THEOREM CallIsBounded ==
    Spec => /\ [](TransfersLeft \in 0..24)
            /\ [][Transfer => TransfersLeft' < TransfersLeft]_vars
<1>1. TypeOK => TransfersLeft \in 0..24
  BY TransfersLeftIs
<1>2. TypeOK /\ TypeOK' /\ WorkInv /\ [Next]_vars
         => [Transfer => TransfersLeft' < TransfersLeft]_vars
  BY TransfersFall DEF WorkInv
<1>3. QED
  BY <1>1, <1>2, TypeCorrect, WorkIsKept, PTL DEF Spec


=============================================================================
