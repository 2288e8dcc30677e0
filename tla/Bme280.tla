------------------------------- MODULE Bme280 -------------------------------
(***************************************************************************)
(* The register protocol of src/main/bme280.c: initialisation, soft reset, *)
(* power modes and settings, over a bus on which any transfer may fail.    *)
(*                                                                         *)
(* A call is a series of transfers, one action each.  A change of settings *)
(* or mode needs a sleeping chip, and the driver puts it to sleep with a   *)
(* soft reset, after which it writes the settings it read before back.     *)
(* The chip (ctrl_hum, hum_used, ctrl_meas, config) is external: its       *)
(* registers are bytes, a forced measurement ends by itself, and what a    *)
(* failed write has done to it is not known.  Left out are NULL pointers,  *)
(* and the measured values, which no transfer depends on.                  *)
(***************************************************************************)
EXTENDS Integers

CONSTANTS
    Selections,   \* the sets of settings a caller may select
    Values        \* the values a caller may ask for, of every selected one

Modes    == {0, 1, 3}       \* sleep, forced, normal
Settings == {"osr_h", "osr_p", "osr_t", "filter", "standby"}
OSR      == {"osr_h", "osr_p", "osr_t"}

ASSUME Bme280Assumption ==
    /\ Selections \subseteq SUBSET Settings
    /\ Values \subseteq 0..255

VARIABLES
    ctrl_hum,    \* the humidity control register
    hum_used,    \* the humidity oversampling in effect
    ctrl_meas,   \* osr_t, osr_p and the mode
    config,      \* standby and filter
    pc,          \* the next transfer
    op,          \* the call under way, or the last one
    reload,      \* is it in put_device_to_sleep?
    settings,    \* settings read from the chip
    reg_data,    \* a register read to be changed and written back
    try_run,     \* status reads left
    calib,       \* the calibration data in dev: none, temp_press or all
    result,      \* what the last call returned
    before,      \* history: the settings when the call began
    failed       \* history: has the bus or the chip failed this call?

chip  == <<ctrl_hum, hum_used, ctrl_meas, config>>
local == <<reload, settings, reg_data, try_run>>
call  == <<op, before>>
vars  == <<chip, pc, local, call, calib, result, failed>>

Bytes == 0..255

(* BME280_GET_BITS and BME280_SET_BITS: a field is size values wide and    *)
(* counts in units.                                                        *)
GetBits(b, unit, size) == (b \div unit) % size

(* A mistake: a value too large for its field spills into the next.        *)
SetBits_Spills(b, unit, size, data) == b + unit * (data - GetBits(b, unit, size))
SetBits(b, unit, size, data) == b + unit * ((data % size) - GetBits(b, unit, size))

(* A mistake: the pressure field is taken one bit too low.                 *)
Unit_PressLow(f) ==
    CASE f = "osr_p" -> 2 [] f = "filter" -> 4 [] f \in {"osr_t", "standby"} -> 32
      [] f = "osr_h" -> 1
Unit(f) ==
    CASE f \in {"osr_p", "filter"} -> 4 [] f \in {"osr_t", "standby"} -> 32
      [] f = "osr_h" -> 1

Get(f, b) == GetBits(b, Unit(f), 8)
Set(f, b, data) == SetBits(b, Unit(f), 8, data)
Mode(b) == GetBits(b, 1, 4)

(* parse_device_settings, of the registers as they are.                    *)
Parsed == [f \in Settings |-> Get(f, CASE f = "osr_h" -> ctrl_hum
                                       [] f \in {"osr_p", "osr_t"} -> ctrl_meas
                                       [] f \in {"filter", "standby"} -> config)]

NoSettings == [f \in Settings |-> 0]

Ops == {[name |-> n, sel |-> {}, value |-> 0] : n \in {"init", "reset", "get"}}
        \cup [name : {"mode"}, sel : {{}}, value : Modes]
        \cup [name : {"settings"}, sel : Selections, value : Values]

Init ==
    /\ ctrl_hum = 0 /\ hum_used = 0 /\ ctrl_meas = 0 /\ config = 0
    /\ pc = "idle" /\ op = [name |-> "get", sel |-> {}, value |-> 0]
    /\ reload = FALSE /\ settings = NoSettings /\ reg_data = 0 /\ try_run = 0
    /\ calib = "none" /\ result = "none"
    /\ before = NoSettings /\ failed = FALSE

----------------------------------------------------------------------------
Goto(p)   == pc' = p /\ UNCHANGED result
Return(r) == pc' = "idle" /\ result' = r

(* A mistake: after the reset only what the caller selects is written.     *)
Selected_OnlyAsked(f) == f \in op.sel

(* The settings being written and their values: all of them, as they were, *)
(* after a reset; the caller's otherwise.                                  *)
Selected(f) == reload \/ f \in op.sel
Wanted(f)   == IF reload THEN settings[f] ELSE op.value
Any(F)      == \E f \in F : Selected(f)

(* A failed transfer ends the call.                                        *)
BusError == failed' = TRUE /\ Return("COMM_FAIL")

Read(next) == Goto(next) /\ UNCHANGED failed

(* The chip sleeps: what the call was made for begins.                     *)
Asleep ==
    \/ op.name = "mode" /\ Goto("pwr_read")
    \/ "osr_h" \in op.sel /\ Goto("hum")
    \/ "osr_h" \notin op.sel /\ op.sel \cap OSR # {} /\ Goto("pt_read")
    \/ op.sel \cap OSR = {} /\ op.sel # {} /\ Goto("cfg_read")
    \/ op.name = "settings" /\ op.sel = {} /\ Return("OK")

(* The settings are complete: back to the call that needed a sleeping      *)
(* chip, or to the caller.                                                 *)
Written == reload' = FALSE /\ IF reload THEN Asleep ELSE Return("OK")

----------------------------------------------------------------------------
(* A call.                                                                 *)
Call(o) ==
    /\ pc = "idle"
    /\ op' = o /\ before' = Parsed /\ failed' = FALSE /\ result' = "none"
    /\ pc' = CASE o.name = "init" -> "id" [] o.name = "reset" -> "reset"
               [] o.name = "get" -> "save" [] OTHER -> "mode"
    /\ reload' = FALSE /\ settings' = NoSettings /\ reg_data' = 0 /\ try_run' = 0
    /\ UNCHANGED <<chip, calib>>

(* bme280_init: the chip answers with its id, or another one does.         *)
ReadChipId ==
    /\ pc = "id"
    /\ \/ Read("reset")
       \/ Return("DEV_NOT_FOUND") /\ failed' = TRUE
       \/ BusError
    /\ UNCHANGED <<chip, local, call, calib>>

(* A mistake: settings are changed whatever mode the chip is in.           *)
GetMode_NoSleep ==
    /\ pc = "mode"
    /\ \/ reload' = TRUE /\ op.name = "mode" /\ Mode(ctrl_meas) # 0 /\ Read("save")
       \/ UNCHANGED reload /\ op.name = "mode" /\ Mode(ctrl_meas) = 0 /\ Read("pwr_read")
       \/ UNCHANGED reload /\ op.name = "settings" /\ Read("cfg_read")
       \/ UNCHANGED reload /\ BusError
    /\ UNCHANGED <<chip, settings, reg_data, try_run, call, calib>>

(* set_sensor_mode and set_sensor_settings begin with the mode: a chip     *)
(* that does not sleep is put to sleep.                                    *)
GetMode ==
    /\ pc = "mode"
    /\ \/ /\ Mode(ctrl_meas) # 0
          /\ reload' = TRUE /\ Read("save")
       \/ Mode(ctrl_meas) = 0 /\ UNCHANGED <<reload, failed>> /\ Asleep
       \/ UNCHANGED reload /\ BusError
    /\ UNCHANGED <<chip, settings, reg_data, try_run, call, calib>>

(* The four bytes from CTRL_HUM: get_sensor_settings, put_device_to_sleep. *)
ReadSettings ==
    /\ pc = "save"
    /\ \/ /\ settings' = Parsed
          /\ IF reload THEN Read("reset") ELSE Return("OK") /\ UNCHANGED failed
       \/ UNCHANGED settings /\ BusError
    /\ UNCHANGED <<chip, reload, reg_data, try_run, call, calib>>

----------------------------------------------------------------------------
(* bme280_soft_reset.                                                      *)

ChipResets == ctrl_hum' = 0 /\ hum_used' = 0 /\ ctrl_meas' = 0 /\ config' = 0

WriteReset ==
    /\ pc = "reset"
    /\ \/ ChipResets /\ try_run' = 5 /\ Read("status")
       \/ (ChipResets \/ UNCHANGED chip) /\ UNCHANGED try_run /\ BusError
    /\ UNCHANGED <<reload, settings, reg_data, call, calib>>

(* A mistake: the count of tries wraps, and starts again.                  *)
ReadStatus_Forever ==
    /\ pc = "status"
    /\ \/ /\ UNCHANGED try_run
          /\ \/ op.name = "init" /\ Read("calib_tp")
             \/ op.name = "reset" /\ Return("OK") /\ UNCHANGED failed
             \/ op.name \notin {"init", "reset"} /\ Read("hum")
       \/ try_run' = (IF try_run = 0 THEN 5 ELSE try_run - 1) /\ Read("status")
       \/ UNCHANGED try_run /\ BusError
    /\ UNCHANGED <<chip, reload, settings, reg_data, call, calib>>

(* The chip is done copying its memory, or it is not: then the status is   *)
(* read again, six times in all.  The last disjunct is a sixth read that   *)
(* finds it busy, and any read that fails and leaves it looking busy.      *)
ReadStatus ==
    /\ pc = "status"
    /\ \/ /\ UNCHANGED try_run
          /\ \/ op.name = "init" /\ Read("calib_tp")
             \/ op.name = "reset" /\ Return("OK") /\ UNCHANGED failed
             \/ op.name \notin {"init", "reset"} /\ Read("hum")
       \/ try_run > 0 /\ try_run' = try_run - 1 /\ Read("status")
       \/ UNCHANGED try_run /\ BusError
       \/ UNCHANGED try_run /\ failed' = TRUE /\ Return("NVM_COPY_FAILED")
    /\ UNCHANGED <<chip, reload, settings, reg_data, call, calib>>

(* get_calib_data: two transfers.                                          *)
ReadCalib ==
    /\ \/ pc = "calib_tp" /\ calib' = "temp_press" /\ Read("calib_h")
       \/ pc = "calib_h"  /\ calib' = "all" /\ Return("OK") /\ UNCHANGED failed
       \/ pc \in {"calib_tp", "calib_h"} /\ UNCHANGED calib /\ BusError
    /\ UNCHANGED <<chip, local, call>>

----------------------------------------------------------------------------
(* set_osr_settings.                                                       *)

(* What set_osr_humidity_settings returns is overwritten when pressure or  *)
(* temperature are set next: its failure then goes unnoticed.              *)
HumFails ==
    /\ failed' = TRUE
    /\ IF Any({"osr_p", "osr_t"}) THEN Goto("pt_read") ELSE Return("COMM_FAIL")

OsrWritten ==
    /\ UNCHANGED failed
    /\ IF Any({"filter", "standby"}) THEN Goto("cfg_read") /\ UNCHANGED reload
                                     ELSE Written

WriteHum ==
    /\ pc = "hum"
    /\ \/ ctrl_hum' = Wanted("osr_h") % 8 /\ Read("hum_read")
       \/ (ctrl_hum' = Wanted("osr_h") % 8 \/ UNCHANGED ctrl_hum) /\ HumFails
    /\ UNCHANGED <<hum_used, ctrl_meas, config, local, call, calib>>

HumNext ==
    IF Any({"osr_p", "osr_t"}) THEN Read("pt_read") /\ UNCHANGED reload ELSE OsrWritten

(* A mistake: a new humidity oversampling is not made effective.           *)
HumRead_NoWriteBack ==
    /\ pc = "hum_read"
    /\ \/ HumNext
       \/ UNCHANGED reload /\ HumFails
    /\ UNCHANGED <<chip, settings, reg_data, try_run, call, calib>>

HumRead ==
    /\ pc = "hum_read"
    /\ \/ reg_data' = ctrl_meas /\ Read("hum_write")
       \/ UNCHANGED reg_data /\ HumFails
    /\ UNCHANGED <<chip, reload, settings, try_run, call, calib>>

(* A write of ctrl_meas, which also makes ctrl_hum effective.              *)
WriteMeas(b) == ctrl_meas' = b /\ hum_used' = ctrl_hum /\ UNCHANGED <<ctrl_hum, config>>

HumWrite ==
    /\ pc = "hum_write"
    /\ \/ WriteMeas(reg_data) /\ HumNext
       \/ (WriteMeas(reg_data) \/ UNCHANGED chip) /\ UNCHANGED reload /\ HumFails
    /\ UNCHANGED <<settings, reg_data, try_run, call, calib>>

(* A read of a register, with the selected fields of it filled in.         *)
Filled(f, b) == IF Selected(f) THEN Set(f, b, Wanted(f)) ELSE b

PressTempRead ==
    /\ pc = "pt_read"
    /\ \/ reg_data' = Filled("osr_t", Filled("osr_p", ctrl_meas)) /\ Read("pt_write")
       \/ UNCHANGED reg_data /\ BusError
    /\ UNCHANGED <<chip, reload, settings, try_run, call, calib>>

PressTempWrite ==
    /\ pc = "pt_write"
    /\ \/ WriteMeas(reg_data) /\ OsrWritten
       \/ (WriteMeas(reg_data) \/ UNCHANGED chip) /\ UNCHANGED reload /\ BusError
    /\ UNCHANGED <<settings, reg_data, try_run, call, calib>>

(* set_filter_standby_settings.                                            *)
ConfigRead ==
    /\ pc = "cfg_read"
    /\ \/ reg_data' = Filled("standby", Filled("filter", config)) /\ Read("cfg_write")
       \/ UNCHANGED reg_data /\ BusError
    /\ UNCHANGED <<chip, reload, settings, try_run, call, calib>>

ConfigWrite ==
    /\ pc = "cfg_write"
    /\ \/ config' = reg_data /\ Written /\ UNCHANGED failed
       \/ config' \in {config, reg_data} /\ UNCHANGED reload /\ BusError
    /\ UNCHANGED <<ctrl_hum, hum_used, ctrl_meas, settings, reg_data, try_run,
                   call, calib>>

(* write_power_mode.                                                       *)
PowerRead ==
    /\ pc = "pwr_read"
    /\ \/ reg_data' = SetBits(ctrl_meas, 1, 4, op.value) /\ Read("pwr_write")
       \/ UNCHANGED reg_data /\ BusError
    /\ UNCHANGED <<chip, reload, settings, try_run, call, calib>>

PowerWrite ==
    /\ pc = "pwr_write"
    /\ \/ WriteMeas(reg_data) /\ Return("OK") /\ UNCHANGED failed
       \/ (WriteMeas(reg_data) \/ UNCHANGED chip) /\ BusError
    /\ UNCHANGED <<local, call, calib>>

----------------------------------------------------------------------------
(* The chip: a forced measurement ends, and the chip sleeps again.         *)
ForcedDone ==
    /\ Mode(ctrl_meas) = 1
    /\ ctrl_meas' = SetBits(ctrl_meas, 1, 4, 0)
    /\ UNCHANGED <<ctrl_hum, hum_used, config, pc, local, call, calib, result, failed>>

Transfer ==
    \/ ReadChipId \/ GetMode \/ ReadSettings \/ WriteReset \/ ReadStatus \/ ReadCalib
    \/ WriteHum \/ HumRead \/ HumWrite \/ PressTempRead \/ PressTempWrite
    \/ ConfigRead \/ ConfigWrite \/ PowerRead \/ PowerWrite

Next == (\E o \in Ops : Call(o)) \/ Transfer \/ ForcedDone

(* A call under way goes on.                                               *)
Spec == Init /\ [][Next]_vars /\ WF_vars(Transfer)

----------------------------------------------------------------------------
(* The variables have their types: registers stay bytes.                   *)
TypeOK ==
    /\ {ctrl_hum, ctrl_meas, config, reg_data} \subseteq Bytes
    /\ hum_used \in Bytes
    /\ pc \in {"idle", "id", "mode", "save", "reset", "status", "calib_tp",
               "calib_h", "hum", "hum_read", "hum_write", "pt_read", "pt_write",
               "cfg_read", "cfg_write", "pwr_read", "pwr_write"}
    /\ op \in Ops
    /\ {reload, failed} \subseteq BOOLEAN
    /\ settings \in [Settings -> 0..7] /\ before \in [Settings -> 0..7]
    /\ try_run \in 0..5
    /\ calib \in {"none", "temp_press", "all"}
    /\ result \in {"none", "OK", "COMM_FAIL", "NVM_COPY_FAILED", "DEV_NOT_FOUND"}

Expected(f) ==
    CASE op.name \in {"init", "reset"} -> 0
      [] op.name \in {"get", "mode"}   -> before[f]
      [] op.name = "settings" -> IF f \in op.sel THEN op.value % 8 ELSE before[f]

Succeeded == pc = "idle" /\ result = "OK"

(* A call that reports success has done all it was asked to and nothing    *)
(* else, although it may have reset the chip on the way: every setting but *)
(* the oversampling of humidity is the wanted or the old one, the mode is  *)
(* the wanted one (or a forced measurement is over), init has all the      *)
(* calibration data and get has the settings of the chip.                  *)
OkMeansDone ==
    Succeeded =>
        /\ \A f \in Settings \ {"osr_h"} : Parsed[f] = Expected(f)
        /\ op.name = "mode" =>
              Mode(ctrl_meas) = op.value \/ (op.value = 1 /\ Mode(ctrl_meas) = 0)
        /\ op.name \in {"init", "reset", "settings"} => Mode(ctrl_meas) = 0
        /\ op.name = "init" => calib = "all"
        /\ op.name = "get" => settings = before

(* When no transfer failed, the call succeeds and the oversampling of      *)
(* humidity is right as well; a call that was to set it or that wakes the  *)
(* chip has also made it effective.                                        *)
CleanCallIsComplete ==
    pc = "idle" /\ result # "none" /\ ~ failed =>
        /\ result = "OK"
        /\ Parsed["osr_h"] = Expected("osr_h")
        /\ op.name = "mode" \/ "osr_h" \in op.sel => hum_used = ctrl_hum

(* A call that fails half way leaves nothing made up behind: each setting  *)
(* is the old one, the one asked for, or the default, and the last only    *)
(* where the chip was reset and not reloaded.  Humidity, whose failed      *)
(* reload goes unnoticed, is the exception.                                *)
NothingInvented ==
    pc = "idle" /\ result # "none" =>
        \A f \in Settings :
            \/ Parsed[f] = before[f]
            \/ f \in op.sel /\ Parsed[f] = op.value % 8
            \/ Parsed[f] = 0 /\ \/ reload \/ op.name \in {"init", "reset"}
                                \/ f = "osr_h" /\ failed

(* The chip begins to measure only where set_sensor_mode says so, and in   *)
(* the mode asked for: the settings that share a register with the mode    *)
(* never touch it, whatever is read, reset, written back or lost.          *)
NoStrayMode ==
    [][LET mode == Mode(ctrl_meas)
       IN  mode' \notin {0, mode} => pc = "pwr_write" /\ mode' = op.value]_vars

(* The chip may ignore a write of its configuration register while it      *)
(* measures (that is why the driver puts it to sleep): the register is     *)
(* only ever written, and the reset of a running measurement excepted only *)
(* ever changes, while the chip sleeps.                                    *)
ConfigOnlyAsleep ==
    [][config' # config => Mode(ctrl_meas) = 0 \/ ChipResets]_vars

(* Every call comes back, even from a chip that never finishes copying.    *)
CallEnds == pc # "idle" ~> pc = "idle"

(* "0 -> Success" (bme280.h:174): a call that returns 0 has set what it    *)
(* was asked to set, the oversampling of humidity included.                *)
ZeroMeansSuccess == Succeeded => Parsed["osr_h"] = Expected("osr_h")

=============================================================================
