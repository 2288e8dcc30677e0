--------------------------- MODULE SensorManager ---------------------------
(***************************************************************************)
(* The sensor registry of src/main/sensor_manager.c: registration and      *)
(* initialisation by the main task at boot, then one collection after      *)
(* another by the telemetry task.                                          *)
(*                                                                         *)
(* A driver is what sensor_manager.h makes it: an init and a read, either  *)
(* of which may be missing or fail.  read is handed a pointer into the     *)
(* caller's buffer and not the room that is left behind it.                *)
(***************************************************************************)
EXTENDS Naturals, Sequences

CONSTANTS
    Drivers,
    RegisterAll,     \* the sequences of registrations a boot may make
    HasInit,         \* drivers whose init is not NULL
    HasRead,         \* drivers whose read is not NULL
    InitCanFail,     \* drivers whose init may return an error
    ReadCanFail,     \* drivers whose read may return an error
    Readings,        \* Readings[d]: the readings a successful read stores
    KvMax,           \* a bound on Readings
    MaxSensors,      \* MAX_SENSORS, 8
    MaxSensorKV      \* MAX_SENSOR_KV, 32

(* The last conjunct is what keeps the buffer safe.  In the firmware the   *)
(* largest driver stores 3 readings, and 8 * 3 <= 32.                      *)
ASSUME SensorAssumption ==
    /\ RegisterAll \subseteq Seq(Drivers)
    /\ {HasInit, HasRead, InitCanFail, ReadCanFail} \subseteq SUBSET Drivers
    /\ KvMax \in Nat /\ MaxSensors \in Nat /\ MaxSensorKV \in Nat \ {0}
    /\ Readings \in [Drivers -> 0..KvMax]
    /\ MaxSensors * KvMax <= MaxSensorKV

VARIABLES
    pc,                  \* where the registry's callers are
    calls,               \* registrations register_all has still to make
    registered_sensors,  \* the drivers registered, in order
    initialized,         \* each driver's initialized field
    i,                   \* iterations made by the running loop
    out,                 \* the caller's buffer and the memory behind it
    index,               \* readings stored by this collection so far
    total_count,         \* what the last collection reported
    log                  \* history: where each driver of this collection
                         \* was read, and how many readings it gave

vars == <<pc, calls, registered_sensors, initialized, i, out, index,
          total_count, log>>
bootVars == <<calls, registered_sensors, initialized>>
outVars  == <<out, index, total_count, log>>

sensor_count == Len(registered_sensors)

Cells   == 0..(MaxSensorKV + KvMax)
Junk    == <<>>
Reading == Drivers \X (1..KvMax)

Init ==
    /\ pc = "register"
    /\ calls \in RegisterAll
    /\ registered_sensors = <<>>
    /\ initialized = [d \in Drivers |-> FALSE]
    /\ i = 0
    /\ out = [c \in Cells |-> Junk]
    /\ index = 0
    /\ total_count = 0
    /\ log = <<>>

----------------------------------------------------------------------------
(* Boot: sensor_manager_register_all, then sensor_manager_init_all.        *)

(* A mistake: the check for a full registry lets one driver too many in.   *)
Register_OneTooMany ==
    /\ pc = "register" /\ calls # <<>>
    /\ calls' = Tail(calls)
    /\ IF sensor_count <= MaxSensors
       THEN /\ registered_sensors' = Append(registered_sensors, Head(calls))
            /\ initialized' = [initialized EXCEPT ![Head(calls)] = FALSE]
       ELSE UNCHANGED <<registered_sensors, initialized>>
    /\ UNCHANGED <<pc, i, outVars>>

(* sensor_manager_register; no caller looks at the ESP_FAIL it returns     *)
(* when the registry is full.                                              *)
Register ==
    /\ pc = "register" /\ calls # <<>>
    /\ calls' = Tail(calls)
    /\ IF sensor_count < MaxSensors
       THEN /\ registered_sensors' = Append(registered_sensors, Head(calls))
            /\ initialized' = [initialized EXCEPT ![Head(calls)] = FALSE]
       ELSE UNCHANGED <<registered_sensors, initialized>>
    /\ UNCHANGED <<pc, i, outVars>>

StartInit ==
    /\ pc = "register" /\ calls = <<>>
    /\ pc' = "init" /\ i' = 0
    /\ UNCHANGED <<bootVars, outVars>>

(* One iteration of init_all: a driver without init keeps its field.       *)
InitOne ==
    /\ pc = "init" /\ i < sensor_count
    /\ i' = i + 1
    /\ LET d == registered_sensors[i + 1] IN
       \/ d \in HasInit      /\ initialized' = [initialized EXCEPT ![d] = TRUE]
       \/ d \in HasInit \cap InitCanFail
                             /\ initialized' = [initialized EXCEPT ![d] = FALSE]
       \/ d \notin HasInit   /\ UNCHANGED initialized
    /\ UNCHANGED <<pc, calls, registered_sensors, outVars>>

InitDone ==
    /\ pc = "init" /\ i = sensor_count
    /\ pc' = "idle"
    /\ UNCHANGED <<bootVars, i, outVars>>

----------------------------------------------------------------------------
(* sensor_manager_collect.                                                 *)

(* The caller's buffer is on its stack: its old contents mean nothing.     *)
StartCollect ==
    /\ pc \in {"idle", "collected"}
    /\ pc' = "collect" /\ i' = 0
    /\ out' = [c \in Cells |-> Junk]
    /\ index' = 0
    /\ log' = <<>>
    /\ UNCHANGED <<bootVars, total_count>>

(* d->read(&out[index], ...) stores its first n readings.                  *)
Stored(d, n) ==
    [c \in Cells |-> IF c \in index..(index + n - 1)
                     THEN <<d, c - index + 1>> ELSE out[c]]

Readable(d) == initialized[d] /\ d \in HasRead

Skip ==
    /\ pc = "collect" /\ i < sensor_count
    /\ ~ Readable(registered_sensors[i + 1])
    /\ i' = i + 1
    /\ log' = Append(log, [at |-> index, got |-> 0])
    /\ UNCHANGED <<pc, bootVars, out, index, total_count>>

(* Mistakes: the loop gives up one driver early; the next driver starts    *)
(* over the last reading of this one.                                      *)
ReadOk_StopsEarly ==
    /\ pc = "collect" /\ i < sensor_count
    /\ LET d == registered_sensors[i + 1]
           n == Readings[d] IN
       /\ Readable(d)
       /\ out' = Stored(d, n)
       /\ index' = index + n
       /\ log' = Append(log, [at |-> index, got |-> n])
       /\ pc' = IF index' + KvMax >= MaxSensorKV THEN "full" ELSE "collect"
    /\ i' = i + 1
    /\ UNCHANGED <<bootVars, total_count>>
ReadOk_Overlaps ==
    /\ pc = "collect" /\ i < sensor_count
    /\ LET d == registered_sensors[i + 1]
           n == Readings[d] IN
       /\ Readable(d)
       /\ out' = Stored(d, n)
       /\ index' = index + (IF n > 1 THEN n - 1 ELSE n)
       /\ log' = Append(log, [at |-> index, got |-> n])
       /\ pc' = IF index' >= MaxSensorKV THEN "full" ELSE "collect"
    /\ i' = i + 1
    /\ UNCHANGED <<bootVars, total_count>>

(* The driver's read succeeds; a buffer found full ends the loop.          *)
ReadOk ==
    /\ pc = "collect" /\ i < sensor_count
    /\ LET d == registered_sensors[i + 1]
           n == Readings[d] IN
       /\ Readable(d)
       /\ out' = Stored(d, n)
       /\ index' = index + n
       /\ log' = Append(log, [at |-> index, got |-> n])
       /\ pc' = IF index' >= MaxSensorKV THEN "full" ELSE "collect"
    /\ i' = i + 1
    /\ UNCHANGED <<bootVars, total_count>>

(* The read fails, having stored some of its readings: they stay in the    *)
(* buffer, but are not counted.                                            *)
ReadFailed ==
    /\ pc = "collect" /\ i < sensor_count
    /\ LET d == registered_sensors[i + 1] IN
       /\ Readable(d) /\ d \in ReadCanFail
       /\ \E n \in 0..Readings[d] : out' = Stored(d, n)
    /\ i' = i + 1
    /\ log' = Append(log, [at |-> index, got |-> 0])
    /\ UNCHANGED <<pc, bootVars, index, total_count>>

CollectDone ==
    /\ pc = "full" \/ (pc = "collect" /\ i = sensor_count)
    /\ pc' = "collected"
    /\ total_count' = index
    /\ UNCHANGED <<bootVars, i, out, index, log>>

----------------------------------------------------------------------------
Next ==
    \/ Register \/ StartInit \/ InitOne \/ InitDone
    \/ StartCollect \/ Skip \/ ReadOk \/ ReadFailed \/ CollectDone

Spec == Init /\ [][Next]_vars

----------------------------------------------------------------------------
(* The variables have their types, and the registry's array of MAX_SENSORS *)
(* pointers is never overrun.                                              *)
TypeOK ==
    /\ pc \in {"register", "init", "idle", "collect", "full", "collected"}
    /\ calls \in Seq(Drivers)
    /\ registered_sensors \in Seq(Drivers) /\ sensor_count <= MaxSensors
    /\ initialized \in [Drivers -> BOOLEAN]
    /\ i \in 0..sensor_count
    /\ out \in [Cells -> Reading \cup {Junk}]
    /\ index \in Nat /\ total_count \in Nat
    /\ log \in Seq([at : Nat, got : 0..KvMax])

(* No read ever stores behind the caller's buffer of MAX_SENSOR_KV         *)
(* readings, although read is not told how much room is left and the loop  *)
(* looks at index only after the read.                                     *)
NoOverrun == \A c \in Cells : c >= MaxSensorKV => out[c] = Junk

End(e) == e.at + e.got

(* What a collection reports is exactly what the drivers gave: the first   *)
(* total_count cells are the complete readings of the drivers that         *)
(* succeeded, in registration order and without a gap, and nothing a       *)
(* failing driver left half done is counted or has damaged a neighbour.    *)
OutIsExact ==
    pc = "collected" =>
        /\ total_count = IF log = <<>> THEN 0 ELSE End(log[Len(log)])
        /\ \A k \in 1..Len(log) :
              /\ log[k].at = IF k = 1 THEN 0 ELSE End(log[k - 1])
              /\ \A n \in 1..log[k].got :
                    out[log[k].at + n - 1] = <<registered_sensors[k], n>>

(* The end of the buffer is never met with drivers left to read: every     *)
(* registered driver has its turn in every collection, and one that is     *)
(* readable and cannot fail is reported in full.                           *)
NoneSkipped ==
    pc = "collected" =>
        \A k \in 1..sensor_count :
            /\ k <= Len(log)
            /\ LET d == registered_sensors[k] IN
               Readable(d) /\ d \notin ReadCanFail => log[k].got = Readings[d]

=============================================================================
