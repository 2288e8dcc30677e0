------------------------------ MODULE Firmware -----------------------------
(***************************************************************************)
(* The device from power-up to telemetry: app_main of src/main/app_main.c  *)
(* runs the NVS start-up, the Wi-Fi station, the MQTT client, the sensor   *)
(* registry and the telemetry task in this order, and everything but the   *)
(* NVS partition is lost when the chip restarts.                           *)
(*                                                                         *)
(* WifiManager (W), MqttManager (M) and SensorManager (S) are composed     *)
(* here: the main task drives their start-up, MQTT connects only while the *)
(* station holds an address, and a payload is built from a collection.     *)
(***************************************************************************)
EXTENDS Naturals, Sequences

CONSTANTS
    EventQueueSize, ConnectCanFail,                       \* of W
    Slots,                                                \* of M
    Drivers, RegisterAll, HasInit, HasRead, InitCanFail,  \* of S
    ReadCanFail, Readings, KvMax, MaxSensors, MaxSensorKV

(* What WifiManager and SensorManager assume of theirs.                    *)
ASSUME FirmwareAssumption ==
    /\ EventQueueSize \in Nat /\ EventQueueSize >= 4
    /\ ConnectCanFail \in BOOLEAN
    /\ RegisterAll \subseteq Seq(Drivers)
    /\ {HasInit, HasRead, InitCanFail, ReadCanFail} \subseteq SUBSET Drivers
    /\ KvMax \in Nat /\ MaxSensors \in Nat /\ MaxSensorKV \in Nat \ {0}
    /\ Readings \in [Drivers -> 0..KvMax]
    /\ MaxSensors * KvMax <= MaxSensorKV

VARIABLES
    nvs,     \* the NVS partition in flash
    boot,    \* how far app_main is
    wifi_connected, init_step, ready, wifi_registered, evq, handling, radio,
    dhcp,
    main_pc, mqtt_client, mqtt_connected, mqtt_registered, client, lock,
    events, task_pc, heap, box, told, wire, acks, received, taken,
    sensor_pc, calls, registered_sensors, initialized, i, out, index,
    total_count, log

wifiVars   == <<wifi_connected, init_step, ready, wifi_registered, evq,
                handling, radio, dhcp>>
mqttVars   == <<main_pc, mqtt_client, mqtt_connected, mqtt_registered, client,
                lock, events, task_pc, heap, box, told, wire, acks, received,
                taken>>
sensorVars == <<sensor_pc, calls, registered_sensors, initialized, i, out,
                index, total_count, log>>
vars == <<nvs, boot, wifiVars, mqttVars, sensorVars>>

(* The events others post to the default loop are left to WifiManager: but *)
(* for their places in the queue they change nothing.                      *)
W == INSTANCE WifiManager
        WITH registered <- wifi_registered, OtherEvents <- 0, others <- 0
M == INSTANCE MqttManager WITH registered <- mqtt_registered, pc <- task_pc
S == INSTANCE SensorManager WITH pc <- sensor_pc

(* nvs_flash_init formats an erased partition; on "full" and "newer" it    *)
(* returns the two errors app_main knows, on "broken" another one.         *)
NvsStates == {"ok", "full", "newer", "erased", "broken"}

Init ==
    /\ nvs \in NvsStates
    /\ boot = "nvs"
    /\ W!Init /\ M!Init /\ S!Init

----------------------------------------------------------------------------
(* The main task.                                                          *)

(* A mistake: only one of the two errors is answered.                      *)
NvsInit_NotNewer ==
    /\ boot = "nvs"
    /\ boot' = IF nvs = "full" THEN "erase" ELSE "wifi"
    /\ nvs' = IF nvs = "erased" THEN "ok" ELSE nvs
    /\ UNCHANGED <<wifiVars, mqttVars, sensorVars>>

(* Any other error is ignored.                                             *)
NvsInit ==
    /\ boot = "nvs"
    /\ boot' = IF nvs \in {"full", "newer"} THEN "erase" ELSE "wifi"
    /\ nvs' = IF nvs = "erased" THEN "ok" ELSE nvs
    /\ UNCHANGED <<wifiVars, mqttVars, sensorVars>>

NvsErase ==
    /\ boot = "erase"
    /\ nvs' = "erased" /\ boot' = "reinit"
    /\ UNCHANGED <<wifiVars, mqttVars, sensorVars>>

NvsReinit ==
    /\ boot = "reinit"
    /\ nvs' = "ok" /\ boot' = "wifi"
    /\ UNCHANGED <<wifiVars, mqttVars, sensorVars>>

(* ESP_ERROR_CHECK of nvs_flash_erase or of the second nvs_flash_init.     *)
NvsAbort ==
    /\ boot \in {"erase", "reinit"}
    /\ boot' = "aborted"
    /\ UNCHANGED <<nvs, wifiVars, mqttVars, sensorVars>>

(* wifi_init_sta; the Wi-Fi driver keeps its data in NVS, and esp_wifi_init *)
(* fails without it.                                                       *)
WifiInit ==
    /\ boot = "wifi"
    /\ init_step = 3 => nvs = "ok"     \* the call is esp_wifi_init
    /\ W!InitCall
    /\ UNCHANGED <<nvs, boot, mqttVars, sensorVars>>

WifiAbort ==
    /\ boot = "wifi"
    /\ W!InitAbort
    /\ boot' = "aborted"
    /\ UNCHANGED <<nvs, mqttVars, sensorVars>>

(* The wait for the connection ends.                                       *)
WifiReady ==
    /\ boot = "wifi"
    /\ W!WaitEnds
    /\ boot' = "mqtt"
    /\ UNCHANGED <<nvs, mqttVars, sensorVars>>

MqttInit ==
    /\ boot = "mqtt"
    /\ M!ClientInit \/ M!RegisterEvent \/ M!ClientStart
    /\ boot' = IF main_pc' = "task" THEN "sensors" ELSE "mqtt"
    /\ UNCHANGED <<nvs, wifiVars, sensorVars>>

SensorsInit ==
    /\ boot = "sensors"
    /\ S!Register \/ S!StartInit \/ S!InitOne \/ S!InitDone
    /\ boot' = IF sensor_pc' = "idle" THEN "task" ELSE "sensors"
    /\ UNCHANGED <<nvs, wifiVars, mqttVars>>

(* A mistake: the task is created while the sensors are being initialised. *)
CreateTask_Early ==
    /\ boot \in {"sensors", "task"} /\ sensor_pc # "register"
    /\ M!CreateTask
    /\ boot' = IF boot = "task" THEN "done" ELSE boot
    /\ UNCHANGED <<nvs, wifiVars, sensorVars>>

CreateTask ==
    /\ boot = "task"
    /\ M!CreateTask
    /\ boot' = "done"
    /\ UNCHANGED <<nvs, wifiVars, sensorVars>>

(* What xTaskCreate returns is not looked at.                              *)
CreateTaskFails ==
    /\ boot = "task"
    /\ boot' = "done"
    /\ UNCHANGED <<nvs, wifiVars, mqttVars, sensorVars>>

(* abort(), a panic, a watchdog or the power: RAM starts afresh.           *)
Restart ==
    /\ boot' = "nvs"
    /\ UNCHANGED nvs
    /\ wifi_connected' = FALSE /\ init_step' = 0 /\ ready' = FALSE
    /\ wifi_registered' = {} /\ evq' = <<>> /\ handling' = W!None
    /\ radio' = "off" /\ dhcp' = "off"
    /\ main_pc' = "init" /\ mqtt_client' = FALSE /\ mqtt_registered' = FALSE
    /\ mqtt_connected' = FALSE
    /\ client' = "stopped" /\ lock' = M!Free /\ events' = <<>>
    /\ task_pc' = "off" /\ heap' = 0
    /\ box' = [s \in Slots |-> "done"] /\ told' = [s \in Slots |-> "none"]
    /\ wire' = {} /\ acks' = {} /\ received' = {} /\ taken' = 0
    /\ sensor_pc' = "register" /\ calls' \in RegisterAll
    /\ registered_sensors' = <<>>
    /\ initialized' = [d \in Drivers |-> FALSE]
    /\ i' = 0 /\ index' = 0 /\ total_count' = 0 /\ log' = <<>>
    /\ out' = [c \in S!Cells |-> S!Junk]

----------------------------------------------------------------------------
(* The other tasks.                                                        *)

(* After an abort nothing runs any more.                                   *)
Alive == boot # "aborted"

Radio(A) == Alive /\ A /\ UNCHANGED <<nvs, boot, mqttVars, sensorVars>>
Mqtt(A)  == Alive /\ A /\ UNCHANGED <<nvs, boot, wifiVars, sensorVars>>

EventLoop == Radio(W!TakeEvent \/ W!HandleEvent)
Associate == Radio(W!Associate)
DhcpBind  == Radio(W!DhcpBind)
LeaseLapse == Radio(W!LeaseLapse)
LinkDown  == Radio(W!LinkDown)

Connect == dhcp = "bound" /\ Mqtt(M!Connect)
ClientTask == Mqtt(M!DispatchEvent \/ M!ClientUnlock)
Resend(s) == Mqtt(M!Resend(s))
Acked(s)  == Mqtt(M!Acked(s))
BrokerReceives(s) == Mqtt(M!BrokerReceives(s))
MqttTrouble ==
    Mqtt(\/ M!ConnectFails \/ M!Drop \/ M!SendNoMemory
         \/ \E s \in Slots : M!Expire(s) \/ M!SendFails(s))

(* publish_task between two builds.                                        *)
Telemetry ==
    Mqtt(M!Check \/ M!PublishChecks \/ M!TelemetryUnlock \/ M!Release \/ M!Delay)
Send == \E s \in Slots : Mqtt(M!SendOnline(s) \/ M!SendOffline(s))

(* build_device_json collects in the same task, and gives no payload when  *)
(* the collection gave no reading (json_builder.c:28) or memory is short.  *)
Collect ==
    /\ Alive /\ task_pc = "build"
    /\ S!StartCollect \/ S!Skip \/ S!ReadOk \/ S!ReadFailed
    /\ UNCHANGED <<nvs, boot, wifiVars, mqttVars>>

Build ==
    /\ Alive /\ S!CollectDone
    /\ IF total_count' > 0 THEN M!BuildOk ELSE M!BuildFails
    /\ UNCHANGED <<nvs, boot, wifiVars>>

BuildNoMemory ==
    /\ Alive /\ S!CollectDone
    /\ M!BuildFails
    /\ UNCHANGED <<nvs, boot, wifiVars>>

----------------------------------------------------------------------------
Main ==
    \/ NvsInit \/ NvsErase \/ NvsReinit \/ NvsAbort
    \/ WifiInit \/ WifiAbort \/ WifiReady
    \/ MqttInit \/ SensorsInit \/ CreateTask \/ CreateTaskFails

Next ==
    \/ Main \/ Restart
    \/ EventLoop \/ Associate \/ DhcpBind \/ LeaseLapse \/ LinkDown
    \/ Connect \/ ClientTask \/ MqttTrouble
    \/ \E s \in Slots : Resend(s) \/ Acked(s) \/ BrokerReceives(s)
    \/ Telemetry \/ Send \/ Collect \/ Build \/ BuildNoMemory

(* As in W and M; and a chip that aborted restarts.                        *)
Fairness ==
    /\ WF_vars(Main)
    /\ WF_vars(~ Alive /\ Restart)
    /\ WF_vars(EventLoop) /\ SF_vars(Associate) /\ SF_vars(DhcpBind)
    /\ SF_vars(Connect) /\ WF_vars(ClientTask)
    /\ WF_vars(Telemetry \/ Collect \/ Build) /\ SF_vars(Send)
    /\ \A s \in Slots :
          SF_vars(Resend(s)) /\ SF_vars(Acked(s)) /\ WF_vars(BrokerReceives(s))

Spec == Init /\ [][Next]_vars /\ Fairness

----------------------------------------------------------------------------
(* sensor_manager.c keeps its registry in statics without a lock: the main *)
(* task and the telemetry task never use it at the same time, and the      *)
(* telemetry task never runs before the network has once been up.          *)
RegistryHasOneUser ==
    task_pc # "off" => ready /\ sensor_pc \notin {"register", "init"}

(* What disturbs a device, and what a boot may leave undone without a      *)
(* word: it comes back only with the next restart.                         *)
Trouble ==
    \/ Alive /\ Restart
    \/ NvsAbort \/ (WifiAbort /\ nvs = "ok") \/ CreateTaskFails
    \/ LinkDown \/ MqttTrouble \/ BuildNoMemory

Crippled ==
    \/ boot \in {"sensors", "task", "done"} /\ ~ M!Started
    \/ boot = "done" /\ task_pc = "off"

(* From any crash, at any point of the start-up, the device finds its way  *)
(* back: once trouble ends, messages reach the broker for ever, unless the *)
(* NVS partition is broken beyond the two errors app_main repairs or the   *)
(* boot lost its MQTT client or its telemetry task unnoticed.              *)
TelemetryResumes ==
    nvs # "broken" /\ <>[][~ Trouble]_vars /\ <>[]~ Crippled
        => \E s \in Slots : []<><<BrokerReceives(s)>>_vars

(* A partition that lacks space or is of another version is made usable in *)
(* one boot, wherever a crash cuts its repair in two; one that app_main    *)
(* cannot repair, and whose error it ignores, never lets a boot get past   *)
(* the start of Wi-Fi.                                                     *)
NvsRepaired ==
    /\ boot = "wifi" => nvs \in {"ok", "broken"}
    /\ boot \in {"mqtt", "sensors", "task", "done"} => nvs = "ok"

=============================================================================
