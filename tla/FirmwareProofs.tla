--------------------------- MODULE FirmwareProofs ---------------------------
(***************************************************************************)
(* Proofs about Firmware, composed of those about its three components.    *)
(*                                                                         *)
(* Every step of the device is a step of a component or leaves it alone,   *)
(* or is a restart, which puts all three in their initial states.  So the  *)
(* inductive invariant each component has by itself holds of it here too,  *)
(* without being proved again.  What is left is the order of app_main,     *)
(* which BootInv states.                                                   *)
(***************************************************************************)
EXTENDS Firmware, TLAPS

WP == INSTANCE WifiManagerProofs
          WITH registered <- wifi_registered, OtherEvents <- 0, others <- 0
MP == INSTANCE MqttManagerProofs
          WITH registered <- mqtt_registered, pc <- task_pc
SP == INSTANCE SensorManagerProofs WITH pc <- sensor_pc

(* The steps the device takes of the station, as WifiManagerProofs has     *)
(* them.                                                                   *)
LEMMA WifiSteps ==
    /\ W!InitCall => WP!Next
    /\ W!InitAbort => WP!Next
    /\ W!WaitEnds => WP!Next
    /\ W!TakeEvent => WP!Next
    /\ W!HandleEvent => WP!Next
    /\ W!Associate => WP!Next
    /\ W!LinkDown => WP!Next
    /\ W!DhcpBind => WP!Next
    /\ W!LeaseLapse => WP!Next
<1>1. W!InitCall => WP!Next
  BY DEF W!InitCall, W!Done, W!InitCalls, W!Post, W!Full, WP!InitCall, WP!Done,
         WP!InitCalls, WP!Post, WP!Full, WP!Next
<1>2. W!InitAbort => WP!Next
  BY DEF W!InitAbort, W!Done, W!Aborted, W!InitCalls, WP!InitAbort, WP!Done,
         WP!Aborted, WP!InitCalls, WP!Next
<1>3. W!WaitEnds => WP!Next
  BY DEF W!WaitEnds, W!Done, W!InitCalls, WP!WaitEnds, WP!Done, WP!InitCalls,
         WP!Next
<1>4. W!TakeEvent => WP!Next
  BY DEF W!TakeEvent, W!None, W!DefaultWifiHandlers, WP!TakeEvent, WP!None,
         WP!DefaultWifiHandlers, WP!Next
<1>5. W!HandleEvent => WP!Next
  BY DEF W!HandleEvent, W!None, W!Base, W!WifiEventHandler, W!EspWifiConnect,
         WP!HandleEvent, WP!None, WP!Base, WP!WifiEventHandler,
         WP!EspWifiConnect, WP!Next
<1>6. W!Associate => WP!Next
  BY DEF W!Associate, W!Post, W!Full, WP!Associate, WP!Post, WP!Full,
         WP!Next
<1>7. W!LinkDown => WP!Next
  BY DEF W!LinkDown, W!Post, W!Full, WP!LinkDown, WP!Post, WP!Full,
         WP!Next
<1>8. W!DhcpBind => WP!Next
  BY DEF W!DhcpBind, W!Post, W!Full, WP!DhcpBind, WP!Post, WP!Full,
         WP!Next
<1>9. W!LeaseLapse => WP!Next
  BY DEF W!LeaseLapse, W!Pending, W!Queued, WP!LeaseLapse, WP!Pending,
         WP!Queued, WP!Next
<1>10. QED
  BY <1>1, <1>2, <1>3, <1>4, <1>5, <1>6, <1>7, <1>8, <1>9

(* Of the MQTT client and the telemetry task.                              *)
LEMMA MqttSteps ==
    /\ M!ClientInit => MP!Next
    /\ M!RegisterEvent => MP!Next
    /\ M!ClientStart => MP!Next
    /\ M!CreateTask => MP!Next
    /\ M!Connect => MP!Next
    /\ M!ConnectFails => MP!Next
    /\ M!Drop => MP!Next
    /\ M!DispatchEvent => MP!Next
    /\ M!ClientUnlock => MP!Next
    /\ M!Check => MP!Next
    /\ M!BuildOk => MP!Next
    /\ M!BuildFails => MP!Next
    /\ M!PublishChecks => MP!Next
    /\ M!TelemetryUnlock => MP!Next
    /\ M!Release => MP!Next
    /\ M!Delay => MP!Next
    /\ M!SendNoMemory => MP!Next
    /\ \A s \in Slots :
          /\ M!Resend(s) => MP!Next
          /\ M!Acked(s) => MP!Next
          /\ M!Expire(s) => MP!Next
          /\ M!BrokerReceives(s) => MP!Next
          /\ M!SendOnline(s) => MP!Next
          /\ M!SendOffline(s) => MP!Next
          /\ M!SendFails(s) => MP!Next
<1>1. M!ClientInit => MP!Next
  BY DEF M!ClientInit, M!taskVars, M!msgVars, MP!ClientInit, MP!taskVars,
         MP!msgVars, MP!Next, MP!Main, MP!Telemetry, MP!Send
<1>2. M!RegisterEvent => MP!Next
  BY DEF M!RegisterEvent, M!taskVars, M!msgVars, MP!RegisterEvent,
         MP!taskVars, MP!msgVars, MP!Next, MP!Main, MP!Telemetry, MP!Send
<1>3. M!ClientStart => MP!Next
  BY DEF M!ClientStart, M!taskVars, M!msgVars, MP!ClientStart, MP!taskVars,
         MP!msgVars, MP!Next, MP!Main, MP!Telemetry, MP!Send
<1>4. M!CreateTask => MP!Next
  BY DEF M!CreateTask, M!msgVars, MP!CreateTask, MP!msgVars, MP!Next,
         MP!Main, MP!Telemetry, MP!Send
<1>5. M!Connect => MP!Next
  BY DEF M!Connect, M!Free, M!initVars, M!taskVars, MP!Connect, MP!Free,
         MP!initVars, MP!taskVars, MP!Next, MP!Main, MP!Telemetry, MP!Send
<1>6. M!ConnectFails => MP!Next
  BY DEF M!ConnectFails, M!Free, M!initVars, M!taskVars, M!msgVars,
         MP!ConnectFails, MP!Free, MP!initVars, MP!taskVars, MP!msgVars,
         MP!Next, MP!Main, MP!Telemetry, MP!Send
<1>7. M!Drop => MP!Next
  BY DEF M!Drop, M!Free, M!initVars, M!taskVars, MP!Drop, MP!Free,
         MP!initVars, MP!taskVars, MP!Next, MP!Main, MP!Telemetry, MP!Send
<1>8. M!DispatchEvent => MP!Next
  BY DEF M!DispatchEvent, M!MqttEventHandler, M!initVars, M!taskVars,
         M!msgVars, MP!DispatchEvent, MP!MqttEventHandler, MP!initVars,
         MP!taskVars, MP!msgVars, MP!Next, MP!Main, MP!Telemetry, MP!Send
<1>9. M!ClientUnlock => MP!Next
  BY DEF M!ClientUnlock, M!Free, M!initVars, M!taskVars, M!msgVars,
         MP!ClientUnlock, MP!Free, MP!initVars, MP!taskVars, MP!msgVars,
         MP!Next, MP!Main, MP!Telemetry, MP!Send
<1>10. M!Check => MP!Next
  BY DEF M!Check, M!initVars, M!msgVars, MP!Check, MP!initVars, MP!msgVars,
         MP!Next, MP!Main, MP!Telemetry, MP!Send
<1>11. M!BuildOk => MP!Next
  BY DEF M!BuildOk, M!initVars, M!msgVars, MP!BuildOk, MP!initVars,
         MP!msgVars, MP!Next, MP!Main, MP!Telemetry, MP!Send
<1>12. M!BuildFails => MP!Next
  BY DEF M!BuildFails, M!initVars, M!msgVars, MP!BuildFails, MP!initVars,
         MP!msgVars, MP!Next, MP!Main, MP!Telemetry, MP!Send
<1>13. M!PublishChecks => MP!Next
  BY DEF M!PublishChecks, M!initVars, M!msgVars, MP!PublishChecks,
         MP!initVars, MP!msgVars, MP!Next, MP!Main, MP!Telemetry, MP!Send
<1>14. M!TelemetryUnlock => MP!Next
  BY DEF M!TelemetryUnlock, M!Free, M!initVars, M!msgVars,
         MP!TelemetryUnlock, MP!Free, MP!initVars, MP!msgVars, MP!Next,
         MP!Main, MP!Telemetry, MP!Send
<1>15. M!Release => MP!Next
  BY DEF M!Release, M!initVars, M!msgVars, MP!Release, MP!initVars,
         MP!msgVars, MP!Next, MP!Main, MP!Telemetry, MP!Send
<1>16. M!Delay => MP!Next
  BY DEF M!Delay, M!initVars, M!msgVars, MP!Delay, MP!initVars, MP!msgVars,
         MP!Next, MP!Main, MP!Telemetry, MP!Send
<1>17. M!SendNoMemory => MP!Next
  BY DEF M!SendNoMemory, M!Free, M!initVars, M!msgVars, MP!SendNoMemory,
         MP!Free, MP!initVars, MP!msgVars, MP!Next, MP!Main, MP!Telemetry,
         MP!Send
<1>18. \A s \in Slots : M!Resend(s) => MP!Next
  BY DEF M!Resend, M!Free, M!initVars, M!taskVars, MP!Resend, MP!Free,
         MP!initVars, MP!taskVars, MP!Next, MP!Main, MP!Telemetry, MP!Send
<1>19. \A s \in Slots : M!Acked(s) => MP!Next
  BY DEF M!Acked, M!Free, M!initVars, M!taskVars, MP!Acked, MP!Free,
         MP!initVars, MP!taskVars, MP!Next, MP!Main, MP!Telemetry, MP!Send
<1>20. \A s \in Slots : M!Expire(s) => MP!Next
  BY DEF M!Expire, M!Free, M!initVars, M!taskVars, MP!Expire, MP!Free,
         MP!initVars, MP!taskVars, MP!Next, MP!Main, MP!Telemetry, MP!Send
<1>21. \A s \in Slots : M!BrokerReceives(s) => MP!Next
  BY DEF M!BrokerReceives, M!initVars, M!taskVars, MP!BrokerReceives,
         MP!initVars, MP!taskVars, MP!Next, MP!Main, MP!Telemetry, MP!Send
<1>22. \A s \in Slots : M!SendOnline(s) => MP!Next
  BY DEF M!SendOnline, M!Store, M!Reusable, M!QoS, M!Free, M!initVars,
         MP!SendOnline, MP!Store, MP!Reusable, MP!QoS, MP!Free, MP!initVars,
         MP!Next, MP!Main, MP!Telemetry, MP!Send
<1>23. \A s \in Slots : M!SendOffline(s) => MP!Next
  BY DEF M!SendOffline, M!Store, M!Reusable, M!QoS, M!Free, M!initVars,
         MP!SendOffline, MP!Store, MP!Reusable, MP!QoS, MP!Free, MP!initVars,
         MP!Next, MP!Main, MP!Telemetry, MP!Send
<1>24. \A s \in Slots : M!SendFails(s) => MP!Next
  BY DEF M!SendFails, M!Store, M!Reusable, M!QoS, M!Free, M!initVars,
         MP!SendFails, MP!Store, MP!Reusable, MP!QoS, MP!Free, MP!initVars,
         MP!Next, MP!Main, MP!Telemetry, MP!Send
<1>25. QED
  BY <1>1, <1>2, <1>3, <1>4, <1>5, <1>6, <1>7, <1>8, <1>9, <1>10, <1>11,
     <1>12, <1>13, <1>14, <1>15, <1>16, <1>17, <1>18, <1>19, <1>20, <1>21,
     <1>22, <1>23, <1>24

(* Of the sensor registry.                                                 *)
LEMMA SensorSteps ==
    /\ S!Register => SP!Next
    /\ S!StartInit => SP!Next
    /\ S!InitOne => SP!Next
    /\ S!InitDone => SP!Next
    /\ S!StartCollect => SP!Next
    /\ S!Skip => SP!Next
    /\ S!ReadOk => SP!Next
    /\ S!ReadFailed => SP!Next
    /\ S!CollectDone => SP!Next
<1>1. S!Register => SP!Next
  BY DEF S!Register, S!sensor_count, S!outVars, SP!Register, SP!sensor_count,
         SP!outVars, SP!Next
<1>2. S!StartInit => SP!Next
  BY DEF S!StartInit, S!bootVars, S!outVars, SP!StartInit, SP!bootVars,
         SP!outVars, SP!Next
<1>3. S!InitOne => SP!Next
  BY DEF S!InitOne, S!sensor_count, S!outVars, SP!InitOne, SP!sensor_count,
         SP!outVars, SP!Next
<1>4. S!InitDone => SP!Next
  BY DEF S!InitDone, S!sensor_count, S!bootVars, S!outVars, SP!InitDone,
         SP!sensor_count, SP!bootVars, SP!outVars, SP!Next
<1>5. S!StartCollect => SP!Next
  BY DEF S!StartCollect, S!Cells, S!Junk, S!bootVars, SP!StartCollect,
         SP!Cells, SP!Junk, SP!bootVars, SP!Next
<1>6. S!Skip => SP!Next
  BY DEF S!Skip, S!sensor_count, S!Readable, S!bootVars, SP!Skip,
         SP!sensor_count, SP!Readable, SP!bootVars, SP!Next
<1>7. S!ReadOk => SP!Next
  BY DEF S!ReadOk, S!sensor_count, S!Readable, S!Stored, S!Cells, S!bootVars,
         SP!ReadOk, SP!sensor_count, SP!Readable, SP!Stored, SP!Cells,
         SP!bootVars, SP!Next
<1>8. S!ReadFailed => SP!Next
  BY DEF S!ReadFailed, S!sensor_count, S!Readable, S!Stored, S!Cells,
         S!bootVars, SP!ReadFailed, SP!sensor_count, SP!Readable, SP!Stored,
         SP!Cells, SP!bootVars, SP!Next
<1>9. S!CollectDone => SP!Next
  BY DEF S!CollectDone, S!sensor_count, S!bootVars, SP!CollectDone,
         SP!sensor_count, SP!bootVars, SP!Next
<1>10. QED
  BY <1>1, <1>2, <1>3, <1>4, <1>5, <1>6, <1>7, <1>8, <1>9

----------------------------------------------------------------------------
(* Every step of the device but a restart is, for each of the three        *)
(* components, one of its own steps or none: nobody writes another's       *)
(* variables, and no action of the composition does more than a component  *)
(* allows (app_main.c:30-85, and the tasks it starts).                     *)
LEMMA StepsOfParts ==
    ASSUME [Next]_vars, ~ Restart
    PROVE  /\ [WP!Next]_(WP!vars)
           /\ [MP!Next]_(MP!vars)
           /\ [SP!Next]_(SP!vars)
<1>w. ASSUME UNCHANGED wifiVars PROVE UNCHANGED WP!vars
  BY <1>w DEF wifiVars, WP!vars
<1>m. ASSUME UNCHANGED mqttVars PROVE UNCHANGED MP!vars
  BY <1>m DEF mqttVars, MP!vars, MP!initVars, MP!taskVars, MP!msgVars
<1>s. ASSUME UNCHANGED sensorVars PROVE UNCHANGED SP!vars
  BY <1>s DEF sensorVars, SP!vars, SP!bootVars, SP!outVars
<1>1. CASE Main
  <2>1. CASE NvsInit \/ NvsErase \/ NvsReinit \/ NvsAbort \/ CreateTaskFails
    BY <2>1, <1>w, <1>m, <1>s
       DEF NvsInit, NvsErase, NvsReinit, NvsAbort, CreateTaskFails
  <2>2. CASE WifiInit \/ WifiAbort \/ WifiReady
    BY <2>2, <1>m, <1>s, WifiSteps DEF WifiInit, WifiAbort, WifiReady
  <2>3. CASE MqttInit \/ CreateTask
    BY <2>3, <1>w, <1>s, MqttSteps DEF MqttInit, CreateTask
  <2>4. CASE SensorsInit
    BY <2>4, <1>w, <1>m, SensorSteps DEF SensorsInit
  <2>5. QED
    BY <1>1, <2>1, <2>2, <2>3, <2>4 DEF Main
<1>2. CASE EventLoop \/ Associate \/ DhcpBind \/ LeaseLapse \/ LinkDown
  BY <1>2, <1>m, <1>s, WifiSteps
     DEF EventLoop, Associate, DhcpBind, LeaseLapse, LinkDown, Radio
<1>3. CASE Connect \/ ClientTask \/ MqttTrouble
  BY <1>3, <1>w, <1>s, MqttSteps DEF Connect, ClientTask, MqttTrouble, Mqtt
<1>4. CASE \E s \in Slots : Resend(s) \/ Acked(s) \/ BrokerReceives(s)
  BY <1>4, <1>w, <1>s, MqttSteps DEF Resend, Acked, BrokerReceives, Mqtt
<1>5. CASE Telemetry \/ Send
  BY <1>5, <1>w, <1>s, MqttSteps DEF Telemetry, Send, Mqtt
<1>6. CASE Collect
  BY <1>6, <1>w, <1>m, SensorSteps DEF Collect
<1>7. CASE Build \/ BuildNoMemory
  BY <1>7, <1>w, MqttSteps, SensorSteps DEF Build, BuildNoMemory
<1>8. CASE UNCHANGED vars
  BY <1>8, <1>w, <1>m, <1>s DEF vars
<1>9. QED
  BY <1>1, <1>2, <1>3, <1>4, <1>5, <1>6, <1>7, <1>8 DEF Next

(* Power-up and restart put each component in an initial state of its own. *)
LEMMA StartOfParts ==
    /\ Init => WP!Init /\ MP!Init /\ SP!Init
    /\ Restart => WP!Init' /\ MP!Init' /\ SP!Init'
<1>1. Init => WP!Init /\ MP!Init /\ SP!Init
  BY DEF Init, W!Init, M!Init, S!Init, WP!Init, MP!Init, SP!Init,
         W!None, WP!None, M!Free, MP!Free, S!Cells, SP!Cells, S!Junk, SP!Junk
<1>2. Restart => WP!Init' /\ MP!Init' /\ SP!Init'
  BY DEF Restart, WP!Init, MP!Init, SP!Init,
         W!None, WP!None, M!Free, MP!Free, S!Cells, SP!Cells, S!Junk, SP!Junk
<1>3. QED
  BY <1>1, <1>2

(* What holds of each component by itself.                                 *)
PartsInv == WP!IInv /\ MP!IInv /\ SP!IInv

(* A component's initial state, reached again by a restart, satisfies its  *)
(* inductive invariant again.                                              *)
LEMMA PartsBeginAgain ==
    (WP!Init /\ MP!Init /\ SP!Init)' => PartsInv'
<1>1. WP!Init /\ MP!Init /\ SP!Init => PartsInv
  BY FirmwareAssumption, WP!Begin, MP!Begin, SP!Begin
     DEF PartsInv, WP!WifiAssumption, SP!SensorAssumption
<1>2. QED
  BY <1>1, PTL

LEMMA PartsBegin == Init => PartsInv
BY StartOfParts, FirmwareAssumption, WP!Begin, MP!Begin, SP!Begin
   DEF PartsInv, WP!WifiAssumption, SP!SensorAssumption

LEMMA PartsStep == PartsInv /\ [Next]_vars => PartsInv'
<1>. SUFFICES ASSUME PartsInv, [Next]_vars PROVE PartsInv'
  OBVIOUS
<1>1. CASE Restart
  BY <1>1, StartOfParts, PartsBeginAgain
<1>2. CASE ~ Restart
  BY <1>2, StepsOfParts, FirmwareAssumption, WP!Step, MP!Step, SP!Step
     DEF PartsInv, WP!WifiAssumption, SP!SensorAssumption
<1>3. QED
  BY <1>1, <1>2

----------------------------------------------------------------------------
PastWifi == {"mqtt", "sensors", "task", "done"}

(* How far app_main is tells what has been done: Wi-Fi has not begun while *)
(* the NVS partition is seen to; esp_wifi_init has passed only with it     *)
(* usable; the network has been up, and later the registry has been        *)
(* filled, before the line that follows each is reached.                   *)
BootInv ==
    /\ nvs \in NvsStates
    /\ boot \in {"nvs", "erase", "reinit", "wifi", "aborted"} \cup PastWifi
    /\ boot \in {"nvs", "erase", "reinit"} => init_step = 0
    /\ boot = "wifi" =>
          nvs \in {"ok", "broken"} /\ (init_step > 3 => nvs = "ok")
    /\ boot \in PastWifi => ready /\ nvs = "ok"
    /\ boot \in {"task", "done"} => sensor_pc \notin {"register", "init"}
    /\ task_pc # "off" => boot = "done"

(* What the steps of the components do to the variables BootInv looks at.  *)
LEMMA WifiKeepsStart ==
    EventLoop \/ Associate \/ DhcpBind \/ LeaseLapse \/ LinkDown
        => UNCHANGED <<nvs, boot, init_step, ready, task_pc, sensor_pc>>
BY DEF EventLoop, Associate, DhcpBind, LeaseLapse, LinkDown, Radio,
       mqttVars, sensorVars,  W!TakeEvent, W!HandleEvent, W!Associate, W!DhcpBind,
       W!LeaseLapse, W!LinkDown

LEMMA ClientKeepsStart ==
    ASSUME \/ Connect \/ ClientTask \/ MqttTrouble
           \/ \E s \in Slots : Resend(s) \/ Acked(s) \/ BrokerReceives(s)
    PROVE  /\ UNCHANGED <<nvs, boot, init_step, ready, sensor_pc>>
           /\ task_pc = "off" => task_pc' = "off"
BY DEF Connect, ClientTask, MqttTrouble, Resend, Acked, BrokerReceives, Mqtt,
       wifiVars, sensorVars, M!taskVars, M!Connect, M!DispatchEvent,
       M!ClientUnlock, M!Resend, M!Acked, M!BrokerReceives, M!ConnectFails,
       M!Drop, M!SendNoMemory, M!Expire, M!SendFails, M!Store

LEMMA TaskKeepsStart ==
    Telemetry \/ Send
        => UNCHANGED <<nvs, boot, init_step, ready, sensor_pc>>
           /\ task_pc # "off"
BY DEF Telemetry, Send, Mqtt, wifiVars, sensorVars, M!Check, M!PublishChecks,
       M!TelemetryUnlock, M!Release, M!Delay, M!SendOnline, M!SendOffline,
       M!Store

LEMMA CollectKeepsStart ==
    Collect \/ Build \/ BuildNoMemory
        => UNCHANGED <<nvs, boot, init_step, ready>>
           /\ task_pc # "off" /\ sensor_pc' \notin {"register", "init"}
BY DEF Collect, Build, BuildNoMemory, wifiVars, mqttVars, S!StartCollect,
       S!Skip, S!ReadOk, S!ReadFailed, S!CollectDone, M!BuildOk, M!BuildFails

LEMMA BootStep == PartsInv /\ BootInv /\ [Next]_vars => BootInv'
<1>. SUFFICES ASSUME PartsInv, BootInv, [Next]_vars PROVE BootInv'
  OBVIOUS
<1>0. init_step \in Nat
  BY DEF PartsInv, WP!IInv, WP!TypeOK, WP!Aborted, WP!Done, WP!InitCalls
<1>. USE DEF BootInv, PastWifi, NvsStates
<1>1. CASE NvsInit \/ NvsErase \/ NvsReinit \/ NvsAbort
  BY <1>1 DEF NvsInit, NvsErase, NvsReinit, NvsAbort, wifiVars, mqttVars,
              sensorVars
<1>2. CASE WifiInit
  BY <1>0, <1>2 DEF WifiInit, W!InitCall, mqttVars, sensorVars
<1>3. CASE WifiAbort
  BY <1>3 DEF WifiAbort, mqttVars, sensorVars
<1>4. CASE WifiReady
  BY <1>4 DEF WifiReady, W!WaitEnds, W!Done, W!InitCalls, mqttVars, sensorVars
<1>5. CASE MqttInit
  BY <1>5 DEF MqttInit, M!ClientInit, M!RegisterEvent, M!ClientStart,
              M!taskVars, wifiVars, sensorVars
<1>6. CASE SensorsInit
  BY <1>6 DEF SensorsInit, S!Register, S!StartInit, S!InitOne, S!InitDone,
              wifiVars, mqttVars
<1>7. CASE CreateTask \/ CreateTaskFails
  BY <1>7 DEF CreateTask, CreateTaskFails, wifiVars, mqttVars, sensorVars
<1>8. CASE Restart
  BY <1>8 DEF Restart
<1>9. CASE EventLoop \/ Associate \/ DhcpBind \/ LeaseLapse \/ LinkDown
  BY <1>9, WifiKeepsStart
<1>10. CASE \/ Connect \/ ClientTask \/ MqttTrouble
            \/ \E s \in Slots : Resend(s) \/ Acked(s) \/ BrokerReceives(s)
  BY <1>10, ClientKeepsStart
<1>11. CASE Telemetry \/ Send
  BY <1>11, TaskKeepsStart
<1>12. CASE Collect \/ Build \/ BuildNoMemory
  BY <1>12, CollectKeepsStart
<1>13. CASE UNCHANGED vars
  BY <1>13 DEF vars, wifiVars, mqttVars, sensorVars
<1>14. QED
  BY <1>1, <1>2, <1>3, <1>4, <1>5, <1>6, <1>7, <1>8, <1>9, <1>10, <1>11,
     <1>12, <1>13 DEF Next, Main

LEMMA BootBegin == Init => BootInv
BY DEF Init, BootInv, NvsStates, PastWifi, W!Init, M!Init, S!Init

----------------------------------------------------------------------------
(* The inductive invariant of the device: the components' own, and BootInv. *)
THEOREM Inductive == Spec => [](PartsInv /\ BootInv)
BY PartsBegin, PartsStep, BootBegin, BootStep, PTL DEF Spec

(* The registry's statics have one user at a time: the telemetry task runs *)
(* only after the main task has filled them and the network has been up    *)
(* (app_main.c:62-85, sensor_manager.c:12-34).                             *)
THEOREM OneUser == Spec => []RegistryHasOneUser
<1>1. BootInv => RegistryHasOneUser
  BY DEF BootInv, PastWifi, RegistryHasOneUser
<1>2. QED
  BY <1>1, Inductive, PTL

(* Wherever crashes cut the repair of the NVS partition (app_main.c:32-37), *)
(* no boot gets past the start of Wi-Fi without a usable one.              *)
THEOREM Repaired == Spec => []NvsRepaired
<1>1. BootInv => NvsRepaired
  BY DEF BootInv, PastWifi, NvsRepaired
<1>2. QED
  BY <1>1, Inductive, PTL

----------------------------------------------------------------------------
(* What the proofs of the components promise of each by itself.            *)
PartsPromise ==
    /\ W!HandlersInPlace /\ W!BoundIsAnnounced /\ W!ConnectOnlyWhenIdle
    /\ ~ ConnectCanFail => W!NeverStranded
    /\ M!FlagMatchesClient /\ M!NoPayloadLeaks
    /\ M!OnlyAStartedClientPublishes /\ M!AcceptedIsKept
    /\ S!NoOverrun /\ S!OutIsExact /\ S!NoneSkipped

LEMMA WifiPromise ==
    WP!IInv => /\ W!HandlersInPlace /\ W!BoundIsAnnounced /\ W!ConnectOnlyWhenIdle
               /\ ~ ConnectCanFail => W!NeverStranded
<1>1. WP!IInv => /\ WP!HandlersInPlace /\ WP!BoundIsAnnounced
                 /\ WP!ConnectOnlyWhenIdle
                 /\ ~ ConnectCanFail => WP!NeverStranded
  BY FirmwareAssumption, WP!StartedListens, WP!ShapeAnnounces,
     WP!ShapeConnectsIdle, WP!ShapeStrandsNobody
     DEF WP!IInv, WP!WifiAssumption
<1>2. WP!HandlersInPlace => W!HandlersInPlace
  BY DEF W!HandlersInPlace, W!Done, W!InitCalls, WP!HandlersInPlace, WP!Done,
         WP!InitCalls
<1>3. QED
  BY <1>1, <1>2
     DEF W!BoundIsAnnounced, W!ConnectOnlyWhenIdle, W!NeverStranded,
         W!Pending, W!Queued, W!Triggers, WP!BoundIsAnnounced,
         WP!ConnectOnlyWhenIdle, WP!NeverStranded, WP!Pending, WP!Queued,
         WP!Triggers

LEMMA MqttPromise ==
    MP!IInv => /\ M!FlagMatchesClient /\ M!NoPayloadLeaks
               /\ M!OnlyAStartedClientPublishes /\ M!AcceptedIsKept
<1>1. MP!IInv => /\ MP!FlagMatchesClient /\ MP!NoPayloadLeaks
                 /\ MP!OnlyAStartedClientPublishes /\ MP!AcceptedIsKept
  BY DEF MP!IInv, MP!TypeOK, MP!Flag, MP!Settled, MP!FlagMatchesClient
<1>2. QED
  BY <1>1 DEF M!FlagMatchesClient, M!NoPayloadLeaks, M!Started,
              M!OnlyAStartedClientPublishes, M!AcceptedIsKept,
              M!Free, MP!Free, MP!FlagMatchesClient, MP!NoPayloadLeaks,
              MP!Started, MP!OnlyAStartedClientPublishes, MP!AcceptedIsKept

LEMMA SensorPromise ==
    SP!IInv => S!NoOverrun /\ S!OutIsExact /\ S!NoneSkipped
<1>1. SP!IInv => SP!NoOverrun /\ SP!OutIsExact /\ SP!NoneSkipped
  BY FirmwareAssumption, SP!HistoryTells
     DEF SP!IInv, SP!BInv, SP!SensorAssumption
<1>2. QED
  BY <1>1 DEF S!NoOverrun, S!OutIsExact, S!NoneSkipped, S!End,
              S!Readable, S!sensor_count, S!Cells, S!Junk, SP!NoOverrun,
              SP!OutIsExact, SP!NoneSkipped, SP!End, SP!Readable,
              SP!sensor_count, SP!Cells, SP!Junk

(* What is proved of the station, of the MQTT client and of the sensor     *)
(* registry by themselves stays true of them in the whole device, in       *)
(* every boot: the composition and the restarts take nothing away.         *)
THEOREM PromisesCompose == Spec => []PartsPromise
<1>1. PartsInv => PartsPromise
  BY WifiPromise, MqttPromise, SensorPromise DEF PartsInv, PartsPromise
<1>2. QED
  BY <1>1, Inductive, PTL

(* As long as the chip does not restart, the MQTT messages of the whole    *)
(* device keep the promise Delivery states: each one taken is pending at   *)
(* once, settled but once, and never pending again.                        *)
THEOREM DeliveryComposes ==
    Spec => [][~ Restart => [M!Promise!Next]_(M!Promise!vars)]_vars
<1>1. ASSUME PartsInv, [Next]_vars, ~ Restart
      PROVE  [M!Promise!Next]_(M!Promise!vars)
  <2>1. MP!Promise!Next
    BY <1>1, StepsOfParts, MP!PromiseSteps DEF PartsInv
  <2>2. QED
    BY <2>1 DEF M!Fate, M!Promise!Next, M!Promise!Fates, M!Promise!Accept,
                M!Promise!Settle, M!Promise!vars, MP!Fate, MP!Promise!Next,
                MP!Promise!Fates, MP!Promise!Accept, MP!Promise!Settle
<1>2. QED
  BY <1>1, Inductive, PTL DEF Spec

=============================================================================
