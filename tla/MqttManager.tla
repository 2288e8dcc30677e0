---------------------------- MODULE MqttManager ----------------------------
(***************************************************************************)
(* Telemetry delivery: src/main/mqtt_manager.c and the publish_task of     *)
(* src/main/app_main.c, on top of the esp-mqtt client.                     *)
(*                                                                         *)
(* The main task creates and starts the client; the client's own task      *)
(* connects, loses the connection, resends and expires messages; the       *)
(* telemetry task builds a payload and publishes it, over and over.  The   *)
(* client's API lock is what orders the last two: an event is dispatched   *)
(* while the task that caused it holds the lock, and a publish takes it.   *)
(* mqtt_manager.c reads and writes mqtt_connected without it.              *)
(*                                                                         *)
(* The client (client, lock, events), its outbox (box) and the broker      *)
(* (wire, acks, received) are external to src/main and modelled from how   *)
(* the code uses them, at QoS 1 with a clean session and an automatic      *)
(* reconnect.                                                              *)
(***************************************************************************)
EXTENDS Naturals, Sequences

(* A publication lives in a slot until the outbox is done with it; then    *)
(* the slot serves a later one.  Bound: Slots messages are outstanding at  *)
(* most.  In the firmware it is one per PUBLISH_INTERVAL_MS, 5 s, for the  *)
(* 30 s the outbox keeps a message.                                        *)
CONSTANT Slots

VARIABLES
    main_pc,         \* where the main task is in mqtt_init
    mqtt_client,     \* has esp_mqtt_client_init returned a client?
    mqtt_connected,  \* the flag behind mqtt_is_connected()
    registered,      \* is mqtt_event_handler registered?
    client,          \* the client's connection
    lock,            \* who holds the client's API lock
    events,          \* events its holder has still to dispatch
    pc,              \* where the telemetry task is
    heap,            \* JSON payloads allocated and not freed
    box,             \* each slot's place in the outbox
    told,            \* what mqtt_publish reported of it
    wire,            \* messages on their way to the broker
    acks,            \* acknowledgements on their way back
    received,        \* messages the broker has got at least once
    taken            \* publications the client has stored, modulo 2: history
                     \* for Delivery, which no other action reads

initVars == <<main_pc, mqtt_client, registered>>
msgVars  == <<box, told, wire, acks, received, taken>>
taskVars == <<pc, heap>>
vars == <<main_pc, mqtt_client, mqtt_connected, registered, client, lock,
          events, pc, heap, box, told, wire, acks, received, taken>>

Free == "free"

(* The QoS of every publish, and one at which the outbox keeps nothing.    *)
QoS_AtMostOnce == 0
QoS == 1

Init ==
    /\ main_pc = "init" /\ mqtt_client = FALSE /\ registered = FALSE
    /\ mqtt_connected = FALSE
    /\ client = "stopped" /\ lock = Free /\ events = <<>>
    /\ pc = "off" /\ heap = 0
    /\ box = [s \in Slots |-> "done"]
    /\ told = [s \in Slots |-> "none"]
    /\ wire = {} /\ acks = {} /\ received = {}
    /\ taken = 0

----------------------------------------------------------------------------
(* The main task: mqtt_init, then xTaskCreate of the telemetry task.       *)

ClientInit ==
    /\ main_pc = "init"
    /\ \/ mqtt_client' = TRUE /\ main_pc' = "register"
       \/ mqtt_client' = FALSE /\ main_pc' = "task"
    /\ UNCHANGED <<mqtt_connected, registered, client, lock, events, taskVars,
                   msgVars>>

(* What esp_mqtt_client_register_event and esp_mqtt_client_start return is *)
(* not looked at: when one fails, mqtt_init carries on.                    *)
RegisterEvent ==
    /\ main_pc = "register"
    /\ main_pc' = "start"
    /\ registered' \in BOOLEAN
    /\ UNCHANGED <<mqtt_client, mqtt_connected, client, lock, events, taskVars,
                   msgVars>>

ClientStart ==
    /\ main_pc = "start"
    /\ main_pc' = "task"
    /\ client' \in {"waiting", "stopped"}
    /\ UNCHANGED <<mqtt_client, mqtt_connected, registered, lock, events,
                   taskVars, msgVars>>

CreateTask ==
    /\ main_pc = "task" /\ main_pc' = "done"
    /\ pc' = "check"
    /\ UNCHANGED <<mqtt_client, mqtt_connected, registered, client, lock,
                   events, heap, msgVars>>

----------------------------------------------------------------------------
(* The client's task.  Every step of it is made under the API lock; the    *)
(* lock is kept across the steps only while there are events to dispatch.  *)

(* What the previous connection left on the wire is lost with it.          *)
Connect ==
    /\ client = "waiting" /\ lock = Free
    /\ client' = "connected"
    /\ lock' = "client" /\ events' = <<"CONNECTED">>
    /\ wire' = {}
    /\ UNCHANGED <<initVars, mqtt_connected, taskVars, box, told, acks, received,
                   taken>>

ConnectFails ==
    /\ client = "waiting" /\ lock = Free
    /\ lock' = "client" /\ events' = <<"ERROR", "DISCONNECTED">>
    /\ UNCHANGED <<initVars, mqtt_connected, client, taskVars, msgVars>>

(* The broker, the network or the keepalive ends the connection.           *)
Drop ==
    /\ client = "connected" /\ lock = Free
    /\ client' = "waiting"
    /\ lock' = "client" /\ events' = <<"DISCONNECTED">>
    /\ acks' = {}
    /\ UNCHANGED <<initVars, mqtt_connected, taskVars, box, told, wire, received,
                   taken>>

(* A mistake: the end of a connection is not noted.                        *)
MqttEventHandler_NeverOff(e) ==
    mqtt_connected' = (mqtt_connected \/ e = "CONNECTED")

MqttEventHandler(e) ==
    \/ e = "CONNECTED"    /\ mqtt_connected' = TRUE
    \/ e = "DISCONNECTED" /\ mqtt_connected' = FALSE
    \/ e \notin {"CONNECTED", "DISCONNECTED"} /\ UNCHANGED mqtt_connected

(* A mistake: the handler of DISCONNECTED waits for the connection.        *)
DispatchEvent_Waits ==
    /\ events # <<>>
    /\ IF Head(events) = "DISCONNECTED"
       THEN UNCHANGED <<events, mqtt_connected>>
       ELSE events' = Tail(events) /\ MqttEventHandler(Head(events))
    /\ UNCHANGED <<initVars, client, lock, taskVars, msgVars>>

(* esp-mqtt dispatches in the context of the task that holds the lock.     *)
DispatchEvent ==
    /\ events # <<>>
    /\ events' = Tail(events)
    /\ IF registered THEN MqttEventHandler(Head(events))
                     ELSE UNCHANGED mqtt_connected
    /\ UNCHANGED <<initVars, client, lock, taskVars, msgVars>>

ClientUnlock ==
    /\ lock = "client" /\ events = <<>>
    /\ lock' = Free
    /\ UNCHANGED <<initVars, mqtt_connected, client, events, taskVars, msgVars>>

(* A message is sent from the outbox, for the first time or again.         *)
Resend(s) ==
    /\ client = "connected" /\ lock = Free
    /\ box[s] \in {"queued", "transmitted"} /\ s \notin wire \cup acks
    /\ box' = [box EXCEPT ![s] = "transmitted"]
    /\ wire' = wire \cup {s}
    /\ UNCHANGED <<initVars, mqtt_connected, client, lock, events, taskVars,
                   told, acks, received, taken>>

(* The broker's PUBACK takes a message out of the outbox.                  *)
Acked(s) ==
    /\ client = "connected" /\ lock = Free
    /\ s \in acks
    /\ acks' = acks \ {s}
    /\ box' = [box EXCEPT ![s] = IF @ = "transmitted" THEN "done" ELSE @]
    /\ UNCHANGED <<initVars, mqtt_connected, client, lock, events, taskVars,
                   told, wire, received, taken>>

(* Thirty seconds after it was stored a message is deleted; with           *)
(* CONFIG_MQTT_REPORT_DELETED_MESSAGES unset, no event says so.            *)
Expire(s) ==
    /\ lock = Free
    /\ box[s] \in {"queued", "transmitted"}
    /\ box' = [box EXCEPT ![s] = "expired"]
    /\ UNCHANGED <<initVars, mqtt_connected, client, lock, events, taskVars,
                   told, wire, acks, received, taken>>

(* The broker takes a message.  The acknowledgement finds its way back     *)
(* only over the connection the message came on.                           *)
BrokerReceives(s) ==
    /\ s \in wire
    /\ wire' = wire \ {s}
    /\ received' = received \cup {s}
    /\ acks' = IF client = "connected" THEN acks \cup {s} ELSE acks
    /\ UNCHANGED <<initVars, mqtt_connected, client, lock, events, taskVars,
                   box, told, taken>>

----------------------------------------------------------------------------
(* The telemetry task: publish_task, and mqtt_publish where it calls it.   *)

(* A mistake: the task leaves its loop when it finds the client offline.   *)
Check_GivesUp ==
    /\ pc = "check"
    /\ pc' = IF mqtt_connected THEN "build" ELSE "off"
    /\ UNCHANGED <<initVars, mqtt_connected, client, lock, events, heap, msgVars>>

(* A mistake: the payload is built before the connection is looked at.     *)
Check_BuildsFirst ==
    /\ pc = "check" /\ pc' = "build"
    /\ UNCHANGED <<initVars, mqtt_connected, client, lock, events, heap, msgVars>>

Check ==
    /\ pc = "check"
    /\ pc' = IF mqtt_connected THEN "build" ELSE "delay"
    /\ UNCHANGED <<initVars, mqtt_connected, client, lock, events, heap, msgVars>>

(* build_device_json: a string the task owns, or NULL.                     *)
BuildOk ==
    /\ pc = "build"
    /\ heap' = heap + 1 /\ pc' = "publish"
    /\ UNCHANGED <<initVars, mqtt_connected, client, lock, events, msgVars>>

BuildFails ==
    /\ pc = "build"
    /\ pc' = "delay"
    /\ UNCHANGED <<initVars, mqtt_connected, client, lock, events, heap, msgVars>>

(* Mistakes: a refused payload is not freed, or is freed twice; mqtt_publish *)
(* waits for the connection to come back.                                  *)
PublishChecks_Leaks ==
    /\ pc = "publish"
    /\ pc' = IF mqtt_client /\ mqtt_connected THEN "send" ELSE "delay"
    /\ UNCHANGED <<initVars, mqtt_connected, client, lock, events, heap, msgVars>>
PublishChecks_Frees ==
    /\ pc = "publish"
    /\ IF mqtt_client /\ mqtt_connected
       THEN pc' = "send" /\ UNCHANGED heap
       ELSE pc' = "release" /\ heap' = heap - 1
    /\ UNCHANGED <<initVars, mqtt_connected, client, lock, events, msgVars>>
PublishChecks_Waits ==
    /\ pc = "publish" /\ mqtt_client /\ mqtt_connected
    /\ pc' = "send"
    /\ UNCHANGED <<initVars, mqtt_connected, client, lock, events, heap, msgVars>>

(* The two guards of mqtt_publish.  The connection may have ended since    *)
(* publish_task looked, and may end again before the lock is taken.        *)
PublishChecks ==
    /\ pc = "publish"
    /\ pc' = IF mqtt_client /\ mqtt_connected THEN "send" ELSE "release"
    /\ UNCHANGED <<initVars, mqtt_connected, client, lock, events, heap, msgVars>>

(* A slot whose last message is settled and has no copy under way.  Bound: *)
(* only such a slot takes the next message; the code has no such limit.    *)
Reusable(s) == box[s] \in {"done", "expired"} /\ s \notin wire \cup acks

(* esp_mqtt_client_publish gets the lock.  A QoS 1 message goes to the     *)
(* outbox first: place is where it is then, answer what mqtt_publish makes *)
(* of the id.                                                              *)
Store(s, place, answer) ==
    /\ pc = "send" /\ lock = Free
    /\ Reusable(s)
    /\ box' = [box EXCEPT ![s] = IF QoS = 0 THEN "done" ELSE place]
    /\ told' = [told EXCEPT ![s] = answer]
    /\ received' = received \ {s}
    /\ taken' = 1 - taken
    /\ UNCHANGED <<initVars, mqtt_connected, heap>>

SendOnline(s) ==
    /\ client = "connected"
    /\ Store(s, "transmitted", "sent")
    /\ wire' = wire \cup {s}
    /\ pc' = "release"
    /\ UNCHANGED <<client, lock, events, acks>>

(* The connection is gone: the message stays queued, and its id is not     *)
(* negative.                                                               *)
SendOffline(s) ==
    /\ client # "connected"
    /\ Store(s, "queued", "sent")
    /\ pc' = "release"
    /\ UNCHANGED <<client, lock, events, wire, acks>>

(* The write to the socket fails: the client ends the connection, which    *)
(* raises DISCONNECTED in the telemetry task, and returns -1; the message  *)
(* is in the outbox all the same.                                          *)
SendFails(s) ==
    /\ client = "connected"
    /\ lock' = "telemetry" /\ events' = <<"DISCONNECTED">>
    /\ client' = "waiting"
    /\ Store(s, "queued", "failed")
    /\ pc' = "unlock"
    /\ acks' = {}
    /\ UNCHANGED wire

(* The outbox cannot take the message: a negative id, and nothing stored.  *)
SendNoMemory ==
    /\ pc = "send" /\ lock = Free
    /\ pc' = "release"
    /\ UNCHANGED <<initVars, mqtt_connected, client, lock, events, heap, msgVars>>

TelemetryUnlock ==
    /\ pc = "unlock" /\ events = <<>>
    /\ lock' = Free
    /\ pc' = "release"
    /\ UNCHANGED <<initVars, mqtt_connected, client, events, heap, msgVars>>

(* "Always free" (app_main.c:42).                                          *)
Release ==
    /\ pc = "release"
    /\ heap' = heap - 1
    /\ pc' = "delay"
    /\ UNCHANGED <<initVars, mqtt_connected, client, lock, events, msgVars>>

Delay ==
    /\ pc = "delay"
    /\ pc' = "check"
    /\ UNCHANGED <<initVars, mqtt_connected, client, lock, events, heap, msgVars>>

----------------------------------------------------------------------------
Main == ClientInit \/ RegisterEvent \/ ClientStart \/ CreateTask

Send == SendNoMemory \/ \E s \in Slots : SendOnline(s) \/ SendOffline(s) \/ SendFails(s)

Telemetry ==
    \/ Check \/ BuildOk \/ BuildFails \/ PublishChecks
    \/ TelemetryUnlock \/ Release \/ Delay

Next ==
    \/ Main
    \/ Connect \/ ConnectFails \/ Drop \/ DispatchEvent \/ ClientUnlock
    \/ \E s \in Slots : Resend(s) \/ Acked(s) \/ Expire(s) \/ BrokerReceives(s)
    \/ Telemetry \/ Send

(* The tasks are scheduled, a task waiting for the lock gets it at last,   *)
(* and the broker reads what reaches it.                                   *)
Fairness ==
    /\ WF_vars(Main)
    /\ WF_vars(DispatchEvent \/ ClientUnlock)
    /\ SF_vars(Connect)
    /\ WF_vars(Telemetry) /\ SF_vars(Send)
    /\ \A s \in Slots : SF_vars(Resend(s)) /\ SF_vars(Acked(s)) /\ WF_vars(BrokerReceives(s))

Spec == Init /\ [][Next]_vars /\ Fairness

----------------------------------------------------------------------------
(* The variables have their types.                                         *)
TypeOK ==
    /\ main_pc \in {"init", "register", "start", "task", "done"}
    /\ {mqtt_client, mqtt_connected, registered} \subseteq BOOLEAN
    /\ client \in {"stopped", "waiting", "connected"}
    /\ lock \in {Free, "client", "telemetry"}
    /\ events \in Seq({"CONNECTED", "DISCONNECTED", "ERROR"})
    /\ pc \in {"off", "check", "build", "publish", "send", "unlock",
               "release", "delay"}
    /\ heap \in Nat
    /\ box \in [Slots -> {"queued", "transmitted", "done", "expired"}]
    /\ told \in [Slots -> {"none", "sent", "failed"}]
    /\ {wire, acks, received} \subseteq SUBSET Slots
    /\ taken \in {0, 1}

(* The flag is right whenever the lock is free: no event of the client is  *)
(* missed or misread, whichever task it is dispatched in, so publish_task  *)
(* decides on the connection as it is or is just about to be.              *)
FlagMatchesClient ==
    lock = Free => mqtt_connected = (registered /\ client = "connected")

(* At most one payload is alive, and none while the task waits: whatever   *)
(* becomes of a publish, its payload is freed (app_main.c:42).             *)
NoPayloadLeaks ==
    heap = IF pc \in {"publish", "send", "unlock", "release"} THEN 1 ELSE 0

(* A publish reported as done is accounted for: the broker has the message *)
(* or the outbox still has it to send, through every loss of a connection, *)
(* of a message or of an acknowledgement; only its expiry ends that.       *)
AcceptedIsKept ==
    \A s \in Slots :
        told[s] = "sent" =>
            s \in received \/ box[s] \in {"queued", "transmitted", "expired"}

(* A telemetry cycle always ends: no call of the task waits for ever on    *)
(* the lock, not even when the write fails and the event of it is          *)
(* dispatched in the task itself.                                          *)
CycleCompletes == heap > 0 ~> heap = 0

Trouble ==
    \/ ConnectFails \/ Drop \/ BuildFails \/ SendNoMemory
    \/ \E s \in Slots : SendFails(s) \/ Expire(s)

Started == mqtt_client /\ registered /\ client # "stopped"

(* Once the network and the memory give no more trouble, telemetry flows   *)
(* for ever: a connection flag that stayed down, a lock that stayed taken  *)
(* or an outbox that never emptied would end it.                           *)
TelemetryFlows ==
    <>[]Started /\ <>[][~ Trouble]_vars
        => \E s \in Slots : []<><<BrokerReceives(s)>>_vars

(* A device whose client was not created, registered or started, each of   *)
(* which mqtt_init passes over in silence, never builds a payload: the     *)
(* task stays at its check for ever instead of filling heap or outbox.     *)
OnlyAStartedClientPublishes ==
    pc \notin {"off", "check", "delay"} => Started

(* What has become of a publication, whatever mqtt_publish said of it: an  *)
(* expired message may still arrive if a copy of it is on its way.         *)
Fate(s) ==
    IF s \in received THEN "delivered"
    ELSE IF s \in wire \/ box[s] \in {"queued", "transmitted"} THEN "pending"
    ELSE IF box[s] = "expired" THEN "lost" ELSE "none"

Promise == INSTANCE Delivery WITH fate <- [s \in Slots |-> Fate(s)]

(* Telemetry implements Delivery: through resends, lost acknowledgements,  *)
(* failed writes and expiry each publication the client stored             *)
(* (mqtt_manager.c:108) is pending at once, is delivered or given up but   *)
(* once, and stays so: no late copy, expiry or end of a connection takes   *)
(* it back, and no publication disturbs another.  (That a slot is free     *)
(* when it is taken again is the bound of Reusable, no claim of the code.) *)
KeepsItsPromise == Promise!Spec

(* Once the trouble ends, and with it all expiry, every message that is    *)
(* pending is delivered: none is left in the outbox behind the later ones. *)
DeliversWhatIsPending ==
    <>[]Started /\ <>[][~ Trouble]_vars => Promise!AllSettled

(* "Telemetry sent" and "data sent" (app_main.c:35, mqtt_manager.c:119): a *)
(* message so reported is never thrown away undelivered.                   *)
SentIsNotLost ==
    \A s \in Slots :
        told[s] = "sent" /\ box[s] = "expired" => s \in received \cup wire

=============================================================================
