---------------------------- MODULE WifiManager ----------------------------
(***************************************************************************)
(* The Wi-Fi station of src/main/wifi_manager.c.                           *)
(*                                                                         *)
(* Three tasks touch the connection.  The main task runs wifi_init_sta     *)
(* and then polls the flag until the station is connected; the default     *)
(* event loop's task runs the handlers, one event at a time, in the order  *)
(* the events were posted; the driver and the IP stack post events         *)
(* whenever the network makes them, a handler running or not.  The driver  *)
(* never reconnects by itself: only the handler's call of esp_wifi_connect *)
(* takes the radio out of "idle".                                          *)
(*                                                                         *)
(* The driver (radio), the DHCP client (dhcp) and the event loop's queue   *)
(* (evq, others, handling) are external to src/main and are modelled from  *)
(* how the code uses them.                                                 *)
(***************************************************************************)
EXTENDS Naturals, Sequences

CONSTANTS
    EventQueueSize,   \* CONFIG_ESP_SYSTEM_EVENT_QUEUE_SIZE, 32 in sdkconfig
    OtherEvents,      \* bound: so many events of no concern here wait at once
    ConnectCanFail    \* may esp_wifi_connect return an error?

ASSUME WifiAssumption ==
    /\ EventQueueSize \in Nat /\ OtherEvents \in Nat
    /\ EventQueueSize >= OtherEvents + 4
    /\ ConnectCanFail \in BOOLEAN

VARIABLES
    wifi_connected,   \* the flag behind wifi_is_connected()
    init_step,        \* calls wifi_init_sta has completed; Aborted after abort()
    ready,            \* the main task has left its wait for the connection
    registered,       \* event bases wifi_event_handler is registered for
    evq,              \* Events posted to the default loop, not yet dispatched
    others,           \* places of its queue that other events take
    handling,         \* the event whose handlers are running, or None
    radio,            \* the driver's station state machine
    dhcp              \* the DHCP client of the station's interface

vars == <<wifi_connected, init_step, ready, registered, evq, others, handling,
          radio, dhcp>>

(* A mistake: the handlers are registered once the driver is running.      *)
InitCalls_HandlersLate ==
    << "esp_netif_init", "esp_event_loop_create_default",
       "esp_netif_create_default_wifi_sta", "esp_wifi_init",
       "esp_wifi_set_mode", "esp_wifi_set_config", "esp_wifi_start",
       "register_WIFI_EVENT", "register_IP_EVENT" >>

(* wifi_init_sta makes these calls in this order; every one of them is     *)
(* wrapped in ESP_ERROR_CHECK or asserts inside.                           *)
InitCalls ==
    << "esp_netif_init", "esp_event_loop_create_default",
       "esp_netif_create_default_wifi_sta", "esp_wifi_init",
       "register_WIFI_EVENT", "register_IP_EVENT",
       "esp_wifi_set_mode", "esp_wifi_set_config", "esp_wifi_start" >>

Done    == Len(InitCalls)
Aborted == Done + 1

Events == {"STA_START", "STA_CONNECTED", "STA_DISCONNECTED", "STA_GOT_IP"}
None   == "none"
Base(e) == IF e = "STA_GOT_IP" THEN "IP_EVENT" ELSE "WIFI_EVENT"

(* The events whose handling calls esp_wifi_connect.                       *)
Triggers == {"STA_START", "STA_DISCONNECTED"}

(* The loop exists once its call in wifi_init_sta is done.                 *)
LoopRuns == init_step \in 2..Done

Full == Len(evq) + others >= EventQueueSize

Queued(e)  == \E i \in 1..Len(evq) : evq[i] = e
Pending(e) == handling = e \/ Queued(e)

(* The wifi_connected flag, the handler registrations and every external   *)
(* object start afresh at a boot.                                          *)
Init ==
    /\ wifi_connected = FALSE
    /\ init_step = 0
    /\ ready = FALSE
    /\ registered = {}
    /\ evq = <<>> /\ others = 0
    /\ handling = None
    /\ radio = "off"
    /\ dhcp = "off"

(* esp_event_post: a full queue loses the event (the IP stack posts with   *)
(* no time to wait).                                                       *)
Post(e) == evq' = (IF Full THEN evq ELSE Append(evq, e)) /\ UNCHANGED others

----------------------------------------------------------------------------
(* The main task, in wifi_init_sta and in app_main's wait loop.            *)

(* A mistake: wifi_init_sta also connects, not leaving it to STA_START.     *)
InitCall_ConnectsToo ==
    /\ init_step < Done
    /\ init_step' = init_step + 1
    /\ registered' = {"WIFI_EVENT", "IP_EVENT"}
    /\ IF init_step' = Done
       THEN radio' = "connecting" /\ Post("STA_START")
       ELSE UNCHANGED <<radio, evq, others>>
    /\ UNCHANGED <<wifi_connected, ready, handling, dhcp>>

(* The next call of wifi_init_sta succeeds.                                *)
InitCall ==
    /\ init_step < Done
    /\ init_step' = init_step + 1
    /\ LET call == InitCalls[init_step + 1] IN
       /\ registered' = registered
            \cup (IF call = "register_WIFI_EVENT" THEN {"WIFI_EVENT"} ELSE {})
            \cup (IF call = "register_IP_EVENT"   THEN {"IP_EVENT"}   ELSE {})
       /\ IF call = "esp_wifi_start"
          THEN radio' = "idle" /\ Post("STA_START")
          ELSE UNCHANGED <<radio, evq, others>>
    /\ UNCHANGED <<wifi_connected, ready, handling, dhcp>>

(* A mistake: a failed call is logged and passed over.                     *)
InitAbort_Logged ==
    /\ init_step < Done
    /\ init_step' = init_step + 1
    /\ UNCHANGED <<wifi_connected, ready, registered, evq, others, handling, radio,
                   dhcp>>

(* The next call fails: ESP_ERROR_CHECK calls abort().                     *)
InitAbort ==
    /\ init_step < Done
    /\ init_step' = Aborted
    /\ UNCHANGED <<wifi_connected, ready, registered, evq, others, handling, radio,
                   dhcp>>

(* abort() panics and the panic handler restarts the chip.                 *)
Reboot ==
    /\ init_step = Aborted
    /\ wifi_connected' = FALSE
    /\ init_step' = 0
    /\ ready' = FALSE
    /\ registered' = {}
    /\ evq' = <<>> /\ others' = 0
    /\ handling' = None
    /\ radio' = "off"
    /\ dhcp' = "off"

(* The loop on wifi_is_connected() sees the flag set.                      *)
WaitEnds ==
    /\ init_step = Done
    /\ ~ ready
    /\ wifi_connected
    /\ ready' = TRUE
    /\ UNCHANGED <<wifi_connected, init_step, registered, evq, others, handling,
                   radio, dhcp>>

----------------------------------------------------------------------------
(* The event loop's task.                                                  *)

(* A connect attempt starts, unless the radio is busy or the call fails.   *)
EspWifiConnect ==
    \/ radio = "idle" /\ radio' = "connecting"
    \/ (radio # "idle" \/ ConnectCanFail) /\ UNCHANGED radio

(* Mistakes: a drop is not answered; an address is noted only while the    *)
(* link stands.                                                            *)
WifiEventHandler_NoRetry(e) ==
    \/ e = "STA_START" /\ EspWifiConnect /\ UNCHANGED wifi_connected
    \/ e = "STA_DISCONNECTED" /\ wifi_connected' = FALSE /\ UNCHANGED radio
    \/ e = "STA_GOT_IP" /\ wifi_connected' = TRUE /\ UNCHANGED radio
    \/ e = "STA_CONNECTED" /\ UNCHANGED <<wifi_connected, radio>>
WifiEventHandler_DropsLateIp(e) ==
    \/ e \in Triggers /\ wifi_connected' = FALSE /\ EspWifiConnect
    \/ /\ e \notin Triggers
       /\ wifi_connected' = (wifi_connected \/ (e = "STA_GOT_IP" /\ radio = "associated"))
       /\ UNCHANGED radio

(* wifi_event_handler; what esp_wifi_connect returns is not looked at.     *)
WifiEventHandler(e) ==
    \/ e = "STA_START" /\ EspWifiConnect /\ UNCHANGED wifi_connected
    \/ e = "STA_DISCONNECTED" /\ wifi_connected' = FALSE /\ EspWifiConnect
    \/ e = "STA_GOT_IP" /\ wifi_connected' = TRUE /\ UNCHANGED radio
    \/ e = "STA_CONNECTED" /\ UNCHANGED <<wifi_connected, radio>>

(* The default handlers esp_netif_create_default_wifi_sta installs start   *)
(* and stop the DHCP client; registered first, they run first.             *)
DefaultWifiHandlers(e) ==
    dhcp' = CASE e = "STA_CONNECTED"    -> "running"
              [] e = "STA_DISCONNECTED" -> "off"
              [] OTHER                  -> dhcp

(* The loop takes the oldest event, and the default handlers run.          *)
TakeEvent ==
    /\ handling = None
    /\ evq # <<>>
    /\ evq' = Tail(evq)
    /\ handling' = Head(evq)
    /\ DefaultWifiHandlers(Head(evq))
    /\ UNCHANGED <<wifi_connected, init_step, ready, registered, others, radio>>

(* An event of no concern here is dispatched: wifi_event_handler, called   *)
(* for every WIFI_EVENT, has no branch for it.                             *)
TakeOther ==
    /\ LoopRuns /\ handling = None
    /\ others > 0
    /\ others' = others - 1
    /\ UNCHANGED <<wifi_connected, init_step, ready, registered, evq, handling, radio,
                   dhcp>>

(* wifi_event_handler runs, when it is registered for the event.           *)
HandleEvent ==
    /\ handling # None
    /\ handling' = None
    /\ IF Base(handling) \in registered
       THEN WifiEventHandler(handling)
       ELSE UNCHANGED <<wifi_connected, radio>>
    /\ UNCHANGED <<init_step, ready, registered, evq, others, dhcp>>

----------------------------------------------------------------------------
(* The driver, the IP stack and the network.                               *)

Associate ==
    /\ radio = "connecting"
    /\ radio' = "associated"
    /\ Post("STA_CONNECTED")
    /\ UNCHANGED <<wifi_connected, init_step, ready, registered, handling, dhcp>>

(* The attempt fails, or an established link is lost.                      *)
LinkDown ==
    /\ radio \in {"connecting", "associated"}
    /\ radio' = "idle"
    /\ Post("STA_DISCONNECTED")
    /\ UNCHANGED <<wifi_connected, init_step, ready, registered, handling, dhcp>>

(* The DHCP client obtains an address.  It learns of a lost link only when *)
(* STA_DISCONNECTED is dispatched, so it may bind after the loss.          *)
DhcpBind ==
    /\ dhcp = "running"
    /\ dhcp' = "bound"
    /\ Post("STA_GOT_IP")
    /\ UNCHANGED <<wifi_connected, init_step, ready, registered, handling, radio>>

(* The lease lapses.  The event that says so, IP_EVENT_STA_LOST_IP, has no *)
(* handler and comes 120 s later, as one of those PostOther posts.  Bound: *)
(* a lease outlives the dispatch of its STA_GOT_IP.                        *)
LeaseLapse ==
    /\ dhcp = "bound"
    /\ ~ Pending("STA_GOT_IP")
    /\ dhcp' = "running"
    /\ UNCHANGED <<wifi_connected, init_step, ready, registered, evq, others, handling,
                   radio>>

(* Whoever else uses the default loop posts: LOST_IP, the other Wi-Fi      *)
(* events, ESP-IDF's other components.  Of these events only the places    *)
(* they take are kept, not where in the queue they stand.                  *)
PostOther ==
    /\ LoopRuns /\ others < OtherEvents /\ ~ Full
    /\ others' = others + 1
    /\ UNCHANGED <<wifi_connected, init_step, ready, registered, evq, handling, radio,
                   dhcp>>

----------------------------------------------------------------------------
Next ==
    \/ InitCall \/ InitAbort \/ Reboot \/ WaitEnds
    \/ TakeEvent \/ TakeOther \/ HandleEvent
    \/ Associate \/ LinkDown \/ DhcpBind \/ LeaseLapse \/ PostOther

(* The tasks are scheduled, and the loop comes to every event in its turn; *)
(* of the network it is assumed only that an association or a DHCP         *)
(* exchange that can be tried again and again succeeds at last.            *)
Fairness ==
    /\ WF_vars(InitCall \/ InitAbort)
    /\ WF_vars(Reboot)
    /\ WF_vars(WaitEnds)
    /\ WF_vars(TakeEvent \/ HandleEvent)
    /\ SF_vars(Associate)
    /\ SF_vars(DhcpBind)

Spec == Init /\ [][Next]_vars /\ Fairness

----------------------------------------------------------------------------
(* The variables have their types (the flag, the progress of wifi_init_sta *)
(* and the external objects it drives).                                    *)
TypeOK ==
    /\ wifi_connected \in BOOLEAN
    /\ init_step \in 0..Aborted
    /\ ready \in BOOLEAN
    /\ registered \subseteq {"WIFI_EVENT", "IP_EVENT"}
    /\ evq \in Seq(Events) /\ others \in 0..OtherEvents
    /\ handling \in Events \cup {None}
    /\ radio \in {"off", "idle", "connecting", "associated"}
    /\ dhcp \in {"off", "running", "bound"}

(* No failure of wifi_init_sta is passed over: a radio that runs has both  *)
(* its handlers, those for its drops and for its address, whichever call   *)
(* of which boot failed (ESP_ERROR_CHECK, wifi_manager.c:59-90).           *)
HandlersInPlace ==
    radio # "off" => init_step = Done /\ registered = {"WIFI_EVENT", "IP_EVENT"}

(* The station is never stranded: whenever the started radio is idle, an   *)
(* event whose handler calls esp_wifi_connect is queued or being handled.  *)
(* This is what "Disconnected, retrying..." (wifi_manager.c:32) promises;  *)
(* it rests on the handlers being registered before esp_wifi_start and on  *)
(* every drop being answered by one call.                                  *)
NeverStranded ==
    radio = "idle" => \E e \in Triggers : Pending(e)

(* esp_wifi_connect is only ever called on an idle radio, so no call is    *)
(* refused for being early or repeated: an event that leads to the call is *)
(* outstanding only while the radio is idle, and only one of them.         *)
ConnectOnlyWhenIdle ==
    /\ handling \in Triggers =>
          radio = "idle" /\ ~ \E e \in Triggers : Queued(e)
    /\ \A i \in 1..Len(evq) :
          evq[i] \in Triggers =>
              /\ radio = "idle"
              /\ \A j \in 1..Len(evq) : evq[j] \in Triggers => j = i

(* The station needs at most three places of the default loop's queue,     *)
(* however drops, DHCP and dispatch interleave: as long as the loop's      *)
(* other users, LOST_IP among them, leave four (WifiAssumption; the code   *)
(* does not see to it), there is room for every event it lives on.         *)
RoomForOwnEvents == ~ Full

(* An address is never unknown to the application: when the DHCP client    *)
(* holds one, the flag is set or the STA_GOT_IP that will set it is still  *)
(* outstanding, even if a drop was handled in between.                     *)
BoundIsAnnounced ==
    dhcp = "bound" => wifi_connected \/ Pending("STA_GOT_IP")

(* Unless the drivers keep failing to initialise, the flag is raised again *)
(* and again: after every loss the handler brings the connection back.     *)
AlwaysReconnects ==
    <>[](init_step # Aborted) => []<>wifi_connected

(* A stale flag (set by a STA_GOT_IP dispatched after the link was lost,   *)
(* or kept through a lapsed lease) does not stay stale: it is cleared, or  *)
(* the address it stands for is obtained.                                  *)
StaleFlagCorrected ==
    (wifi_connected /\ dhcp # "bound") ~> (~ wifi_connected \/ dhcp = "bound")

(* The main task gets past its wait for the connection, although it polls  *)
(* the flag and may miss a short connection, once links stop failing.      *)
WaitEventuallyEnds ==
    <>[](init_step # Aborted) /\ <>[][~ LinkDown]_vars => <>ready

=============================================================================
