----------------------------- MODULE DeviceData -----------------------------
(***************************************************************************)
(* What build_device_json collects before it builds: static_data.c and     *)
(* dynamic_data.c, with the two sensor drivers (mq_sensor.c,               *)
(* bme280_sensor.c) and the port monitor (port_monitor.c) they call.       *)
(*                                                                         *)
(* The collection reads a world that moves while it reads: the clock, the  *)
(* heap, the access point, the ADC and the traffic on the interfaces are   *)
(* external.  Both records are on the caller's stack; only the static one  *)
(* is cleared.  Numbers are stored as floats.  Of the strings only the one *)
(* read from the chip, device_id, is kept.                                 *)
(***************************************************************************)
EXTENDS Integers, Sequences

CONSTANTS
    MaxHealth,    \* MAX_HEALTH_PARAMS, 10
    MaxPorts,     \* MAX_PORTS, 5
    Exact,        \* a float holds every integer up to this, 2^24
    HeapSizes,    \* sizes of the free heap, less than Exact
    Signals,      \* strengths of the access point's signal
    AdcResults,   \* what adc1_get_raw returns: a count or an error code
    Carriers,     \* interfaces that may carry traffic
    FlashMb,      \* the size of the flash
    Mac,          \* the MAC address in the chip's fuses
    MaxUptime,    \* a bound on the clock, in seconds
    NoAP,         \* there is no access point, so there is no signal
    Junk          \* what nothing has written yet

(* The sequence of interfaces port_monitor_collect reports.                *)
Interfaces == <<"UART", "I2C", "SPI", "GPIO">>

ASSUME DeviceAssumption ==
    /\ MaxHealth \in Nat \ 0..2 /\ MaxPorts \in Nat
    /\ Exact \in Nat \ {0} /\ MaxUptime \in 0..(128 * Exact)
    /\ HeapSizes \subseteq 0..Exact /\ HeapSizes # {}
    /\ Signals \subseteq -128..-1
    /\ AdcResults \subseteq Int /\ AdcResults # {}
    /\ Carriers \subseteq {"UART", "I2C", "SPI", "GPIO"}
    /\ FlashMb \in Nat /\ Mac # Junk
    /\ Junk \notin Int \cup [name : {"UART", "I2C", "SPI", "GPIO"}, tx : Int, rx : Int,
                              active : BOOLEAN]

VARIABLES
    world,      \* uptime, heap, signal, adc and traffic as they are now,
                \* and mac, what esp_read_mac gives: Junk when it fails
    counters,   \* of transmissions and receptions on each interface
    pc,         \* the next step of the collection
    local,      \* uptime_sec, free_heap and rssi of dynamic_data_collect
    data,       \* the caller's static_data_t and dynamic_data_t
    seen,       \* history: what the world has been in this collection
    reported    \* history: the uptime last reported

vars == <<world, counters, pc, local, data, seen, reported>>

Quantities == {"uptime", "heap", "signal", "adc", "traffic"}

(* The cells of the arrays, with the cell behind the last that may be used. *)
(* The two drivers store four readings; that the array has room for more   *)
(* is the registry's business.                                             *)
SensorCells == 0..4
HealthCells == 0..MaxHealth
PortCells   == 0..MaxPorts
Blank(cells) == [c \in cells |-> Junk]

(* The locals of build_device_json, as the stack happens to hold them.     *)
NoLocal == [uptime_sec |-> Junk, free_heap |-> Junk, rssi |-> Junk]
NoData ==
    [device_id |-> Junk, flash_size_mb |-> Junk,
     sensor_kv |-> Blank(SensorCells), sensor_count |-> Junk,
     health_kv |-> Blank(HealthCells), health_count |-> Junk,
     ports     |-> Blank(PortCells),   port_count   |-> Junk]

----------------------------------------------------------------------------
(* (float) of an unsigned number: the nearest multiple of a power of two,  *)
(* and of two that are equally near the even one.                          *)
Powers == {1, 2, 4, 8, 16, 32, 64, 128}

Spacing(n) ==
    CHOOSE u \in Powers : n <= Exact * u /\ (u = 1 \/ n > Exact * (u \div 2))

Rounded(n, u) ==
    LET q == n \div u
        r == 2 * (n % u)
    IN  IF r < u \/ (r = u /\ q % 2 = 0) THEN q * u ELSE (q + 1) * u

Float(n) == Rounded(n, Spacing(n))

----------------------------------------------------------------------------
Init ==
    /\ world \in [uptime : {0}, heap : HeapSizes, signal : Signals \cup {NoAP},
                  adc : AdcResults, traffic : {{}}, mac : {Mac, Junk}]
    /\ counters = [p \in 1..Len(Interfaces) |-> [tx |-> 0, rx |-> 0]]
    /\ pc = "idle" /\ local = NoLocal /\ data = NoData
    /\ seen = [q \in Quantities |-> {}]
    /\ reported = 0

(* build_device_json is called and runs the collectors one by one.         *)
StartCollect ==
    /\ pc \in {"idle", "collected"} /\ pc' = "static"
    /\ local' = NoLocal /\ data' = NoData
    /\ seen' = [q \in Quantities |-> {world[q]}]
    /\ UNCHANGED <<world, counters, reported>>

Step(from, to) ==
    /\ pc = from /\ pc' = to
    /\ UNCHANGED <<world, counters, seen, reported>>

(* A mistake: the record is not cleared, and the flash size of a chip that *)
(* does not tell it is what the stack held.                                *)
StaticCollect_NoMemset ==
    /\ Step("static", "clear")
    /\ \E size \in {FlashMb, data.flash_size_mb} :
          data' = [data EXCEPT !.device_id = world.mac, !.flash_size_mb = size]
    /\ UNCHANGED local

(* static_data_collect clears its record.  Whether esp_read_mac failed is  *)
(* not looked at, nor mac[] given a value; the flash size (line 95) may    *)
(* not be known, and then stays 0.                                         *)
StaticCollect ==
    /\ Step("static", "clear")
    /\ \E size \in {FlashMb, 0} :
          data' = [data EXCEPT !.device_id = world.mac, !.flash_size_mb = size]
    /\ UNCHANGED local

(* dynamic_data_collect clears two of its three counts and no cell.        *)
ClearCounts ==
    /\ Step("clear", "bme280")
    /\ data' = [data EXCEPT !.sensor_count = 0, !.health_count = 0]
    /\ UNCHANGED local

(* An array with n items stored from its first cell on.                    *)
Filled(array, new, n) == [c \in DOMAIN array |-> IF c < n THEN new[c + 1] ELSE array[c]]

(* sensor_manager_collect calls the drivers in the order they registered   *)
(* in.  The BME280's readings are constants.                               *)
Bme280Read ==
    /\ Step("bme280", "mq135")
    /\ data' = [data EXCEPT !.sensor_kv = Filled(@, <<0, 0, 0>>, 3)]
    /\ UNCHANGED local

(* An error of the ADC is a reading like another.  The number of readings  *)
(* is stored when all drivers were called.                                 *)
MqRead ==
    /\ Step("mq135", "uptime")
    /\ data' = [data EXCEPT !.sensor_kv = [@ EXCEPT ![3] = world.adc],
                              !.sensor_count = 4]
    /\ UNCHANGED local

(* A mistake: the clock's microseconds are kept in too few bits, and wrap. *)
ReadUptime_Wraps ==
    /\ Step("uptime", "heap")
    /\ local' = [local EXCEPT !.uptime_sec = world.uptime % Exact]
    /\ UNCHANGED data

ReadUptime ==
    /\ Step("uptime", "heap")
    /\ local' = [local EXCEPT !.uptime_sec = world.uptime]
    /\ UNCHANGED data

ReadHeap ==
    /\ Step("heap", "rssi")
    /\ local' = [local EXCEPT !.free_heap = world.heap]
    /\ UNCHANGED data

(* A mistake: without an access point a strength is reported all the same. *)
ReadRssi_Stale ==
    /\ Step("rssi", "health")
    /\ \E s \in Signals :
          /\ world.signal # NoAP => s = world.signal
          /\ local' = [local EXCEPT !.rssi = s]
    /\ UNCHANGED data

(* Without an access point there is no strength, and 0 stands for it.      *)
ReadRssi ==
    /\ Step("rssi", "health")
    /\ local' = [local EXCEPT !.rssi = IF world.signal = NoAP THEN 0 ELSE world.signal]
    /\ UNCHANGED data

Health == <<Float(local.uptime_sec), Float(local.free_heap), local.rssi>>

(* A mistake: the guards let one item too many in.                         *)
Fits_OneTooMany(n, max) == IF n <= max THEN n ELSE max + 1

(* How many of n items the guards on idx and index let into an array.      *)
Fits(n, max) == IF n <= max THEN n ELSE max

FillHealth ==
    LET n == Fits(3, MaxHealth) IN
    /\ Step("health", "ports")
    /\ data' = [data EXCEPT !.health_kv = Filled(@, Health, n), !.health_count = n]
    /\ UNCHANGED local

PortStat(p) ==
    [name   |-> Interfaces[p], tx |-> counters[p].tx, rx |-> counters[p].rx,
     active |-> counters[p].tx + counters[p].rx > 0]

PortStats == [p \in DOMAIN Interfaces |-> PortStat(p)]

(* port_monitor_collect, and what its caller makes of the number it gives. *)
PortMonitorCollect ==
    LET n == Fits(Len(Interfaces), MaxPorts) IN
    /\ pc = "ports" /\ pc' = "collected"
    /\ data' = [data EXCEPT
          !.ports = Filled(@, PortStats, n),
          !.port_count = IF n < 0 THEN 0 ELSE IF n > MaxPorts THEN MaxPorts ELSE n]
    /\ reported' = data.health_kv[0]
    /\ UNCHANGED <<world, counters, local, seen>>

Collect ==
    \/ StaticCollect \/ ClearCounts \/ Bme280Read \/ MqRead
    \/ ReadUptime \/ ReadHeap \/ ReadRssi \/ FillHealth \/ PortMonitorCollect

----------------------------------------------------------------------------
(* The world moves on.  Traffic changes no counter of the port monitor.    *)
Becomes(w) ==
    /\ world' = w
    /\ seen' = [q \in Quantities |-> seen[q] \cup {w[q]}]
    /\ UNCHANGED <<counters, pc, local, data, reported>>

SecondPasses ==
    world.uptime < MaxUptime /\ Becomes([world EXCEPT !.uptime = @ + 1])

HeapChanges == \E n \in HeapSizes : Becomes([world EXCEPT !.heap = n])
SignalChanges == \E s \in Signals \cup {NoAP} : Becomes([world EXCEPT !.signal = s])
AdcChanges == \E n \in AdcResults : Becomes([world EXCEPT !.adc = n])
Traffic == \E p \in Carriers : Becomes([world EXCEPT !.traffic = @ \cup {p}])

World == SecondPasses \/ HeapChanges \/ SignalChanges \/ AdcChanges \/ Traffic

Next == StartCollect \/ Collect \/ World

Spec == Init /\ [][Next]_vars

----------------------------------------------------------------------------
Collected == pc = "collected"

(* The variables have their types, and no array is overrun.                *)
TypeOK ==
    /\ world.uptime \in 0..MaxUptime /\ world.traffic \subseteq Carriers
    /\ pc \in {"idle", "static", "clear", "bme280", "mq135", "uptime", "heap",
               "rssi", "health", "ports", "collected"}
    /\ reported \in 0..(2 * MaxUptime)
    /\ data.sensor_kv[4] = Junk
    /\ data.health_kv[MaxHealth] = Junk /\ data.ports[MaxPorts] = Junk

(* Although the dynamic record is never cleared, a payload is built from   *)
(* nothing an earlier call or another function left on the stack: every    *)
(* cell that is counted was written by this call, and everything that fits *)
(* is there.  But for one case: when esp_read_mac fails, device_id is made *)
(* of what the stack held (static_data.c:27-33, json_builder.c:42).        *)
NothingStale ==
    Collected =>
        /\ data.device_id = Mac \/ world.mac = Junk
        /\ data.flash_size_mb \in {FlashMb, 0}
        /\ data.sensor_count = 4
        /\ \A c \in 0..(data.sensor_count - 1) : data.sensor_kv[c] # Junk
        /\ \A c \in 0..(data.health_count - 1) : data.health_kv[c] # Junk
        /\ \A c \in 0..(data.port_count - 1) : data.ports[c] # Junk
        /\ data.health_count = MaxHealth \/ data.health_count = 3
        /\ data.port_count = MaxPorts \/ data.port_count = Len(Interfaces)

Distance(m, n) == IF m < n THEN n - m ELSE m - n

(* Whatever changes while the values are read one by one, each of them was *)
(* true at some moment of this collection; only the uptime is rounded, by  *)
(* at most half the distance between two floats of its size.               *)
TrueWhenCollected ==
    Collected =>
        /\ \E t \in seen.uptime : 2 * Distance(data.health_kv[0], t) <= Spacing(t)
        /\ data.health_kv[1] \in seen.heap
        /\ data.health_kv[2] \in seen.signal \/ (data.health_kv[2] = 0 /\ NoAP \in seen.signal)
        /\ data.sensor_kv[3] \in seen.adc

(* From one payload of a boot to the next the uptime never runs backwards, *)
(* although long uptimes are rounded up and down.                          *)
UptimeNeverRunsBack == [][reported' >= reported]_vars

(* "Active" and "Inactive" (README.md:136-142): an interface that carried  *)
(* traffic before the collection began is reported as active.              *)
ActivityIsReported ==
    Collected =>
        \A c \in 0..(data.port_count - 1) :
            (\A t \in seen.traffic : data.ports[c].name \in t) => data.ports[c].active

=============================================================================
