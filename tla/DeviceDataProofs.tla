-------------------------- MODULE DeviceDataProofs --------------------------
(***************************************************************************)
(* Proofs about DeviceData, for arrays of any size and floats of any       *)
(* precision.  First how rounding behaves; then the invariant, which       *)
(* follows each value from the world to the locals and on to the record,   *)
(* and keeps apart what the world is from what it has been.                *)
(***************************************************************************)
EXTENDS DeviceData, TLAPS

(* The halves of the powers, which is where the spacing doubles.           *)
LEMMA Halves ==
    /\ \A u \in Powers : u \in Nat \ {0} /\ u \div 2 \in Nat
    /\ \A u, v \in Powers : u < v => u <= v \div 2
    /\ \A u \in Powers : u # 1 => u = 2 * (u \div 2)
BY DEF Powers

(* Multiples keep order.                                                   *)
LEMMA Times == ASSUME NEW c \in Nat, NEW a \in Nat, NEW b \in Nat, a <= b
               PROVE  c * a <= c * b
OBVIOUS

(* Every number up to 128 times the exact ones has its spacing.            *)
LEMMA SpacingFits ==
    ASSUME NEW n \in 0..(128 * Exact)
    PROVE  /\ Spacing(n) \in Powers
           /\ n <= Exact * Spacing(n)
           /\ Spacing(n) = 1 \/ n > Exact * (Spacing(n) \div 2)
<1>1. Exact \in Nat
  BY DeviceAssumption
<1>2. \E u \in Powers : n <= Exact * u /\ (u = 1 \/ n > Exact * (u \div 2))
  <2>. USE <1>1 DEF Powers
  <2>1. CASE n <= Exact * 1
    BY <2>1
  <2>2. CASE n > Exact * 1 /\ n <= Exact * 2
    BY <2>2
  <2>3. CASE n > Exact * 2 /\ n <= Exact * 4
    BY <2>3
  <2>4. CASE n > Exact * 4 /\ n <= Exact * 8
    BY <2>4
  <2>5. CASE n > Exact * 8 /\ n <= Exact * 16
    BY <2>5
  <2>6. CASE n > Exact * 16 /\ n <= Exact * 32
    BY <2>6
  <2>7. CASE n > Exact * 32 /\ n <= Exact * 64
    BY <2>7
  <2>8. CASE n > Exact * 64 /\ n <= Exact * 128
    BY <2>8
  <2>9. QED
    BY <2>1, <2>2, <2>3, <2>4, <2>5, <2>6, <2>7, <2>8
<1>3. QED
  BY <1>2 DEF Spacing

(* What rounding to a multiple of u does: it goes to the nearest one, so   *)
(* it crosses no multiple, nor the middle between two, and keeps order.    *)
LEMMA Rounds ==
    ASSUME NEW u \in Powers, NEW n \in Nat
    PROVE  /\ Rounded(n, u) \in Nat
           /\ 2 * Distance(Rounded(n, u), n) <= u
           /\ \A m \in Nat : n <= m * u => Rounded(n, u) <= m * u
           /\ \A m \in Nat : n > m * (u \div 2) => Rounded(n, u) >= m * (u \div 2)
           /\ \A k \in Nat : n <= k => Rounded(n, u) <= Rounded(k, u)
<1>. USE DEF Rounded, Distance
<1>1. CASE u = 1
  BY <1>1
<1>2. CASE u = 2
  BY <1>2
<1>3. CASE u = 4
  BY <1>3
<1>4. CASE u = 8
  BY <1>4
<1>5. CASE u = 16
  BY <1>5
<1>6. CASE u = 32
  BY <1>6
<1>7. CASE u = 64
  BY <1>7
<1>8. CASE u = 128
  BY <1>8
<1>9. QED
  BY <1>1, <1>2, <1>3, <1>4, <1>5, <1>6, <1>7, <1>8 DEF Powers

(* The float of a number is near it.                                       *)
LEMMA FloatIsNear ==
    ASSUME NEW n \in 0..(128 * Exact)
    PROVE  Float(n) \in Nat /\ 2 * Distance(Float(n), n) <= Spacing(n)
<1>1. n \in Nat /\ Spacing(n) \in Powers
  BY SpacingFits, DeviceAssumption
<1>2. QED
  BY <1>1, Rounds DEF Float

(* Where floats are exact, a number is its float.                           *)
LEMMA FloatIsExact ==
    ASSUME NEW n \in 0..Exact PROVE Float(n) = n
<1>1. n \in 0..(128 * Exact) /\ Exact \in Nat
  BY DeviceAssumption
<1>2. Spacing(n) = 1
  <2>1. /\ Spacing(n) \in Powers
        /\ Spacing(n) = 1 \/ n > Exact * (Spacing(n) \div 2)
    BY <1>1, SpacingFits
  <2>2. ASSUME Spacing(n) # 1 PROVE FALSE
    <3>1. Spacing(n) \div 2 \in Nat /\ 1 <= Spacing(n) \div 2
      BY <2>1, <2>2 DEF Powers
    <3>2. Exact * 1 <= Exact * (Spacing(n) \div 2)
      BY <1>1, <3>1, Times
    <3>3. QED
      BY <1>1, <2>1, <2>2, <3>1, <3>2
  <2>3. QED
    BY <2>2
<1>3. QED
  BY <1>1, <1>2 DEF Float, Rounded

(* Although two numbers may become one float, none overtakes another.      *)
LEMMA FloatKeepsOrder ==
    ASSUME NEW a \in 0..(128 * Exact), NEW b \in 0..(128 * Exact), a <= b
    PROVE  Float(a) <= Float(b)
<1>. DEFINE u == Spacing(a)
            v == Spacing(b)
<1>1. a \in Nat /\ b \in Nat /\ Exact \in Nat
  BY DeviceAssumption
<1>2. /\ u \in Powers /\ a <= Exact * u /\ (u = 1 \/ a > Exact * (u \div 2))
      /\ v \in Powers /\ b <= Exact * v /\ (v = 1 \/ b > Exact * (v \div 2))
  BY SpacingFits
<1>3. u \in Nat \ {0} /\ v \in Nat \ {0} /\ u \div 2 \in Nat /\ v \div 2 \in Nat
  BY <1>2, Halves
<1>. HIDE DEF u, v
<1>4. CASE u = v
  BY <1>1, <1>2, <1>4, Rounds DEF Float, u, v
<1>5. CASE u < v
  <2>1. u <= v \div 2 /\ v # 1
    BY <1>2, <1>3, <1>5, Halves
  <2>2. Exact * u <= Exact * (v \div 2)
    BY <1>1, <1>3, <2>1, Times
  <2>3. Rounded(a, u) \in Nat /\ Rounded(a, u) <= Exact * u
    BY <1>1, <1>2, Rounds
  <2>4. Rounded(b, v) \in Nat /\ Rounded(b, v) >= Exact * (v \div 2)
    BY <1>1, <1>2, <2>1, Rounds
  <2>5. Rounded(a, u) <= Rounded(b, v)
    BY <1>1, <1>3, <2>2, <2>3, <2>4
  <2>6. QED
    BY <2>5 DEF Float, u, v
<1>6. CASE u > v
  <2>1. v <= u \div 2 /\ u # 1
    BY <1>2, <1>3, <1>6, Halves
  <2>2. Exact * v <= Exact * (u \div 2)
    BY <1>1, <1>3, <2>1, Times
  <2>3. QED
    BY <1>1, <1>2, <1>3, <2>1, <2>2
<1>7. QED
  BY <1>3, <1>4, <1>5, <1>6

(* Nor is the float of a number more than twice as large.                  *)
LEMMA FloatAtMostTwice ==
    ASSUME NEW n \in 0..(128 * Exact) PROVE Float(n) <= 2 * n
<1>1. n \in Nat /\ Exact \in Nat \ {0}
  BY DeviceAssumption
<1>2. CASE n <= Exact
  BY <1>1, <1>2, FloatIsExact
<1>3. CASE n > Exact
  <2>1. /\ Spacing(n) \in Powers /\ n <= Exact * Spacing(n)
        /\ Spacing(n) = 1 \/ n > Exact * (Spacing(n) \div 2)
    BY SpacingFits
  <2>2. Spacing(n) # 1 /\ Spacing(n) \div 2 \in Nat /\ Spacing(n) = 2 * (Spacing(n) \div 2)
    BY <1>1, <1>3, <2>1, Halves
  <2>3. Spacing(n) \div 2 <= Exact * (Spacing(n) \div 2)
    BY <1>1, <2>2, Times
  <2>4. Float(n) \in Nat /\ 2 * Distance(Float(n), n) <= Spacing(n)
    BY FloatIsNear
  <2>5. QED
    BY <1>1, <2>1, <2>2, <2>3, <2>4 DEF Distance
<1>4. QED
  BY <1>1, <1>2, <1>3

----------------------------------------------------------------------------
Cell     == Int \cup {Junk}
Stat     == [name : {"UART", "I2C", "SPI", "GPIO"}, tx : Int, rx : Int, active : BOOLEAN]
PortCell == {Junk} \cup Stat

Worlds ==
    [uptime : 0..MaxUptime, heap : HeapSizes, signal : Signals \cup {NoAP},
     adc : AdcResults, traffic : SUBSET Carriers, mac : {Mac, Junk}]

Locals == [uptime_sec : Cell, free_heap : Cell, rssi : Cell]

Data ==
    [device_id : {Mac, Junk}, flash_size_mb : Cell,
     sensor_kv : [SensorCells -> Cell], sensor_count : Cell,
     health_kv : [HealthCells -> Cell], health_count : Cell,
     ports : [PortCells -> PortCell], port_count : Cell]

Stages == {"idle", "static", "clear", "bme280", "mq135", "uptime", "heap",
           "rssi", "health", "ports", "collected"}

Types ==
    /\ world \in Worlds /\ local \in Locals /\ data \in Data /\ pc \in Stages
    /\ counters = [p \in 1..Len(Interfaces) |-> [tx |-> 0, rx |-> 0]]

(* What the collection has seen is what there was and is.                  *)
Witnessed ==
    /\ seen.uptime \subseteq 0..world.uptime /\ seen.heap \subseteq HeapSizes
    /\ seen.signal \subseteq Signals \cup {NoAP} /\ seen.adc \subseteq AdcResults
    /\ pc # "idle" =>
          /\ world.uptime \in seen.uptime /\ world.heap \in seen.heap
          /\ world.signal \in seen.signal /\ world.adc \in seen.adc

(* A signal strength as it is reported.                                    *)
Strength(r) == r \in seen.signal \ {NoAP} \/ (r = 0 /\ NoAP \in seen.signal)

(* What each step leaves in the locals is still there when it is used.     *)
LocalTrue ==
    /\ pc \in {"heap", "rssi", "health"} => local.uptime_sec \in seen.uptime
    /\ pc \in {"rssi", "health"} => local.free_heap \in seen.heap
    /\ pc = "health" => Strength(local.rssi)

(* And in the record.                                                      *)
SensorsTrue ==
    /\ pc \notin {"idle", "static"} =>
          data.flash_size_mb \in {FlashMb, 0} /\ data.device_id = world.mac
    /\ pc \notin {"idle", "static", "clear", "bme280"} =>
          \A c \in 0..2 : data.sensor_kv[c] = 0
    /\ pc \notin {"idle", "static", "clear", "bme280", "mq135"} =>
          data.sensor_kv[3] \in seen.adc /\ data.sensor_count = 4

HealthTrue ==
    pc \in {"ports", "collected"} =>
        /\ data.health_count = 3
        /\ \E t \in seen.uptime : data.health_kv[0] = Float(t)
        /\ data.health_kv[1] \in seen.heap
        /\ Strength(data.health_kv[2])

PortsTrue ==
    pc = "collected" =>
        /\ data.port_count = Fits(4, MaxPorts)
        /\ \A c \in 0..(data.port_count - 1) : data.ports[c] # Junk

(* Nothing is written behind an array.                                     *)
NoOverrun ==
    /\ data.sensor_kv[4] = Junk
    /\ data.health_kv[MaxHealth] = Junk /\ data.ports[MaxPorts] = Junk

(* The last uptime reported is not after any this collection can read.     *)
Clock ==
    /\ reported \in 0..(2 * MaxUptime)
    /\ reported <= Float(world.uptime)
    /\ pc \notin {"idle", "collected"} => \A t \in seen.uptime : reported <= Float(t)

IInv ==
    /\ Types /\ Witnessed /\ LocalTrue /\ SensorsTrue /\ HealthTrue
    /\ PortsTrue /\ NoOverrun /\ Clock

(* The parameters as the proofs use them.                                  *)
LEMMA Parameters ==
    /\ MaxHealth \in Nat /\ MaxHealth >= 3 /\ MaxPorts \in Nat
    /\ Exact \in Nat \ {0} /\ MaxUptime \in Nat /\ MaxUptime <= 128 * Exact
    /\ HeapSizes \subseteq Nat /\ Signals \subseteq Int /\ AdcResults \subseteq Int
    /\ FlashMb \in Nat /\ Junk \notin Int
BY DeviceAssumption

(* And what is known of the world.                                         *)
LEMMA WorldKnown ==
    ASSUME Types
    PROVE  /\ world.uptime \in Nat /\ world.uptime <= MaxUptime
           /\ world.heap \in HeapSizes /\ world.heap \in Int
           /\ world.adc \in AdcResults /\ world.adc \in Int
           /\ world.signal # NoAP => world.signal \in Signals /\ world.signal \in Int
<1>1. world \in Worlds
  BY DEF Types
<1>2. /\ world.uptime \in 0..MaxUptime /\ world.heap \in HeapSizes
      /\ world.signal \in Signals \cup {NoAP} /\ world.adc \in AdcResults
  BY <1>1 DEF Worlds
<1>3. world.uptime \in Nat /\ world.uptime <= MaxUptime
  BY <1>2
<1>4. world.heap \in Int /\ world.adc \in Int
  <2>1. HeapSizes \subseteq Nat /\ AdcResults \subseteq Int
    BY Parameters
  <2>2. world.heap \in Nat /\ world.adc \in Int
    BY <1>2, <2>1, Zenon
  <2>3. QED
    BY <2>2
<1>5. world.signal # NoAP => world.signal \in Signals /\ world.signal \in Int
  BY <1>2, Parameters
<1>6. QED
  BY <1>2, <1>3, <1>4, <1>5

(* The world moves to another that is possible, and its clock forwards.    *)
LEMMA WorldMoves ==
    ASSUME Types, World
    PROVE  \E w \in Worlds :
              w.uptime >= world.uptime /\ w.mac = world.mac /\ Becomes(w)
<1>. USE DEF Types, Worlds
<1>1. CASE SecondPasses
  <2>1. world.uptime + 1 \in 0..MaxUptime /\ world.uptime + 1 >= world.uptime
    BY <1>1, WorldKnown, Parameters DEF SecondPasses
  <2>2. ASSUME NEW t \in 0..MaxUptime
        PROVE  /\ [world EXCEPT !.uptime = t] \in Worlds
               /\ [world EXCEPT !.uptime = t].uptime = t
               /\ [world EXCEPT !.uptime = t].mac = world.mac
    OBVIOUS
  <2>3. Becomes([world EXCEPT !.uptime = world.uptime + 1])
    BY <1>1 DEF SecondPasses
  <2>4. QED
    BY <2>1, <2>2, <2>3
<1>2. CASE HeapChanges
  BY <1>2 DEF HeapChanges
<1>3. CASE SignalChanges
  BY <1>3 DEF SignalChanges
<1>4. CASE AdcChanges
  <2>1. PICK n \in AdcResults : Becomes([world EXCEPT !.adc = n])
    BY <1>4 DEF AdcChanges
  <2>2. [world EXCEPT !.adc = n] \in Worlds
    OBVIOUS
  <2>3. /\ [world EXCEPT !.adc = n].uptime >= world.uptime
        /\ [world EXCEPT !.adc = n].mac = world.mac
    OBVIOUS
  <2>4. QED
    BY <2>1, <2>2, <2>3
<1>5. CASE Traffic
  <2>1. PICK p \in Carriers : Becomes([world EXCEPT !.traffic = @ \cup {p}])
    BY <1>5 DEF Traffic
  <2>2. [world EXCEPT !.traffic = @ \cup {p}] \in Worlds
    OBVIOUS
  <2>3. /\ [world EXCEPT !.traffic = @ \cup {p}].uptime >= world.uptime
        /\ [world EXCEPT !.traffic = @ \cup {p}].mac = world.mac
    OBVIOUS
  <2>4. QED
    BY <2>1, <2>2, <2>3
<1>6. QED
  BY <1>1, <1>2, <1>3, <1>4, <1>5 DEF World

(* What the step that copies the ports leaves.                             *)
LEMMA PortsCopied ==
    ASSUME Types, PortMonitorCollect
    PROVE  \E n \in 0..4 :
              /\ n = Fits(4, MaxPorts) /\ n <= MaxPorts
              /\ data' = [data EXCEPT !.ports = Filled(data.ports, PortStats, n),
                                     !.port_count = n]
<1>1. Len(Interfaces) = 4
  BY DEF Interfaces
<1>2. Fits(4, MaxPorts) \in 0..4 /\ Fits(4, MaxPorts) <= MaxPorts
  BY Parameters DEF Fits
<1>. DEFINE n == Fits(4, MaxPorts)
<1>3. (IF n < 0 THEN 0 ELSE IF n > MaxPorts THEN MaxPorts ELSE n) = n
  BY <1>2, Parameters
<1>4. data' = [data EXCEPT !.ports = Filled(data.ports, PortStats, n), !.port_count = n]
  BY <1>1, <1>3 DEF PortMonitorCollect
<1>5. QED
  BY <1>2, <1>4

(* What the counters tell of the ports.                                    *)
LEMMA PortStatsKnown ==
    ASSUME Types
    PROVE  \A i \in 1..4 : PortStats[i] \in PortCell /\ PortStats[i] # Junk
<1>1. Len(Interfaces) = 4 /\ DOMAIN Interfaces = 1..4
  BY DEF Interfaces
<1>2. \A i \in 1..4 : Interfaces[i] \in {"UART", "I2C", "SPI", "GPIO"}
  <2>1. /\ Interfaces[1] = "UART" /\ Interfaces[2] = "I2C"
        /\ Interfaces[3] = "SPI" /\ Interfaces[4] = "GPIO"
    BY DEF Interfaces
  <2>2. QED
    BY <2>1
<1>3. ASSUME NEW i \in 1..4 PROVE PortStats[i] \in Stat
  <2>1. PortStats[i] = PortStat(i)
    BY <1>1 DEF PortStats
  <2>2. counters[i].tx = 0 /\ counters[i].rx = 0
    BY <1>1 DEF Types
  <2>3. (counters[i].tx + counters[i].rx > 0) \in BOOLEAN
    OBVIOUS
  <2>4. PortStat(i) \in Stat
    BY <1>2, <2>2, <2>3 DEF PortStat, Stat
  <2>5. QED
    BY <2>1, <2>4
<1>4. Junk \notin Stat
  BY DeviceAssumption DEF Stat
<1>5. QED
  BY <1>3, <1>4 DEF PortCell

(* What has been seen can be made a float.                                 *)
LEMMA SeenFloats ==
    ASSUME Types, Witnessed
    PROVE  /\ \A t \in seen.uptime :
                  t \in Nat /\ t <= world.uptime /\ t \in 0..(128 * Exact) /\ Float(t) \in Nat
           /\ \A n \in seen.heap : n \in Nat /\ Float(n) = n
<1>1. world.uptime \in 0..MaxUptime /\ seen.uptime \subseteq 0..world.uptime
  BY DEF Types, Worlds, Witnessed
<1>2. \A t \in seen.uptime : t \in Nat /\ t <= world.uptime /\ t \in 0..(128 * Exact)
  BY <1>1, DeviceAssumption
<1>3. \A n \in seen.heap : n \in 0..Exact
  BY DeviceAssumption DEF Witnessed
<1>4. QED
  BY <1>2, <1>3, FloatIsNear, FloatIsExact

(* The same of the locals when they are stored.                            *)
LEMMA LocalsFloat ==
    ASSUME Types, Witnessed, LocalTrue, pc = "health"
    PROVE  /\ Float(local.uptime_sec) \in Int
           /\ Float(local.free_heap) = local.free_heap /\ local.free_heap \in Int
BY SeenFloats DEF LocalTrue

(* Types are kept, and the counters for ever.                              *)
LEMMA TypesStep ==
    ASSUME Types, Witnessed, LocalTrue, [Next]_vars
    PROVE  Types'
<1>1. /\ Int \subseteq Cell /\ Junk \in Cell
      /\ FlashMb \in Cell /\ 0 \in Cell /\ 3 \in Cell /\ 4 \in Cell
  BY DeviceAssumption DEF Cell
<1>2. /\ world.uptime \in Cell /\ world.heap \in Cell /\ world.adc \in Cell
      /\ world.signal # NoAP => world.signal \in Cell
  BY <1>1, WorldKnown
<1>3. CASE StartCollect
  BY <1>1, <1>3 DEF StartCollect, Types, NoLocal, NoData, Blank, Locals, Data, PortCell, Stages
<1>4. ASSUME NEW from \in Stages, NEW to \in Stages, Step(from, to),
             local' \in Locals, data' \in Data
      PROVE  Types'
  BY <1>4 DEF Step, Types
<1>5. CASE StaticCollect \/ ClearCounts \/ Bme280Read \/ MqRead
  <2>1. local' \in Locals
    BY <1>5 DEF StaticCollect, ClearCounts, Bme280Read, MqRead, Types
  <2>2. data' \in Data
    <3>. USE <1>1, <1>2 DEF Types, Data
    <3>1. CASE StaticCollect
      <4>1. world.mac \in {Mac, Junk}
        BY DEF Worlds
      <4>2. PICK size \in {FlashMb, 0} :
               data' = [data EXCEPT !.device_id = world.mac, !.flash_size_mb = size]
        BY <3>1 DEF StaticCollect
      <4>3. size \in Cell
        BY <4>2
      <4>4. QED
        BY <4>1, <4>2, <4>3
    <3>2. CASE ClearCounts
      BY <3>2 DEF ClearCounts
    <3>3. CASE Bme280Read
      <4>1. Filled(data.sensor_kv, <<0, 0, 0>>, 3) \in [SensorCells -> Cell]
        BY DEF Filled, SensorCells
      <4>2. QED
        BY <3>3, <4>1 DEF Bme280Read
    <3>4. CASE MqRead
      <4>1. [data.sensor_kv EXCEPT ![3] = world.adc] \in [SensorCells -> Cell]
        OBVIOUS
      <4>2. QED
        BY <3>4, <4>1 DEF MqRead
    <3>5. QED
      BY <1>5, <3>1, <3>2, <3>3, <3>4
  <2>3. QED
    BY <1>4, <1>5, <2>1, <2>2 DEF StaticCollect, ClearCounts, Bme280Read, MqRead, Stages
<1>6. CASE ReadUptime \/ ReadHeap \/ ReadRssi
  <2>1. data' \in Data
    BY <1>6 DEF ReadUptime, ReadHeap, ReadRssi, Types
  <2>2. local' \in Locals
    BY <1>1, <1>2, <1>6 DEF ReadUptime, ReadHeap, ReadRssi, Types, Locals
  <2>3. QED
    BY <1>4, <1>6, <2>1, <2>2 DEF ReadUptime, ReadHeap, ReadRssi, Stages
<1>7. CASE FillHealth
  <2>1. \A i \in 1..3 : Health[i] \in Cell
    <3>1. Float(local.uptime_sec) \in Cell /\ Float(local.free_heap) \in Cell
      BY <1>1, <1>7, LocalsFloat DEF FillHealth, Step
    <3>2. local.rssi \in Cell
      BY DEF Types, Locals
    <3>3. QED
      BY <3>1, <3>2 DEF Health
  <2>2. Filled(data.health_kv, Health, 3) \in [HealthCells -> Cell]
    <3>1. data.health_kv \in [HealthCells -> Cell] /\ HealthCells \subseteq Nat
      BY DEF Types, Data, HealthCells
    <3>2. QED
      BY <2>1, <3>1 DEF Filled
  <2>3. Fits(3, MaxHealth) = 3
    BY DeviceAssumption DEF Fits
  <2>4. data' \in Data
    BY <1>1, <1>7, <2>2, <2>3 DEF FillHealth, Types, Data
  <2>5. local' \in Locals
    BY <1>7 DEF FillHealth, Types
  <2>6. QED
    BY <1>4, <1>7, <2>4, <2>5 DEF FillHealth, Stages
<1>8. CASE PortMonitorCollect
  <2>1. PICK n \in 0..4 :
              /\ n = Fits(4, MaxPorts) /\ n <= MaxPorts
              /\ data' = [data EXCEPT !.ports = Filled(data.ports, PortStats, n),
                                     !.port_count = n]
    BY <1>8, PortsCopied
  <2>2. Filled(data.ports, PortStats, n) \in [PortCells -> PortCell]
    <3>1. \A i \in 1..4 : PortStats[i] \in PortCell
      BY PortStatsKnown
    <3>2. data.ports \in [PortCells -> PortCell] /\ PortCells \subseteq Nat
      BY DeviceAssumption DEF Types, Data, PortCells
    <3>3. QED
      BY <2>1, <3>1, <3>2 DEF Filled
  <2>3. n \in Cell
    BY <1>1
  <2>4. data' \in Data
    BY <2>1, <2>2, <2>3 DEF Types, Data
  <2>5. QED
    BY <1>8, <2>4 DEF PortMonitorCollect, Types, Stages
<1>9. ASSUME NEW w \in Worlds, Becomes(w) PROVE Types'
  BY <1>9 DEF Becomes, Types
<1>10. CASE UNCHANGED vars
  BY <1>10 DEF vars, Types
<1>11. QED
  BY <1>3, <1>5, <1>6, <1>7, <1>8, <1>9, <1>10, WorldMoves DEF Next, Collect

(* Whatever the world becomes is seen.                                     *)
LEMMA WitnessedStep ==
    ASSUME Types, Witnessed, [Next]_vars
    PROVE  Witnessed'
<1>. USE Parameters DEF Types, Worlds, Witnessed, Quantities
<1>1. CASE StartCollect
  BY <1>1 DEF StartCollect, NoLocal, NoData, Blank
<1>2. CASE StaticCollect
  BY <1>2 DEF StaticCollect, Step
<1>3. CASE ClearCounts
  BY <1>3 DEF ClearCounts, Step
<1>4. CASE Bme280Read
  BY <1>4 DEF Bme280Read, Step, Filled
<1>5. CASE MqRead
  BY <1>5 DEF MqRead, Step
<1>6. CASE ReadUptime
  BY <1>6 DEF ReadUptime, Step
<1>7. CASE ReadHeap
  BY <1>7 DEF ReadHeap, Step
<1>8. CASE ReadRssi
  BY <1>8 DEF ReadRssi, Step
<1>9. CASE FillHealth
  BY <1>9 DEF FillHealth, Step, Fits, Filled, Health
<1>10. CASE PortMonitorCollect
  BY <1>10 DEF PortMonitorCollect, Fits, Filled, PortStats, PortStat
<1>11. ASSUME NEW w \in Worlds, w.uptime >= world.uptime, Becomes(w)
       PROVE  Witnessed'
  BY <1>11 DEF Becomes
<1>12. CASE UNCHANGED vars
  BY <1>12 DEF vars
<1>13. QED
  BY <1>1, <1>2, <1>3, <1>4, <1>5, <1>6, <1>7, <1>8, <1>9, <1>10, <1>11, <1>12,
     WorldMoves DEF Next, Collect

(* Each local is read once, and only the next collection spoils it.        *)
LEMMA LocalStep ==
    ASSUME Types, Witnessed, LocalTrue, [Next]_vars
    PROVE  LocalTrue'
<1>. USE Parameters DEF Types, Worlds, Locals, Witnessed, LocalTrue, Strength, Quantities
<1>1. CASE StartCollect
  BY <1>1 DEF StartCollect, NoLocal, NoData, Blank
<1>2. CASE StaticCollect
  BY <1>2 DEF StaticCollect, Step
<1>3. CASE ClearCounts
  BY <1>3 DEF ClearCounts, Step
<1>4. CASE Bme280Read
  BY <1>4 DEF Bme280Read, Step, Filled
<1>5. CASE MqRead
  BY <1>5 DEF MqRead, Step
<1>6. CASE ReadUptime
  BY <1>6 DEF ReadUptime, Step
<1>7. CASE ReadHeap
  BY <1>7 DEF ReadHeap, Step
<1>8. CASE ReadRssi
  BY <1>8 DEF ReadRssi, Step
<1>9. CASE FillHealth
  BY <1>9 DEF FillHealth, Step, Fits, Filled, Health
<1>10. CASE PortMonitorCollect
  BY <1>10 DEF PortMonitorCollect, Fits, Filled, PortStats, PortStat
<1>11. ASSUME NEW w \in Worlds, w.uptime >= world.uptime, Becomes(w)
       PROVE  LocalTrue'
  BY <1>11 DEF Becomes
<1>12. CASE UNCHANGED vars
  BY <1>12 DEF vars
<1>13. QED
  BY <1>1, <1>2, <1>3, <1>4, <1>5, <1>6, <1>7, <1>8, <1>9, <1>10, <1>11, <1>12,
     WorldMoves DEF Next, Collect

(* The readings stay as they were stored.                                  *)
LEMMA SensorsStep ==
    ASSUME Types, Witnessed, SensorsTrue, [Next]_vars
    PROVE  SensorsTrue'
<1>. USE Parameters DEF Types, Worlds, Data, Witnessed, SensorsTrue, SensorCells, Quantities
<1>1. CASE StartCollect
  BY <1>1 DEF StartCollect, NoLocal, NoData, Blank
<1>2. CASE StaticCollect
  BY <1>2 DEF StaticCollect, Step
<1>3. CASE ClearCounts
  BY <1>3 DEF ClearCounts, Step
<1>4. CASE Bme280Read
  BY <1>4 DEF Bme280Read, Step, Filled
<1>5. CASE MqRead
  BY <1>5 DEF MqRead, Step
<1>6. CASE ReadUptime
  BY <1>6 DEF ReadUptime, Step
<1>7. CASE ReadHeap
  BY <1>7 DEF ReadHeap, Step
<1>8. CASE ReadRssi
  BY <1>8 DEF ReadRssi, Step
<1>9. CASE FillHealth
  BY <1>9 DEF FillHealth, Step, Fits, Filled, Health
<1>10. CASE PortMonitorCollect
  BY <1>10 DEF PortMonitorCollect, Fits, Filled, PortStats, PortStat
<1>11. ASSUME NEW w \in Worlds, w.uptime >= world.uptime, w.mac = world.mac,
              Becomes(w)
       PROVE  SensorsTrue'
  BY <1>11 DEF Becomes
<1>12. CASE UNCHANGED vars
  BY <1>12 DEF vars
<1>13. QED
  BY <1>1, <1>2, <1>3, <1>4, <1>5, <1>6, <1>7, <1>8, <1>9, <1>10, <1>11, <1>12,
     WorldMoves DEF Next, Collect

(* The health values are those of the locals.                              *)
LEMMA HealthStep ==
    ASSUME Types, Witnessed, LocalTrue, HealthTrue, [Next]_vars
    PROVE  HealthTrue'
<1>. USE Parameters DEF Types, Worlds, Locals, Data, Witnessed, LocalTrue, HealthTrue, Strength,
           HealthCells, Quantities
<1>1. CASE StartCollect
  BY <1>1 DEF StartCollect, NoLocal, NoData, Blank
<1>2. CASE StaticCollect
  BY <1>2 DEF StaticCollect, Step
<1>3. CASE ClearCounts
  BY <1>3 DEF ClearCounts, Step
<1>4. CASE Bme280Read
  BY <1>4 DEF Bme280Read, Step, Filled
<1>5. CASE MqRead
  BY <1>5 DEF MqRead, Step
<1>6. CASE ReadUptime
  BY <1>6 DEF ReadUptime, Step
<1>7. CASE ReadHeap
  BY <1>7 DEF ReadHeap, Step
<1>8. CASE ReadRssi
  BY <1>8 DEF ReadRssi, Step
<1>9. CASE FillHealth
  <2>1. Fits(3, MaxHealth) = 3
    BY DEF Fits
  <2>2. data' = [data EXCEPT !.health_kv = Filled(data.health_kv, Health, 3),
                             !.health_count = 3]
    BY <1>9, <2>1 DEF FillHealth
  <2>3. /\ data'.health_count = 3
        /\ data'.health_kv = Filled(data.health_kv, Health, 3)
    BY <2>2
  <2>4. {0, 1, 2} \subseteq DOMAIN data.health_kv
    OBVIOUS
  <2>5. /\ data'.health_kv[0] = Float(local.uptime_sec)
        /\ data'.health_kv[1] = Float(local.free_heap)
        /\ data'.health_kv[2] = local.rssi
    BY <2>3, <2>4 DEF Filled, Health
  <2>6. /\ pc = "health" /\ seen' = seen
    BY <1>9 DEF FillHealth, Step
  <2>7. Float(local.free_heap) = local.free_heap
    BY <2>6, LocalsFloat
  <2>8. QED
    BY <2>3, <2>5, <2>6, <2>7
<1>10. CASE PortMonitorCollect
  BY <1>10 DEF PortMonitorCollect, Fits, Filled, PortStats, PortStat
<1>11. ASSUME NEW w \in Worlds, w.uptime >= world.uptime, Becomes(w)
       PROVE  HealthTrue'
  BY <1>11 DEF Becomes
<1>12. CASE UNCHANGED vars
  BY <1>12 DEF vars
<1>13. QED
  BY <1>1, <1>2, <1>3, <1>4, <1>5, <1>6, <1>7, <1>8, <1>9, <1>10, <1>11, <1>12,
     WorldMoves DEF Next, Collect

(* The counted cells are written with port statistics, and no others.      *)
LEMMA PortsWritten ==
    ASSUME Types, PortMonitorCollect
    PROVE  /\ data'.port_count = Fits(4, MaxPorts)
           /\ \A c \in 0..(data'.port_count - 1) : data'.ports[c] # Junk
           /\ data'.ports[MaxPorts] = data.ports[MaxPorts]
           /\ data'.sensor_kv = data.sensor_kv /\ data'.health_kv = data.health_kv
<1>1. PICK n \in 0..4 :
            /\ n = Fits(4, MaxPorts) /\ n <= MaxPorts
            /\ data' = [data EXCEPT !.ports = Filled(data.ports, PortStats, n),
                                   !.port_count = n]
  BY PortsCopied
<1>2. data \in Data
  BY DEF Types
<1>3. /\ data'.port_count = n /\ data'.ports = Filled(data.ports, PortStats, n)
      /\ data'.sensor_kv = data.sensor_kv /\ data'.health_kv = data.health_kv
  BY <1>1, <1>2 DEF Data
<1>4. DOMAIN data.ports = 0..MaxPorts /\ MaxPorts \in Nat
  BY <1>2, Parameters DEF Data, PortCells
<1>5. \A c \in 0..MaxPorts :
          data'.ports[c] = IF c < n THEN PortStats[c + 1] ELSE data.ports[c]
  BY <1>3, <1>4, Zenon DEF Filled
<1>6. ASSUME NEW c \in 0..(n - 1) PROVE data'.ports[c] # Junk
  <2>1. c \in 0..MaxPorts /\ c < n /\ c + 1 \in 1..4
    BY <1>1, <1>4
  <2>2. data'.ports[c] = PortStats[c + 1]
    BY <1>5, <2>1
  <2>3. QED
    BY <2>1, <2>2, PortStatsKnown
<1>7. MaxPorts \in 0..MaxPorts /\ ~ (MaxPorts < n)
  BY <1>1, <1>4
<1>8. data'.ports[MaxPorts] = data.ports[MaxPorts]
  BY <1>5, <1>7
<1>9. QED
  BY <1>1, <1>3, <1>6, <1>8

(* Every port that is counted was written.                                 *)
LEMMA PortsStep ==
    ASSUME Types, PortsTrue, [Next]_vars
    PROVE  PortsTrue'
<1>. USE Parameters DEF Types, Worlds, Data, PortsTrue, PortCells
<1>1. CASE StartCollect
  BY <1>1 DEF StartCollect, NoLocal, NoData, Blank
<1>2. CASE StaticCollect
  BY <1>2 DEF StaticCollect, Step
<1>3. CASE ClearCounts
  BY <1>3 DEF ClearCounts, Step
<1>4. CASE Bme280Read
  BY <1>4 DEF Bme280Read, Step, Filled
<1>5. CASE MqRead
  BY <1>5 DEF MqRead, Step
<1>6. CASE ReadUptime
  BY <1>6 DEF ReadUptime, Step
<1>7. CASE ReadHeap
  BY <1>7 DEF ReadHeap, Step
<1>8. CASE ReadRssi
  BY <1>8 DEF ReadRssi, Step
<1>9. CASE FillHealth
  BY <1>9 DEF FillHealth, Step, Fits, Filled, Health
<1>10. CASE PortMonitorCollect
  BY <1>10, PortsWritten
<1>11. ASSUME NEW w \in Worlds, w.uptime >= world.uptime, Becomes(w)
       PROVE  PortsTrue'
  BY <1>11 DEF Becomes
<1>12. CASE UNCHANGED vars
  BY <1>12 DEF vars
<1>13. QED
  BY <1>1, <1>2, <1>3, <1>4, <1>5, <1>6, <1>7, <1>8, <1>9, <1>10, <1>11, <1>12,
     WorldMoves DEF Next, Collect

(* No step writes behind an array.                                         *)
LEMMA OverrunStep ==
    ASSUME Types, NoOverrun, [Next]_vars
    PROVE  NoOverrun'
<1>. USE Parameters DEF Types, Worlds, Data, NoOverrun, SensorCells, HealthCells, PortCells, Interfaces
<1>1. CASE StartCollect
  BY <1>1 DEF StartCollect, NoLocal, NoData, Blank
<1>2. CASE StaticCollect
  BY <1>2 DEF StaticCollect, Step
<1>3. CASE ClearCounts
  BY <1>3 DEF ClearCounts, Step
<1>4. CASE Bme280Read
  BY <1>4 DEF Bme280Read, Step, Filled
<1>5. CASE MqRead
  BY <1>5 DEF MqRead, Step
<1>6. CASE ReadUptime
  BY <1>6 DEF ReadUptime, Step
<1>7. CASE ReadHeap
  BY <1>7 DEF ReadHeap, Step
<1>8. CASE ReadRssi
  BY <1>8 DEF ReadRssi, Step
<1>9. CASE FillHealth
  BY <1>9 DEF FillHealth, Step, Fits, Filled, Health
<1>10. CASE PortMonitorCollect
  BY <1>10, PortsWritten
<1>11. ASSUME NEW w \in Worlds, w.uptime >= world.uptime, Becomes(w)
       PROVE  NoOverrun'
  BY <1>11 DEF Becomes
<1>12. CASE UNCHANGED vars
  BY <1>12 DEF vars
<1>13. QED
  BY <1>1, <1>2, <1>3, <1>4, <1>5, <1>6, <1>7, <1>8, <1>9, <1>10, <1>11, <1>12,
     WorldMoves DEF Next, Collect

LEMMA UptimeFits ==
    ASSUME Types
    PROVE  world.uptime \in 0..(128 * Exact) /\ world.uptime <= MaxUptime
<1>1. \A u, m, e \in Nat : u <= m /\ m <= 128 * e => u \in 0..(128 * e)
  OBVIOUS
<1>2. world.uptime \in Nat /\ world.uptime <= MaxUptime
  BY WorldKnown
<1>3. QED
  BY <1>1, <1>2, Parameters

(* The clock and its floats only go forwards.                              *)
LEMMA ClockStep ==
    ASSUME Types, Witnessed, HealthTrue, Clock, [Next]_vars
    PROVE  Clock'
<1>. USE Parameters DEF Types, Worlds, Data, Witnessed, HealthTrue, Clock, Quantities
<1>1. CASE StartCollect
  BY <1>1 DEF StartCollect, NoLocal, NoData, Blank
<1>2. CASE StaticCollect
  BY <1>2 DEF StaticCollect, Step
<1>3. CASE ClearCounts
  BY <1>3 DEF ClearCounts, Step
<1>4. CASE Bme280Read
  BY <1>4 DEF Bme280Read, Step, Filled
<1>5. CASE MqRead
  BY <1>5 DEF MqRead, Step
<1>6. CASE ReadUptime
  BY <1>6 DEF ReadUptime, Step
<1>7. CASE ReadHeap
  BY <1>7 DEF ReadHeap, Step
<1>8. CASE ReadRssi
  BY <1>8 DEF ReadRssi, Step
<1>9. CASE FillHealth
  BY <1>9 DEF FillHealth, Step, Fits, Filled, Health
<1>10. CASE PortMonitorCollect
  <2>1. PICK t \in seen.uptime : data.health_kv[0] = Float(t)
    BY <1>10 DEF PortMonitorCollect
  <2>2. /\ reported' = Float(t) /\ world' = world /\ pc = "ports" /\ pc' = "collected"
    BY <1>10, <2>1 DEF PortMonitorCollect
  <2>3. /\ t \in 0..(128 * Exact) /\ t \in Nat /\ t <= world.uptime /\ Float(t) \in Nat
        /\ world.uptime \in 0..(128 * Exact) /\ world.uptime <= MaxUptime
    <3>1. t \in 0..(128 * Exact) /\ t \in Nat /\ t <= world.uptime /\ Float(t) \in Nat
      BY SeenFloats
    <3>2. world.uptime \in 0..(128 * Exact) /\ world.uptime <= MaxUptime
      BY UptimeFits
    <3>3. QED
      BY <3>1, <3>2
  <2>4. Float(t) <= Float(world.uptime)
    BY <2>3, FloatKeepsOrder
  <2>5. Float(t) <= 2 * t
    BY <2>3, FloatAtMostTwice
  <2>6. QED
    BY <2>2, <2>3, <2>4, <2>5
<1>11. ASSUME NEW w \in Worlds, w.uptime >= world.uptime, Becomes(w)
       PROVE  Clock'
  <2>1. /\ w.uptime \in Nat /\ world.uptime \in Nat
        /\ w.uptime \in 0..(128 * Exact) /\ world.uptime \in 0..(128 * Exact)
    BY <1>11, WorldKnown
  <2>2. Float(world.uptime) <= Float(w.uptime)
    BY <1>11, <2>1, FloatKeepsOrder
  <2>3. Float(world.uptime) \in Nat /\ Float(w.uptime) \in Nat
    BY <2>1, FloatIsNear
  <2>4. /\ world' = w /\ UNCHANGED <<reported, pc>>
        /\ seen'.uptime = seen.uptime \cup {w.uptime}
    BY <1>11 DEF Becomes
  <2>5. reported' \in 0..(2 * MaxUptime) /\ reported' <= Float(world'.uptime)
    BY <2>2, <2>3, <2>4
  <2>6. QED
    BY <2>4, <2>5
<1>12. CASE UNCHANGED vars
  BY <1>12 DEF vars
<1>13. QED
  BY <1>1, <1>2, <1>3, <1>4, <1>5, <1>6, <1>7, <1>8, <1>9, <1>10, <1>11, <1>12,
     WorldMoves DEF Next, Collect

(* The inductive invariant: at the start, and from step to step.           *)
LEMMA Begin == Init => IInv
<1>. SUFFICES ASSUME Init PROVE IInv
  OBVIOUS
<1>1. /\ world \in Worlds /\ world.uptime = 0
      /\ pc = "idle" /\ local = NoLocal /\ data = NoData /\ reported = 0
      /\ counters = [p \in 1..Len(Interfaces) |-> [tx |-> 0, rx |-> 0]]
      /\ seen = [q \in Quantities |-> {}]
  BY Parameters DEF Init, Worlds
<1>2. Junk \in Cell /\ Junk \in PortCell
  BY DEF Cell, PortCell
<1>3. Types
  BY <1>1, <1>2 DEF Types, Locals, Data, NoLocal, NoData, Blank, Stages
<1>4. Witnessed /\ LocalTrue /\ SensorsTrue /\ HealthTrue /\ PortsTrue
  BY <1>1 DEF Witnessed, LocalTrue, SensorsTrue, HealthTrue, PortsTrue, Quantities
<1>5. NoOverrun
  BY <1>1, Parameters DEF NoOverrun, NoData, Blank, SensorCells, HealthCells, PortCells
<1>6. Clock
  <2>1. 0 \in 0..(128 * Exact)
    BY Parameters
  <2>2. Float(0) \in Nat
    BY <2>1, FloatIsNear
  <2>3. QED
    BY <1>1, <2>2, Parameters DEF Clock
<1>7. QED
  BY <1>3, <1>4, <1>5, <1>6 DEF IInv

(* Every step keeps it: one lemma above for each of its parts.             *)
LEMMA Keeps == IInv /\ [Next]_vars => IInv'
<1>. SUFFICES ASSUME IInv, [Next]_vars PROVE IInv'
  OBVIOUS
<1>1. Types' /\ Witnessed' /\ LocalTrue'
  BY TypesStep, WitnessedStep, LocalStep DEF IInv
<1>2. SensorsTrue' /\ HealthTrue' /\ PortsTrue'
  BY SensorsStep, HealthStep, PortsStep DEF IInv
<1>3. NoOverrun' /\ Clock'
  BY OverrunStep, ClockStep DEF IInv
<1>4. QED
  BY <1>1, <1>2, <1>3 DEF IInv

(* The invariant holds of every collection.                                *)
THEOREM Inductive == Spec => []IInv
BY Begin, Keeps, PTL DEF Spec

(* The collectors never write behind an array, whatever its size           *)
(* (dynamic_data.c:48-69, port_monitor.c:30-66).                           *)
THEOREM TypeCorrect == Spec => []TypeOK
<1>1. IInv => TypeOK
  BY DEF IInv, Types, Worlds, Stages, NoOverrun, Clock, TypeOK
<1>2. QED
  BY <1>1, Inductive, PTL

(* A payload holds nothing that an earlier use of the stack left in the    *)
(* record json_builder.c:14 does not clear, nor, if the MAC address can be *)
(* read, in the mac[6] of static_data.c:27.                                *)
THEOREM NeverStale == Spec => []NothingStale
<1>1. IInv => NothingStale
  <2>. SUFFICES ASSUME IInv, pc = "collected" PROVE NothingStale
    BY DEF NothingStale, Collected
  <2>1. data.flash_size_mb \in {FlashMb, 0} /\ data.sensor_count = 4
    BY DEF IInv, SensorsTrue
  <2>2. \A c \in 0..3 : data.sensor_kv[c] \in Int
    <3>1. seen.adc \subseteq Int
      BY Parameters DEF IInv, Witnessed
    <3>2. data.sensor_kv[3] \in Int /\ \A c \in 0..2 : data.sensor_kv[c] = 0
      BY <3>1 DEF IInv, SensorsTrue
    <3>3. QED
      BY <3>2
  <2>3. data.health_count = 3
    BY DEF IInv, HealthTrue
  <2>4. \A c \in 0..2 : data.health_kv[c] \in Int
    <3>1. PICK t \in seen.uptime : data.health_kv[0] = Float(t)
      BY DEF IInv, HealthTrue
    <3>2. data.health_kv[0] \in Int
      BY <3>1, SeenFloats DEF IInv
    <3>3. data.health_kv[1] \in Int
      BY SeenFloats DEF IInv, HealthTrue
    <3>4. data.health_kv[2] \in Int
      <4>1. Signals \subseteq Int /\ seen.signal \subseteq Signals \cup {NoAP}
        BY Parameters DEF IInv, Witnessed
      <4>2. Strength(data.health_kv[2])
        BY DEF IInv, HealthTrue
      <4>3. data.health_kv[2] \in Signals \/ data.health_kv[2] = 0
        BY <4>1, <4>2 DEF Strength
      <4>4. data.health_kv[2] \in Signals => data.health_kv[2] \in Int
        BY <4>1, Zenon
      <4>5. QED
        BY <4>3, <4>4
    <3>5. QED
      BY <3>2, <3>3, <3>4
  <2>5. /\ data.port_count = Fits(4, MaxPorts)
        /\ \A c \in 0..(data.port_count - 1) : data.ports[c] # Junk
    BY DEF IInv, PortsTrue
  <2>6. data.port_count = MaxPorts \/ data.port_count = Len(Interfaces)
    BY <2>5, Parameters DEF Fits, Interfaces
  <2>7. Junk \notin Int
    BY Parameters
  <2>8. data.device_id = Mac \/ world.mac = Junk
    BY DEF IInv, Types, Worlds, SensorsTrue
  <2>9. QED
    BY <2>1, <2>2, <2>3, <2>4, <2>5, <2>6, <2>7, <2>8 DEF NothingStale
<1>2. QED
  BY <1>1, Inductive, PTL

(* Each value reported was true while it was collected (dynamic_data.c:33- *)
(* 67); what the float of the uptime loses is at most half a spacing.      *)
THEOREM WasTrue == Spec => []TrueWhenCollected
<1>1. IInv => TrueWhenCollected
  <2>. SUFFICES ASSUME IInv, pc = "collected" PROVE TrueWhenCollected
    BY DEF TrueWhenCollected, Collected
  <2>1. PICK t \in seen.uptime : data.health_kv[0] = Float(t)
    BY DEF IInv, HealthTrue
  <2>2. 2 * Distance(data.health_kv[0], t) <= Spacing(t)
    BY <2>1, SeenFloats, FloatIsNear DEF IInv
  <2>3. data.health_kv[1] \in seen.heap /\ Strength(data.health_kv[2])
    BY DEF IInv, HealthTrue
  <2>4. data.sensor_kv[3] \in seen.adc
    BY DEF IInv, SensorsTrue
  <2>5. QED
    BY <2>1, <2>2, <2>3, <2>4 DEF TrueWhenCollected, Strength
<1>2. QED
  BY <1>1, Inductive, PTL

(* The uptime never runs backwards within a boot, although it is rounded   *)
(* (dynamic_data.c:51).                                                    *)
THEOREM NeverBack == Spec => UptimeNeverRunsBack
<1>1. IInv /\ [Next]_vars => [reported' >= reported]_vars
  <2>. SUFFICES ASSUME IInv, [Next]_vars PROVE reported' >= reported
    OBVIOUS
  <2>1. reported \in Nat
    BY DEF IInv, Clock
  <2>2. CASE PortMonitorCollect
    <3>1. pc = "ports" /\ reported' = data.health_kv[0]
      BY <2>2 DEF PortMonitorCollect
    <3>2. PICK t \in seen.uptime : data.health_kv[0] = Float(t)
      BY <3>1 DEF IInv, HealthTrue
    <3>3. reported <= Float(t) /\ Float(t) \in Nat
      BY <3>1, <3>2, SeenFloats DEF IInv, Clock
    <3>4. QED
      BY <2>1, <3>1, <3>2, <3>3
  <2>3. CASE ~ PortMonitorCollect
    <3>1. World => UNCHANGED reported
      BY DEF World, SecondPasses, HeapChanges, SignalChanges, AdcChanges, Traffic, Becomes
    <3>2. StartCollect \/ UNCHANGED vars => UNCHANGED reported
      BY DEF StartCollect, vars
    <3>3. Collect => UNCHANGED reported
      BY <2>3 DEF Collect, StaticCollect, ClearCounts, Bme280Read, MqRead,
                  ReadUptime, ReadHeap, ReadRssi, FillHealth, Step
    <3>4. reported' = reported
      BY <3>1, <3>2, <3>3 DEF Next
    <3>5. QED
      BY <2>1, <3>4
  <2>4. QED
    BY <2>2, <2>3
<1>2. QED
  BY <1>1, Inductive, PTL DEF Spec, UptimeNeverRunsBack

=============================================================================
