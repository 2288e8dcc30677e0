# Formal verification of the device telemetry firmware

The program is an ESP32-S3 firmware (C, ESP-IDF): it joins a Wi-Fi network, connects to an MQTT
broker and publishes a JSON description of the device and its sensors every few seconds. Its own
code is `src/main`; `src/build` is a build tree. This directory holds TLA+ modules that model it, the
TLC configurations that check them, and TLAPS proofs of the properties that must hold whatever the
sizes are.

## 1. Inventory

Four tasks run the code. The **main task** runs `app_main` once. The **event-loop task** runs
`wifi_event_handler`. The **esp-mqtt task** runs `mqtt_event_handler`. The **telemetry task** runs
`publish_task` for ever. They share plain `static` variables without any lock of their own.

| Component | State | Operations | Talks to | What is hard | What makes it correct |
|---|---|---|---|---|---|
| Wi-Fi station manager `wifi_manager.c` | `wifi_connected`; the radio, DHCP client and event queue outside | `wifi_init_sta`, `wifi_event_handler`, `wifi_is_connected` | driver and event loop by events; main task by the flag | events lag reality; one lost event, or one refused call, ends the chain of reconnects; the queue is shared with ESP-IDF's own events | an idle radio always has a wake-up on its way; the flag is corrected; its own events find room in the queue |
| MQTT manager `mqtt_manager.c` | `mqtt_client`, `mqtt_connected`; client, outbox and broker outside | `mqtt_init`, `mqtt_event_handler`, `mqtt_publish`, `mqtt_is_connected` | esp-mqtt by calls under its API lock and by events | check-then-use of the flag; the answer of a publish is not its fate; events are dispatched in either task | the flag follows the client; what was accepted is kept; a cycle ends |
| Telemetry task and start-up `app_main.c` | NVS in flash; the tasks themselves | NVS repair, the waits, `publish_task` | all others | crashes at any point; calls whose failure is not looked at | a device that was healthy is healthy again after a crash; payloads are freed |
| Sensor registry `sensor_manager.c` | `registered_sensors`, `sensor_count`, each driver's `initialized` | register, init_all, collect | drivers by function pointers | drivers write into a buffer whose end they do not know; half-done reads | no overrun; the report is exactly what was read |
| JSON builder `json_builder.c` | the heap | `build_device_json` | collectors, cJSON | any allocation may fail, and almost none is looked at | complete on a good heap; never without its main parts |
| Sensor drivers `mq_sensor.c`, `bme280_sensor.c` | `initialized` | init, read | ADC | an ADC error is reported as a reading; the BME280 readings are constants | number of readings stored = number reported |
| BME280 device driver `bme280.c` | the chip's registers, calibration, settings | init, soft reset, modes, settings, compensation | a bus | one bus transfer of several failing; wrap-around arithmetic | settings survive a mode change; results are in range |
| Runtime data `dynamic_data.c`, port monitor `port_monitor.c` | port counters (never incremented); the caller's uncleared record | collect | registry, ESP-IDF | values are read one by one while the world changes; conversion to floats; a record on the stack | what is sent was written by this call, and was true during it; arrays keep their ends |
| Static data `static_data.c` | the caller's record | collect | ESP-IDF | a failed call leaves its field, or the MAC the device id is made of, unassigned | the record is cleared first; the MAC is read |

How they interact: `app_main` repairs NVS, starts Wi-Fi and **waits for the flag**, starts MQTT, registers
and initialises sensors, and only then creates the telemetry task. That task polls
`mqtt_is_connected()`, calls `build_device_json` (which calls the collectors, which call the registry,
which calls the drivers), calls `mqtt_publish`, frees the payload and sleeps.

The hazards this yields are listed in `PROJECT.json`, each with the line where it bites and the properties
that would see it go wrong.

## 2. Modules

| Module | Models | State and actions against the code |
|---|---|---|
| `WifiManager` | `wifi_manager.c` and the wait in `app_main` | `init_step` counts the completed calls of `wifi_init_sta` (`InitCalls` lists them in order; each is wrapped in `ESP_ERROR_CHECK`, hence `InitAbort`). `TakeEvent`/`HandleEvent` are one dispatch of the default loop: ESP-IDF's own handlers first, then `WifiEventHandler`. `radio`, `dhcp`, `evq` are external. `others` counts the places of the queue that events of no concern here take (`PostOther`, `TakeOther`): `IP_EVENT_STA_LOST_IP`, which comes 120 s after an address was lost, the Wi-Fi driver's other events, those of other components. |
| `WifiManagerProofs` | - | theorems about `WifiManager` |
| `SensorManager` | `sensor_manager.c` and the shape of the drivers | one action per loop iteration; `out` is the caller's buffer **and the memory behind it**, so an overrun is visible; `log` is a history variable for the properties |
| `SensorManagerProofs` | - | theorems about `SensorManager` |
| `MqttManager` | `mqtt_manager.c` and `publish_task` | the telemetry task's `pc` has one value per point where another task can interfere: after the check, after the build, after the second check and while waiting for the lock. `lock` and `events` are the client's API lock and the events its holder dispatches; `box`, `wire`, `acks`, `received` are outbox, network and broker. `heap` counts payloads. `taken`, which only the acceptance of a publication changes, is a history variable for `Promise`. |
| `Delivery` | the promise of telemetry | abstract: a publication is pending from the step that takes it, is delivered or lost once, and then stands. `Accept` is the only step that makes a slot pending: it takes one publication, which `taken` counts (modulo 2), and touches no other; `Settle` takes none. `MqttManager` implements it through `Promise`: `Fate` reads what has become of a publication off the broker, the network and the outbox. |
| `MqttManagerProofs` | - | theorems about `MqttManager`, the refinement of `Delivery` among them |
| `Firmware` | `app_main` and restarts | composes the three above with `INSTANCE`; every action is one of theirs under the program counter `boot` of the main task. `nvs` survives `Restart`, nothing else does. The other users of the event loop are left to `WifiManager` (`OtherEvents <- 0`). |
| `FirmwareProofs` | - | theorems about `Firmware`, composed of its components' |
| `JsonBuilder` | `build_device_json` | one action per group of cJSON calls with one purpose; each may meet a full heap |
| `DeviceData` | `static_data.c`, `dynamic_data.c`, `port_monitor.c` and the two drivers' reads, as `build_device_json` calls them | `pc` has one value per value read, since the world (`world`: clock, heap, signal, ADC, traffic) moves between any two reads. `local` and `data` are the locals of the functions, with `Junk` for what nothing has written, which is also what `esp_read_mac` leaves in `mac` when it fails; each array has the cell behind its last one. `seen` and `reported` are history variables. |
| `JsonBuilderProofs` | - | theorems about `JsonBuilder` |
| `DeviceDataProofs` | - | theorems about `DeviceData` |
| `Bme280` | the register protocol of `bme280.c` | one action per bus transfer, each of which may fail; `pc` names the next transfer, `reload` says whether it belongs to the reload after a reset. The chip (`ctrl_hum`, `hum_used`, `ctrl_meas`, `config`) is external and changes by itself when a forced measurement ends. `before` and `failed` are history variables. |
| `Bme280Proofs` | - | theorems about `Bme280` |
| `Bme280Data` | what `bme280.c` makes of bytes | the chip holds numbers and offers bytes, the driver's parsers put them together; the compensation formulas are kept as what they are computed from. `Settings` are the bytes a caller may have in its settings |
| `Bme280DataProofs` | - | theorems about `Bme280Data` |
| `MCSensorManager`, `MCFirmware`, `MCDeviceData`, `MCBme280`, `MCBme280Data` | - | constant values for TLC |

An operator whose name is a definition's name with a suffix (`Register_OneTooMany`, `Check_GivesUp`, ...)
is a deliberately wrong version of that definition. No specification uses it. It records the mistake that
a property is there to catch: with the definition's body replaced by it, TLC finds the property violated.

## 3. Runs

| Run | Checks | Shows |
|---|---|---|
| `wifi_manager` | `HandlersInPlace`, `NeverStranded`, `ConnectOnlyWhenIdle`, `RoomForOwnEvents`, `BoundIsAnnounced`, `AlwaysReconnects`, `StaleFlagCorrected`, `WaitEventuallyEnds` | a station whose `esp_wifi_connect` always starts an attempt comes back from every loss, never asks a busy radio to connect, runs with both handlers whichever call of its start-up failed before, finds room for its own events in a queue it shares, and its flag, though it may lag and though `LOST_IP` is not handled, is put right |
| `wifi_stranded` | `NeverStranded`, **violated** | one refused call, and nothing ever retries, although the log says "retrying" |
| `sensor_manager` | `NoOverrun`, `OutIsExact`, `NoneSkipped` | registry and buffer filled to the last cell, a driver too many, a driver registered twice, drivers that fail to start, fail half way or lack a function |
| `mqtt_manager` | `FlagMatchesClient`, `NoPayloadLeaks`, `AcceptedIsKept`, `OnlyAStartedClientPublishes`, `CycleCompletes`, `TelemetryFlows`, `KeepsItsPromise` (refinement of `Delivery`), `DeliversWhatIsPending` | the telemetry task against the client's task: every lost connection, failed write, full outbox, expiry, lost message and lost acknowledgement, at every point. A client that was not started is never published to; a publication is pending as soon as it is stored, settles at most once and disturbs no other; what is pending when trouble ends is delivered |
| `mqtt_sent_lost` | `SentIsNotLost`, **violated** | "data sent" is reported of a message that was only queued and then expired |
| `firmware` | `RegistryHasOneUser`, `NvsRepaired`, `TelemetryResumes` | the composed device from every state of its flash, restarted at any point: what runs on NVS finds it repaired |
| `json_builder` | `GoodHeapGoodPayload`, `PayloadHasItsParts` | builds one after another, every allocation refused or granted |
| `bme280` | `OkMeansDone`, `CleanCallIsComplete`, `NoStrayMode`, `ConfigOnlyAsleep`, `NothingInvented`, `CallEnds` | every call after every other and any transfer failing: what a success is worth, that settings survive the reset a change needs, that no setting starts a measurement, that a register never holds what nobody asked for, also after a failed reload, that polling ends |
| `bme280_success` | `ZeroMeansSuccess`, **violated** | a failed write of the humidity register is hidden by a later one that succeeds |
| `bme280_data` | `CalibIsTrue`, `OneSample`, `DelayCovers` | the parsed calibration is the chip's; one reading is never corrected with another's temperature; the delay, in microseconds, is long enough for every register value |
| `device_data` | `NothingStale`, `TrueWhenCollected`, `UptimeNeverRunsBack` | collection after collection while clock, heap, signal and ADC change between any two reads, a flash that may not tell its size, a MAC that may not be readable (its field is excepted) and an array that is full |
| `ports_inactive` | `ActivityIsReported`, **violated** | an interface in use is reported as inactive: nothing increments the counters |

A run of a module with a `TypeOK` checks that as well, but for `WifiManager`, whose types are proved only. The violated properties state what a log message or the
repository's README says; they are the findings of `PROJECT.json`.

### Bounds, and why they are enough

- `EventQueueSize = 6` (32 in `sdkconfig`), of which others take up to `OtherEvents = 2`. At most three of the station's own
  events wait at once, so it needs four places with the one being posted. That the loop's other users leave them is an
  **assumption** (`WifiAssumption`): the code does not see to it, and a queue that others fill would lose the station's
  events. Of those other events the places are kept, not where they stand between the station's own; they are not handled
  by `wifi_event_handler`, so they only delay. `Firmware` has a queue of 4 and no others.
- `Slots = {s1, s2}`: two messages outstanding, so that one can be resent, acknowledged or expire while another
  is published. A slot takes the next message only when its last one is settled and no copy is under way (`Reusable`): that
  bounds the messages outstanding, the code has no such limit. `Firmware` uses one, its question being start-up and recovery.
- `MaxSensors = 3`, `KvMax = 3`, `MaxSensorKV = 9` (8, 3 and 32 in the code): the registry and the buffer are
  filled exactly, which the code's own two drivers never do. `Firmware` uses the code's values.
- `MaxSensorCount = HealthCount = PortCount = 2`: the first and a later iteration of each loop.
- `Bme280`: `Values = {0, 13}`, the default and a value that exceeds its field of three bits (it becomes 5);
  `Selections` takes every path through the settings. `Bme280Data`: calibrations and samples at both ends of every range,
  around zero, with different nibbles in the shared byte and with a different number in every word.
- `DeviceData`: `Exact = 2` (2^24 in a float), so that a clock of `MaxUptime = 6` seconds meets exact numbers, both kinds
  of rounding and ties; the clock, in the code 32 bits of seconds, is bounded and does not wrap. `MaxPorts = 3` cuts the
  ports off, `MaxHealth = 3` is filled exactly; the ADC gives a count or the error code. The proofs need none of these.
- A lease outlives the dispatch of its own `GOT_IP` (`LeaseLapse`): real leases last minutes.

### Fairness, and why the code justifies it

Tasks are FreeRTOS tasks that block only where modelled, so each gets weak fairness (`Main`, the event loop,
`Telemetry`, `ClientTask`). A publish waits for the client's mutex, which other holders release again and again,
so `Send` gets strong fairness. Of the network only this is assumed: an association, a DHCP exchange, a connection, a
resend that is possible again and again succeeds at last (strong fairness of `Associate`, `DhcpBind`, `Connect`,
`Resend`, `Acked`). Losing links, failing calls and expiry get none. `TelemetryFlows` and `TelemetryResumes` are
conditional: *if trouble stops for ever*, messages reach the broker for ever. `Trouble` names each action
that counts as such, expiry included: nothing makes a message that stays undelivered for 30 s arrive, hence the same condition on
`DeliversWhatIsPending`. What a boot leaves undone without noticing is named by `Started` and `Crippled`.
`JsonBuilder` has weak fairness of `Next` and `Bme280` of `Transfer`: a function that was called runs.

## 4. Proofs

TLAPS checks every step of these theorems, for all values of the constants that satisfy the named assumptions.

- `WifiManagerProofs` (from `WifiAssumption`: a queue with at least 4 places more than others take). `Inductive`: `Spec => []IInv`, where `IInv` is
  `TypeOK`, *the handlers are registered before the driver starts*, and `QueueShape`. The properties are not
  inductive by themselves: that an idle radio has a wake-up pending depends on what may stand behind and before
  `STA_DISCONNECTED` in the queue, which depends on what DHCP may still do. `QueueShape` lists the
  combinations of radio, DHCP state, running handler and queue contents that can occur; each action maps a row to a row.
  From it follow `NotStranded` (which assumes `~ ConnectCanFail`; `wifi_stranded` shows why it must), and, also for an
  `esp_wifi_connect` that may be refused, `QueueHasRoom`, `BoundAnnounced` and `ConnectsWhenIdle`. `Listens` needs only that the
  handlers are registered first and that a failed call goes no further.
- `SensorManagerProofs` (from `SensorAssumption`: `MaxSensors * KvMax <= MaxSensorKV`). `TypeCorrect`, which
  includes that the registry's array is not overrun, and `BufferSafe`: no driver stores behind the buffer. The
  strengthening is a budget: after `i` iterations at most `i * KvMax` readings are stored and no cell
  beyond `index + KvMax` is touched. The firmware satisfies the assumption (8 * 3 <= 32); a driver that
  stores 5 readings would not. `ReportIsExact` and `EveryoneIsRead` relate the buffer to the history of reads: `History` says that
  the log has a turn for each iteration so far, that the successful ones stand in the buffer one behind the other, and that
  what a read that may yet fail has stored lies behind `index`, where the next read starts.
- `FirmwareProofs` (from `FirmwareAssumption`, the components' assumptions). Nothing of a component is proved again: each
  step of the device is a step of a component, leaves it alone, or is a restart (`StepsOfParts`), so the inductive invariants
  of `WifiManagerProofs`, `MqttManagerProofs` and `SensorManagerProofs` hold here too (`PartsInv`). `BootInv` adds what orders
  them: how far each component can be at which `boot`, and in which states of the NVS partition the
  main task can be there. `OneUser` and `Repaired` follow; `PromisesCompose` says that the components' safety
  properties hold of them in the device, in every boot, and `DeliveryComposes` that each of its steps but a restart is one of `Delivery`, or none. A
  restart is excepted because it empties the outbox, which the code does not store.
- `JsonBuilderProofs` (from `JsonAssumption`: the counts are natural numbers). Both properties speak of the end of a
  build, so the invariant says at each stage what must be there by then (`Groups`, `Opened`) and what is still due to each
  array (`Due`). `Exact`: as long as no allocation has failed, what is there and complete is exactly what is not still due.
  `DueStays` and `DueFalls` show that no step but an iteration changes what is due. From it `GoodHeap` and `Parts`.
- `Bme280Proofs` (from `Bme280Assumption`: the values asked for are bytes). `TypeCorrect` rests on lemmas about the
  register fields: a field fits its byte, and writing a setting does not touch the mode bits. `WritesAtRest` is the inductive
  invariant: at every transfer that writes a setting the chip sleeps, and so does what was read to be written back; without
  the second part the write back of `ctrl_meas` could wake the chip. The action properties `ModeOnlyOnRequest`
  and `ConfigAtRest` follow. What a call has achieved needs `WorkInv` (`WorkIsKept`): a series of writes takes each setting from
  one value to another, with `reload` from the default to the old one and without it from the old to the one asked for (`From`, `Goal`); it
  says at each transfer which have got there, what the register read to be written back holds for each, and that only the
  humidity setting may have been left behind, after a failure. From it `SuccessIsReal`, `CleanIsComplete` and `OldOrAsked`.
  `CallIsBounded`: each transfer lowers `TransfersLeft`, which starts at 24 at most, so that of `CallEnds` only the fairness is left to TLC.
- `Bme280DataProofs` (from `DataAssumption`: each number has the width the data sheet gives it). `ParseTempPress`, `ParseHumid`
  and `ParseSensorData` undo what the chip does to lay its numbers out in bytes, signs and the byte two numbers share included
  (`CalibrationTrue`); from it `SamplesWhole` and `DelayIsEnough`.
- `MqttManagerProofs` (no assumption; any set of slots). `FlagMatchesClient` is not inductive: while the lock is held the flag
  lags, so `Flag` says which events can be outstanding in which state of the client, and `Control` that the telemetry
  task holds the lock exactly while it dispatches the event of a failed write. `Messages` says that an
  acknowledgement, or an empty place in the outbox with a copy still under way, means a message the broker has: that
  is what keeps a publication from going back from delivered, or from vanishing with the connection. `Implements` is the
  refinement: `FateAccepted` shows that storing a publication makes it pending and moves no other, `FateSettles` that each other
  step settles what is pending or leaves it alone, `PromiseSteps` that each step is therefore one of `Delivery` or changes nothing there.
- `DeviceDataProofs` (from `DeviceAssumption`: room for the three health values, a clock of at most 128 times what a
  float holds exactly - 2^31 s of the code's 2^32 - and a heap that a float holds exactly). First what rounding does: it
  goes to the nearest multiple, crosses no multiple or middle, and, across a change of the spacing too, keeps order
  (`FloatKeepsOrder`). The invariant then follows each value from the world (`Witnessed`) to the locals (`LocalTrue`) and the
  record (`SensorsTrue`, `HealthTrue`, `PortsTrue`), and `Clock` says that the last uptime reported is not after any
  that can still be read. From it `NeverStale`, `WasTrue`, `NeverBack`, and that no array is overrun (`TypeCorrect`).

Only model-checked: the liveness properties (`AlwaysReconnects`, `StaleFlagCorrected`, `WaitEventuallyEnds`, `CycleCompletes`,
`TelemetryFlows`, `DeliversWhatIsPending`, `TelemetryResumes`, `CallEnds`), since fairness and `ENABLED` are out of the prover's reach. Every safety
and action property of the passing runs is proved. The four violated properties are, of course, only refuted.

## 5. Not modelled

- **External code**: ESP-IDF, esp-mqtt, cJSON, FreeRTOS and the network are modelled only as far as `src/main` relies on
  them. Those definitions are marked external in `PROJECT.json`.
- **Values**: JSON text, log texts, credentials, the strings that identify the device. `device_name` is collected but not
  sent; no document says that it is.
- **`bme280.c`**: the compensation formulas, computed in doubles, beyond what they depend on; the integer variants, which
  `BME280_DOUBLE_ENABLE` leaves out of the build; NULL arguments; burst writes, which nothing uses. The firmware compiles
  this driver but `bme280_sensor.c` reports constants and never calls it, so `Bme280` is not composed with `Firmware`.
- **`static_data.c`**: only the record's clearing, the device id and the flash size. The result of `esp_read_mac` is ignored
  and `mac` has no initial value (`static_data.c:27-33`): should it fail, `device_id` is made of what the stack held, and
  `json_builder.c:42` sends it. `NothingStale` names this case as its one exception.
- **A disagreement of comments**: the delay of `bme280_cal_meas_delay` is in microseconds according to `bme280.h:377` and `381`
  and in milliseconds according to `bme280.c:796`. The numbers fit microseconds, and so does `DelayCovers`; the comment in
  `bme280.c` is off by a thousand.
- **Uptimes beyond 2^31 s** (68 years), and so the wrap of the 32 bits.
- **Time**: intervals and timeouts are nondeterministic delays.

## 6. Plan

Order: the reconnect logic first, since everything else waits for it; the registry; delivery, its abstract specification and the
refinement; the composed device; the builder; the collectors; the BME280 driver. All of these are modelled, checked and, their
safety, proved. What is left is support for the liveness properties:

1. Measures that fall with every step, as `TransfersLeft` does, for the builder and the cycle of the telemetry task.
2. That the actions fairness is assumed of are enabled where the liveness properties need them, stated as state predicates.
