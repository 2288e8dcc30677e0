\* Registration, initialisation and collection with the registry and the
\* buffer at their limits.
SPECIFICATION Spec
CONSTANTS
    bme280 = bme280
    mq135 = mq135
    co2 = co2
    relay = relay
    probe = probe
    Drivers <- MCDrivers
    RegisterAll <- MCBoots
    HasInit <- MCHasInit
    HasRead <- MCHasRead
    InitCanFail <- MCFail
    ReadCanFail <- MCFail
    Readings <- MCReadings
    KvMax = 3
    MaxSensors = 3
    MaxSensorKV = 9
INVARIANTS
    TypeOK
    NoOverrun
    OutIsExact
    NoneSkipped
