\* The whole device, from any state of its flash, through crashes.
SPECIFICATION Spec
CONSTANTS
    EventQueueSize = 4
    ConnectCanFail = FALSE
    Slots = {s1}
    bme280 = bme280
    mq135 = mq135
    Drivers <- MCDrivers
    RegisterAll <- MCRegisterAll
    HasInit <- MCDrivers
    HasRead <- MCDrivers
    InitCanFail = {}
    ReadCanFail = {}
    Readings <- MCReadings
    KvMax = 3
    MaxSensors = 8
    MaxSensorKV = 32
INVARIANTS
    RegistryHasOneUser
    NvsRepaired
PROPERTIES
    TelemetryResumes
