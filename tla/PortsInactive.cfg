\* Are interfaces that are used reported as active?
SPECIFICATION Spec
CONSTANTS
    MaxHealth = 10
    MaxPorts = 5
    Exact = 2
    HeapSizes = {1}
    Signals = {}
    AdcResults = {2}
    Carriers = {"UART", "I2C"}
    FlashMb = 8
    Mac = Mac
    MaxUptime = 0
    NoAP = NoAP
    Junk = Junk
INVARIANTS
    ActivityIsReported
