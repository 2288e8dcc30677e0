\* One collection after another in a world that changes at any moment.
SPECIFICATION Spec
CONSTANTS
    MaxHealth = 3
    MaxPorts = 3
    Exact = 2
    HeapSizes = {1, 2}
    Signals <- MCSignals
    AdcResults <- MCAdcResults
    Carriers = {"UART"}
    FlashMb = 8
    Mac = Mac
    MaxUptime = 6
    NoAP = NoAP
    Junk = Junk
INVARIANTS
    TypeOK
    NothingStale
    TrueWhenCollected
PROPERTIES
    UptimeNeverRunsBack
