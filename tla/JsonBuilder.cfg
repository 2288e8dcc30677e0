\* Builds with up to two readings, on a heap that may be full at any step.
SPECIFICATION Spec
CONSTANTS
    MaxSensorCount = 2
    HealthCount = 2
    PortCount = 2
INVARIANTS
    GoodHeapGoodPayload
    PayloadHasItsParts
