\* Telemetry through lost connections, failed writes and expiring messages.
SPECIFICATION Spec
CONSTANT Slots = {s1, s2}
INVARIANTS
    TypeOK
    FlagMatchesClient
    NoPayloadLeaks
    AcceptedIsKept
    OnlyAStartedClientPublishes
PROPERTIES
    CycleCompletes
    TelemetryFlows
    KeepsItsPromise
    DeliversWhatIsPending
