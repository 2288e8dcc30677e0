\* The station with a driver whose esp_wifi_connect always starts an attempt.
SPECIFICATION Spec
CONSTANTS
    EventQueueSize = 6
    OtherEvents = 2
    ConnectCanFail = FALSE
INVARIANTS
    HandlersInPlace
    NeverStranded
    ConnectOnlyWhenIdle
    RoomForOwnEvents
    BoundIsAnnounced
PROPERTIES
    AlwaysReconnects
    StaleFlagCorrected
    WaitEventuallyEnds
