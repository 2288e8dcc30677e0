\* What becomes of "Disconnected, retrying..." when esp_wifi_connect fails.
SPECIFICATION Spec
CONSTANTS
    EventQueueSize = 6
    OtherEvents = 2
    ConnectCanFail = TRUE
INVARIANTS
    NeverStranded
