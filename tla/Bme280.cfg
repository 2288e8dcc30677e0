\* Every call after every other, any transfer failing.
SPECIFICATION Spec
CONSTANTS
    Selections <- MCSelections
    Values = {0, 13}
INVARIANTS
    TypeOK
    OkMeansDone
    CleanCallIsComplete
    NothingInvented
PROPERTIES
    NoStrayMode
    ConfigOnlyAsleep
    CallEnds
