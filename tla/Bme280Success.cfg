\* What "0 -> Success" is worth when the write of the humidity register fails.
SPECIFICATION Spec
CONSTANTS
    Selections <- MCSelections
    Values = {0, 5}
INVARIANTS
    ZeroMeansSuccess
