\* Calibrations and samples of every shape through the driver's parsers.
SPECIFICATION Spec
CONSTANTS
    Nvms <- MCNvms
    Samples <- MCSamples
    Settings = {0, 1, 5, 255}
INVARIANTS
    CalibIsTrue
    OneSample
    DelayCovers
