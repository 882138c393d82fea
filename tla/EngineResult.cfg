CONSTANTS
    Durations = {1, 2, 3}
    Intervals <- SmallIntervals
    MaxIntervals = 2
    Occupied <- NothingOrOne
    Nows = {0, 2}
    Zones <- EveryZone
SPECIFICATION Spec
INVARIANTS ResultIsGenerate OffersCanBeKept
PROPERTY Terminates
CHECK_DEADLOCK FALSE
