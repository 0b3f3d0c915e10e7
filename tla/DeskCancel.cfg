SPECIFICATION FairSpec
CONSTANTS
    p1 = p1
    p2 = p2
    NoPlan = NoPlan
    Plans = {p1, p2}
    Algo <- LimitAndMaker
    WithExit = {p1}
    Size = 2
    Resume = FALSE
    Faults = {}
    MaxRestarts = 0
    MaxUnits = 4
INVARIANT ExitClosesActual
PROPERTY CancelledIsPulled
CHECK_DEADLOCK FALSE
