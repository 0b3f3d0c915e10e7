SPECIFICATION Spec
CONSTANTS
    p1 = p1
    p2 = p2
    NoPlan = NoPlan
    Plans = {p1, p2}
    Algo <- LimitAndMaker
    WithExit = {}
    Size = 2
    Resume = TRUE
    Faults = {"db", "status", "place"}
    MaxRestarts = 1
    MaxUnits = 3
INVARIANT TypeOK
INVARIANT OneShotOnce
INVARIANT FillsAreReal
CHECK_DEADLOCK FALSE
