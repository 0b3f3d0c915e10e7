SPECIFICATION Spec
CONSTANTS
    p1 = p1
    p2 = p2
    NoPlan = NoPlan
    Plans = {p1, p2}
    Algo <- MarketAndTaker
    WithExit = {p1}
    Size = 1
    Resume = FALSE
    Faults = {"db", "status", "cancel", "place", "hold"}
    MaxRestarts = 2
    MaxUnits = 2
INVARIANT NoTradeFromEarlierLife
INVARIANT FillsAreReal
CHECK_DEADLOCK FALSE
