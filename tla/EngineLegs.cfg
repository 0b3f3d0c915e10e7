SPECIFICATION Spec
CONSTANTS
    o1 = o1
    o2 = o2
    p1 = p1
    p2 = p2
    p3 = p3
    q1 = q1
    q2 = q2
    SlotLegs <- Quoting
    Legs <- LegSet
    OrderLegs <- OrderSet
    PositionLegs <- PositionSet
    KeepPosition <- Keepers
    OrdersPer <- Bound
    Size = 2
    MaxAttempts = 2
    Faults <- LegFaults
    Sessions <- SessionSets
    None = None
INVARIANTS
    TypeOK
    NoFalseGone
    DroppedLeavesNothing
    CountsOnlyTrades
    CompletedIsFlat
    SlotNamesItsQuote
PROPERTY
    LegImplemented
CHECK_DEADLOCK FALSE
