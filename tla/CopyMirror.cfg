SPECIFICATION Spec
CONSTANTS
    btc = btc
    Products <- OneProduct
    MaxLots = 2
    Lots <- SomeLots
    MaxMoves = 1
    MaxOrders = 2
    MaxStops = 1
    MaxUpsets = 1
    GiveUp = 1
    Faults <- OrderFaults
INVARIANTS
    TypeOK
    StoppedIsFlat
    NothingForgotten
PROPERTIES
    OpensFromFlat
CONSTRAINT NotLost
CHECK_DEADLOCK FALSE
