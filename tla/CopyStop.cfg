SPECIFICATION Spec
CONSTANTS
    btc = btc
    Products <- OneProduct
    MaxLots = 2
    Lots <- EnterExit
    MaxMoves = 1
    MaxOrders = 1
    MaxStops = 1
    MaxUpsets = 1
    GiveUp = 1
    Faults <- ReadFaults
PROPERTY StopEnds
CHECK_DEADLOCK FALSE
