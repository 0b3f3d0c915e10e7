SPECIFICATION Spec
CONSTANTS
    job = job
    kick = kick
    user = user
    Jobs <- JobSet
    Kicks <- KickSet
    Stoppers <- StopSet
    MaxBuilds = 2
    ExPer = 1
    MaxSessions = 2
    MaxStops = 1
    MaxTransient = 2
    Restarts = 1
    MaxTimeouts = 1
    Faults <- AllFaults
INVARIANTS
    TypeOK
    OneInstance
    PrunedIsPersisted
CHECK_DEADLOCK FALSE
CONSTRAINT OneUpset
