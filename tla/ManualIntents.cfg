SPECIFICATION Spec
CONSTANTS
    t1 = t1
    t2 = t2
    Trades = {t1, t2}
    Size = 1
    Nonced = FALSE
    RetryAfter = 1
    GiveUpAfter = 1
    MaxUpsets = 1
    Faults = {"owner", "lag", "reply", "close", "user", "restart"}
INVARIANTS TypeOK OneOrderPerIntent ResolvedIsBooked SpentRulesAreSold
CHECK_DEADLOCK FALSE
SYMMETRY Symmetry
