SPECIFICATION Spec
CONSTANTS
    t1 = t1
    t2 = t2
    Trades = {t1}
    Size = 2
    Nonced = TRUE
    RetryAfter = 1
    GiveUpAfter = 2
    MaxUpsets = 1
    Faults = {"db", "lag", "late", "denied", "reply", "race", "close", "restart"}
INVARIANTS TypeOK CountedOnce ResolvedIsBooked SpentRulesAreSold
PROPERTIES StopFires EntriesEnd
CHECK_DEADLOCK FALSE
