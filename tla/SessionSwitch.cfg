SPECIFICATION FairSpec
CONSTANTS
    main = main
    test = test
    r1 = r1
    r2 = r2
    User = User
    NoRun = NoRun
    Networks = {main, test}
    Runs = {r1}
    Laddering = {r1}
    MaxRestarts = 0
    NetOf <- MCNetOf
    ProductOf <- MCProductOf
PROPERTY SwitchFailClosed
PROPERTY StaleRowStandsDown
CHECK_DEADLOCK FALSE
