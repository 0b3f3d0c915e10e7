SPECIFICATION Spec
CONSTANTS
    main = main
    test = test
    r1 = r1
    r2 = r2
    User = User
    NoRun = NoRun
    Networks = {main}
    Runs = {r1, r2}
    Laddering = {r1}
    MaxRestarts = 1
    NetOf <- MCNetOf
    ProductOf <- MCProductOf
INVARIANTS TypeOK Tracked
CHECK_DEADLOCK FALSE
