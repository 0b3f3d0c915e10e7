SPECIFICATION FairSpec
CONSTANTS
    r1 = r1
    r2 = r2
    u1 = u1
    u2 = u2
    Users = {u1, u2}
    MaxSize = 3
    MaxJobs = 4
    Runs = {r1, r2}
    Vol = {r2}
    OwnerOf <- TwoOwners
    Workers = {w1, w2}
    Kinds = {"tick", "nudge", "safety"}
    NoRun = NoRun
    None = None
INVARIANT TypeOK
INVARIANT WaitBounded
INVARIANT DeferredHasHolder
PROPERTY NudgeServed
CHECK_DEADLOCK FALSE
