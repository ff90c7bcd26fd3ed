SPECIFICATION MCSpec
CONSTANTS
    Runs = {r1, r2}
    Items = {a}
    MaxCopies = 2
    MaxFaults = 0
    Branches = {"hold", "digest", "force"}
INVARIANTS
    DigestLoadsUnsentOnly
CHECK_DEADLOCK FALSE
