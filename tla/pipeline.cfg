SPECIFICATION MCSpec
CONSTANTS
    Runs = {r1, r2}
    Items = {a, b}
    MaxCopies = 2
    MaxFaults = 1
    Branches = {"individual", "hold", "digest", "force"}
INVARIANTS
    DeliveredOnce
    RecordedBeforeSent
    FailureExplained
    LeakedLockConfined
    RunsAreLogged
PROPERTIES
    ImplementsLedger
    RunEnds
CHECK_DEADLOCK FALSE
