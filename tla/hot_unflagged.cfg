SPECIFICATION HotSpec
CONSTANTS
    HotRuns = {r1}
    Labs = {lab}
    Voted = {hn}
    HotVotes = 1
    MaxIds = 2
    MaxTaps = 2
INVARIANTS
    DetectedIsFlagged
CHECK_DEADLOCK FALSE
