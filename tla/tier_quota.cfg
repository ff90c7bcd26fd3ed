SPECIFICATION IntakeSpec
CONSTANTS
    Posts = {"p1", "p2", "p3", "p4", "p5"}
    Listed <- FivePosts
    Threshold <- NoLimits
    MaxSelected = 8
    Blacklisted = {}
    Whitelisted = {}
    Quota <- Quotas
    YoungPosts = {}
    YoungPoints = 0
    MostPoints = 0
    MaxIntakes = 1
    MaxFilterFaults = 0
INVARIANTS
    QuotasKept
CHECK_DEADLOCK FALSE
