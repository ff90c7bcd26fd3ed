SPECIFICATION IntakeSpec
CONSTANTS
    Posts = {"post"}
    Listed <- OnePost
    Threshold <- Thresholds
    MaxSelected = 8
    Blacklisted = {}
    Whitelisted = {}
    Quota <- Quotas
    YoungPosts = {"post"}
    YoungPoints = 1
    MostPoints = 2
    MaxIntakes = 1
    MaxFilterFaults = 0
INVARIANTS
    YoungVotesSuffice
CHECK_DEADLOCK FALSE
