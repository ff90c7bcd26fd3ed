CONSTANTS
 HotRuns = {r1, r2}
 Labs = {lab}
 Voted = {hn}
 HotVotes = 1
 MaxIds = 2
 MaxTaps = 2
 Editors = {e1, e2, e3, e4}
 MaxVersion = 3
 Migrators = {p1, p2}
 NewColumns <- TwoColumns
 MaxLaunches = 4
 MaxEdits = 1
 ModelNames <- OneModel
 SourceIds <- TwoSources
 MaxChecks = 2
 MaxSeconds = 1
 HealthKeep = 0
 RatedSources = {hn, rd}
 Articles = {a1, a2, a3}
 MaxUpvotes = 4
 MostVotes = 5
 RateNum = 2
 RateDen = 5
 DigestUrls = {1, 2, 3}
 EntryLengths = {2, 5, 7}
 HeaderLength = 2
 MaxMsgLen = 6
 LastDay = 2
 Posts = {"release", "banned", "korean", "shared", "wanted"}
 Listed <- Listings
 Threshold <- Thresholds
 MaxSelected = 2
 Blacklisted = {"banned"}
 Whitelisted = {"wanted"}
 Quota <- Quotas
 YoungPosts = {}
 YoungPoints = 1
 MostPoints = 1
 MaxIntakes = 2
 MaxFilterFaults = 1
 Chats = {admin, alice}
 Admin = admin
 Messages = 2
 MaxTries = 3
 MaxDecisions = 2
 Items = 2
 Edits = {e1, e2}
 Runs = {r1}
 EnvKeys = {token, limit}
 Required = {token}
 EnvValues = {v1, v2}
 Numeric = {limit, flag}
 Numbers = {v1, on}
 Flags = {flag}
 FlagValues = {on, off}
 Default = on
 Words = {w1}
 NewSources = {s1, s2}
 MaxSaves = 2
SPECIFICATION Spec
INVARIANTS
 SelectionRight FirstSightDecides DigestRight SmallestFitting
 DuplicatesExplained OneActive MigratedOrRaced ShownExplained
 RepeatsExplained ResultsTell EveryRecipientAnswered RejectionHeeded
 RightModelLoaded FirstAnswerEnds ErrorsExplained TextKept UnloadedAtEnd
 NoKeyLost KeychainAgrees SourcesKept ShownIsFresh

 
CHECK_DEADLOCK FALSE
