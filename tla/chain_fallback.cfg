SPECIFICATION ChainSpec
CONSTANTS
    Items = 1
INVARIANTS
    LastFallbackIsClaude
CHECK_DEADLOCK FALSE
