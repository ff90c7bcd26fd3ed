SPECIFICATION DigestSpec
CONSTANTS
    DigestUrls = {1, 2}
    EntryLengths = {2}
    HeaderLength = 2
    MaxMsgLen = 6
    LastDay = 2
INVARIANTS
    LateIsSent
CHECK_DEADLOCK FALSE
