SPECIFICATION Spec
CONSTANTS
    Pollers = {p1, p2}
    Chats = {alice, bob}
    BatchLimit = 1
    MaxUpdates = 2
    MaxFaults = 1
    Pids = {p1, p2}
    ProcFs = {FALSE, TRUE}
    PipeSize = 1
INVARIANTS
    NoRequestLost
    HandledOnce
    NoLockLeft
    OneChild
PROPERTIES
    DecisionsKept
    EveryMessageHandled
    OnlyPipeBlocks
