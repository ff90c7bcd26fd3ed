SPECIFICATION TriggerSpec
CONSTANTS
    Pids = {p1, p2}
    ProcFs = {FALSE}
    PipeSize = 1
PROPERTIES
    DuplicatesPrevented
