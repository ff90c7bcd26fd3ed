CONSTANTS
 ExpectedHours <- Expected
 FiredHours <- Fired
 FirstHour = 8
 LastHour = 12
SPECIFICATION ScheduleSpec
INVARIANTS
 MissedRecorded
CHECK_DEADLOCK FALSE
