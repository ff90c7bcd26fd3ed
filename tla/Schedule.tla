------------------------------ MODULE Schedule ------------------------------
(***************************************************************************)
(* launchd's hourly runs, the hours the machine sleeps through, and what   *)
(* detect_missed makes of run_history: the record of missed hours and the  *)
(* runs of --catchup.  A run is one step here: it detects, runs and logs.  *)
(***************************************************************************)
EXTENDS Naturals

CONSTANTS
    ExpectedHours,  \* _SCHEDULE_START_HOUR .. _SCHEDULE_END_HOUR
    FiredHours,     \* the hours of the LaunchAgent
    FirstHour,      \* the hour before the first of the model
    LastHour        \* bound: hours

VARIABLES
    now,         \* hours since some midnight
    due,         \* launchd's run of this hour has still to start
    runHistory,  \* rows of run_history
    missedLog,   \* scheduled_at of the schedule_log rows with status missed
    sleptThrough \* history: hours launchd fired nothing

scheduleVars == <<now, due, runHistory, missedLog, sleptThrough>>

ScheduleInit ==
    /\ now = FirstHour
    /\ due = FALSE
    /\ runHistory = {} /\ missedLog = {} /\ sleptThrough = {}

HourOf(t) == t % 24

HourPasses ==
    /\ ~due
    /\ now < LastHour
    /\ now' = now + 1
    /\ due' = (HourOf(now + 1) \in FiredHours)
    /\ UNCHANGED <<runHistory, missedLog, sleptThrough>>

-----------------------------------------------------------------------------

(* get_latest_run, a row of the table: its columns are those of schema.sql.*)
RunRow(t) == [started_at |-> t]
LatestRun == CHOOSE r \in runHistory : \A q \in runHistory : q.started_at <= r.started_at

(* _expected_slots.                                                        *)
ExpectedSlots(last) == {t \in (last + 1)..now : HourOf(t) \in ExpectedHours}

(* detect_missed: nothing without a latest row, or when the row has no     *)
(* run_at.                                                                 *)
Detected ==
    IF runHistory # {} /\ "run_at" \in DOMAIN LatestRun
    THEN ExpectedSlots(LatestRun.run_at) ELSE {}

(* log_scheduled of each hour detected.                                    *)
Logged == missedLog \cup Detected

(* A scheduled run.                                                        *)
ScheduledRun ==
    /\ due
    /\ due' = FALSE
    /\ missedLog' = Logged
    /\ runHistory' = runHistory \cup {RunRow(now)}
    /\ UNCHANGED <<now, sleptThrough>>

(* The machine sleeps, or the process is killed before it detects.         *)
SleepThrough ==
    /\ due
    /\ due' = FALSE
    /\ sleptThrough' = sleptThrough \cup {now}
    /\ UNCHANGED <<now, runHistory, missedLog>>

(* --catchup: a run for each hour detected.                                *)
Catchup ==
    /\ missedLog' = Logged
    /\ runHistory' = IF Detected = {} THEN runHistory ELSE runHistory \cup {RunRow(now)}
    /\ UNCHANGED <<now, due, sleptThrough>>

ScheduleNext == HourPasses \/ ScheduledRun \/ SleepThrough \/ Catchup

ScheduleSpec == ScheduleInit /\ [][ScheduleNext]_scheduleVars

-----------------------------------------------------------------------------
(* Properties                                                              *)

(* skip_detector.py:4: a run records the hours missed since the last run   *)
(* (hour 0, which launchd fires and the detector does not expect, aside).  *)
MissedRecorded ==
    \A t \in sleptThrough :
        /\ HourOf(t) \in ExpectedHours
        /\ \E before, after \in runHistory : before.started_at < t /\ t < after.started_at
        => t \in missedLog
=============================================================================
