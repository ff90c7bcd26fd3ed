---------------------------- MODULE ManualTrigger ----------------------------
(***************************************************************************)
(* The manual trigger: a button of the app, or a command in a terminal,    *)
(* starts python -m news_pulse --manual-trigger.                           *)
(*                                                                         *)
(* The command guards itself with a lock file that holds a process id.  It *)
(* tests and reads the file, looks the id up under /proc (a directory that *)
(* Linux has, and macOS has not), and creates and writes the file, each in *)
(* a step of its own.  The app waits for the exit of its process before it *)
(* reads anything that process wrote to stderr, through a pipe that holds  *)
(* PipeSize lines.                                                         *)
(***************************************************************************)
EXTENDS Naturals

CONSTANTS
    Pids,       \* process ids; the id of a dead process is used again
    ProcFs,     \* whether a system may have /proc: {FALSE} is macOS
    PipeSize    \* lines of log the stderr pipe holds

ASSUME PidsAssumption == Pids \cap {"none", "empty", "mixed"} = {}
ASSUME ProcAssumption == ProcFs \subseteq BOOLEAN
ASSUME PipeAssumption == PipeSize \in Nat

VARIABLES
    procfs,     \* whether the system has /proc
    pc,         \* the stage of each process, "none" when there is no such process
    status,     \* how its command goes: "ok", "failed", "refused"
    seen,       \* the id it read in the file and looks up; else its own
    lock,       \* news_pulse.lock: "none", "empty", "mixed" or a process id
    unlinked,   \* the processes whose open file has been unlinked
    trigger,    \* TriggerState of the app
    dialog,     \* whether the result dialog is open
    child,      \* {p} while PipelineRunner.run waits for p, else {}
    ended,      \* how that process ended, "none" while it lives
    pipe,       \* lines in its stderr pipe
    pressed,    \* history: the live processes the button started
    quit,       \* history: the app was closed once
    broken      \* history: a process was killed, or could not write or
                \*   remove its file

files   == <<lock, unlinked>>
app     == <<trigger, dialog, child>>
output  == <<ended, pipe>>
triggerHistory == <<pressed, quit, broken>>
triggerVars == <<procfs, pc, status, seen, lock, unlinked, trigger, dialog,
                 child, ended, pipe, pressed, quit, broken>>

Stages == {"none", "check", "read", "proc", "open", "write", "run", "log",
           "report", "release", "exit", "other"}

TriggerInit ==
    /\ procfs \in ProcFs
    /\ pc = [p \in Pids |-> "none"]
    /\ status = [p \in Pids |-> "ok"]
    /\ seen = [p \in Pids |-> p]
    /\ lock = "none"
    /\ unlinked = {}
    /\ trigger = "idle"
    /\ dialog = FALSE
    /\ child = {}
    /\ ended = "none"
    /\ pipe = 0
    /\ pressed = {}
    /\ quit = FALSE
    /\ broken = FALSE

Goto(p, stage) == pc' = [pc EXCEPT ![p] = stage]

(* Between the creation of the file and its release.                       *)
Inside(p) == pc[p] \in {"write", "run", "log", "report", "release"}

-----------------------------------------------------------------------------
(* The app                                                                 *)

(* The button is disabled and run() returns at once while a run goes on,   *)
(* and the dialog covers it; variant: only the dialog protects it.         *)
Uncovered  == ~dialog
CanPress   == ~dialog /\ trigger # "running"

(* The id of the app's process is free again once Dart has seen its exit.  *)
Start(p, stage) ==
    /\ pc[p] = "none"
    /\ p \notin child
    /\ Goto(p, stage)

Press(p) ==
    /\ CanPress
    /\ Start(p, "check")
    /\ trigger' = "running"
    /\ child' = {p}
    /\ pressed' = pressed \cup {p}
    /\ UNCHANGED <<procfs, status, seen, files, dialog, output, quit, broken>>

(* The home screen opens the dialog, unless the user has left it; variant: *)
(* an exception is not caught.                                             *)
NotCaught(state) ==
    /\ trigger' = IF state = "error" THEN trigger ELSE state
    /\ dialog' \in BOOLEAN
Tell(state) == trigger' = state /\ dialog' \in BOOLEAN

(* Process.start throws: uv is not in the PATH.                            *)
StartFails ==
    /\ CanPress
    /\ Tell("error")
    /\ UNCHANGED <<procfs, pc, status, seen, files, child, output, triggerHistory>>

(* The app has no process any more, nor its exit code and its pipe.        *)
Forget == child' = {} /\ ended' = "none" /\ pipe' = 0

(* await process.exitCode, and only then stderr, of a process that failed. *)
Answer ==
    /\ child # {}
    /\ ended # "none"
    /\ Tell(IF ended = "ok" THEN "done" ELSE "error")
    /\ Forget
    /\ UNCHANGED <<procfs, pc, status, seen, files, triggerHistory>>

CloseDialog ==
    /\ dialog
    /\ dialog' = FALSE
    /\ trigger' = "idle"
    /\ UNCHANGED <<procfs, pc, status, seen, files, child, output, triggerHistory>>

(* The app is closed, and opened again; its process goes on alone.         *)
Quit ==
    /\ trigger' = "idle"
    /\ dialog' = FALSE
    /\ Forget
    /\ quit' = TRUE
    /\ UNCHANGED <<procfs, pc, status, seen, files, pressed, broken>>

-----------------------------------------------------------------------------
(* Processes                                                               *)

(* The command in a terminal, and any process that takes no lock: a        *)
(* scheduled run, or one that has nothing to do with news-pulse.           *)
Terminal(p) ==
    /\ Start(p, "check")
    /\ UNCHANGED <<procfs, status, seen, files, app, output, triggerHistory>>

OtherProcess(p) ==
    /\ Start(p, "other")
    /\ UNCHANGED <<procfs, status, seen, files, app, output, triggerHistory>>

(* _acquire_lock: is there a file? ...                                     *)
FindLock(p) ==
    /\ pc[p] = "check"
    /\ Goto(p, IF lock = "none" THEN "open" ELSE "read")
    /\ UNCHANGED <<procfs, status, seen, files, app, output, triggerHistory>>

(* ... which process id is in it?  A mixed one is any number, and anything *)
(* that is no number, or a file gone or unreadable, lets the command pass. *)
ReadLock(p) ==
    /\ pc[p] = "read"
    /\ \/ /\ \E id \in Pids : /\ lock \in {id, "mixed"}
                              /\ seen' = [seen EXCEPT ![p] = id]
          /\ Goto(p, "proc")
       \/ UNCHANGED seen /\ Goto(p, "open")
    /\ UNCHANGED <<procfs, status, files, app, output, triggerHistory>>

(* The check is over, and its local variable with it.                      *)
Checked(p) == seen' = [seen EXCEPT ![p] = p]

(* ... and does /proc show that process?                                   *)
OwnerShown(p) == procfs /\ pc[seen[p]] # "none"

AcquireRefused(p) ==
    /\ pc[p] = "proc"
    /\ OwnerShown(p)
    /\ Goto(p, "exit")
    /\ status' = [status EXCEPT ![p] = "refused"]
    /\ Checked(p)
    /\ UNCHANGED <<procfs, files, app, output, triggerHistory>>

CheckPasses(p) ==
    /\ pc[p] = "proc"
    /\ ~OwnerShown(p)
    /\ Goto(p, "open")
    /\ Checked(p)
    /\ UNCHANGED <<procfs, status, files, app, output, triggerHistory>>

(* write_text opens the file, which creates or truncates it, ...           *)
OpenLock(p) ==
    /\ pc[p] = "open"
    /\ Goto(p, "write")
    /\ lock' = "empty"
    /\ UNCHANGED <<procfs, status, seen, unlinked, app, output, triggerHistory>>

(* ... then writes over what is there: an id another process wrote since,  *)
(* if it is longer, keeps its last digits.                                 *)
WriteLock(p) ==
    /\ pc[p] = "write"
    /\ Goto(p, "run")
    /\ IF p \in unlinked
       THEN UNCHANGED lock
       ELSE lock' = p \/ (lock # "empty" /\ lock' = "mixed")
    /\ unlinked' = unlinked \ {p}
    /\ UNCHANGED <<procfs, status, seen, app, output, triggerHistory>>

(* Pipeline.run logs to stderr; what others than the app's process write   *)
(* goes to a terminal or a file, which take any number of lines.           *)
WritesLog(p) ==
    /\ pc[p] = "run"
    /\ p \in child
    /\ Goto(p, "log")
    /\ UNCHANGED <<procfs, status, seen, files, app, output, triggerHistory>>

(* A line for stderr: the pipe of the app's process must have room for it. *)
Stderr(p) ==
    IF p \in child
    THEN pipe < PipeSize /\ pipe' = pipe + 1
    ELSE UNCHANGED pipe

Log(p) ==
    /\ pc[p] = "log"
    /\ Stderr(p)
    /\ Goto(p, "run")
    /\ UNCHANGED <<procfs, status, seen, files, app, ended, triggerHistory>>

RunReturns(p) ==
    /\ pc[p] = "run"
    /\ Goto(p, "report")
    /\ UNCHANGED <<procfs, status, seen, files, app, output, triggerHistory>>

(* _emit_progress("complete") to stderr, the counts to stdout.             *)
Report(p) ==
    /\ pc[p] = "report"
    /\ Stderr(p)
    /\ Goto(p, "release")
    /\ UNCHANGED <<procfs, status, seen, files, app, ended, triggerHistory>>

(* An exception: the configuration or migrate, the write of the file, the  *)
(* run, a pipe whose reader is gone.                                       *)
Raises(p) ==
    /\ pc[p] \in {"check", "open", "write", "run", "report"}
    /\ Goto(p, IF pc[p] \in {"run", "report"} THEN "release" ELSE "exit")
    /\ status' = [status EXCEPT ![p] = "failed"]
    /\ broken' = (broken \/ pc[p] = "write")
    /\ UNCHANGED <<procfs, seen, files, app, output, pressed, quit>>

(* _release_lock, in the finally clause, whoever wrote the file; variant:  *)
(* only on success.                                                        *)
OnSuccess(p) ==
    IF status[p] = "ok"
    THEN lock' = "none" /\ unlinked' = {q \in Pids : pc[q] = "write"}
    ELSE UNCHANGED files
Unlink(p) == lock' = "none" /\ unlinked' = {q \in Pids : pc[q] = "write"}

(* An error of unlink is logged, and the file stays.                       *)
ReleaseLock(p) ==
    /\ pc[p] = "release"
    /\ \/ Unlink(p) /\ UNCHANGED broken
       \/ UNCHANGED files /\ broken' = TRUE
    /\ Goto(p, "exit")
    /\ UNCHANGED <<procfs, status, seen, app, output, pressed, quit>>

(* A process ends, and its variables and open file with it.                *)
Gone(p, how) ==
    /\ Goto(p, "none")
    /\ status' = [status EXCEPT ![p] = "ok"]
    /\ Checked(p)
    /\ unlinked' = unlinked \ {p}
    /\ ended' = IF p \in child THEN how ELSE ended
    /\ pressed' = pressed \ {p}

(* main logs the exception of a failed command, and the process exits.     *)
Exit(p) ==
    /\ pc[p] \in {"exit", "other"}
    /\ IF status[p] = "failed" THEN Stderr(p) ELSE UNCHANGED pipe
    /\ Gone(p, status[p])
    /\ UNCHANGED <<procfs, lock, app, quit, broken>>

(* A signal: this command has no handler for SIGTERM.                      *)
Kill(p) ==
    /\ pc[p] # "none"
    /\ Gone(p, "killed")
    /\ broken' = TRUE
    /\ UNCHANGED <<procfs, lock, app, pipe, quit>>

Step(p) ==
    \/ FindLock(p) \/ ReadLock(p) \/ AcquireRefused(p) \/ CheckPasses(p)
    \/ OpenLock(p) \/ WriteLock(p)
    \/ WritesLog(p) \/ Log(p) \/ RunReturns(p) \/ Report(p) \/ Raises(p)
    \/ ReleaseLock(p) \/ Exit(p)

TriggerNext ==
    \/ StartFails \/ Answer \/ CloseDialog \/ Quit
    \/ \E p \in Pids :
          Press(p) \/ Terminal(p) \/ OtherProcess(p) \/ Step(p) \/ Kill(p)

TriggerSpec == TriggerInit /\ [][TriggerNext]_triggerVars

(* A run goes on by itself (every call it makes has a timeout), and Dart   *)
(* completes exitCode once the process is gone.                            *)
TriggerFairness ==
    WF_triggerVars(Answer) /\ \A p \in Pids : WF_triggerVars(Step(p))

-----------------------------------------------------------------------------
(* Properties                                                              *)

(* Every variable has its type. *)
TriggerTypeOK ==
    /\ procfs \in BOOLEAN
    /\ pc \in [Pids -> Stages]
    /\ status \in [Pids -> {"ok", "failed", "refused"}]
    /\ seen \in [Pids -> Pids]
    /\ lock \in {"none", "empty", "mixed"} \cup Pids
    /\ unlinked \subseteq Pids
    /\ trigger \in {"idle", "running", "done", "error"}
    /\ dialog \in BOOLEAN
    /\ dialog => trigger \in {"done", "error"}
    /\ child \subseteq Pids
    /\ trigger = "running" <=> child # {}
    /\ \A p, q \in child : p = q
    /\ ended \in {"none", "ok", "failed", "refused", "killed"}
    /\ pipe \in 0..PipeSize
    /\ pressed \subseteq {p \in Pids : pc[p] # "none"}
    /\ quit \in BOOLEAN
    /\ broken \in BOOLEAN

(* A lock file that no live command is about to write or remove was left   *)
(* by one that was killed, or met an error when it wrote or removed it:    *)
(* releases of several runs, in any order, forget no file.                 *)
NoLockLeft ==
    lock # "none" /\ ~broken => \E p \in Pids : Inside(p)

(* What the feature specification says of the lock: a command that reads   *)
(* the id of a manual run still at work starts no second run.              *)
DuplicatesPrevented ==
    [][\A p \in Pids :
           pc[p] = "proc" /\ pc[seen[p]] \in {"run", "log", "report"} =>
               pc'[p] # "open"]_triggerVars

(* The app has at most one process at work, unless it was closed meanwhile.*)
OneChild ==
    \A p, q \in pressed : p # q => quit

(* The run of the app's process is over one day, or it is blocked for ever *)
(* on the pipe that nobody reads: nothing else makes the button hang.      *)
PipeFull ==
    /\ pipe = PipeSize
    /\ \E p \in child : \/ pc[p] \in {"log", "report"}
                        \/ pc[p] = "exit" /\ status[p] = "failed"
OnlyPipeBlocks == trigger = "running" ~> trigger # "running" \/ PipeFull
=============================================================================
