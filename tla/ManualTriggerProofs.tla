------------------------ MODULE ManualTriggerProofs ------------------------
(***************************************************************************)
(* Proofs about ManualTrigger, for any set of process ids and any size of  *)
(* the pipe: the types, that no lock file is forgotten, and that the app *)
(* has one process at work, and that a command cannot go on without end.   *)
(***************************************************************************)
EXTENDS ManualTrigger, TLAPS, WellFoundedInduction

(* Until the app is closed, the only live process the button started is    *)
(* the one it waits for, and has no exit code yet.                         *)
ChildInv ==
    /\ child = {} => ended = "none"
    /\ ~quit => /\ pressed \subseteq child
                /\ ended # "none" => pressed = {}

-----------------------------------------------------------------------------

LEMMA TypeInit == TriggerInit => TriggerTypeOK
<1> SUFFICES ASSUME TriggerInit PROVE TriggerTypeOK
  OBVIOUS
<1>1. procfs \in BOOLEAN /\ dialog \in BOOLEAN /\ quit \in BOOLEAN /\ broken \in BOOLEAN
  BY ProcAssumption, Zenon DEF TriggerInit
<1>2. pipe \in 0..PipeSize
  BY PipeAssumption DEF TriggerInit
<1>3. pc \in [Pids -> Stages] /\ seen \in [Pids -> Pids] /\ status \in [Pids -> {"ok", "failed", "refused"}]
  BY DEF TriggerInit, Stages
<1>4. (trigger = "running" <=> child # {}) /\ \A p, q \in child : p = q
  BY DEF TriggerInit
<1> QED
  BY <1>1, <1>2, <1>3, <1>4 DEF TriggerInit, TriggerTypeOK

LEMMA TypeStep == TriggerTypeOK /\ [TriggerNext]_triggerVars => TriggerTypeOK'
<1> SUFFICES ASSUME TriggerTypeOK, [TriggerNext]_triggerVars PROVE TriggerTypeOK'
  OBVIOUS
<1>1. CASE UNCHANGED triggerVars
  BY <1>1 DEF TriggerTypeOK, Stages, triggerVars, files, app, output, triggerHistory
<1>2. CASE StartFails
  <2>1. dialog' \in BOOLEAN
    BY <1>2 DEF StartFails, Tell
  <2> QED
    BY <1>2, <2>1 DEF TriggerTypeOK, StartFails, CanPress, Tell, files, output, triggerHistory
<1>3. CASE Answer
  BY <1>3, PipeAssumption
     DEF TriggerTypeOK, Stages, Answer, Forget, Tell, files, app, output, triggerHistory
<1>4. CASE CloseDialog
  <2>1. dialog' \in BOOLEAN
    BY <1>4 DEF CloseDialog
  <2> QED
    BY <1>4, <2>1 DEF TriggerTypeOK, CloseDialog, files, output, triggerHistory
<1>5. CASE Quit
  <2>1. dialog' \in BOOLEAN /\ ~dialog' /\ quit' \in BOOLEAN
    BY <1>5, Zenon DEF Quit
  <2>2. /\ trigger' = "idle" /\ child' = {} /\ ended' = "none" /\ pipe' = 0
        /\ UNCHANGED <<procfs, pc, status, seen, lock, unlinked, pressed, broken>>
    BY <1>5 DEF Quit, Forget, files
  <2> QED
    BY <2>1, <2>2, PipeAssumption DEF TriggerTypeOK, Stages
<1>6. ASSUME NEW p \in Pids, Press(p) PROVE TriggerTypeOK'
  <2>1. /\ dialog' = dialog /\ ~dialog /\ trigger' = "running" /\ child' = {p}
        /\ UNCHANGED <<procfs, status, seen, lock, unlinked, ended, pipe, quit, broken>>
    BY <1>6 DEF Press, CanPress, files, output
  <2> QED
    BY <1>6, <2>1, PipeAssumption DEF TriggerTypeOK, Stages, Press, Start, Goto
<1>7. ASSUME NEW p \in Pids, Terminal(p) PROVE TriggerTypeOK'
  BY <1>7, PipeAssumption
     DEF TriggerTypeOK, Stages, Terminal, Start, Goto, files, app, output, triggerHistory
<1>8. ASSUME NEW p \in Pids, OtherProcess(p) PROVE TriggerTypeOK'
  BY <1>8, PipeAssumption
     DEF TriggerTypeOK, Stages, OtherProcess, Start, Goto, files, app, output, triggerHistory
<1>9. ASSUME NEW p \in Pids, AcquireRefused(p) PROVE TriggerTypeOK'
  BY <1>9, PipeAssumption
     DEF TriggerTypeOK, Stages, AcquireRefused, Checked, Goto, files, app, output,
         triggerHistory
<1>10. ASSUME NEW p \in Pids, CheckPasses(p) PROVE TriggerTypeOK'
  BY <1>10, PipeAssumption
     DEF TriggerTypeOK, Stages, CheckPasses, Checked, Goto, files, app, output, triggerHistory
<1>11. ASSUME NEW p \in Pids, OpenLock(p) PROVE TriggerTypeOK'
  BY <1>11, PipeAssumption
     DEF TriggerTypeOK, Stages, OpenLock, Goto, files, app, output, triggerHistory
<1>12. ASSUME NEW p \in Pids, WriteLock(p) PROVE TriggerTypeOK'
  BY <1>12, PipeAssumption
     DEF TriggerTypeOK, Stages, WriteLock, Goto, files, app, output, triggerHistory
<1>13. ASSUME NEW p \in Pids, WritesLog(p) PROVE TriggerTypeOK'
  BY <1>13, PipeAssumption
     DEF TriggerTypeOK, Stages, WritesLog, Goto, files, app, output, triggerHistory
<1>14. ASSUME NEW p \in Pids, Log(p) PROVE TriggerTypeOK'
  BY <1>14, PipeAssumption
     DEF TriggerTypeOK, Stages, Log, Goto, Stderr, files, app, output, triggerHistory
<1>15. ASSUME NEW p \in Pids, RunReturns(p) PROVE TriggerTypeOK'
  BY <1>15, PipeAssumption
     DEF TriggerTypeOK, Stages, RunReturns, Goto, files, app, output, triggerHistory
<1>16. ASSUME NEW p \in Pids, Report(p) PROVE TriggerTypeOK'
  BY <1>16, PipeAssumption
     DEF TriggerTypeOK, Stages, Report, Goto, Stderr, files, app, output, triggerHistory
<1>17. ASSUME NEW p \in Pids, Raises(p) PROVE TriggerTypeOK'
  BY <1>17, PipeAssumption
     DEF TriggerTypeOK, Stages, Raises, Goto, files, app, output, triggerHistory
<1>18. ASSUME NEW p \in Pids, ReleaseLock(p) PROVE TriggerTypeOK'
  BY <1>18, PipeAssumption
     DEF TriggerTypeOK, Stages, ReleaseLock, Unlink, Goto, files, app, output, triggerHistory
<1>19. ASSUME NEW p \in Pids, Exit(p) PROVE TriggerTypeOK'
  BY <1>19, PipeAssumption
     DEF TriggerTypeOK, Stages, Exit, Gone, Checked, Goto, Stderr, files, app, output,
         triggerHistory
<1>20. ASSUME NEW p \in Pids, Kill(p) PROVE TriggerTypeOK'
  BY <1>20, PipeAssumption
     DEF TriggerTypeOK, Stages, Kill, Gone, Checked, Goto, files, app, output, triggerHistory
<1>21. ASSUME NEW p \in Pids, FindLock(p) PROVE TriggerTypeOK'
  BY <1>21, PipeAssumption
     DEF TriggerTypeOK, Stages, FindLock, Goto, files, app, output, triggerHistory
<1>22. ASSUME NEW p \in Pids, ReadLock(p) PROVE TriggerTypeOK'
  BY <1>22, PipeAssumption
     DEF TriggerTypeOK, Stages, ReadLock, Goto, files, app, output, triggerHistory
<1> QED
  BY <1>1, <1>2, <1>3, <1>4, <1>5, <1>6, <1>7, <1>8, <1>9, <1>10, <1>11, <1>12,
     <1>13, <1>14, <1>15, <1>16, <1>17, <1>18, <1>19, <1>20, <1>21, <1>22
     DEF TriggerNext, Step

(* The variables always have their types.                                  *)
THEOREM TriggerTypeCorrect == TriggerSpec => []TriggerTypeOK
  BY TypeInit, TypeStep, PTL DEF TriggerSpec

-----------------------------------------------------------------------------

LEMMA NoLockLeftStep == TriggerTypeOK /\ NoLockLeft /\ [TriggerNext]_triggerVars => NoLockLeft'
<1> SUFFICES ASSUME TriggerTypeOK, NoLockLeft, [TriggerNext]_triggerVars PROVE NoLockLeft'
  OBVIOUS
<1> USE DEF TriggerTypeOK, Inside
<1>1. CASE UNCHANGED triggerVars
  BY <1>1 DEF NoLockLeft, triggerVars, files, app, output, triggerHistory
<1>2. CASE StartFails
  BY <1>2 DEF NoLockLeft, StartFails, Tell, files, app, output, triggerHistory
<1>3. CASE Answer
  BY <1>3 DEF NoLockLeft, Answer, Forget, Tell, files, app, output, triggerHistory
<1>4. CASE CloseDialog
  BY <1>4 DEF NoLockLeft, CloseDialog, files, app, output, triggerHistory
<1>5. CASE Quit
  BY <1>5 DEF NoLockLeft, Quit, Forget, files, app, output, triggerHistory
<1>6. ASSUME NEW p \in Pids, Press(p) PROVE NoLockLeft'
  BY <1>6 DEF NoLockLeft, Press, Start, Goto, files, app, output, triggerHistory
<1>7. ASSUME NEW p \in Pids, Terminal(p) PROVE NoLockLeft'
  BY <1>7 DEF NoLockLeft, Terminal, Start, Goto, files, app, output, triggerHistory
<1>8. ASSUME NEW p \in Pids, OtherProcess(p) PROVE NoLockLeft'
  BY <1>8 DEF NoLockLeft, OtherProcess, Start, Goto, files, app, output, triggerHistory
<1>9. ASSUME NEW p \in Pids, AcquireRefused(p) PROVE NoLockLeft'
  BY <1>9 DEF NoLockLeft, AcquireRefused, Checked, Goto, files, app, output, triggerHistory
<1>10. ASSUME NEW p \in Pids, CheckPasses(p) PROVE NoLockLeft'
  BY <1>10 DEF NoLockLeft, CheckPasses, Checked, Goto, files, app, output, triggerHistory
<1>11. ASSUME NEW p \in Pids, OpenLock(p) PROVE NoLockLeft'
  BY <1>11 DEF NoLockLeft, OpenLock, Goto, files, app, output, triggerHistory
<1>12. ASSUME NEW p \in Pids, WriteLock(p) PROVE NoLockLeft'
  BY <1>12 DEF NoLockLeft, WriteLock, Goto, files, app, output, triggerHistory
<1>13. ASSUME NEW p \in Pids, WritesLog(p) PROVE NoLockLeft'
  BY <1>13 DEF NoLockLeft, WritesLog, Goto, files, app, output, triggerHistory
<1>14. ASSUME NEW p \in Pids, Log(p) PROVE NoLockLeft'
  BY <1>14 DEF NoLockLeft, Log, Goto, Stderr, files, app, output, triggerHistory
<1>15. ASSUME NEW p \in Pids, RunReturns(p) PROVE NoLockLeft'
  BY <1>15 DEF NoLockLeft, RunReturns, Goto, files, app, output, triggerHistory
<1>16. ASSUME NEW p \in Pids, Report(p) PROVE NoLockLeft'
  BY <1>16 DEF NoLockLeft, Report, Goto, Stderr, files, app, output, triggerHistory
<1>17. ASSUME NEW p \in Pids, Raises(p) PROVE NoLockLeft'
  BY <1>17 DEF NoLockLeft, Raises, Goto, files, app, output, triggerHistory
<1>18. ASSUME NEW p \in Pids, ReleaseLock(p) PROVE NoLockLeft'
  BY <1>18 DEF NoLockLeft, ReleaseLock, Unlink, Goto, files, app, output, triggerHistory
<1>19. ASSUME NEW p \in Pids, Exit(p) PROVE NoLockLeft'
  BY <1>19 DEF NoLockLeft, Exit, Gone, Checked, Goto, Stderr, files, app, output, triggerHistory
<1>20. ASSUME NEW p \in Pids, Kill(p) PROVE NoLockLeft'
  BY <1>20 DEF NoLockLeft, Kill, Gone, Checked, Goto, files, app, output, triggerHistory
<1>21. ASSUME NEW p \in Pids, FindLock(p) PROVE NoLockLeft'
  BY <1>21 DEF NoLockLeft, FindLock, Goto, files, app, output, triggerHistory
<1>22. ASSUME NEW p \in Pids, ReadLock(p) PROVE NoLockLeft'
  BY <1>22 DEF NoLockLeft, ReadLock, Goto, files, app, output, triggerHistory
<1> QED
  BY <1>1, <1>2, <1>3, <1>4, <1>5, <1>6, <1>7, <1>8, <1>9, <1>10, <1>11, <1>12,
     <1>13, <1>14, <1>15, <1>16, <1>17, <1>18, <1>19, <1>20, <1>21, <1>22
     DEF TriggerNext, Step

(* Every lock file left without a live owner is a killed command's, or one *)
(* whose write or unlink failed: the releases forget none.                 *)
THEOREM NoLockForgotten == TriggerSpec => []NoLockLeft
<1>1. TriggerInit => NoLockLeft
  BY DEF TriggerInit, NoLockLeft
<1> QED
  BY <1>1, TypeInit, TypeStep, NoLockLeftStep, PTL DEF TriggerSpec

-----------------------------------------------------------------------------

LEMMA ChildStep == TriggerTypeOK /\ ChildInv /\ [TriggerNext]_triggerVars => ChildInv'
<1> SUFFICES ASSUME TriggerTypeOK, ChildInv, [TriggerNext]_triggerVars PROVE ChildInv'
  OBVIOUS
<1> USE DEF TriggerTypeOK
<1>1. CASE UNCHANGED triggerVars
  BY <1>1 DEF ChildInv, CanPress, triggerVars, files, app, output, triggerHistory
<1>2. CASE StartFails
  BY <1>2 DEF ChildInv, CanPress, StartFails, Tell, files, app, output, triggerHistory
<1>3. CASE Answer
  BY <1>3 DEF ChildInv, CanPress, Answer, Forget, Tell, files, app, output, triggerHistory
<1>4. CASE CloseDialog
  BY <1>4 DEF ChildInv, CanPress, CloseDialog, files, app, output, triggerHistory
<1>5. CASE Quit
  BY <1>5 DEF ChildInv, CanPress, Quit, Forget, files, app, output, triggerHistory
<1>6. ASSUME NEW p \in Pids, Press(p) PROVE ChildInv'
  BY <1>6 DEF ChildInv, CanPress, Press, Start, Goto, files, app, output, triggerHistory
<1>7. ASSUME NEW p \in Pids, Terminal(p) PROVE ChildInv'
  BY <1>7 DEF ChildInv, CanPress, Terminal, Start, Goto, files, app, output, triggerHistory
<1>8. ASSUME NEW p \in Pids, OtherProcess(p) PROVE ChildInv'
  BY <1>8 DEF ChildInv, CanPress, OtherProcess, Start, Goto, files, app, output, triggerHistory
<1>9. ASSUME NEW p \in Pids, AcquireRefused(p) PROVE ChildInv'
  BY <1>9
     DEF ChildInv, CanPress, AcquireRefused, Checked, Goto, files, app, output, triggerHistory
<1>10. ASSUME NEW p \in Pids, CheckPasses(p) PROVE ChildInv'
  BY <1>10
     DEF ChildInv, CanPress, CheckPasses, Checked, Goto, files, app, output, triggerHistory
<1>11. ASSUME NEW p \in Pids, OpenLock(p) PROVE ChildInv'
  BY <1>11 DEF ChildInv, CanPress, OpenLock, Goto, files, app, output, triggerHistory
<1>12. ASSUME NEW p \in Pids, WriteLock(p) PROVE ChildInv'
  BY <1>12 DEF ChildInv, CanPress, WriteLock, Goto, files, app, output, triggerHistory
<1>13. ASSUME NEW p \in Pids, WritesLog(p) PROVE ChildInv'
  BY <1>13 DEF ChildInv, CanPress, WritesLog, Goto, files, app, output, triggerHistory
<1>14. ASSUME NEW p \in Pids, Log(p) PROVE ChildInv'
  BY <1>14 DEF ChildInv, CanPress, Log, Goto, Stderr, files, app, output, triggerHistory
<1>15. ASSUME NEW p \in Pids, RunReturns(p) PROVE ChildInv'
  BY <1>15 DEF ChildInv, CanPress, RunReturns, Goto, files, app, output, triggerHistory
<1>16. ASSUME NEW p \in Pids, Report(p) PROVE ChildInv'
  BY <1>16 DEF ChildInv, CanPress, Report, Goto, Stderr, files, app, output, triggerHistory
<1>17. ASSUME NEW p \in Pids, Raises(p) PROVE ChildInv'
  BY <1>17 DEF ChildInv, CanPress, Raises, Goto, files, app, output, triggerHistory
<1>18. ASSUME NEW p \in Pids, ReleaseLock(p) PROVE ChildInv'
  BY <1>18 DEF ChildInv, CanPress, ReleaseLock, Unlink, Goto, files, app, output, triggerHistory
<1>19. ASSUME NEW p \in Pids, Exit(p) PROVE ChildInv'
  BY <1>19
     DEF ChildInv, CanPress, Exit, Gone, Checked, Goto, Stderr, files, app, output,
         triggerHistory
<1>20. ASSUME NEW p \in Pids, Kill(p) PROVE ChildInv'
  BY <1>20 DEF ChildInv, CanPress, Kill, Gone, Checked, Goto, files, app, output, triggerHistory
<1>21. ASSUME NEW p \in Pids, FindLock(p) PROVE ChildInv'
  BY <1>21 DEF ChildInv, CanPress, FindLock, Goto, files, app, output, triggerHistory
<1>22. ASSUME NEW p \in Pids, ReadLock(p) PROVE ChildInv'
  BY <1>22 DEF ChildInv, CanPress, ReadLock, Goto, files, app, output, triggerHistory
<1> QED
  BY <1>1, <1>2, <1>3, <1>4, <1>5, <1>6, <1>7, <1>8, <1>9, <1>10, <1>11, <1>12,
     <1>13, <1>14, <1>15, <1>16, <1>17, <1>18, <1>19, <1>20, <1>21, <1>22
     DEF TriggerNext, Step

(* The app has one process at work as long as it is not closed.            *)
THEOREM ButtonStartsOne == TriggerSpec => []OneChild
<1>1. TriggerInit => ChildInv
  BY DEF TriggerInit, ChildInv
<1>2. TriggerTypeOK /\ ChildInv => OneChild
  BY DEF TriggerTypeOK, ChildInv, OneChild
<1> QED
  BY <1>1, <1>2, TypeInit, TypeStep, ChildStep, PTL DEF TriggerSpec

-----------------------------------------------------------------------------
(* A command ends: what is left to do, in an order without endless descent *)

(* The lines that the pipe of the app's process still takes.               *)
LinesLeft(p) == IF p \in child THEN PipeSize + 1 - pipe ELSE 0

(* The stages a process has before it.  The app's process goes to its log  *)
(* and back, one line at a time; any other only comes back.                *)
StagesLeft(p) ==
    CASE pc[p] = "check" -> 11 [] pc[p] = "read" -> 10
      [] pc[p] = "proc" -> 9 [] pc[p] = "open" -> 8 [] pc[p] = "write" -> 7
      [] pc[p] = "log" -> (IF p \in child THEN 5 ELSE 7) [] pc[p] = "run" -> 6
      [] pc[p] = "report" -> 4 [] pc[p] = "release" -> 3
      [] pc[p] \in {"exit", "other"} -> 2 [] OTHER -> 1

Left(p) == IF pc[p] = "none" THEN <<0, 0>> ELSE <<LinesLeft(p), StagesLeft(p)>>

(* Fewer lines, or as many and fewer stages.                               *)
Nats == {n \in Nat \X Nat : n[1] < n[2]}
Less == LexPairOrdering(Nats, Nats, Nat, Nat)
Descends(p) == <<Left(p)', Left(p)>> \in Less

LEMMA LessEnds == IsWellFoundedOn(Less, Nat \X Nat)
<1>1. Nats = OpToRel(<, Nat)
  BY SMT DEF Nats, OpToRel
<1> QED
  BY <1>1, NatLessThanWellFounded, WFLexPairOrdering DEF Less

LEMMA Falls ==
    ASSUME TriggerTypeOK, TriggerTypeOK', NEW p \in Pids, pc[p] # "none",
           \/ pc'[p] = "none"
           \/ LinesLeft(p)' < LinesLeft(p)
           \/ LinesLeft(p)' = LinesLeft(p) /\ StagesLeft(p)' < StagesLeft(p)
    PROVE  Descends(p)
<1>1. \A n \in 0..PipeSize : PipeSize + 1 - n \in Nat
  BY PipeAssumption
<1>2. LinesLeft(p) \in Nat /\ LinesLeft(p)' \in Nat
  BY <1>1 DEF TriggerTypeOK, LinesLeft
<1>3. /\ StagesLeft(p) \in Nat /\ StagesLeft(p) > 0
      /\ StagesLeft(p)' \in Nat
  BY DEF StagesLeft
<1>4. \A a, b, c, d \in Nat :
          a < c \/ (a = c /\ b < d) => <<<<a, b>>, <<c, d>>>> \in Less
  BY DEF Less, LexPairOrdering, Nats
<1>5. CASE pc'[p] = "none"
  <2>1. 0 < LinesLeft(p) \/ (0 = LinesLeft(p) /\ 0 < StagesLeft(p))
    BY <1>2, <1>3
  <2> QED
    BY <1>2, <1>3, <1>4, <1>5, <2>1 DEF Descends, Left
<1>6. CASE pc'[p] # "none"
  BY <1>2, <1>3, <1>4, <1>6 DEF Descends, Left
<1> QED
  BY <1>5, <1>6

(* A line for stderr leaves room for one less, if it goes to the pipe.     *)
LEMMA LineTaken ==
    ASSUME TriggerTypeOK, NEW p \in Pids, Stderr(p), child' = child
    PROVE  IF p \in child THEN LinesLeft(p)' < LinesLeft(p) ELSE LinesLeft(p)' = LinesLeft(p)
BY PipeAssumption DEF TriggerTypeOK, Stderr, LinesLeft

LEMMA StepFalls ==
    ASSUME TriggerTypeOK, TriggerTypeOK', NEW p \in Pids, Step(p)
    PROVE  Descends(p)
<1>1. pc \in [Pids -> Stages]
  BY DEF TriggerTypeOK
<1>2. CASE FindLock(p) \/ ReadLock(p) \/ AcquireRefused(p) \/ CheckPasses(p) \/ OpenLock(p) \/ WriteLock(p)
           \/ WritesLog(p) \/ RunReturns(p) \/ Raises(p) \/ ReleaseLock(p)
  <2>1. /\ child' = child /\ pipe' = pipe
        /\ \/ pc[p] = "check" /\ pc'[p] \in {"read", "open", "exit"}
           \/ pc[p] = "read" /\ pc'[p] \in {"proc", "open"}
           \/ pc[p] = "proc" /\ pc'[p] \in {"open", "exit"}
           \/ pc[p] = "open" /\ pc'[p] \in {"write", "exit"}
           \/ pc[p] = "write" /\ pc'[p] \in {"run", "exit"}
           \/ pc[p] = "run" /\ pc'[p] \in {"report", "release"}
           \/ pc[p] = "run" /\ pc'[p] = "log" /\ p \in child
           \/ pc[p] = "report" /\ pc'[p] = "release"
           \/ pc[p] = "release" /\ pc'[p] = "exit"
    BY <1>1, <1>2
       DEF FindLock, ReadLock, AcquireRefused, CheckPasses, OpenLock, WriteLock, WritesLog,
           RunReturns,
       Raises, ReleaseLock, Goto, app, output
  <2>2. LinesLeft(p)' = LinesLeft(p)
    BY <2>1 DEF LinesLeft
  <2>3. StagesLeft(p)' < StagesLeft(p) /\ pc[p] # "none"
    BY <2>1 DEF StagesLeft
  <2> QED
    BY <2>2, <2>3, Falls
<1>3. CASE Log(p)
  <2>1. child' = child /\ pc[p] = "log" /\ pc'[p] = "run" /\ Stderr(p)
    BY <1>1, <1>3 DEF Log, Goto, app
  <2>2. p \notin child => StagesLeft(p)' < StagesLeft(p)
    BY <2>1 DEF StagesLeft
  <2> QED
    BY <2>1, <2>2, LineTaken, Falls
<1>4. CASE Report(p)
  <2>1. child' = child /\ pc[p] = "report" /\ pc'[p] = "release" /\ Stderr(p)
    BY <1>1, <1>4 DEF Report, Goto, app
  <2>2. StagesLeft(p)' < StagesLeft(p)
    BY <2>1 DEF StagesLeft
  <2> QED
    BY <2>1, <2>2, LineTaken, Falls
<1>5. CASE Exit(p)
  <2>1. pc[p] # "none" /\ pc'[p] = "none"
    BY <1>1, <1>5 DEF Exit, Gone, Goto
  <2> QED
    BY <2>1, Falls
<1> QED
  BY <1>2, <1>3, <1>4, <1>5 DEF Step

(* What begins a process.                                                  *)
Starts(p) == Press(p) \/ Terminal(p) \/ OtherProcess(p)

(* A process has only so much to do before it ends or waits for room in    *)
(* the pipe: each of its steps takes it down an order without endless      *)
(* descent, and nothing takes it back up but a new process of its id: not  *)
(* the other processes, not signals, not the closing of the app.           *)
THEOREM CommandsAreFinite ==
    /\ IsWellFoundedOn(Less, Nat \X Nat)
    /\ TriggerSpec => [][\A p \in Pids : /\ Step(p) => Descends(p)
                                         /\ Starts(p) \/ Descends(p) \/ UNCHANGED Left(p)]_triggerVars
<1> DEFINE GoesOn == \A p \in Pids : /\ Step(p) => Descends(p)
                                     /\ Starts(p) \/ Descends(p) \/ UNCHANGED Left(p)
<1>1. ASSUME TriggerTypeOK, TriggerTypeOK', TriggerNext PROVE GoesOn
  <2> SUFFICES ASSUME NEW p \in Pids PROVE Starts(p) \/ Descends(p) \/ UNCHANGED Left(p)
    BY <1>1, StepFalls
  <2>0. pc \in [Pids -> Stages] /\ (trigger = "running" <=> child # {})
        /\ \A q, s \in child : q = s
    BY <1>1 DEF TriggerTypeOK
  <2>1. ASSUME NEW q \in Pids, q # p, Press(q) PROVE UNCHANGED Left(p)
    <3>1. p \notin child /\ p \notin child' /\ pc'[p] = pc[p]
      BY <2>0, <2>1 DEF Press, CanPress, Start, Goto
    <3> QED
      BY <3>1 DEF Left, LinesLeft, StagesLeft
  <2>2. ASSUME NEW q \in Pids, q # p, Terminal(q) \/ OtherProcess(q) \/ Step(q) \/ Kill(q)
        PROVE  UNCHANGED Left(p)
    <3>1. child' = child /\ pc'[p] = pc[p] /\ (pipe' = pipe \/ q \in child)
      BY <2>0, <2>2
         DEF Terminal, OtherProcess, Step, Kill, Start, FindLock, ReadLock, AcquireRefused,
             CheckPasses,
         OpenLock, WriteLock, WritesLog, Log, RunReturns, Report, Raises, ReleaseLock, Exit, Gone,
         Stderr, Goto, app, output
    <3>2. p \in child => pipe' = pipe
      BY <2>0, <2>2, <3>1
    <3> QED
      BY <3>1, <3>2 DEF Left, LinesLeft, StagesLeft
  <2>3. CASE Kill(p)
    <3>1. pc[p] # "none" /\ pc'[p] = "none"
      BY <2>0, <2>3 DEF Kill, Gone, Goto
    <3> QED
      BY <1>1, <3>1, Falls
  <2>4. CASE StartFails \/ CloseDialog
    <3>1. child' = child /\ pc' = pc /\ pipe' = pipe
      BY <2>4 DEF StartFails, CloseDialog, output
    <3> QED
      BY <3>1 DEF Left, LinesLeft, StagesLeft
  <2>5. CASE Answer \/ Quit
    <3>1. child' = {} /\ pc' = pc
      BY <2>5 DEF Answer, Quit, Forget
    <3>2. CASE p \in child /\ pc[p] # "none"
      <4>1. LinesLeft(p)' < LinesLeft(p)
        BY <1>1, <3>1, <3>2, PipeAssumption DEF TriggerTypeOK, LinesLeft
      <4> QED
        BY <1>1, <3>2, <4>1, Falls
    <3>3. CASE p \notin child \/ pc[p] = "none"
      BY <3>1, <3>3 DEF Left, LinesLeft, StagesLeft
    <3> QED
      BY <3>2, <3>3
  <2> QED
    BY <1>1, <2>1, <2>2, <2>3, <2>4, <2>5, StepFalls DEF TriggerNext, Starts
<1>2. TriggerTypeOK /\ TriggerTypeOK' /\ [TriggerNext]_triggerVars => [GoesOn]_triggerVars
  BY <1>1
<1>3. TriggerSpec => [][GoesOn]_triggerVars
  BY <1>2, TriggerTypeCorrect, PTL DEF TriggerSpec
<1> QED
  BY <1>3, LessEnds
=============================================================================
