---------------------------- MODULE HealthCheck ----------------------------
(***************************************************************************)
(* The health check and what its two readers make of the rows it leaves.   *)
(*                                                                         *)
(* A check asks Ollama, the sources, Telegram and SQLite, and then inserts *)
(* one row per answer, each by itself; an insert that fails is logged and  *)
(* skipped.  created_at has whole seconds.  The store shows the row with   *)
(* the greatest id per target; the app's error screen shows, per type, the *)
(* rows of the greatest created_at.  Checks follow one another, and the    *)
(* clock is not set back.                                                  *)
(***************************************************************************)
EXTENDS Naturals, Sequences, SequencesExt

CONSTANTS
    ModelNames,   \* apex_model_name and kanana_model_name, in this order
    SourceIds,    \* the sources, in the order of the configuration
    MaxChecks,    \* bound: checks
    MaxSeconds,   \* bound: seconds that pass
    HealthKeep    \* retention of health_check_results, in seconds

ASSUME HealthAssumption ==
    /\ MaxChecks \in Nat /\ MaxSeconds \in Nat /\ HealthKeep \in Nat
    /\ Len(ModelNames) \in Nat /\ Len(SourceIds) \in Nat

VARIABLES
    healthRows,  \* health_check_results
    lastRow,     \* the last id given to a row (AUTOINCREMENT)
    toSave,      \* the answers of the check at hand that are not saved yet
    checks,      \* checks begun
    second,      \* the clock
    ollamaDown,  \* history: checks that found Ollama in ERROR
    unsaved      \* history: <<check, answer>> of rows that were not inserted

healthVars == <<healthRows, lastRow, toSave, checks, second, ollamaDown, unsaved>>

(* check_type: the part of the name before the colon.                      *)
Named(type, names) == [i \in 1..Len(names) |-> [type |-> type, target |-> names[i]]]
Single(name)       == <<[type |-> name, target |-> name]>>

HealthInit ==
    /\ healthRows = {}
    /\ lastRow = 0
    /\ toSave = <<>>
    /\ checks = 0
    /\ second = 0
    /\ ollamaDown = {}
    /\ unsaved = {}

-----------------------------------------------------------------------------

(* _check_ollama: no word on the models when the server does not answer.   *)
OllamaItems(up) ==
    IF up THEN Single("ollama") \o Named("model", ModelNames) ELSE Single("ollama")

(* _check_sources, _check_telegram and _check_sqlite: whatever happens, an *)
(* answer for each.                                                        *)
SourceItems  == Named("source", SourceIds)
TelegramItem == Single("telegram")
SqliteItem   == Single("sqlite")

(* check: the answers, in the order they are saved.                        *)
Answers(up) == OllamaItems(up) \o SourceItems \o TelegramItem \o SqliteItem

Check(up) ==
    /\ toSave = <<>>
    /\ checks < MaxChecks
    /\ checks' = checks + 1
    /\ toSave' = Answers(up)
    /\ ollamaDown' = IF up THEN ollamaDown ELSE ollamaDown \cup {checks + 1}
    /\ UNCHANGED <<healthRows, lastRow, second, unsaved>>

(* insert_health_check of the next answer.                                 *)
SaveItem ==
    /\ toSave # <<>>
    /\ lastRow' = lastRow + 1
    /\ healthRows' = healthRows \cup
           {[id |-> lastRow + 1, about |-> Head(toSave), at |-> second, check |-> checks]}
    /\ toSave' = Tail(toSave)
    /\ UNCHANGED <<checks, second, ollamaDown, unsaved>>

(* The insert raises; variant: and the loop is left.                       *)
LoopLeft == <<>>
NextItem == Tail(toSave)

SaveItemFails ==
    /\ toSave # <<>>
    /\ toSave' = NextItem
    /\ unsaved' = unsaved \cup {<<checks, Head(toSave)>>}
    /\ UNCHANGED <<healthRows, lastRow, checks, second, ollamaDown>>

(* The process dies while it saves.                                        *)
DieInCheck ==
    /\ toSave # <<>>
    /\ toSave' = <<>>
    /\ unsaved' = unsaved \cup {<<checks, answer>> : answer \in ToSet(toSave)}
    /\ UNCHANGED <<healthRows, lastRow, checks, second, ollamaDown>>

SecondPasses ==
    /\ second < MaxSeconds
    /\ second' = second + 1
    /\ UNCHANGED <<healthRows, lastRow, toSave, checks, ollamaDown, unsaved>>

(* cleanup_old_data deletes what is older than the retention.              *)
Kept(x) == x.at + HealthKeep >= second
PurgeHealth ==
    /\ \E x \in healthRows : ~Kept(x)
    /\ healthRows' = {x \in healthRows : Kept(x)}
    /\ UNCHANGED <<lastRow, toSave, checks, second, ollamaDown, unsaved>>

HealthNext == \/ \E up \in BOOLEAN : Check(up)
              \/ SaveItem \/ SaveItemFails \/ DieInCheck \/ SecondPasses \/ PurgeHealth

HealthSpec == HealthInit /\ [][HealthNext]_healthVars

-----------------------------------------------------------------------------
(* The readers                                                             *)

SameType(x, y)   == x.about.type = y.about.type
SameTarget(x, y) == x.about = y.about
OfLast(x)        == x.check = checks

(* get_latest_health_checks of the store.                                  *)
LatestHealthChecks ==
    {x \in healthRows : \A y \in healthRows : SameTarget(x, y) => y.id <= x.id}

(* getLatestResults of the app.                                            *)
LatestResults ==
    {x \in healthRows : \A y \in healthRows : SameType(x, y) => y.at <= x.at}

-----------------------------------------------------------------------------
(* Properties                                                              *)

(* Every variable has its type.                                            *)
HealthTypeOK ==
    /\ checks \in 0..MaxChecks
    /\ second \in 0..MaxSeconds
    /\ lastRow \in Nat
    /\ healthRows \subseteq [id : 1..lastRow, about : ToSet(Answers(TRUE)),
                             at : 0..second, check : 1..checks]
    /\ toSave \in Seq(ToSet(Answers(TRUE)))
    /\ ollamaDown \subseteq 1..checks
    /\ unsaved \subseteq (1..checks) \X ToSet(Answers(TRUE))

(* What the last check saved is shown by the store, unless the same check  *)
(* saved the target again (one model for both tasks), and by the app unless*)
(* the saving of its type ran into the next second: then the app shows the *)
(* rest of that type alone.                                                *)
NothingElseHidden ==
    \A x \in healthRows : OfLast(x) =>
        /\ \/ x \in LatestHealthChecks
           \/ \E y \in healthRows : OfLast(y) /\ SameTarget(x, y) /\ y.id > x.id
        /\ \/ x \in LatestResults
           \/ \E y \in healthRows : OfLast(y) /\ SameType(x, y) /\ y.at > x.at

(* What the app shows of an earlier check is a model's row after a check   *)
(* that found Ollama down, or stands for a row that could not be saved, or *)
(* shares its second with the last check.                                  *)
StaleExplained ==
    \A x \in LatestResults : ~OfLast(x) =>
        \/ x.about.type = "model" /\ checks \in ollamaDown
        \/ <<checks, x.about>> \in unsaved
        \/ \E y \in healthRows : OfLast(y) /\ SameType(x, y) /\ y.at = x.at

(* What the user sees between two checks, against what the last one found. *)
ShownExplained == toSave = <<>> => NothingElseHidden /\ StaleExplained
=============================================================================
