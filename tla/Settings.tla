------------------------------ MODULE Settings ------------------------------
(***************************************************************************)
(* How a setting changed in the app reaches a run.                         *)
(*                                                                         *)
(* The app keeps settings in three places: the macOS Keychain, the .env    *)
(* file of the project, and the table filter_config.  A run reads the last *)
(* two, .env twice: before it knows its database, and again with it.       *)
(* Every save of the app is a sequence of awaited calls, and nothing stops *)
(* the user from starting another save, or closing the app, between them.  *)
(* The file is rewritten in place: truncated, then written.  It is the     *)
(* first .env above the app, or one in its working directory, and need not *)
(* be the one beside the pipeline that the runs load.                      *)
(***************************************************************************)
EXTENDS Naturals

CONSTANTS
    Edits,       \* saves of the app that may be under way at the same time
    Runs,        \* processes of the pipeline
    EnvKeys,     \* keys of .env
    Required,    \* those without which a run does not start
    EnvValues,   \* values of a key
    Numeric,     \* keys and rows that a run turns into a number
    Numbers,     \* the values for which that succeeds
    Flags,       \* seeded rows of filter_config, which the screen shows
    FlagValues,  \* values of such a row
    Default,     \* the value seed.sql gives them
    Words,       \* words suggested for the blacklist
    NewSources,  \* sources the wizard adds
    MaxSaves     \* bound: saves in all

ASSUME NumericAssumption == Numeric \subseteq EnvKeys \cup Flags
ASSUME RequiredAssumption == Required \subseteq EnvKeys
ASSUME ValuesAssumption   == "none" \notin EnvValues \cup FlagValues
ASSUME DefaultAssumption  == Default \in FlagValues
ASSUME WordsAssumption   == Words \cap NewSources = {}
ASSUME MaxSavesAssumption == MaxSaves \in Nat

VARIABLES
    env,         \* the .env the app finds: the value of each key, "none"
                 \*   without a line for it
    elsewhere,   \* whether the runs load another .env ...
    theirs,      \* ... and what is in it then
    keychain,    \* the Keychain, likewise
    flags,       \* filter_config: the seeded rows, "none" before the seed
    blacklist,   \* its row blacklist_keywords: {} without a row, else {list}
    custom,      \* its row custom_sources, likewise
    saveStage,   \* where each save is
    subject,     \* what it is about: a key, a flag, a word or a source
    value,       \* the value it sets
    file,        \* the contents of .env it read
    list,        \* the list it read
    made,        \* saves begun so far
    shown,       \* configMapProvider: the flags on the screen
    fetch,       \* its query: "idle", "asked", "read"
    fetched,     \* the rows that query read
    runStage,    \* where each run is
    environ,     \* its os.environ
    config,      \* the words and the custom sources of its Config
    told,        \* history: words and sources the app said it has added
    due,         \* history: told when each run began
    mishaps      \* history: what went wrong with saves

saves   == <<saveStage, subject, value, file, list, made>>
screen  == <<shown, fetch, fetched>>
table   == <<flags, blacklist, custom>>
run     == <<runStage, environ, config, due>>
settingsVars == <<env, elsewhere, theirs, keychain, flags, blacklist, custom,
                  saveStage, subject, value, file, list, made, shown, fetch,
                  fetched, runStage, environ, config, told, due, mishaps>>

NoFile    == [k \in EnvKeys |-> "none"]
NoFlags   == [f \in Flags |-> "none"]
NoConfig  == [words |-> {}, sources |-> {}]
EnvFile   == [EnvKeys -> EnvValues \cup {"none"}]
FlagRows  == [Flags -> FlagValues \cup {"none"}]

(* What the wizard stores of a source: it gives none of them a source_id.  *)
StoredSource(s) == [name |-> s, source_id |-> ""]
StoredSources  == {StoredSource(s) : s \in NewSources}

TokenStages  == {"keychain", "readEnv", "openEnv", "writeEnv"}
SourceStages == {"readSources", "countSources", "updateSources", "insertSources"}
WordStages   == {"readWords", "writeWords", "doneWords"}
FlagStages   == {"writeFlag", "doneFlag"}
Stages       == {"idle"} \cup TokenStages \cup SourceStages \cup WordStages
                         \cup FlagStages

Present(f) == \A k \in Required : f[k] # "none"

(* float and int raise a ValueError on anything else.                      *)
Parses(f) == \A k \in Numeric \cap DOMAIN f : f[k] \in Numbers \cup {"none"}

(* _find_env_path of the runs, against _findEnvPath of the app.            *)
RunsFile == IF elsewhere THEN theirs ELSE env

SettingsInit ==
    /\ env \in EnvFile
    /\ elsewhere \in BOOLEAN
    /\ theirs \in IF elsewhere THEN EnvFile ELSE {NoFile}
    /\ Present(RunsFile)
    /\ keychain = NoFile
    /\ flags \in FlagRows
    /\ blacklist = {}
    /\ custom = {}
    /\ saveStage = [e \in Edits |-> "idle"]
    /\ subject = [e \in Edits |-> "none"]
    /\ value = [e \in Edits |-> "none"]
    /\ file = [e \in Edits |-> NoFile]
    /\ list = [e \in Edits |-> {}]
    /\ made = 0
    /\ shown = NoFlags
    /\ fetch = "asked"
    /\ fetched = NoFlags
    /\ runStage = [r \in Runs |-> "idle"]
    /\ environ = [r \in Runs |-> NoFile]
    /\ config = [r \in Runs |-> NoConfig]
    /\ told = {}
    /\ due = [r \in Runs |-> {}]
    /\ mishaps = {}

-----------------------------------------------------------------------------
(* Saves                                                                   *)

Goto(e, st) == saveStage' = [saveStage EXCEPT ![e] = st]

Among(stages) == \E e \in Edits : saveStage[e] \in stages

(* A save begins: a second one of the same sort overlaps the first.        *)
BeginSave(e, st, x, v, others, mishap) ==
    /\ saveStage[e] = "idle"
    /\ made < MaxSaves
    /\ Goto(e, st)
    /\ subject' = [subject EXCEPT ![e] = x]
    /\ value' = [value EXCEPT ![e] = v]
    /\ made' = made + 1
    /\ mishaps' = IF Among(others) THEN mishaps \cup {mishap} ELSE mishaps
    /\ UNCHANGED <<env, keychain, table, file, list, screen, run, told>>

End(e) ==
    /\ Goto(e, "idle")
    /\ subject' = [subject EXCEPT ![e] = "none"]
    /\ value' = [value EXCEPT ![e] = "none"]
    /\ file' = [file EXCEPT ![e] = NoFile]
    /\ list' = [list EXCEPT ![e] = {}]
    /\ UNCHANGED made

SaveToken(e, k, v) == BeginSave(e, "keychain", k, v, TokenStages, "overlap")

(* First the Keychain; a locked one throws, and the rest is not done.      *)
WriteKeychain(e) ==
    /\ saveStage[e] = "keychain"
    /\ \/ /\ keychain' = [keychain EXCEPT ![subject[e]] = value[e]]
          /\ Goto(e, "readEnv")
          /\ UNCHANGED <<subject, value, file, list, made>>
       \/ /\ UNCHANGED keychain
          /\ End(e)
    /\ UNCHANGED <<env, table, screen, run, told, mishaps>>

(* readAsString throws, or the file, empty if there is none.               *)
ReadEnv(e) ==
    /\ saveStage[e] = "readEnv"
    /\ \/ /\ file' = [file EXCEPT ![e] = env]
          /\ Goto(e, "openEnv")
          /\ UNCHANGED <<subject, value, list, made, mishaps>>
       \/ /\ End(e)
          /\ mishaps' = mishaps \cup {"half"}
    /\ UNCHANGED <<env, keychain, table, screen, run, told>>

(* writeAsString opens the file, which truncates it, or cannot open it.    *)
OpenEnv(e) ==
    /\ saveStage[e] = "openEnv"
    /\ \/ /\ env' = NoFile
          /\ Goto(e, "writeEnv")
          /\ UNCHANGED <<subject, value, file, list, made, mishaps>>
       \/ /\ End(e)
          /\ mishaps' = mishaps \cup {"half"}
          /\ UNCHANGED env
    /\ UNCHANGED <<keychain, table, screen, run, told>>

(* The line of the key replaced, or appended; variants: the line alone;    *)
(* nothing is appended.                                                    *)
OnlyLine(f, k, v)    == [NoFile EXCEPT ![k] = v]
NotAppended(f, k, v) == [f EXCEPT ![k] = IF @ = "none" THEN @ ELSE v]
Replaced(f, k, v)    == [f EXCEPT ![k] = v]

(* An error of the write, a full disk say, leaves the first lines of the   *)
(* text, the last of them cut.                                             *)
WriteEnv(e) ==
    /\ saveStage[e] = "writeEnv"
    /\ LET text == Replaced(file[e], subject[e], value[e]) IN
          \/ env' = text /\ UNCHANGED mishaps
          \/ /\ env' \in EnvFile
             /\ \A k \in EnvKeys : text[k] = "none" => env'[k] = "none"
             /\ mishaps' = mishaps \cup {"half", "file"}
    /\ End(e)
    /\ UNCHANGED <<keychain, table, screen, run, told>>

(* A switch, a slider or a list of hours, for a row the screen shows.      *)
SetFlag(e, f, v) ==
    /\ shown[f] # "none"
    /\ f \in Numeric => v \in Numbers
    /\ BeginSave(e, "writeFlag", f, v, {}, "none")

(* UPDATE ... WHERE key: no row, no change.                                *)
UpdateValue(e) ==
    /\ saveStage[e] = "writeFlag"
    /\ flags' = [flags EXCEPT ![subject[e]] = IF @ = "none" THEN @ ELSE value[e]]
    /\ Goto(e, "doneFlag")
    /\ UNCHANGED <<env, keychain, blacklist, custom, subject, value, file, list,
                   made, screen, run, told, mishaps>>

(* ref.invalidate: a query under way is forgotten; variant: it is not.     *)
Ignored    == fetch' = IF fetch = "idle" THEN "asked" ELSE fetch
Invalidate == fetch' = "asked"

FlagDone(e) ==
    /\ saveStage[e] = "doneFlag"
    /\ Invalidate
    /\ End(e)
    /\ UNCHANGED <<env, keychain, table, shown, fetched, run, told, mishaps>>

AddWord(e, w) == BeginSave(e, "readWords", w, "none", {}, "none")

ReadWords(e) ==
    /\ saveStage[e] = "readWords"
    /\ list' = [list EXCEPT ![e] = UNION blacklist]
    /\ Goto(e, "writeWords")
    /\ UNCHANGED <<env, keychain, table, subject, value, file, made, screen, run,
                   told, mishaps>>

WriteWords(e) ==
    /\ saveStage[e] = "writeWords"
    /\ blacklist' = {list[e] \cup {subject[e]} : row \in blacklist}
    /\ Goto(e, "doneWords")
    /\ UNCHANGED <<env, keychain, flags, custom, subject, value, file, list, made,
                   screen, run, told, mishaps>>

WordDone(e) ==
    /\ saveStage[e] = "doneWords"
    /\ Invalidate
    /\ told' = told \cup {subject[e]}
    /\ End(e)
    /\ UNCHANGED <<env, keychain, table, shown, fetched, run, mishaps>>

AddSource(e, s) == BeginSave(e, "readSources", s, "none", SourceStages, "list")

GetCustomSources(e) ==
    /\ saveStage[e] = "readSources"
    /\ list' = [list EXCEPT ![e] = UNION custom]
    /\ Goto(e, "countSources")
    /\ UNCHANGED <<env, keychain, table, subject, value, file, made, screen, run,
                   told, mishaps>>

CountSources(e) ==
    /\ saveStage[e] = "countSources"
    /\ Goto(e, IF custom = {} THEN "insertSources" ELSE "updateSources")
    /\ UNCHANGED <<env, keychain, table, subject, value, file, list, made, screen,
                   run, told, mishaps>>

(* The list read plus the new entry; variant: the new entry alone.         *)
OnlyNew(old, s)  == {StoredSource(s)}
ListExtended(old, s) == old \cup {StoredSource(s)}

(* The wizard closes; the insert meets UNIQUE(key) if a row has come up.   *)
PutSources(e) ==
    /\ saveStage[e] \in {"insertSources", "updateSources"}
    /\ IF saveStage[e] = "insertSources" /\ custom # {}
       THEN UNCHANGED <<custom, told>>
       ELSE /\ custom' = {ListExtended(list[e], subject[e])}
            /\ told' = told \cup {subject[e]}
    /\ End(e)
    /\ UNCHANGED <<env, keychain, flags, blacklist, screen, run, mishaps>>

(* A statement of the app meets the write lock for five seconds.           *)
DatabaseBusy(e) ==
    /\ saveStage[e] \in {"writeFlag", "writeWords", "insertSources", "updateSources"}
    /\ End(e)
    /\ UNCHANGED <<env, keychain, table, screen, run, told, mishaps>>

SaveStep(e) ==
    \/ WriteKeychain(e) \/ ReadEnv(e) \/ OpenEnv(e) \/ WriteEnv(e)
    \/ UpdateValue(e) \/ FlagDone(e)
    \/ ReadWords(e) \/ WriteWords(e) \/ WordDone(e)
    \/ GetCustomSources(e) \/ CountSources(e) \/ PutSources(e)
    \/ DatabaseBusy(e)

-----------------------------------------------------------------------------
(* The screen                                                              *)

RefreshButton ==
    /\ Invalidate
    /\ UNCHANGED <<env, keychain, table, saves, shown, fetched, run, told, mishaps>>

GetAllAsMap ==
    /\ fetch = "asked"
    /\ fetch' = "read"
    /\ fetched' = flags
    /\ UNCHANGED <<env, keychain, table, saves, shown, run, told, mishaps>>

Show ==
    /\ fetch = "read"
    /\ fetch' = "idle"
    /\ shown' = fetched
    /\ fetched' = NoFlags
    /\ UNCHANGED <<env, keychain, table, saves, run, told, mishaps>>

(* The user closes the app in the middle of whatever it does, and opens it *)
(* again.                                                                  *)
Reopen ==
    /\ saveStage' = [e \in Edits |-> "idle"]
    /\ subject' = [e \in Edits |-> "none"]
    /\ value' = [e \in Edits |-> "none"]
    /\ file' = [e \in Edits |-> NoFile]
    /\ list' = [e \in Edits |-> {}]
    /\ shown' = NoFlags
    /\ fetch' = "asked"
    /\ fetched' = NoFlags
    /\ mishaps' = mishaps
           \cup (IF Among({"readEnv", "openEnv", "writeEnv"}) THEN {"half"} ELSE {})
           \cup (IF Among({"writeEnv"}) THEN {"file"} ELSE {})
    /\ UNCHANGED <<env, keychain, table, made, run, told>>

-----------------------------------------------------------------------------
(* A run                                                                   *)

Start(r) ==
    /\ runStage[r] = "idle"
    /\ runStage' = [runStage EXCEPT ![r] = "load"]
    /\ due' = [due EXCEPT ![r] = told]
    /\ UNCHANGED <<env, keychain, table, saves, screen, environ, config, told,
                   mishaps>>

(* load_dotenv(override=True): a key without a line keeps the value it     *)
(* has; variant: the environment is what the file holds.                   *)
Fresh(f, old)      == f
Overridden(f, old) == [k \in EnvKeys |-> IF f[k] = "none" THEN old[k] ELSE f[k]]

(* ValueError without a required key, and for MEMORY_THRESHOLD_GB without  *)
(* a number: main logs it and exits with 1.                                *)
Load(r, from, to) ==
    /\ runStage[r] = from
    /\ environ' = [environ EXCEPT ![r] = Overridden(RunsFile, environ[r])]
    /\ runStage' = [runStage EXCEPT ![r] =
                        IF Present(environ'[r]) /\ Parses(environ'[r])
                        THEN to ELSE "failed"]
    /\ UNCHANGED <<env, keychain, table, saves, screen, config, told, due, mishaps>>

LoadEnv(r)   == Load(r, "load", "migrate")
ReloadEnv(r) == Load(r, "reload", "filters")

(* INSERT OR IGNORE for every row of seed.sql.                             *)
Seeded(row) == IF row = "none" THEN Default ELSE row

Migrate(r) ==
    /\ runStage[r] = "migrate"
    /\ flags' = [f \in Flags |-> Seeded(flags[f])]
    /\ runStage' = [runStage EXCEPT ![r] = "reload"]
    /\ UNCHANGED <<env, keychain, blacklist, custom, saves, screen, environ,
                   config, told, due, mishaps>>

(* A custom source without a source_id is not one.                         *)
MergeCustomSources(entries) == {x.name : x \in {y \in entries : y.source_id # ""}}

(* A threshold or an hour that is no number, set by hand, is a ValueError. *)
ApplyFilterConfig(r) ==
    /\ runStage[r] = "filters"
    /\ runStage' = [runStage EXCEPT ![r] = IF Parses(flags) THEN "run" ELSE "failed"]
    /\ config' = [config EXCEPT ![r] =
                      [words   |-> UNION blacklist,
                       sources |-> MergeCustomSources(UNION custom)]]
    /\ UNCHANGED <<env, keychain, table, saves, screen, environ, told, due, mishaps>>

Exit(r) ==
    /\ runStage[r] \in {"run", "failed"}
    /\ runStage' = [runStage EXCEPT ![r] = "idle"]
    /\ environ' = [environ EXCEPT ![r] = NoFile]
    /\ config' = [config EXCEPT ![r] = NoConfig]
    /\ due' = [due EXCEPT ![r] = {}]
    /\ UNCHANGED <<env, keychain, table, saves, screen, told, mishaps>>

RunStep(r) ==
    \/ Start(r) \/ LoadEnv(r) \/ Migrate(r) \/ ReloadEnv(r)
    \/ ApplyFilterConfig(r) \/ Exit(r)

AppStep ==
    \/ RefreshButton \/ GetAllAsMap \/ Show \/ Reopen
    \/ \E e \in Edits :
          \/ SaveStep(e)
          \/ \E k \in EnvKeys, v \in EnvValues : SaveToken(e, k, v)
          \/ \E f \in Flags, v \in FlagValues : SetFlag(e, f, v)
          \/ \E w \in Words : AddWord(e, w)
          \/ \E s \in NewSources : AddSource(e, s)

(* Where the files are is fixed by the installation.                       *)
SettingsNext ==
    /\ UNCHANGED <<elsewhere, theirs>>
    /\ AppStep \/ \E r \in Runs : RunStep(r)

SettingsSpec == SettingsInit /\ [][SettingsNext]_settingsVars

-----------------------------------------------------------------------------
(* Properties                                                              *)

TableTypes ==
    /\ flags \in FlagRows
    /\ blacklist = {} \/ \E l \in SUBSET Words : blacklist = {l}
    /\ custom = {} \/ \E l \in SUBSET StoredSources : custom = {l}

SubjectFits(st, x, v) ==
    /\ st \in TokenStages  => x \in EnvKeys /\ v \in EnvValues
    /\ st \in FlagStages   => x \in Flags /\ v \in FlagValues
    /\ st \in WordStages   => x \in Words
    /\ st \in SourceStages => x \in NewSources

SaveTypes ==
    /\ saveStage \in [Edits -> Stages]
    /\ subject \in [Edits -> EnvKeys \cup Flags \cup Words \cup NewSources \cup {"none"}]
    /\ value \in [Edits -> EnvValues \cup FlagValues \cup {"none"}]
    /\ file \in [Edits -> EnvFile]
    /\ list \in [Edits -> SUBSET (Words \cup StoredSources)]
    /\ \A e \in Edits : SubjectFits(saveStage[e], subject[e], value[e])
    /\ \A e \in Edits : saveStage[e] = "idle" => list[e] = {}
    /\ \A e \in Edits : saveStage[e] \in SourceStages => list[e] \subseteq StoredSources
    /\ \A e \in Edits : saveStage[e] \in WordStages => list[e] \subseteq Words
    /\ made \in 0..MaxSaves

ScreenTypes ==
    /\ shown \in FlagRows
    /\ fetch \in {"idle", "asked", "read"}
    /\ fetched \in FlagRows

RunTypes ==
    /\ runStage \in [Runs -> {"idle", "load", "migrate", "reload", "filters", "run", "failed"}]
    /\ environ \in [Runs -> EnvFile]
    /\ config \in [Runs -> [words : SUBSET Words, sources : SUBSET NewSources]]
    /\ due \in [Runs -> SUBSET (Words \cup NewSources)]

(* Every variable has its type. *)
SettingsTypeOK ==
    /\ env \in EnvFile
    /\ elsewhere \in BOOLEAN
    /\ theirs \in EnvFile
    /\ keychain \in EnvFile
    /\ TableTypes
    /\ SaveTypes
    /\ ScreenTypes
    /\ RunTypes
    /\ told \subseteq Words \cup NewSources
    /\ mishaps \subseteq {"overlap", "half", "file", "list"}

(* Between two saves of tokens, the .env of the runs still has the keys    *)
(* they cannot do without, unless two such saves overlapped, or the app    *)
(* was closed or met an error while the file was truncated: no other order *)
(* of saves, failures and runs costs the file a line.                      *)
NoKeyLost ==
    mishaps \cap {"overlap", "file"} = {} /\ ~Among({"writeEnv"}) =>
        Present(RunsFile)

(* Between two saves of tokens, the Keychain, which the screen shows, and  *)
(* the .env that the app finds hold the same token, unless saves           *)
(* overlapped or one stopped half way.  The runs use that token only where *)
(* this .env is theirs.                                                    *)
KeychainAgrees ==
    mishaps \cap {"overlap", "half"} = {} /\ ~Among(TokenStages) =>
        \A k \in EnvKeys : keychain[k] # "none" => env[k] = keychain[k]

(* A run that got through its first load of .env fails the second only     *)
(* because the file now has a value that is no number: whatever went wrong *)
(* with the saves, the truncated file takes no key away from it.           *)
ReloadPasses ==
    [][\A r \in Runs :
           runStage[r] = "reload" /\ runStage'[r] = "failed" =>
               ~Parses(RunsFile)]_settingsVars

(* A source the wizard has added stays in custom_sources, unless two       *)
(* additions overlapped, each writing back the list it had read.           *)
SourcesKept ==
    "list" \in mishaps \/ \A s \in told \cap NewSources : StoredSource(s) \in UNION custom

(* When the screen has nothing to load and no save has yet to invalidate,  *)
(* a flag it shows has the value of the table: a query that overlaps a     *)
(* save never leaves the older value on the screen.                        *)
ShownIsFresh ==
    fetch = "idle" /\ ~Among({"doneFlag"}) =>
        \A f \in Flags : shown[f] \in {"none", flags[f]}

(* A run overwrites nothing that the app has saved: the seed it applies at *)
(* every start changes no row that exists.                                 *)
EditsSurviveRuns ==
    [][\A r \in Runs : runStage'[r] # runStage[r] =>
          /\ \A f \in Flags : flags[f] # "none" => flags'[f] = flags[f]
          /\ custom' = custom]_settingsVars

(* What the feature specification says of the custom sources: a run that   *)
(* began after the wizard said a source was added collects it.             *)
AddedIsUsed ==
    \A r \in Runs :
        runStage[r] = "run" => due[r] \cap NewSources \subseteq config[r].sources
=============================================================================
