--------------------------- MODULE SettingsProofs ---------------------------
(***************************************************************************)
(* Proofs about Settings, for any number of saves under way and of runs,   *)
(* any keys, values, words and sources.                                    *)
(*                                                                         *)
(* After the types, each property has an invariant that says what holds in *)
(* the middle of a save: RunSafe of the environment a run has loaded,      *)
(* ScreenSafe of rows the screen has read, and SourceSafe, EnvSafe and     *)
(* KeychainSafe of the list or the file a save carries.  The last three    *)
(* rest on one argument: as long as two saves have not overlapped there is *)
(* only one of that sort, so what it read is what it overwrites.           *)
(***************************************************************************)
EXTENDS Settings, TLAPS

(* A run keeps the keys its first load found, and the numbers.             *)
RunSafe ==
    \A r \in Runs : runStage[r] \in {"migrate", "reload"} =>
        Present(environ[r]) /\ Parses(environ[r])

(* Whatever the screen shows or is about to show is in the table, or a     *)
(* save is about to make it load again.                                    *)
ScreenSafe ==
    \/ Among({"doneFlag"})
    \/ /\ fetch = "idle" => \A f \in Flags : shown[f] \in {"none", flags[f]}
       /\ fetch = "read" => \A f \in Flags : fetched[f] \in {"none", flags[f]}

(* As long as additions do not overlap, there is one, and what it has read *)
(* is the table.                                                           *)
Alone(family) ==
    \A d, e \in Edits : saveStage[d] \in family /\ saveStage[e] \in family => d = e

SourceSafe ==
    "list" \notin mishaps =>
        /\ Alone(SourceStages)
        /\ \A e \in Edits : saveStage[e] \in SourceStages \ {"readSources"}
                              => list[e] = UNION custom
        /\ \A s \in told \cap NewSources : StoredSource(s) \in UNION custom

(* The save that holds the truncated file knows its required lines, if it  *)
(* is the file of the runs.                                                *)
EnvSafe ==
    /\ elsewhere => Present(theirs)
    /\ ~elsewhere /\ mishaps \cap {"overlap", "file"} = {} =>
            /\ Alone(TokenStages)
            /\ \A e \in Edits : saveStage[e] \in {"openEnv", "writeEnv"} => Present(file[e])
            /\ ~Among({"writeEnv"}) => Present(env)

(* The one save under way is the only place where the Keychain is ahead.   *)
KeychainSafe ==
    mishaps \cap {"overlap", "half"} = {} =>
        /\ Alone(TokenStages)
        /\ \A e \in Edits : saveStage[e] \in {"readEnv", "openEnv", "writeEnv"}
                              => keychain[subject[e]] = value[e]
        /\ \A e \in Edits : saveStage[e] = "openEnv" => file[e] = env
        /\ \A e \in Edits, k \in EnvKeys :
               saveStage[e] = "writeEnv" /\ k # subject[e] /\ keychain[k] # "none"
               => file[e][k] = keychain[k]
        /\ \A k \in EnvKeys :
               /\ keychain[k] # "none"
               /\ ~Among({"writeEnv"})
               /\ \A e \in Edits : saveStage[e] \in {"readEnv", "openEnv"} => subject[e] # k
               => env[k] = keychain[k]

-----------------------------------------------------------------------------

(* The lists a save reads are lists of words, or of entries.               *)
LEMMA ListTypes ==
    TableTypes => UNION blacklist \subseteq Words /\ UNION custom \subseteq StoredSources
  BY DEF TableTypes

(* A save that ends leaves nothing behind.                                 *)
LEMMA EndTypes ==
    ASSUME SaveTypes, NEW e \in Edits, End(e)
    PROVE  SaveTypes'
<1>1. NoFile \in EnvFile
  BY DEF NoFile, EnvFile
<1>2. /\ saveStage' \in [Edits -> Stages]
      /\ subject' \in [Edits -> EnvKeys \cup Flags \cup Words \cup NewSources \cup {"none"}]
      /\ value' \in [Edits -> EnvValues \cup FlagValues \cup {"none"}]
      /\ file' \in [Edits -> EnvFile]
      /\ list' \in [Edits -> SUBSET (Words \cup StoredSources)]
      /\ made' \in 0..MaxSaves
  BY <1>1 DEF SaveTypes, End, Goto, Stages
<1>3. ASSUME NEW d \in Edits
      PROVE  /\ SubjectFits(saveStage[d], subject[d], value[d])'
             /\ (saveStage[d] = "idle" => list[d] = {})'
             /\ (saveStage[d] \in SourceStages => list[d] \subseteq StoredSources)'
             /\ (saveStage[d] \in WordStages => list[d] \subseteq Words)'
  <2>1. CASE d = e
    <3>1. saveStage'[d] = "idle"
      BY <2>1 DEF SaveTypes, End, Goto
    <3>2. list'[d] = {}
      BY <2>1 DEF SaveTypes, End
    <3> QED
      BY <3>1, <3>2 DEF SubjectFits, TokenStages, SourceStages, WordStages, FlagStages
  <2>2. CASE d # e
    <3>1. /\ saveStage'[d] = saveStage[d] /\ subject'[d] = subject[d]
          /\ value'[d] = value[d] /\ list'[d] = list[d]
      BY <2>2 DEF SaveTypes, End, Goto
    <3> QED
      BY <3>1 DEF SaveTypes, SubjectFits
  <2> QED
    BY <2>1, <2>2
<1> QED
  BY <1>2, <1>3 DEF SaveTypes

(* A save that goes on stays with its subject.                             *)
LEMMA MoveTypes ==
    ASSUME SaveTypes, NEW e \in Edits, NEW st \in Stages, Goto(e, st),
           NEW family \in {TokenStages, SourceStages, WordStages, FlagStages},
           saveStage[e] \in family, st \in family,
           UNCHANGED <<subject, value, made>>,
           file' \in [Edits -> EnvFile],
           list' \in [Edits -> SUBSET (Words \cup StoredSources)],
           \A d \in Edits : list'[d] \subseteq list[d] \/ d = e,
           st \in SourceStages => list'[e] \subseteq StoredSources,
           st \in WordStages => list'[e] \subseteq Words
    PROVE  SaveTypes'
<1>1. saveStage' \in [Edits -> Stages]
  BY DEF SaveTypes, Goto
<1>2. ASSUME NEW d \in Edits
      PROVE  /\ SubjectFits(saveStage[d], subject[d], value[d])'
             /\ (saveStage[d] = "idle" => list[d] = {})'
             /\ (saveStage[d] \in SourceStages => list[d] \subseteq StoredSources)'
             /\ (saveStage[d] \in WordStages => list[d] \subseteq Words)'
  <2>1. CASE d = e
    <3>1. saveStage'[d] = st
      BY <2>1 DEF SaveTypes, Goto
    <3>2. SubjectFits(st, subject[d], value[d])
      BY <2>1 DEF SaveTypes, SubjectFits, TokenStages, SourceStages, WordStages, FlagStages
    <3> QED
      BY <2>1, <3>1, <3>2 DEF TokenStages, SourceStages, WordStages, FlagStages
  <2>2. CASE d # e
    <3>1. saveStage'[d] = saveStage[d]
      BY <2>2 DEF SaveTypes, Goto
    <3>2. list'[d] \subseteq list[d]
      BY <2>2
    <3> QED
      BY <2>2, <3>1, <3>2 DEF SaveTypes
  <2> QED
    BY <2>1, <2>2
<1> QED
  BY <1>1, <1>2 DEF SaveTypes

(* A save that begins has a subject that fits its saveStage.                   *)
LEMMA BeginTypes ==
    ASSUME SaveTypes, NEW e \in Edits, NEW st \in {"keychain", "writeFlag", "readWords", "readSources"},
           NEW x \in EnvKeys \cup Flags \cup Words \cup NewSources,
           NEW v \in EnvValues \cup FlagValues \cup {"none"},
           NEW others, NEW m, BeginSave(e, st, x, v, others, m), SubjectFits(st, x, v)
    PROVE  SaveTypes'
<1>1. /\ saveStage' \in [Edits -> Stages]
      /\ subject' \in [Edits -> EnvKeys \cup Flags \cup Words \cup NewSources \cup {"none"}]
      /\ value' \in [Edits -> EnvValues \cup FlagValues \cup {"none"}]
  BY DEF SaveTypes, BeginSave, Goto, Stages, TokenStages, SourceStages, WordStages, FlagStages
<1>2. made' \in 0..MaxSaves
  BY MaxSavesAssumption DEF SaveTypes, BeginSave
<1>3. ASSUME NEW d \in Edits
      PROVE  /\ SubjectFits(saveStage[d], subject[d], value[d])'
             /\ (saveStage[d] = "idle" => list[d] = {})'
             /\ (saveStage[d] \in SourceStages => list[d] \subseteq StoredSources)'
             /\ (saveStage[d] \in WordStages => list[d] \subseteq Words)'
  <2>1. CASE d = e
    <3>1. /\ saveStage'[d] = st /\ subject'[d] = x /\ value'[d] = v
          /\ list'[d] = {}
      BY <2>1 DEF SaveTypes, BeginSave, Goto
    <3> QED
      BY <3>1 DEF TokenStages, SourceStages, WordStages, FlagStages
  <2>2. CASE d # e
    <3>1. /\ saveStage'[d] = saveStage[d] /\ subject'[d] = subject[d]
          /\ value'[d] = value[d] /\ list'[d] = list[d]
      BY <2>2 DEF SaveTypes, BeginSave, Goto
    <3> QED
      BY <3>1 DEF SaveTypes, SubjectFits
  <2> QED
    BY <2>1, <2>2
<1> QED
  BY <1>1, <1>2, <1>3 DEF SaveTypes, BeginSave

(* Every step keeps the fields of the saves typed.                         *)
LEMMA SaveTypesStep ==
    ASSUME SettingsTypeOK, [SettingsNext]_settingsVars
    PROVE  SaveTypes'
<1> USE DEF SettingsTypeOK
<1>a. UNION blacklist \subseteq Words /\ UNION custom \subseteq StoredSources
  BY ListTypes
<1>1. ASSUME NEW e \in Edits, NEW k \in EnvKeys, NEW v \in EnvValues, SaveToken(e, k, v) PROVE SaveTypes'
  BY <1>1, BeginTypes
     DEF SaveToken, SubjectFits, TokenStages, SourceStages, WordStages, FlagStages, Stages
<1>2. ASSUME NEW e \in Edits, NEW f \in Flags, NEW v \in FlagValues, SetFlag(e, f, v) PROVE SaveTypes'
  BY <1>2, BeginTypes
     DEF SetFlag, SubjectFits, TokenStages, SourceStages, WordStages, FlagStages, Stages
<1>3. ASSUME NEW e \in Edits, NEW w \in Words, AddWord(e, w) PROVE SaveTypes'
  BY <1>3, BeginTypes
     DEF AddWord, SubjectFits, TokenStages, SourceStages, WordStages, FlagStages, Stages
<1>4. ASSUME NEW e \in Edits, NEW s \in NewSources, AddSource(e, s) PROVE SaveTypes'
  BY <1>4, BeginTypes
     DEF AddSource, SubjectFits, TokenStages, SourceStages, WordStages, FlagStages, Stages
<1>5. ASSUME NEW e \in Edits, WriteKeychain(e) PROVE SaveTypes'
  BY <1>5, MoveTypes, EndTypes
     DEF WriteKeychain, SaveTypes, TokenStages, SourceStages, WordStages, FlagStages, Stages
<1>6. ASSUME NEW e \in Edits, ReadEnv(e) PROVE SaveTypes'
  BY <1>6, MoveTypes, EndTypes, <1>a
     DEF ReadEnv, SaveTypes, TokenStages, SourceStages, WordStages, FlagStages, Stages
<1>7. ASSUME NEW e \in Edits, OpenEnv(e) PROVE SaveTypes'
  BY <1>7, MoveTypes, EndTypes
     DEF OpenEnv, SaveTypes, TokenStages, SourceStages, WordStages, FlagStages, Stages
<1>8. ASSUME NEW e \in Edits, WriteEnv(e) PROVE SaveTypes'
  BY <1>8, EndTypes DEF WriteEnv
<1>9. ASSUME NEW e \in Edits, UpdateValue(e) PROVE SaveTypes'
  BY <1>9, MoveTypes, <1>a
     DEF UpdateValue, SaveTypes, TokenStages, SourceStages, WordStages, FlagStages, Stages
<1>10. ASSUME NEW e \in Edits, FlagDone(e) PROVE SaveTypes'
  BY <1>10, EndTypes DEF FlagDone
<1>11. ASSUME NEW e \in Edits, ReadWords(e) PROVE SaveTypes'
  BY <1>11, MoveTypes, <1>a
     DEF ReadWords, SaveTypes, TokenStages, SourceStages, WordStages, FlagStages, Stages
<1>12. ASSUME NEW e \in Edits, WriteWords(e) PROVE SaveTypes'
  BY <1>12, MoveTypes, <1>a
     DEF WriteWords, SaveTypes, TokenStages, SourceStages, WordStages, FlagStages, Stages
<1>13. ASSUME NEW e \in Edits, WordDone(e) PROVE SaveTypes'
  BY <1>13, EndTypes DEF WordDone
<1>14. ASSUME NEW e \in Edits, GetCustomSources(e) PROVE SaveTypes'
  BY <1>14, MoveTypes, <1>a
     DEF GetCustomSources, SaveTypes, TokenStages, SourceStages, WordStages, FlagStages, Stages
<1>15. ASSUME NEW e \in Edits, CountSources(e) PROVE SaveTypes'
  BY <1>15, MoveTypes, <1>a
     DEF CountSources, SaveTypes, TokenStages, SourceStages, WordStages, FlagStages, Stages
<1>16. ASSUME NEW e \in Edits, PutSources(e) PROVE SaveTypes'
  BY <1>16, EndTypes DEF PutSources
<1>17. ASSUME NEW e \in Edits, DatabaseBusy(e) PROVE SaveTypes'
  BY <1>17, EndTypes DEF DatabaseBusy
<1>18. ASSUME RefreshButton PROVE SaveTypes'
  BY <1>18 DEF RefreshButton, saves, NoFile, EnvFile, SaveTypes, SubjectFits, Stages,
        TokenStages, SourceStages, WordStages, FlagStages
<1>19. ASSUME GetAllAsMap PROVE SaveTypes'
  BY <1>19 DEF GetAllAsMap, saves, NoFile, EnvFile, SaveTypes, SubjectFits, Stages,
        TokenStages, SourceStages, WordStages, FlagStages
<1>20. ASSUME Show PROVE SaveTypes'
  BY <1>20 DEF Show, saves, NoFile, EnvFile, SaveTypes, SubjectFits, Stages,
        TokenStages, SourceStages, WordStages, FlagStages
<1>21. ASSUME Reopen PROVE SaveTypes'
  BY <1>21 DEF Reopen, saves, NoFile, EnvFile, SaveTypes, SubjectFits, Stages,
        TokenStages, SourceStages, WordStages, FlagStages
<1>22. ASSUME NEW r \in Runs, Start(r) PROVE SaveTypes'
  BY <1>22 DEF Start, saves, NoFile, EnvFile, SaveTypes, SubjectFits, Stages,
        TokenStages, SourceStages, WordStages, FlagStages
<1>23. ASSUME NEW r \in Runs, LoadEnv(r) PROVE SaveTypes'
  BY <1>23 DEF LoadEnv, Load, saves, NoFile, EnvFile, SaveTypes, SubjectFits, Stages,
        TokenStages, SourceStages, WordStages, FlagStages
<1>24. ASSUME NEW r \in Runs, Migrate(r) PROVE SaveTypes'
  BY <1>24 DEF Migrate, saves, NoFile, EnvFile, SaveTypes, SubjectFits, Stages,
        TokenStages, SourceStages, WordStages, FlagStages
<1>25. ASSUME NEW r \in Runs, ReloadEnv(r) PROVE SaveTypes'
  BY <1>25 DEF ReloadEnv, Load, saves, NoFile, EnvFile, SaveTypes, SubjectFits,
        Stages, TokenStages, SourceStages, WordStages, FlagStages
<1>26. ASSUME NEW r \in Runs, ApplyFilterConfig(r) PROVE SaveTypes'
  BY <1>26 DEF ApplyFilterConfig, saves, NoFile, EnvFile, SaveTypes, SubjectFits,
        Stages, TokenStages, SourceStages, WordStages, FlagStages
<1>27. ASSUME NEW r \in Runs, Exit(r) PROVE SaveTypes'
  BY <1>27 DEF Exit, saves, NoFile, EnvFile, SaveTypes, SubjectFits, Stages,
        TokenStages, SourceStages, WordStages, FlagStages
<1>28. CASE UNCHANGED settingsVars
  BY <1>28 DEF settingsVars, saves, NoFile, EnvFile, SaveTypes, SubjectFits, Stages,
        TokenStages, SourceStages, WordStages, FlagStages
<1> QED
  BY <1>1, <1>2, <1>3, <1>4, <1>5, <1>6, <1>7, <1>8, <1>9, <1>10, <1>11,
     <1>12, <1>13, <1>14, <1>15, <1>16, <1>17, <1>18, <1>19, <1>20, <1>21,
     <1>22, <1>23, <1>24, <1>25, <1>26, <1>27, <1>28 DEF SettingsNext, AppStep,
     SaveStep, RunStep

(* Every step keeps the rows typed.                                        *)
LEMMA TableTypesStep ==
    ASSUME SettingsTypeOK, [SettingsNext]_settingsVars
    PROVE  TableTypes'
<1> USE DEF SettingsTypeOK
<1>a. UNION blacklist \subseteq Words /\ UNION custom \subseteq StoredSources
  BY ListTypes
<1>1. ASSUME NEW e \in Edits, NEW k \in EnvKeys, NEW v \in EnvValues, SaveToken(e, k, v) PROVE TableTypes'
  BY <1>1 DEF SaveToken, BeginSave, Goto, saves, screen, table, run, TableTypes
<1>2. ASSUME NEW e \in Edits, NEW f \in Flags, NEW v \in FlagValues, SetFlag(e, f, v) PROVE TableTypes'
  BY <1>2 DEF SetFlag, BeginSave, Goto, saves, screen, table, run, TableTypes
<1>3. ASSUME NEW e \in Edits, NEW w \in Words, AddWord(e, w) PROVE TableTypes'
  BY <1>3 DEF AddWord, BeginSave, Goto, saves, screen, table, run, TableTypes
<1>4. ASSUME NEW e \in Edits, NEW s \in NewSources, AddSource(e, s) PROVE TableTypes'
  BY <1>4 DEF AddSource, BeginSave, Goto, saves, screen, table, run, TableTypes
<1>5. ASSUME NEW e \in Edits, WriteKeychain(e) PROVE TableTypes'
  BY <1>5 DEF WriteKeychain, End, Goto, saves, screen, table, run, TableTypes
<1>6. ASSUME NEW e \in Edits, ReadEnv(e) PROVE TableTypes'
  BY <1>6 DEF ReadEnv, Goto, saves, screen, table, run, TableTypes
<1>7. ASSUME NEW e \in Edits, OpenEnv(e) PROVE TableTypes'
  BY <1>7 DEF OpenEnv, End, Goto, saves, screen, table, run, TableTypes
<1>8. ASSUME NEW e \in Edits, WriteEnv(e) PROVE TableTypes'
  BY <1>8 DEF WriteEnv, End, Goto, Replaced, saves, screen, table, run,
        TableTypes
<1>9. ASSUME NEW e \in Edits, UpdateValue(e) PROVE TableTypes'
  <2>1. saveStage[e] \in FlagStages
    BY <1>9 DEF UpdateValue, FlagStages
  <2>2. value[e] \in FlagValues
    BY <2>1 DEF SaveTypes, SubjectFits
  <2> QED
    BY <1>9, <2>2 DEF UpdateValue, TableTypes, FlagRows
<1>10. ASSUME NEW e \in Edits, FlagDone(e) PROVE TableTypes'
  BY <1>10 DEF FlagDone, End, Goto, Invalidate, saves, screen, table, run,
        TableTypes
<1>11. ASSUME NEW e \in Edits, ReadWords(e) PROVE TableTypes'
  BY <1>11 DEF ReadWords, Goto, saves, screen, table, run, TableTypes
<1>12. ASSUME NEW e \in Edits, WriteWords(e) PROVE TableTypes'
  <2>1. saveStage[e] \in WordStages
    BY <1>12 DEF WriteWords, WordStages
  <2>2. subject[e] \in Words /\ list[e] \subseteq Words
    BY <2>1 DEF SaveTypes, SubjectFits
  <2>3. CASE blacklist = {}
    BY <1>12, <2>3 DEF WriteWords, TableTypes
  <2>4. CASE \E l \in SUBSET Words : blacklist = {l}
    <3>1. list[e] \cup {subject[e]} \in SUBSET Words
      BY <2>2
    <3>2. blacklist' = {list[e] \cup {subject[e]}}
      BY <1>12, <2>4 DEF WriteWords
    <3> QED
      BY <1>12, <3>1, <3>2 DEF WriteWords, TableTypes
  <2> QED
    BY <2>3, <2>4 DEF TableTypes
<1>13. ASSUME NEW e \in Edits, WordDone(e) PROVE TableTypes'
  BY <1>13 DEF WordDone, End, Goto, Invalidate, saves, screen, table, run,
        TableTypes
<1>14. ASSUME NEW e \in Edits, GetCustomSources(e) PROVE TableTypes'
  BY <1>14 DEF GetCustomSources, Goto, saves, screen, table, run, TableTypes
<1>15. ASSUME NEW e \in Edits, CountSources(e) PROVE TableTypes'
  BY <1>15 DEF CountSources, Goto, saves, screen, table, run, TableTypes
<1>16. ASSUME NEW e \in Edits, PutSources(e) PROVE TableTypes'
  <2>1. saveStage[e] \in SourceStages
    BY <1>16 DEF PutSources, SourceStages
  <2>2. subject[e] \in NewSources /\ list[e] \subseteq StoredSources
    BY <2>1 DEF SaveTypes, SubjectFits
  <2>3. ListExtended(list[e], subject[e]) \in SUBSET StoredSources
    BY <2>2 DEF ListExtended, StoredSources
  <2> QED
    BY <1>16, <2>3 DEF PutSources, TableTypes
<1>17. ASSUME NEW e \in Edits, DatabaseBusy(e) PROVE TableTypes'
  BY <1>17 DEF DatabaseBusy, End, Goto, saves, screen, table, run, TableTypes
<1>18. ASSUME RefreshButton PROVE TableTypes'
  BY <1>18 DEF RefreshButton, Invalidate, saves, screen, table, run,
        TableTypes
<1>19. ASSUME GetAllAsMap PROVE TableTypes'
  BY <1>19 DEF GetAllAsMap, saves, screen, table, run, TableTypes
<1>20. ASSUME Show PROVE TableTypes'
  BY <1>20 DEF Show, saves, screen, table, run, TableTypes
<1>21. ASSUME Reopen PROVE TableTypes'
  BY <1>21 DEF Reopen, saves, screen, table, run, TableTypes
<1>22. ASSUME NEW r \in Runs, Start(r) PROVE TableTypes'
  BY <1>22 DEF Start, saves, screen, table, run, TableTypes
<1>23. ASSUME NEW r \in Runs, LoadEnv(r) PROVE TableTypes'
  BY <1>23 DEF LoadEnv, Load, Overridden, saves, screen, table, run,
        TableTypes
<1>24. ASSUME NEW r \in Runs, Migrate(r) PROVE TableTypes'
  BY <1>24, DefaultAssumption DEF Migrate, Seeded, saves, TableTypes, FlagRows
<1>25. ASSUME NEW r \in Runs, ReloadEnv(r) PROVE TableTypes'
  BY <1>25 DEF ReloadEnv, Load, Overridden, saves, screen, table, run,
        TableTypes
<1>26. ASSUME NEW r \in Runs, ApplyFilterConfig(r) PROVE TableTypes'
  BY <1>26 DEF ApplyFilterConfig, saves, screen, table, run, TableTypes
<1>27. ASSUME NEW r \in Runs, Exit(r) PROVE TableTypes'
  BY <1>27 DEF Exit, saves, screen, table, run, TableTypes
<1>28. CASE UNCHANGED settingsVars
  BY <1>28 DEF settingsVars, saves, screen, table, run, TableTypes
<1> QED
  BY <1>1, <1>2, <1>3, <1>4, <1>5, <1>6, <1>7, <1>8, <1>9, <1>10, <1>11,
     <1>12, <1>13, <1>14, <1>15, <1>16, <1>17, <1>18, <1>19, <1>20, <1>21,
     <1>22, <1>23, <1>24, <1>25, <1>26, <1>27, <1>28 DEF SettingsNext, AppStep,
     SaveStep, RunStep

(* Every step keeps the screen typed.                                      *)
LEMMA ScreenTypesStep ==
    ASSUME SettingsTypeOK, [SettingsNext]_settingsVars
    PROVE  ScreenTypes'
<1> USE DEF SettingsTypeOK
<1>1. ASSUME NEW e \in Edits, NEW k \in EnvKeys, NEW v \in EnvValues, SaveToken(e, k, v) PROVE ScreenTypes'
  BY <1>1 DEF SaveToken, BeginSave, Goto, saves, screen, table, run, ScreenTypes,
        TableTypes, FlagRows, NoFlags
<1>2. ASSUME NEW e \in Edits, NEW f \in Flags, NEW v \in FlagValues, SetFlag(e, f, v) PROVE ScreenTypes'
  BY <1>2 DEF SetFlag, BeginSave, Goto, saves, screen, table, run, ScreenTypes,
        TableTypes, FlagRows, NoFlags
<1>3. ASSUME NEW e \in Edits, NEW w \in Words, AddWord(e, w) PROVE ScreenTypes'
  BY <1>3 DEF AddWord, BeginSave, Goto, saves, screen, table, run, ScreenTypes,
        TableTypes, FlagRows, NoFlags
<1>4. ASSUME NEW e \in Edits, NEW s \in NewSources, AddSource(e, s) PROVE ScreenTypes'
  BY <1>4 DEF AddSource, BeginSave, Goto, saves, screen, table, run, ScreenTypes,
        TableTypes, FlagRows, NoFlags
<1>5. ASSUME NEW e \in Edits, WriteKeychain(e) PROVE ScreenTypes'
  BY <1>5 DEF WriteKeychain, End, Goto, saves, screen, table, run,
        ScreenTypes, TableTypes, FlagRows, NoFlags
<1>6. ASSUME NEW e \in Edits, ReadEnv(e) PROVE ScreenTypes'
  BY <1>6 DEF ReadEnv, Goto, saves, screen, table, run, ScreenTypes,
        TableTypes, FlagRows, NoFlags
<1>7. ASSUME NEW e \in Edits, OpenEnv(e) PROVE ScreenTypes'
  BY <1>7 DEF OpenEnv, End, Goto, saves, screen, table, run, ScreenTypes,
        TableTypes, FlagRows, NoFlags
<1>8. ASSUME NEW e \in Edits, WriteEnv(e) PROVE ScreenTypes'
  BY <1>8 DEF WriteEnv, End, Goto, Replaced, saves, screen, table, run,
        ScreenTypes, TableTypes, FlagRows, NoFlags
<1>9. ASSUME NEW e \in Edits, UpdateValue(e) PROVE ScreenTypes'
  BY <1>9 DEF UpdateValue, Goto, saves, screen, table, run, ScreenTypes,
        TableTypes, FlagRows, NoFlags
<1>10. ASSUME NEW e \in Edits, FlagDone(e) PROVE ScreenTypes'
  BY <1>10 DEF FlagDone, End, Goto, Invalidate, saves, screen, table, run,
        ScreenTypes, TableTypes, FlagRows, NoFlags
<1>11. ASSUME NEW e \in Edits, ReadWords(e) PROVE ScreenTypes'
  BY <1>11 DEF ReadWords, Goto, saves, screen, table, run, ScreenTypes,
        TableTypes, FlagRows, NoFlags
<1>12. ASSUME NEW e \in Edits, WriteWords(e) PROVE ScreenTypes'
  BY <1>12 DEF WriteWords, Goto, saves, screen, table, run, ScreenTypes,
        TableTypes, FlagRows, NoFlags
<1>13. ASSUME NEW e \in Edits, WordDone(e) PROVE ScreenTypes'
  BY <1>13 DEF WordDone, End, Goto, Invalidate, saves, screen, table, run,
        ScreenTypes, TableTypes, FlagRows, NoFlags
<1>14. ASSUME NEW e \in Edits, GetCustomSources(e) PROVE ScreenTypes'
  BY <1>14 DEF GetCustomSources, Goto, saves, screen, table, run, ScreenTypes,
        TableTypes, FlagRows, NoFlags
<1>15. ASSUME NEW e \in Edits, CountSources(e) PROVE ScreenTypes'
  BY <1>15 DEF CountSources, Goto, saves, screen, table, run, ScreenTypes,
        TableTypes, FlagRows, NoFlags
<1>16. ASSUME NEW e \in Edits, PutSources(e) PROVE ScreenTypes'
  BY <1>16 DEF PutSources, End, Goto, ListExtended, saves, screen, table, run,
        ScreenTypes, TableTypes, FlagRows, NoFlags
<1>17. ASSUME NEW e \in Edits, DatabaseBusy(e) PROVE ScreenTypes'
  BY <1>17 DEF DatabaseBusy, End, Goto, saves, screen, table, run,
        ScreenTypes, TableTypes, FlagRows, NoFlags
<1>18. ASSUME RefreshButton PROVE ScreenTypes'
  BY <1>18 DEF RefreshButton, Invalidate, saves, screen, table, run,
        ScreenTypes, TableTypes, FlagRows, NoFlags
<1>19. ASSUME GetAllAsMap PROVE ScreenTypes'
  BY <1>19 DEF GetAllAsMap, saves, screen, table, run, ScreenTypes,
        TableTypes, FlagRows, NoFlags
<1>20. ASSUME Show PROVE ScreenTypes'
  BY <1>20 DEF Show, saves, screen, table, run, ScreenTypes, TableTypes,
        FlagRows, NoFlags
<1>21. ASSUME Reopen PROVE ScreenTypes'
  BY <1>21 DEF Reopen, saves, screen, table, run, ScreenTypes, TableTypes,
        FlagRows, NoFlags
<1>22. ASSUME NEW r \in Runs, Start(r) PROVE ScreenTypes'
  BY <1>22 DEF Start, saves, screen, table, run, ScreenTypes, TableTypes,
        FlagRows, NoFlags
<1>23. ASSUME NEW r \in Runs, LoadEnv(r) PROVE ScreenTypes'
  BY <1>23 DEF LoadEnv, Load, Overridden, saves, screen, table, run,
        ScreenTypes, TableTypes, FlagRows, NoFlags
<1>24. ASSUME NEW r \in Runs, Migrate(r) PROVE ScreenTypes'
  BY <1>24 DEF Migrate, Seeded, saves, screen, table, run, ScreenTypes,
        TableTypes, FlagRows, NoFlags
<1>25. ASSUME NEW r \in Runs, ReloadEnv(r) PROVE ScreenTypes'
  BY <1>25 DEF ReloadEnv, Load, Overridden, saves, screen, table, run,
        ScreenTypes, TableTypes, FlagRows, NoFlags
<1>26. ASSUME NEW r \in Runs, ApplyFilterConfig(r) PROVE ScreenTypes'
  BY <1>26 DEF ApplyFilterConfig, saves, screen, table, run, ScreenTypes,
        TableTypes, FlagRows, NoFlags
<1>27. ASSUME NEW r \in Runs, Exit(r) PROVE ScreenTypes'
  BY <1>27 DEF Exit, saves, screen, table, run, ScreenTypes, TableTypes,
        FlagRows, NoFlags
<1>28. CASE UNCHANGED settingsVars
  BY <1>28 DEF settingsVars, saves, screen, table, run, ScreenTypes, TableTypes,
        FlagRows, NoFlags
<1> QED
  BY <1>1, <1>2, <1>3, <1>4, <1>5, <1>6, <1>7, <1>8, <1>9, <1>10, <1>11,
     <1>12, <1>13, <1>14, <1>15, <1>16, <1>17, <1>18, <1>19, <1>20, <1>21,
     <1>22, <1>23, <1>24, <1>25, <1>26, <1>27, <1>28 DEF SettingsNext, AppStep,
     SaveStep, RunStep

(* Every step keeps the fields of the runs typed.                          *)
LEMMA RunTypesStep ==
    ASSUME SettingsTypeOK, [SettingsNext]_settingsVars
    PROVE  RunTypes'
<1> USE DEF SettingsTypeOK
<1>a. UNION blacklist \subseteq Words /\ UNION custom \subseteq StoredSources
  BY ListTypes
<1>b. RunsFile \in EnvFile
  BY DEF RunsFile
<1>1. ASSUME NEW e \in Edits, NEW k \in EnvKeys, NEW v \in EnvValues, SaveToken(e, k, v) PROVE RunTypes'
  BY <1>1 DEF SaveToken, BeginSave, Goto, saves, screen, table, run, RunTypes
<1>2. ASSUME NEW e \in Edits, NEW f \in Flags, NEW v \in FlagValues, SetFlag(e, f, v) PROVE RunTypes'
  BY <1>2 DEF SetFlag, BeginSave, Goto, saves, screen, table, run, RunTypes
<1>3. ASSUME NEW e \in Edits, NEW w \in Words, AddWord(e, w) PROVE RunTypes'
  BY <1>3 DEF AddWord, BeginSave, Goto, saves, screen, table, run, RunTypes
<1>4. ASSUME NEW e \in Edits, NEW s \in NewSources, AddSource(e, s) PROVE RunTypes'
  BY <1>4 DEF AddSource, BeginSave, Goto, saves, screen, table, run, RunTypes
<1>5. ASSUME NEW e \in Edits, WriteKeychain(e) PROVE RunTypes'
  BY <1>5 DEF WriteKeychain, End, Goto, saves, screen, table, run, RunTypes
<1>6. ASSUME NEW e \in Edits, ReadEnv(e) PROVE RunTypes'
  BY <1>6 DEF ReadEnv, Goto, saves, screen, table, run, RunTypes
<1>7. ASSUME NEW e \in Edits, OpenEnv(e) PROVE RunTypes'
  BY <1>7 DEF OpenEnv, End, Goto, saves, screen, table, run, RunTypes
<1>8. ASSUME NEW e \in Edits, WriteEnv(e) PROVE RunTypes'
  BY <1>8 DEF WriteEnv, End, Goto, Replaced, saves, screen, table, run,
        RunTypes
<1>9. ASSUME NEW e \in Edits, UpdateValue(e) PROVE RunTypes'
  BY <1>9 DEF UpdateValue, Goto, saves, screen, table, run, RunTypes
<1>10. ASSUME NEW e \in Edits, FlagDone(e) PROVE RunTypes'
  BY <1>10 DEF FlagDone, End, Goto, Invalidate, saves, screen, table, run,
        RunTypes
<1>11. ASSUME NEW e \in Edits, ReadWords(e) PROVE RunTypes'
  BY <1>11 DEF ReadWords, Goto, saves, screen, table, run, RunTypes
<1>12. ASSUME NEW e \in Edits, WriteWords(e) PROVE RunTypes'
  BY <1>12 DEF WriteWords, Goto, saves, screen, table, run, RunTypes
<1>13. ASSUME NEW e \in Edits, WordDone(e) PROVE RunTypes'
  BY <1>13 DEF WordDone, End, Goto, Invalidate, saves, screen, table, run,
        RunTypes
<1>14. ASSUME NEW e \in Edits, GetCustomSources(e) PROVE RunTypes'
  BY <1>14 DEF GetCustomSources, Goto, saves, screen, table, run, RunTypes
<1>15. ASSUME NEW e \in Edits, CountSources(e) PROVE RunTypes'
  BY <1>15 DEF CountSources, Goto, saves, screen, table, run, RunTypes
<1>16. ASSUME NEW e \in Edits, PutSources(e) PROVE RunTypes'
  BY <1>16 DEF PutSources, End, Goto, ListExtended, saves, screen, table, run,
        RunTypes
<1>17. ASSUME NEW e \in Edits, DatabaseBusy(e) PROVE RunTypes'
  BY <1>17 DEF DatabaseBusy, End, Goto, saves, screen, table, run, RunTypes
<1>18. ASSUME RefreshButton PROVE RunTypes'
  BY <1>18 DEF RefreshButton, Invalidate, saves, screen, table, run, RunTypes
<1>19. ASSUME GetAllAsMap PROVE RunTypes'
  BY <1>19 DEF GetAllAsMap, saves, screen, table, run, RunTypes
<1>20. ASSUME Show PROVE RunTypes'
  BY <1>20 DEF Show, saves, screen, table, run, RunTypes
<1>21. ASSUME Reopen PROVE RunTypes'
  BY <1>21 DEF Reopen, saves, screen, table, run, RunTypes
<1>22. ASSUME NEW r \in Runs, Start(r) PROVE RunTypes'
  BY <1>22 DEF Start, saves, screen, table, run, RunTypes
<1>23. ASSUME NEW r \in Runs, LoadEnv(r) PROVE RunTypes'
  BY <1>23, <1>b DEF LoadEnv, Load, Overridden, RunTypes, EnvFile
<1>24. ASSUME NEW r \in Runs, Migrate(r) PROVE RunTypes'
  BY <1>24 DEF Migrate, Seeded, saves, screen, table, run, RunTypes
<1>25. ASSUME NEW r \in Runs, ReloadEnv(r) PROVE RunTypes'
  BY <1>25, <1>b DEF ReloadEnv, Load, Overridden, RunTypes, EnvFile
<1>26. ASSUME NEW r \in Runs, ApplyFilterConfig(r) PROVE RunTypes'
  <2>1. MergeCustomSources(UNION custom) \subseteq NewSources
    <3>1. ASSUME NEW x \in UNION custom PROVE x.name \in NewSources
      <4>1. PICK s \in NewSources : x = [name |-> s, source_id |-> ""]
        BY <1>a DEF StoredSources, StoredSource
      <4> QED
        BY <4>1
    <3> QED
      BY <3>1 DEF MergeCustomSources
  <2> QED
    BY <1>26, <2>1, <1>a DEF ApplyFilterConfig, RunTypes
<1>27. ASSUME NEW r \in Runs, Exit(r) PROVE RunTypes'
  BY <1>27 DEF Exit, RunTypes, EnvFile, NoFile, NoConfig
<1>28. CASE UNCHANGED settingsVars
  BY <1>28 DEF settingsVars, saves, screen, table, run, RunTypes
<1> QED
  BY <1>1, <1>2, <1>3, <1>4, <1>5, <1>6, <1>7, <1>8, <1>9, <1>10, <1>11,
     <1>12, <1>13, <1>14, <1>15, <1>16, <1>17, <1>18, <1>19, <1>20, <1>21,
     <1>22, <1>23, <1>24, <1>25, <1>26, <1>27, <1>28 DEF SettingsNext, AppStep,
     SaveStep, RunStep

(* Every step keeps the rest typed.                                        *)
LEMMA OtherTypesStep ==
    ASSUME SettingsTypeOK, [SettingsNext]_settingsVars
    PROVE  /\ env' \in EnvFile
           /\ keychain' \in EnvFile
           /\ told' \subseteq Words \cup NewSources
           /\ mishaps' \subseteq {"overlap", "half", "file", "list"}
<1> USE DEF SettingsTypeOK
<1> DEFINE Goal == /\ env' \in EnvFile
                   /\ keychain' \in EnvFile
                   /\ told' \subseteq Words \cup NewSources
                   /\ mishaps' \subseteq {"overlap", "half", "file", "list"}
<1> SUFFICES Goal
  OBVIOUS
<1>1. ASSUME NEW e \in Edits, NEW k \in EnvKeys, NEW v \in EnvValues, SaveToken(e, k, v) PROVE Goal
  BY <1>1 DEF SaveToken, BeginSave, saves, screen, table, run
<1>2. ASSUME NEW e \in Edits, NEW f \in Flags, NEW v \in FlagValues, SetFlag(e, f, v) PROVE Goal
  BY <1>2 DEF SetFlag, BeginSave, Among, table, screen, run
<1>3. ASSUME NEW e \in Edits, NEW w \in Words, AddWord(e, w) PROVE Goal
  BY <1>3 DEF AddWord, BeginSave, Among, table, screen, run
<1>4. ASSUME NEW e \in Edits, NEW s \in NewSources, AddSource(e, s) PROVE Goal
  BY <1>4 DEF AddSource, BeginSave, saves, screen, table, run
<1>5. ASSUME NEW e \in Edits, WriteKeychain(e) PROVE Goal
  <2>1. saveStage[e] \in TokenStages
    BY <1>5 DEF WriteKeychain, TokenStages
  <2>2. value[e] \in EnvValues
    BY <2>1 DEF SaveTypes, SubjectFits
  <2> QED
    BY <1>5, <2>2 DEF WriteKeychain, EnvFile
<1>6. ASSUME NEW e \in Edits, ReadEnv(e) PROVE Goal
  BY <1>6 DEF ReadEnv, saves, screen, table, run
<1>7. ASSUME NEW e \in Edits, OpenEnv(e) PROVE Goal
  BY <1>7 DEF OpenEnv, NoFile, EnvFile
<1>8. ASSUME NEW e \in Edits, WriteEnv(e) PROVE Goal
  <2>1. saveStage[e] \in TokenStages
    BY <1>8 DEF WriteEnv, TokenStages
  <2>2. value[e] \in EnvValues /\ file[e] \in EnvFile
    BY <2>1 DEF SaveTypes, SubjectFits
  <2> QED
    BY <1>8, <2>2 DEF WriteEnv, Replaced, EnvFile
<1>9. ASSUME NEW e \in Edits, UpdateValue(e) PROVE Goal
  BY <1>9 DEF UpdateValue, saves, screen, table, run
<1>10. ASSUME NEW e \in Edits, FlagDone(e) PROVE Goal
  BY <1>10 DEF FlagDone, Invalidate, saves, screen, table, run
<1>11. ASSUME NEW e \in Edits, ReadWords(e) PROVE Goal
  BY <1>11 DEF ReadWords, saves, screen, table, run
<1>12. ASSUME NEW e \in Edits, WriteWords(e) PROVE Goal
  BY <1>12 DEF WriteWords, saves, screen, table, run
<1>13. ASSUME NEW e \in Edits, WordDone(e) PROVE Goal
  <2>1. saveStage[e] \in WordStages
    BY <1>13 DEF WordDone, WordStages
  <2>2. subject[e] \in Words
    BY <2>1 DEF SaveTypes, SubjectFits
  <2> QED
    BY <1>13, <2>2 DEF WordDone
<1>14. ASSUME NEW e \in Edits, GetCustomSources(e) PROVE Goal
  BY <1>14 DEF GetCustomSources, saves, screen, table, run
<1>15. ASSUME NEW e \in Edits, CountSources(e) PROVE Goal
  BY <1>15 DEF CountSources, saves, screen, table, run
<1>16. ASSUME NEW e \in Edits, PutSources(e) PROVE Goal
  <2>1. saveStage[e] \in SourceStages
    BY <1>16 DEF PutSources, SourceStages
  <2>2. subject[e] \in NewSources
    BY <2>1 DEF SaveTypes, SubjectFits
  <2> QED
    BY <1>16, <2>2 DEF PutSources
<1>17. ASSUME NEW e \in Edits, DatabaseBusy(e) PROVE Goal
  BY <1>17 DEF DatabaseBusy, saves, screen, table, run
<1>18. ASSUME RefreshButton PROVE Goal
  BY <1>18 DEF RefreshButton, Invalidate, saves, screen, table, run
<1>19. ASSUME GetAllAsMap PROVE Goal
  BY <1>19 DEF GetAllAsMap, saves, screen, table, run
<1>20. ASSUME Show PROVE Goal
  BY <1>20 DEF Show, saves, screen, table, run
<1>21. ASSUME Reopen PROVE Goal
  BY <1>21 DEF Reopen, saves, screen, table, run
<1>22. ASSUME NEW r \in Runs, Start(r) PROVE Goal
  BY <1>22 DEF Start, saves, screen, table, run
<1>23. ASSUME NEW r \in Runs, LoadEnv(r) PROVE Goal
  BY <1>23 DEF LoadEnv, Load, Overridden, saves, screen, table, run
<1>24. ASSUME NEW r \in Runs, Migrate(r) PROVE Goal
  BY <1>24 DEF Migrate, Seeded, saves, screen, table, run
<1>25. ASSUME NEW r \in Runs, ReloadEnv(r) PROVE Goal
  BY <1>25 DEF ReloadEnv, Load, Overridden, saves, screen, table, run
<1>26. ASSUME NEW r \in Runs, ApplyFilterConfig(r) PROVE Goal
  BY <1>26 DEF ApplyFilterConfig, saves, screen, table, run
<1>27. ASSUME NEW r \in Runs, Exit(r) PROVE Goal
  BY <1>27 DEF Exit, saves, screen, table, run
<1>28. CASE UNCHANGED settingsVars
  BY <1>28 DEF settingsVars, saves, screen, table, run
<1> QED
  BY <1>1, <1>2, <1>3, <1>4, <1>5, <1>6, <1>7, <1>8, <1>9, <1>10, <1>11,
     <1>12, <1>13, <1>14, <1>15, <1>16, <1>17, <1>18, <1>19, <1>20, <1>21,
     <1>22, <1>23, <1>24, <1>25, <1>26, <1>27, <1>28 DEF SettingsNext, AppStep,
     SaveStep, RunStep

(* The types hold whatever is saved, closed or run. *)
THEOREM SettingsTypeCorrect == SettingsSpec => []SettingsTypeOK
<1>1. SettingsInit => SettingsTypeOK
  BY DefaultAssumption, MaxSavesAssumption
     DEF SettingsInit, SettingsTypeOK, TableTypes, SaveTypes, ScreenTypes, RunTypes, EnvFile,
         FlagRows, NoFile, NoFlags, NoConfig, SubjectFits, Stages, TokenStages,
         SourceStages, WordStages, FlagStages
<1>2. SettingsTypeOK /\ [SettingsNext]_settingsVars => SettingsTypeOK'
  <2>1. [SettingsNext]_settingsVars => UNCHANGED <<elsewhere, theirs>>
    BY DEF SettingsNext, settingsVars
  <2> QED
    BY <2>1, SaveTypesStep, TableTypesStep, ScreenTypesStep, RunTypesStep, OtherTypesStep
       DEF SettingsTypeOK
<1> QED
  BY <1>1, <1>2, PTL DEF SettingsSpec

(* The environment only grows.                                             *)
LEMMA RunSafeStep ==
    ASSUME SettingsTypeOK, RunSafe, [SettingsNext]_settingsVars
    PROVE  RunSafe'
<1> USE DEF SettingsTypeOK
<1>1. ASSUME NEW e \in Edits, NEW k \in EnvKeys, NEW v \in EnvValues, SaveToken(e, k, v) PROVE RunSafe'
  BY <1>1 DEF SaveToken, BeginSave, saves, screen, table, run, RunSafe, RunTypes
<1>2. ASSUME NEW e \in Edits, NEW f \in Flags, NEW v \in FlagValues, SetFlag(e, f, v) PROVE RunSafe'
  BY <1>2 DEF SetFlag, BeginSave, saves, screen, table, run, RunSafe, RunTypes
<1>3. ASSUME NEW e \in Edits, NEW w \in Words, AddWord(e, w) PROVE RunSafe'
  BY <1>3 DEF AddWord, BeginSave, saves, screen, table, run, RunSafe, RunTypes
<1>4. ASSUME NEW e \in Edits, NEW s \in NewSources, AddSource(e, s) PROVE RunSafe'
  BY <1>4 DEF AddSource, BeginSave, saves, screen, table, run, RunSafe, RunTypes
<1>5. ASSUME NEW e \in Edits, WriteKeychain(e) PROVE RunSafe'
  BY <1>5 DEF WriteKeychain, saves, screen, table, run, RunSafe, RunTypes
<1>6. ASSUME NEW e \in Edits, ReadEnv(e) PROVE RunSafe'
  BY <1>6 DEF ReadEnv, saves, screen, table, run, RunSafe, RunTypes
<1>7. ASSUME NEW e \in Edits, OpenEnv(e) PROVE RunSafe'
  BY <1>7 DEF OpenEnv, saves, screen, table, run, RunSafe, RunTypes
<1>8. ASSUME NEW e \in Edits, WriteEnv(e) PROVE RunSafe'
  BY <1>8 DEF WriteEnv, Replaced, saves, screen, table, run, RunSafe, RunTypes
<1>9. ASSUME NEW e \in Edits, UpdateValue(e) PROVE RunSafe'
  BY <1>9 DEF UpdateValue, saves, screen, table, run, RunSafe, RunTypes
<1>10. ASSUME NEW e \in Edits, FlagDone(e) PROVE RunSafe'
  BY <1>10 DEF FlagDone, Invalidate, saves, screen, table, run, RunSafe,
        RunTypes
<1>11. ASSUME NEW e \in Edits, ReadWords(e) PROVE RunSafe'
  BY <1>11 DEF ReadWords, saves, screen, table, run, RunSafe, RunTypes
<1>12. ASSUME NEW e \in Edits, WriteWords(e) PROVE RunSafe'
  BY <1>12 DEF WriteWords, saves, screen, table, run, RunSafe, RunTypes
<1>13. ASSUME NEW e \in Edits, WordDone(e) PROVE RunSafe'
  BY <1>13 DEF WordDone, Invalidate, saves, screen, table, run, RunSafe,
        RunTypes
<1>14. ASSUME NEW e \in Edits, GetCustomSources(e) PROVE RunSafe'
  BY <1>14 DEF GetCustomSources, saves, screen, table, run, RunSafe, RunTypes
<1>15. ASSUME NEW e \in Edits, CountSources(e) PROVE RunSafe'
  BY <1>15 DEF CountSources, saves, screen, table, run, RunSafe, RunTypes
<1>16. ASSUME NEW e \in Edits, PutSources(e) PROVE RunSafe'
  BY <1>16 DEF PutSources, ListExtended, saves, screen, table, run, RunSafe,
        RunTypes
<1>17. ASSUME NEW e \in Edits, DatabaseBusy(e) PROVE RunSafe'
  BY <1>17 DEF DatabaseBusy, saves, screen, table, run, RunSafe, RunTypes
<1>18. ASSUME RefreshButton PROVE RunSafe'
  BY <1>18 DEF RefreshButton, Invalidate, saves, screen, table, run, RunSafe,
        RunTypes
<1>19. ASSUME GetAllAsMap PROVE RunSafe'
  BY <1>19 DEF GetAllAsMap, saves, screen, table, run, RunSafe, RunTypes
<1>20. ASSUME Show PROVE RunSafe'
  BY <1>20 DEF Show, saves, screen, table, run, RunSafe, RunTypes
<1>21. ASSUME Reopen PROVE RunSafe'
  BY <1>21 DEF Reopen, saves, screen, table, run, RunSafe, RunTypes
<1>22. ASSUME NEW r \in Runs, Start(r) PROVE RunSafe'
  BY <1>22 DEF Start, saves, screen, table, run, RunSafe, RunTypes
<1>23. ASSUME NEW r \in Runs, LoadEnv(r) PROVE RunSafe'
  BY <1>23 DEF LoadEnv, Load, saves, screen, table, run, RunSafe, RunTypes
<1>24. ASSUME NEW r \in Runs, Migrate(r) PROVE RunSafe'
  BY <1>24 DEF Migrate, Seeded, saves, screen, table, run, RunSafe, RunTypes
<1>25. ASSUME NEW r \in Runs, ReloadEnv(r) PROVE RunSafe'
  BY <1>25 DEF ReloadEnv, Load, saves, screen, table, run, RunSafe, RunTypes
<1>26. ASSUME NEW r \in Runs, ApplyFilterConfig(r) PROVE RunSafe'
  BY <1>26 DEF ApplyFilterConfig, saves, screen, table, run, RunSafe, RunTypes
<1>27. ASSUME NEW r \in Runs, Exit(r) PROVE RunSafe'
  BY <1>27 DEF Exit, saves, screen, table, run, RunSafe, RunTypes
<1>28. CASE UNCHANGED settingsVars
  BY <1>28 DEF settingsVars, saves, screen, table, run, RunSafe, RunTypes
<1> QED
  BY <1>1, <1>2, <1>3, <1>4, <1>5, <1>6, <1>7, <1>8, <1>9, <1>10, <1>11,
     <1>12, <1>13, <1>14, <1>15, <1>16, <1>17, <1>18, <1>19, <1>20, <1>21,
     <1>22, <1>23, <1>24, <1>25, <1>26, <1>27, <1>28 DEF SettingsNext, AppStep,
     SaveStep, RunStep

(* A change of a shown row is followed by a new query.                     *)
LEMMA ScreenSafeStep ==
    ASSUME SettingsTypeOK, ScreenSafe, [SettingsNext]_settingsVars
    PROVE  ScreenSafe'
<1> USE DEF SettingsTypeOK
<1>1. ASSUME NEW e \in Edits, NEW k \in EnvKeys, NEW v \in EnvValues, SaveToken(e, k, v) PROVE ScreenSafe'
  BY <1>1 DEF SaveToken, BeginSave, Goto, saves, screen, table, run, ScreenSafe,
        Among, SaveTypes
<1>2. ASSUME NEW e \in Edits, NEW f \in Flags, NEW v \in FlagValues, SetFlag(e, f, v) PROVE ScreenSafe'
  BY <1>2 DEF SetFlag, BeginSave, Goto, saves, screen, table, run, ScreenSafe,
        Among, SaveTypes
<1>3. ASSUME NEW e \in Edits, NEW w \in Words, AddWord(e, w) PROVE ScreenSafe'
  BY <1>3 DEF AddWord, BeginSave, Goto, saves, screen, table, run, ScreenSafe,
        Among, SaveTypes
<1>4. ASSUME NEW e \in Edits, NEW s \in NewSources, AddSource(e, s) PROVE ScreenSafe'
  BY <1>4 DEF AddSource, BeginSave, Goto, saves, screen, table, run, ScreenSafe,
        Among, SaveTypes
<1>5. ASSUME NEW e \in Edits, WriteKeychain(e) PROVE ScreenSafe'
  BY <1>5 DEF WriteKeychain, End, Goto, saves, screen, table, run, ScreenSafe,
        Among, SaveTypes
<1>6. ASSUME NEW e \in Edits, ReadEnv(e) PROVE ScreenSafe'
  BY <1>6 DEF ReadEnv, End, Goto, saves, screen, table, run, ScreenSafe, Among,
        SaveTypes
<1>7. ASSUME NEW e \in Edits, OpenEnv(e) PROVE ScreenSafe'
  BY <1>7 DEF OpenEnv, End, Goto, saves, screen, table, run, ScreenSafe,
        Among, SaveTypes
<1>8. ASSUME NEW e \in Edits, WriteEnv(e) PROVE ScreenSafe'
  BY <1>8 DEF WriteEnv, End, Goto, Replaced, saves, screen, table, run,
        ScreenSafe, Among, SaveTypes
<1>9. ASSUME NEW e \in Edits, UpdateValue(e) PROVE ScreenSafe'
  BY <1>9 DEF UpdateValue, Goto, saves, screen, table, run, ScreenSafe, Among,
        SaveTypes
<1>10. ASSUME NEW e \in Edits, FlagDone(e) PROVE ScreenSafe'
  BY <1>10 DEF FlagDone, End, Goto, Invalidate, saves, screen, table, run,
        ScreenSafe, Among, SaveTypes
<1>11. ASSUME NEW e \in Edits, ReadWords(e) PROVE ScreenSafe'
  BY <1>11 DEF ReadWords, Goto, saves, screen, table, run, ScreenSafe, Among,
        SaveTypes
<1>12. ASSUME NEW e \in Edits, WriteWords(e) PROVE ScreenSafe'
  BY <1>12 DEF WriteWords, Goto, saves, screen, table, run, ScreenSafe, Among,
        SaveTypes
<1>13. ASSUME NEW e \in Edits, WordDone(e) PROVE ScreenSafe'
  BY <1>13 DEF WordDone, End, Goto, Invalidate, saves, screen, table, run,
        ScreenSafe, Among, SaveTypes
<1>14. ASSUME NEW e \in Edits, GetCustomSources(e) PROVE ScreenSafe'
  BY <1>14 DEF GetCustomSources, Goto, saves, screen, table, run, ScreenSafe,
        Among, SaveTypes
<1>15. ASSUME NEW e \in Edits, CountSources(e) PROVE ScreenSafe'
  BY <1>15 DEF CountSources, Goto, saves, screen, table, run, ScreenSafe,
        Among, SaveTypes
<1>16. ASSUME NEW e \in Edits, PutSources(e) PROVE ScreenSafe'
  BY <1>16 DEF PutSources, End, Goto, ListExtended, saves, screen, table, run,
        ScreenSafe, Among, SaveTypes
<1>17. ASSUME NEW e \in Edits, DatabaseBusy(e) PROVE ScreenSafe'
  BY <1>17 DEF DatabaseBusy, End, Goto, saves, screen, table, run, ScreenSafe,
        Among, SaveTypes
<1>18. ASSUME RefreshButton PROVE ScreenSafe'
  BY <1>18 DEF RefreshButton, Invalidate, saves, screen, table, run,
        ScreenSafe, Among, SaveTypes
<1>19. ASSUME GetAllAsMap PROVE ScreenSafe'
  BY <1>19 DEF GetAllAsMap, saves, screen, table, run, ScreenSafe, Among,
        SaveTypes
<1>20. ASSUME Show PROVE ScreenSafe'
  BY <1>20 DEF Show, saves, screen, table, run, ScreenSafe, Among, SaveTypes
<1>21. ASSUME Reopen PROVE ScreenSafe'
  BY <1>21 DEF Reopen, saves, screen, table, run, ScreenSafe, Among, SaveTypes
<1>22. ASSUME NEW r \in Runs, Start(r) PROVE ScreenSafe'
  BY <1>22 DEF Start, saves, screen, table, run, ScreenSafe, Among, SaveTypes
<1>23. ASSUME NEW r \in Runs, LoadEnv(r) PROVE ScreenSafe'
  BY <1>23 DEF LoadEnv, Load, Overridden, saves, screen, table, run,
        ScreenSafe, Among, SaveTypes
<1>24. ASSUME NEW r \in Runs, Migrate(r) PROVE ScreenSafe'
  BY <1>24 DEF Migrate, Seeded, saves, screen, table, run, ScreenSafe, Among,
        SaveTypes
<1>25. ASSUME NEW r \in Runs, ReloadEnv(r) PROVE ScreenSafe'
  BY <1>25 DEF ReloadEnv, Load, Overridden, saves, screen, table, run,
        ScreenSafe, Among, SaveTypes
<1>26. ASSUME NEW r \in Runs, ApplyFilterConfig(r) PROVE ScreenSafe'
  BY <1>26 DEF ApplyFilterConfig, saves, screen, table, run, ScreenSafe,
        Among, SaveTypes
<1>27. ASSUME NEW r \in Runs, Exit(r) PROVE ScreenSafe'
  BY <1>27 DEF Exit, saves, screen, table, run, ScreenSafe, Among, SaveTypes
<1>28. CASE UNCHANGED settingsVars
  BY <1>28 DEF settingsVars, saves, screen, table, run, ScreenSafe, Among, SaveTypes
<1> QED
  BY <1>1, <1>2, <1>3, <1>4, <1>5, <1>6, <1>7, <1>8, <1>9, <1>10, <1>11,
     <1>12, <1>13, <1>14, <1>15, <1>16, <1>17, <1>18, <1>19, <1>20, <1>21,
     <1>22, <1>23, <1>24, <1>25, <1>26, <1>27, <1>28 DEF SettingsNext, AppStep,
     SaveStep, RunStep

(* One addition at a time writes back what it read.                        *)
LEMMA SourceSafeStep ==
    ASSUME SettingsTypeOK, SourceSafe, [SettingsNext]_settingsVars
    PROVE  SourceSafe'
<1> USE DEF SettingsTypeOK
<1>1. ASSUME NEW e \in Edits, NEW k \in EnvKeys, NEW v \in EnvValues, SaveToken(e, k, v) PROVE SourceSafe'
  BY <1>1 DEF SaveToken, BeginSave, Goto, saves, screen, table, run, SourceSafe,
        Alone, SaveTypes, SourceStages
<1>2. ASSUME NEW e \in Edits, NEW f \in Flags, NEW v \in FlagValues, SetFlag(e, f, v) PROVE SourceSafe'
  BY <1>2 DEF SetFlag, BeginSave, Goto, saves, screen, table, run, SourceSafe,
        Alone, SaveTypes, SourceStages
<1>3. ASSUME NEW e \in Edits, NEW w \in Words, AddWord(e, w) PROVE SourceSafe'
  BY <1>3 DEF AddWord, BeginSave, Goto, saves, screen, table, run, SourceSafe,
        Alone, SaveTypes, SourceStages
<1>4. ASSUME NEW e \in Edits, NEW s \in NewSources, AddSource(e, s) PROVE SourceSafe'
  <2>1. CASE Among(SourceStages)
    BY <1>4, <2>1 DEF AddSource, BeginSave, SourceSafe
  <2>2. CASE ~Among(SourceStages)
    <3>1. \A d \in Edits : saveStage'[d] \in SourceStages => d = e /\ saveStage'[d] = "readSources"
      BY <1>4, <2>2 DEF AddSource, BeginSave, Goto, Among, SaveTypes
    <3>2. mishaps' = mishaps /\ custom' = custom /\ told' = told
      BY <1>4, <2>2 DEF AddSource, BeginSave, table
    <3> QED
      BY <3>1, <3>2 DEF SourceSafe, Alone
  <2> QED
    BY <2>1, <2>2
<1>5. ASSUME NEW e \in Edits, WriteKeychain(e) PROVE SourceSafe'
  BY <1>5 DEF WriteKeychain, End, Goto, saves, screen, table, run, SourceSafe,
        Alone, SaveTypes, SourceStages
<1>6. ASSUME NEW e \in Edits, ReadEnv(e) PROVE SourceSafe'
  BY <1>6 DEF ReadEnv, End, Goto, saves, screen, table, run, SourceSafe, Alone,
        SaveTypes, SourceStages
<1>7. ASSUME NEW e \in Edits, OpenEnv(e) PROVE SourceSafe'
  BY <1>7 DEF OpenEnv, End, Goto, saves, screen, table, run, SourceSafe,
        Alone, SaveTypes, SourceStages
<1>8. ASSUME NEW e \in Edits, WriteEnv(e) PROVE SourceSafe'
  BY <1>8 DEF WriteEnv, End, Goto, Replaced, saves, screen, table, run,
        SourceSafe, Alone, SaveTypes, SourceStages
<1>9. ASSUME NEW e \in Edits, UpdateValue(e) PROVE SourceSafe'
  BY <1>9 DEF UpdateValue, Goto, saves, screen, table, run, SourceSafe, Alone,
        SaveTypes, SourceStages
<1>10. ASSUME NEW e \in Edits, FlagDone(e) PROVE SourceSafe'
  BY <1>10 DEF FlagDone, End, Goto, Invalidate, saves, screen, table, run,
        SourceSafe, Alone, SaveTypes, SourceStages
<1>11. ASSUME NEW e \in Edits, ReadWords(e) PROVE SourceSafe'
  BY <1>11 DEF ReadWords, Goto, saves, screen, table, run, SourceSafe, Alone,
        SaveTypes, SourceStages
<1>12. ASSUME NEW e \in Edits, WriteWords(e) PROVE SourceSafe'
  BY <1>12 DEF WriteWords, Goto, saves, screen, table, run, SourceSafe, Alone,
        SaveTypes, SourceStages
<1>13. ASSUME NEW e \in Edits, WordDone(e) PROVE SourceSafe'
  <2>1. saveStage[e] \in WordStages
    BY <1>13 DEF WordDone, WordStages
  <2>2. subject[e] \in Words
    BY <2>1 DEF SaveTypes, SubjectFits
  <2>3. told' \cap NewSources = told \cap NewSources
    BY <1>13, <2>2, WordsAssumption DEF WordDone
  <2>4. /\ mishaps' = mishaps /\ custom' = custom
        /\ \A d \in Edits : saveStage'[d] \in SourceStages => saveStage'[d] = saveStage[d] /\ list'[d] = list[d]
    BY <1>13 DEF WordDone, End, Goto, table, SaveTypes, SourceStages
  <2> QED
    BY <2>3, <2>4 DEF SourceSafe, Alone
<1>14. ASSUME NEW e \in Edits, GetCustomSources(e) PROVE SourceSafe'
  BY <1>14 DEF GetCustomSources, Goto, saves, screen, table, run, SourceSafe,
        Alone, SaveTypes, SourceStages
<1>15. ASSUME NEW e \in Edits, CountSources(e) PROVE SourceSafe'
  BY <1>15 DEF CountSources, Goto, saves, screen, table, run, SourceSafe,
        Alone, SaveTypes, SourceStages
<1>16. ASSUME NEW e \in Edits, PutSources(e) PROVE SourceSafe'
  <2> SUFFICES ASSUME "list" \notin mishaps PROVE SourceSafe'
    BY <1>16 DEF PutSources, SourceSafe
  <2>1. saveStage[e] \in SourceStages \ {"readSources"}
    BY <1>16 DEF PutSources, SourceStages
  <2>2. list[e] = UNION custom
    BY <2>1 DEF SourceSafe
  <2>3. \A d \in Edits : saveStage'[d] \notin SourceStages
    <3>1. ASSUME NEW d \in Edits, d # e PROVE saveStage'[d] = saveStage[d] /\ saveStage[d] \notin SourceStages
      BY <1>16, <2>1, <3>1 DEF PutSources, End, Goto, SaveTypes, SourceSafe, Alone
    <3>2. saveStage'[e] = "idle"
      BY <1>16 DEF PutSources, End, Goto, SaveTypes
    <3> QED
      BY <3>1, <3>2 DEF SourceStages
  <2>4. \A s \in told \cap NewSources : StoredSource(s) \in UNION custom
    BY DEF SourceSafe
  <2>5. \A s \in told' \cap NewSources : StoredSource(s) \in UNION custom'
    <3>1. CASE custom' = custom /\ told' = told
      BY <2>4, <3>1
    <3>2. CASE /\ custom' = {ListExtended(list[e], subject[e])}
               /\ told' = told \cup {subject[e]}
      <4>1. UNION custom' = ListExtended(list[e], subject[e])
        BY <3>2
      <4>2. ListExtended(list[e], subject[e]) = (UNION custom) \cup {StoredSource(subject[e])}
        BY <2>2 DEF ListExtended
      <4>3. ASSUME NEW s \in told' \cap NewSources PROVE StoredSource(s) \in UNION custom'
        <5>1. CASE s = subject[e]
          BY <4>1, <4>2, <5>1
        <5>2. CASE s \in told
          BY <2>4, <4>1, <4>2, <4>3, <5>2
        <5> QED
          BY <3>2, <4>3, <5>1, <5>2
      <4> QED
        BY <4>3
    <3> QED
      BY <1>16, <3>1, <3>2 DEF PutSources
  <2> QED
    BY <2>3, <2>5 DEF SourceSafe, Alone
<1>17. ASSUME NEW e \in Edits, DatabaseBusy(e) PROVE SourceSafe'
  BY <1>17 DEF DatabaseBusy, End, Goto, saves, screen, table, run, SourceSafe,
        Alone, SaveTypes, SourceStages
<1>18. ASSUME RefreshButton PROVE SourceSafe'
  BY <1>18 DEF RefreshButton, Invalidate, saves, screen, table, run,
        SourceSafe, Alone, SaveTypes, SourceStages
<1>19. ASSUME GetAllAsMap PROVE SourceSafe'
  BY <1>19 DEF GetAllAsMap, saves, screen, table, run, SourceSafe, Alone,
        SaveTypes, SourceStages
<1>20. ASSUME Show PROVE SourceSafe'
  BY <1>20 DEF Show, saves, screen, table, run, SourceSafe, Alone, SaveTypes,
        SourceStages
<1>21. ASSUME Reopen PROVE SourceSafe'
  BY <1>21 DEF Reopen, saves, screen, table, run, SourceSafe, Alone,
        SaveTypes, SourceStages
<1>22. ASSUME NEW r \in Runs, Start(r) PROVE SourceSafe'
  BY <1>22 DEF Start, saves, screen, table, run, SourceSafe, Alone, SaveTypes,
        SourceStages
<1>23. ASSUME NEW r \in Runs, LoadEnv(r) PROVE SourceSafe'
  BY <1>23 DEF LoadEnv, Load, Overridden, saves, screen, table, run,
        SourceSafe, Alone, SaveTypes, SourceStages
<1>24. ASSUME NEW r \in Runs, Migrate(r) PROVE SourceSafe'
  BY <1>24 DEF Migrate, Seeded, saves, screen, table, run, SourceSafe, Alone,
        SaveTypes, SourceStages
<1>25. ASSUME NEW r \in Runs, ReloadEnv(r) PROVE SourceSafe'
  BY <1>25 DEF ReloadEnv, Load, Overridden, saves, screen, table, run,
        SourceSafe, Alone, SaveTypes, SourceStages
<1>26. ASSUME NEW r \in Runs, ApplyFilterConfig(r) PROVE SourceSafe'
  BY <1>26 DEF ApplyFilterConfig, saves, screen, table, run, SourceSafe,
        Alone, SaveTypes, SourceStages
<1>27. ASSUME NEW r \in Runs, Exit(r) PROVE SourceSafe'
  BY <1>27 DEF Exit, saves, screen, table, run, SourceSafe, Alone, SaveTypes,
        SourceStages
<1>28. CASE UNCHANGED settingsVars
  BY <1>28 DEF settingsVars, saves, screen, table, run, SourceSafe, Alone, SaveTypes,
        SourceStages
<1> QED
  BY <1>1, <1>2, <1>3, <1>4, <1>5, <1>6, <1>7, <1>8, <1>9, <1>10, <1>11,
     <1>12, <1>13, <1>14, <1>15, <1>16, <1>17, <1>18, <1>19, <1>20, <1>21,
     <1>22, <1>23, <1>24, <1>25, <1>26, <1>27, <1>28 DEF SettingsNext, AppStep,
     SaveStep, RunStep

(* One token save at a time writes back what it read.                      *)
LEMMA EnvSafeStep ==
    ASSUME SettingsTypeOK, EnvSafe, [SettingsNext]_settingsVars
    PROVE  EnvSafe'
<1>0. UNCHANGED <<elsewhere, theirs>>
  BY DEF SettingsNext, settingsVars
<1> USE <1>0 DEF SettingsTypeOK
<1>1. ASSUME NEW e \in Edits, NEW k \in EnvKeys, NEW v \in EnvValues, SaveToken(e, k, v) PROVE EnvSafe'
  BY <1>1 DEF SaveToken, BeginSave, Goto, saves, screen, table, run, EnvSafe,
        Alone, Among, SaveTypes, TokenStages
<1>2. ASSUME NEW e \in Edits, NEW f \in Flags, NEW v \in FlagValues, SetFlag(e, f, v) PROVE EnvSafe'
  BY <1>2 DEF SetFlag, BeginSave, Goto, saves, screen, table, run, EnvSafe, Alone,
        Among, SaveTypes, TokenStages
<1>3. ASSUME NEW e \in Edits, NEW w \in Words, AddWord(e, w) PROVE EnvSafe'
  BY <1>3 DEF AddWord, BeginSave, Goto, saves, screen, table, run, EnvSafe, Alone,
        Among, SaveTypes, TokenStages
<1>4. ASSUME NEW e \in Edits, NEW s \in NewSources, AddSource(e, s) PROVE EnvSafe'
  BY <1>4 DEF AddSource, BeginSave, Goto, saves, screen, table, run, EnvSafe,
        Alone, Among, SaveTypes, TokenStages
<1>5. ASSUME NEW e \in Edits, WriteKeychain(e) PROVE EnvSafe'
  BY <1>5 DEF WriteKeychain, End, Goto, saves, screen, table, run, EnvSafe,
        Alone, Among, SaveTypes, TokenStages
<1>6. ASSUME NEW e \in Edits, ReadEnv(e) PROVE EnvSafe'
  BY <1>6 DEF ReadEnv, End, Goto, saves, screen, table, run, EnvSafe, Alone, Among,
        SaveTypes, TokenStages
<1>7. ASSUME NEW e \in Edits, OpenEnv(e) PROVE EnvSafe'
  BY <1>7 DEF OpenEnv, End, Goto, saves, screen, table, run, EnvSafe, Alone,
        Among, SaveTypes, TokenStages
<1>8. ASSUME NEW e \in Edits, WriteEnv(e) PROVE EnvSafe'
  <2>1. saveStage[e] \in TokenStages
    BY <1>8 DEF WriteEnv, TokenStages
  <2>2. /\ subject[e] \in EnvKeys /\ value[e] \in EnvValues /\ value[e] # "none"
        /\ file[e] \in EnvFile
    BY <2>1, ValuesAssumption DEF SaveTypes, SubjectFits
  <2> SUFFICES ASSUME ~elsewhere, mishaps' \cap {"overlap", "file"} = {} PROVE EnvSafe'
    BY DEF EnvSafe
  <2>0. mishaps' = mishaps /\ env' = Replaced(file[e], subject[e], value[e])
    BY <1>8 DEF WriteEnv
  <2>3. Present(file[e])
    BY <1>8, <2>0 DEF WriteEnv, EnvSafe
  <2>4. Present(env')
    BY <2>0, <2>2, <2>3 DEF Replaced, Present, EnvFile
  <2>5. \A d \in Edits : saveStage'[d] \notin TokenStages
    <3>1. ASSUME NEW d \in Edits, d # e PROVE saveStage'[d] = saveStage[d] /\ saveStage[d] \notin TokenStages
      BY <1>8, <2>0, <2>1, <3>1 DEF WriteEnv, End, Goto, SaveTypes, EnvSafe, Alone
    <3>2. saveStage'[e] = "idle"
      BY <1>8 DEF WriteEnv, End, Goto, SaveTypes
    <3> QED
      BY <3>1, <3>2 DEF TokenStages
  <2> QED
    BY <2>4, <2>5 DEF EnvSafe, Alone, TokenStages
<1>9. ASSUME NEW e \in Edits, UpdateValue(e) PROVE EnvSafe'
  BY <1>9 DEF UpdateValue, Goto, saves, screen, table, run, EnvSafe, Alone,
        Among, SaveTypes, TokenStages
<1>10. ASSUME NEW e \in Edits, FlagDone(e) PROVE EnvSafe'
  BY <1>10 DEF FlagDone, End, Goto, Invalidate, saves, screen, table, run,
        EnvSafe, Alone, Among, SaveTypes, TokenStages
<1>11. ASSUME NEW e \in Edits, ReadWords(e) PROVE EnvSafe'
  BY <1>11 DEF ReadWords, Goto, saves, screen, table, run, EnvSafe, Alone,
        Among, SaveTypes, TokenStages
<1>12. ASSUME NEW e \in Edits, WriteWords(e) PROVE EnvSafe'
  BY <1>12 DEF WriteWords, Goto, saves, screen, table, run, EnvSafe, Alone,
        Among, SaveTypes, TokenStages
<1>13. ASSUME NEW e \in Edits, WordDone(e) PROVE EnvSafe'
  BY <1>13 DEF WordDone, End, Goto, Invalidate, saves, screen, table, run,
        EnvSafe, Alone, Among, SaveTypes, TokenStages
<1>14. ASSUME NEW e \in Edits, GetCustomSources(e) PROVE EnvSafe'
  BY <1>14 DEF GetCustomSources, Goto, saves, screen, table, run, EnvSafe,
        Alone, Among, SaveTypes, TokenStages
<1>15. ASSUME NEW e \in Edits, CountSources(e) PROVE EnvSafe'
  BY <1>15 DEF CountSources, Goto, saves, screen, table, run, EnvSafe, Alone,
        Among, SaveTypes, TokenStages
<1>16. ASSUME NEW e \in Edits, PutSources(e) PROVE EnvSafe'
  BY <1>16 DEF PutSources, End, Goto, ListExtended, saves, screen, table, run,
        EnvSafe, Alone, Among, SaveTypes, TokenStages
<1>17. ASSUME NEW e \in Edits, DatabaseBusy(e) PROVE EnvSafe'
  BY <1>17 DEF DatabaseBusy, End, Goto, saves, screen, table, run, EnvSafe,
        Alone, Among, SaveTypes, TokenStages
<1>18. ASSUME RefreshButton PROVE EnvSafe'
  BY <1>18 DEF RefreshButton, Invalidate, saves, screen, table, run, EnvSafe,
        Alone, Among, SaveTypes, TokenStages
<1>19. ASSUME GetAllAsMap PROVE EnvSafe'
  BY <1>19 DEF GetAllAsMap, saves, screen, table, run, EnvSafe, Alone, Among,
        SaveTypes, TokenStages
<1>20. ASSUME Show PROVE EnvSafe'
  BY <1>20 DEF Show, saves, screen, table, run, EnvSafe, Alone, Among,
        SaveTypes, TokenStages
<1>21. ASSUME Reopen PROVE EnvSafe'
  BY <1>21 DEF Reopen, saves, screen, table, run, EnvSafe, Alone, Among,
        SaveTypes, TokenStages
<1>22. ASSUME NEW r \in Runs, Start(r) PROVE EnvSafe'
  BY <1>22 DEF Start, saves, screen, table, run, EnvSafe, Alone, Among,
        SaveTypes, TokenStages
<1>23. ASSUME NEW r \in Runs, LoadEnv(r) PROVE EnvSafe'
  BY <1>23 DEF LoadEnv, Load, Overridden, saves, screen, table, run, EnvSafe,
        Alone, Among, SaveTypes, TokenStages
<1>24. ASSUME NEW r \in Runs, Migrate(r) PROVE EnvSafe'
  BY <1>24 DEF Migrate, Seeded, saves, screen, table, run, EnvSafe, Alone,
        Among, SaveTypes, TokenStages
<1>25. ASSUME NEW r \in Runs, ReloadEnv(r) PROVE EnvSafe'
  BY <1>25 DEF ReloadEnv, Load, Overridden, saves, screen, table, run,
        EnvSafe, Alone, Among, SaveTypes, TokenStages
<1>26. ASSUME NEW r \in Runs, ApplyFilterConfig(r) PROVE EnvSafe'
  BY <1>26 DEF ApplyFilterConfig, saves, screen, table, run, EnvSafe, Alone,
        Among, SaveTypes, TokenStages
<1>27. ASSUME NEW r \in Runs, Exit(r) PROVE EnvSafe'
  BY <1>27 DEF Exit, saves, screen, table, run, EnvSafe, Alone, Among,
        SaveTypes, TokenStages
<1>28. CASE UNCHANGED settingsVars
  BY <1>28 DEF settingsVars, saves, screen, table, run, EnvSafe, Alone, Among,
        SaveTypes, TokenStages
<1> QED
  BY <1>1, <1>2, <1>3, <1>4, <1>5, <1>6, <1>7, <1>8, <1>9, <1>10, <1>11,
     <1>12, <1>13, <1>14, <1>15, <1>16, <1>17, <1>18, <1>19, <1>20, <1>21,
     <1>22, <1>23, <1>24, <1>25, <1>26, <1>27, <1>28 DEF SettingsNext, AppStep,
     SaveStep, RunStep

(* One token save at a time brings .env up to the Keychain.                *)
LEMMA KeychainSafeStep ==
    ASSUME SettingsTypeOK, KeychainSafe, [SettingsNext]_settingsVars
    PROVE  KeychainSafe'
<1> USE DEF SettingsTypeOK
<1>1. ASSUME NEW e \in Edits, NEW k \in EnvKeys, NEW v \in EnvValues, SaveToken(e, k, v) PROVE KeychainSafe'
  BY <1>1 DEF SaveToken, BeginSave, Goto, saves, screen, table, run, KeychainSafe,
        Alone, Among, SaveTypes, TokenStages
<1>2. ASSUME NEW e \in Edits, NEW f \in Flags, NEW v \in FlagValues, SetFlag(e, f, v) PROVE KeychainSafe'
  BY <1>2 DEF SetFlag, BeginSave, Goto, saves, screen, table, run, KeychainSafe,
        Alone, Among, SaveTypes, TokenStages
<1>3. ASSUME NEW e \in Edits, NEW w \in Words, AddWord(e, w) PROVE KeychainSafe'
  BY <1>3 DEF AddWord, BeginSave, Goto, saves, screen, table, run, KeychainSafe,
        Alone, Among, SaveTypes, TokenStages
<1>4. ASSUME NEW e \in Edits, NEW s \in NewSources, AddSource(e, s) PROVE KeychainSafe'
  BY <1>4 DEF AddSource, BeginSave, Goto, saves, screen, table, run, KeychainSafe,
        Alone, Among, SaveTypes, TokenStages
<1>5. ASSUME NEW e \in Edits, WriteKeychain(e) PROVE KeychainSafe'
  <2>1. saveStage[e] \in TokenStages
    BY <1>5 DEF WriteKeychain, TokenStages
  <2>2. /\ subject[e] \in EnvKeys /\ value[e] \in EnvValues /\ value[e] # "none"
        /\ file[e] \in EnvFile
    BY <2>1, ValuesAssumption DEF SaveTypes, SubjectFits
  <2> SUFFICES ASSUME mishaps \cap {"overlap", "half"} = {} PROVE KeychainSafe'
    BY <1>5 DEF WriteKeychain, KeychainSafe
  <2>3. ASSUME NEW d \in Edits, d # e PROVE saveStage'[d] = saveStage[d] /\ saveStage[d] \notin TokenStages
    BY <1>5, <2>1, <2>3 DEF WriteKeychain, End, Goto, SaveTypes, KeychainSafe, Alone
  <2>4. \A k \in EnvKeys : keychain[k] # "none" => env[k] = keychain[k]
    BY <1>5, <2>3 DEF WriteKeychain, KeychainSafe, Among, TokenStages
  <2>5. env' = env
    BY <1>5 DEF WriteKeychain
  <2>6. CASE keychain' = keychain /\ End(e)
    <3>1. saveStage'[e] = "idle"
      BY <2>6 DEF End, Goto, SaveTypes
    <3>2. \A d \in Edits : saveStage'[d] \notin TokenStages
      BY <2>3, <3>1 DEF TokenStages
    <3> QED
      BY <2>4, <2>5, <2>6, <3>2 DEF KeychainSafe, Alone, TokenStages
  <2>7. CASE /\ keychain' = [keychain EXCEPT ![subject[e]] = value[e]]
             /\ Goto(e, "readEnv") /\ UNCHANGED <<subject, value, file, list, made>>
    <3>1. saveStage'[e] = "readEnv"
      BY <2>7 DEF Goto, SaveTypes
    <3>2. \A d \in Edits : saveStage'[d] \in TokenStages => d = e
      BY <2>3
    <3>3. keychain'[subject'[e]] = value'[e]
      BY <2>2, <2>7 DEF EnvFile
    <3>4. \A k \in EnvKeys : k # subject'[e] => keychain'[k] = keychain[k]
      BY <2>2, <2>7 DEF EnvFile
    <3> QED
      BY <2>4, <2>5, <3>1, <3>2, <3>3, <3>4 DEF KeychainSafe, Alone, TokenStages
  <2> QED
    BY <1>5, <2>6, <2>7 DEF WriteKeychain
<1>6. ASSUME NEW e \in Edits, ReadEnv(e) PROVE KeychainSafe'
  <2>1. CASE "half" \in mishaps'
    BY <2>1 DEF KeychainSafe
  <2>2. CASE "half" \notin mishaps'
    <3>1. /\ saveStage[e] = "readEnv" /\ file' = [file EXCEPT ![e] = env] /\ Goto(e, "openEnv")
          /\ UNCHANGED <<env, keychain, subject, value, mishaps>>
      BY <1>6, <2>2 DEF ReadEnv
    <3> QED
      BY <3>1 DEF Goto, KeychainSafe, Alone, Among, SaveTypes, TokenStages
  <2> QED
    BY <2>1, <2>2
<1>7. ASSUME NEW e \in Edits, OpenEnv(e) PROVE KeychainSafe'
  BY <1>7 DEF OpenEnv, End, Goto, saves, screen, table, run, KeychainSafe,
        Alone, Among, SaveTypes, TokenStages
<1>8. ASSUME NEW e \in Edits, WriteEnv(e) PROVE KeychainSafe'
  <2>1. saveStage[e] \in TokenStages
    BY <1>8 DEF WriteEnv, TokenStages
  <2>2. /\ subject[e] \in EnvKeys /\ value[e] \in EnvValues /\ value[e] # "none"
        /\ file[e] \in EnvFile
    BY <2>1, ValuesAssumption DEF SaveTypes, SubjectFits
  <2> SUFFICES ASSUME mishaps' \cap {"overlap", "half"} = {} PROVE KeychainSafe'
    BY DEF KeychainSafe
  <2>0. mishaps' = mishaps /\ env' = Replaced(file[e], subject[e], value[e])
    BY <1>8 DEF WriteEnv
  <2>3. saveStage[e] = "writeEnv"
    BY <1>8 DEF WriteEnv
  <2>4. \A d \in Edits : saveStage'[d] \notin TokenStages
    <3>1. ASSUME NEW d \in Edits, d # e PROVE saveStage'[d] = saveStage[d] /\ saveStage[d] \notin TokenStages
      BY <1>8, <2>0, <2>1, <3>1 DEF WriteEnv, End, Goto, SaveTypes, KeychainSafe, Alone
    <3>2. saveStage'[e] = "idle"
      BY <1>8 DEF WriteEnv, End, Goto, SaveTypes
    <3> QED
      BY <3>1, <3>2 DEF TokenStages
  <2>5. ASSUME NEW k \in EnvKeys, keychain[k] # "none" PROVE env'[k] = keychain[k]
    <3>1. CASE k = subject[e]
      BY <2>0, <2>2, <2>3, <3>1 DEF Replaced, KeychainSafe, EnvFile
    <3>2. CASE k # subject[e]
      BY <2>0, <2>2, <2>3, <2>5, <3>2 DEF Replaced, KeychainSafe, EnvFile
    <3> QED
      BY <3>1, <3>2
  <2>6. keychain' = keychain
    BY <1>8 DEF WriteEnv
  <2> QED
    BY <2>4, <2>5, <2>6 DEF KeychainSafe, Alone, TokenStages
<1>9. ASSUME NEW e \in Edits, UpdateValue(e) PROVE KeychainSafe'
  BY <1>9 DEF UpdateValue, Goto, saves, screen, table, run, KeychainSafe,
        Alone, Among, SaveTypes, TokenStages
<1>10. ASSUME NEW e \in Edits, FlagDone(e) PROVE KeychainSafe'
  BY <1>10 DEF FlagDone, End, Goto, Invalidate, saves, screen, table, run,
        KeychainSafe, Alone, Among, SaveTypes, TokenStages
<1>11. ASSUME NEW e \in Edits, ReadWords(e) PROVE KeychainSafe'
  BY <1>11 DEF ReadWords, Goto, saves, screen, table, run, KeychainSafe,
        Alone, Among, SaveTypes, TokenStages
<1>12. ASSUME NEW e \in Edits, WriteWords(e) PROVE KeychainSafe'
  BY <1>12 DEF WriteWords, Goto, saves, screen, table, run, KeychainSafe,
        Alone, Among, SaveTypes, TokenStages
<1>13. ASSUME NEW e \in Edits, WordDone(e) PROVE KeychainSafe'
  BY <1>13 DEF WordDone, End, Goto, Invalidate, saves, screen, table, run,
        KeychainSafe, Alone, Among, SaveTypes, TokenStages
<1>14. ASSUME NEW e \in Edits, GetCustomSources(e) PROVE KeychainSafe'
  BY <1>14 DEF GetCustomSources, Goto, saves, screen, table, run,
        KeychainSafe, Alone, Among, SaveTypes, TokenStages
<1>15. ASSUME NEW e \in Edits, CountSources(e) PROVE KeychainSafe'
  BY <1>15 DEF CountSources, Goto, saves, screen, table, run, KeychainSafe,
        Alone, Among, SaveTypes, TokenStages
<1>16. ASSUME NEW e \in Edits, PutSources(e) PROVE KeychainSafe'
  BY <1>16 DEF PutSources, End, Goto, ListExtended, saves, screen, table, run,
        KeychainSafe, Alone, Among, SaveTypes, TokenStages
<1>17. ASSUME NEW e \in Edits, DatabaseBusy(e) PROVE KeychainSafe'
  BY <1>17 DEF DatabaseBusy, End, Goto, saves, screen, table, run,
        KeychainSafe, Alone, Among, SaveTypes, TokenStages
<1>18. ASSUME RefreshButton PROVE KeychainSafe'
  BY <1>18 DEF RefreshButton, Invalidate, saves, screen, table, run,
        KeychainSafe, Alone, Among, SaveTypes, TokenStages
<1>19. ASSUME GetAllAsMap PROVE KeychainSafe'
  BY <1>19 DEF GetAllAsMap, saves, screen, table, run, KeychainSafe, Alone,
        Among, SaveTypes, TokenStages
<1>20. ASSUME Show PROVE KeychainSafe'
  BY <1>20 DEF Show, saves, screen, table, run, KeychainSafe, Alone, Among,
        SaveTypes, TokenStages
<1>21. ASSUME Reopen PROVE KeychainSafe'
  BY <1>21 DEF Reopen, saves, screen, table, run, KeychainSafe, Alone, Among,
        SaveTypes, TokenStages
<1>22. ASSUME NEW r \in Runs, Start(r) PROVE KeychainSafe'
  BY <1>22 DEF Start, saves, screen, table, run, KeychainSafe, Alone, Among,
        SaveTypes, TokenStages
<1>23. ASSUME NEW r \in Runs, LoadEnv(r) PROVE KeychainSafe'
  BY <1>23 DEF LoadEnv, Load, Overridden, saves, screen, table, run,
        KeychainSafe, Alone, Among, SaveTypes, TokenStages
<1>24. ASSUME NEW r \in Runs, Migrate(r) PROVE KeychainSafe'
  BY <1>24 DEF Migrate, Seeded, saves, screen, table, run, KeychainSafe,
        Alone, Among, SaveTypes, TokenStages
<1>25. ASSUME NEW r \in Runs, ReloadEnv(r) PROVE KeychainSafe'
  BY <1>25 DEF ReloadEnv, Load, Overridden, saves, screen, table, run,
        KeychainSafe, Alone, Among, SaveTypes, TokenStages
<1>26. ASSUME NEW r \in Runs, ApplyFilterConfig(r) PROVE KeychainSafe'
  BY <1>26 DEF ApplyFilterConfig, saves, screen, table, run, KeychainSafe,
        Alone, Among, SaveTypes, TokenStages
<1>27. ASSUME NEW r \in Runs, Exit(r) PROVE KeychainSafe'
  BY <1>27 DEF Exit, saves, screen, table, run, KeychainSafe, Alone, Among,
        SaveTypes, TokenStages
<1>28. CASE UNCHANGED settingsVars
  BY <1>28 DEF settingsVars, saves, screen, table, run, KeychainSafe, Alone, Among,
        SaveTypes, TokenStages
<1> QED
  BY <1>1, <1>2, <1>3, <1>4, <1>5, <1>6, <1>7, <1>8, <1>9, <1>10, <1>11,
     <1>12, <1>13, <1>14, <1>15, <1>16, <1>17, <1>18, <1>19, <1>20, <1>21,
     <1>22, <1>23, <1>24, <1>25, <1>26, <1>27, <1>28 DEF SettingsNext, AppStep,
     SaveStep, RunStep

-----------------------------------------------------------------------------
(* The theorems                                                            *)

(* Between two saves of tokens .env has the keys a run cannot do without,  *)
(* however saves fail and runs interleave, unless two saves overlapped or  *)
(* the app was closed while the file was truncated.                        *)
THEOREM TokensSurvive == SettingsSpec => []NoKeyLost
<1>1. SettingsInit => EnvSafe
  BY DEF SettingsInit, EnvSafe, Alone, TokenStages, RunsFile
<1>2. SettingsTypeOK /\ EnvSafe /\ [SettingsNext]_settingsVars => EnvSafe'
  BY EnvSafeStep
<1>3. EnvSafe => NoKeyLost
  BY DEF EnvSafe, NoKeyLost, RunsFile
<1> QED
  BY <1>1, <1>2, <1>3, SettingsTypeCorrect, PTL DEF SettingsSpec

(* Keychain and .env hold the same tokens between two saves, unless saves  *)
(* overlapped or one stopped half way.                                     *)
THEOREM KeychainIsEnv == SettingsSpec => []KeychainAgrees
<1>1. SettingsInit => KeychainSafe
  BY DEF SettingsInit, KeychainSafe, Alone, TokenStages, NoFile
<1>2. SettingsTypeOK /\ KeychainSafe /\ [SettingsNext]_settingsVars => KeychainSafe'
  BY KeychainSafeStep
<1>3. KeychainSafe => KeychainAgrees
  BY DEF KeychainSafe, KeychainAgrees, Among, TokenStages
<1> QED
  BY <1>1, <1>2, <1>3, SettingsTypeCorrect, PTL DEF SettingsSpec

(* What the wizard added stays in custom_sources, unless two additions     *)
(* overlapped.                                                             *)
THEOREM SourcesSurvive == SettingsSpec => []SourcesKept
<1>1. SettingsInit => SourceSafe
  BY DEF SettingsInit, SourceSafe, Alone, SourceStages
<1>2. SettingsTypeOK /\ SourceSafe /\ [SettingsNext]_settingsVars => SourceSafe'
  BY SourceSafeStep
<1>3. SourceSafe => SourcesKept
  BY DEF SourceSafe, SourcesKept
<1> QED
  BY <1>1, <1>2, <1>3, SettingsTypeCorrect, PTL DEF SettingsSpec

(* The screen never settles on a value that a save has replaced.           *)
THEOREM ScreenIsFresh == SettingsSpec => []ShownIsFresh
<1>1. SettingsInit => ScreenSafe
  BY DEF SettingsInit, ScreenSafe
<1>2. SettingsTypeOK /\ ScreenSafe /\ [SettingsNext]_settingsVars => ScreenSafe'
  BY ScreenSafeStep
<1>3. ScreenSafe => ShownIsFresh
  BY DEF ScreenSafe, ShownIsFresh
<1> QED
  BY <1>1, <1>2, <1>3, SettingsTypeCorrect, PTL DEF SettingsSpec

(* The second load of .env fails a run that passed the first only for a    *)
(* value in the file that is no number, and never for a missing key.       *)
THEOREM SecondLoadPasses == SettingsSpec => ReloadPasses
<1>1. SettingsInit => RunSafe
  BY DEF SettingsInit, RunSafe
<1>2. SettingsTypeOK /\ RunSafe /\ [SettingsNext]_settingsVars => RunSafe'
  BY RunSafeStep
<1>3. SettingsTypeOK /\ RunSafe /\ [SettingsNext]_settingsVars =>
      [\A r \in Runs : runStage[r] = "reload" /\ runStage'[r] = "failed" =>
                           ~Parses(RunsFile)]_settingsVars
  <2> SUFFICES ASSUME SettingsTypeOK, RunSafe, SettingsNext, Parses(RunsFile),
                      NEW r \in Runs, runStage[r] = "reload"
               PROVE  runStage'[r] # "failed"
    OBVIOUS
  <2>1. Present(environ[r]) /\ Parses(environ[r])
    BY DEF RunSafe
  <2>2. CASE \E q \in Runs : RunStep(q)
    <3> PICK q \in Runs : RunStep(q)
      BY <2>2
    <3>1. CASE q # r
      BY <3>1 DEF RunStep, Start, LoadEnv, Migrate, ReloadEnv, Load,
                  ApplyFilterConfig, Exit, SettingsTypeOK, RunTypes
    <3>2. CASE q = r
      <4>1. Load(r, "reload", "filters")
        BY <3>2 DEF RunStep, Start, LoadEnv, Migrate, ReloadEnv, Load,
                    ApplyFilterConfig, Exit
      <4>2. /\ environ'[r] = Overridden(RunsFile, environ[r])
            /\ environ[r] \in EnvFile /\ RunsFile \in EnvFile
        BY <4>1 DEF Load, SettingsTypeOK, RunTypes, RunsFile
      <4>3. Present(environ'[r])
        BY <2>1, <4>2, RequiredAssumption DEF Overridden, Present, EnvFile
      <4>4. Parses(environ'[r])
        BY <2>1, <4>2 DEF Overridden, Parses, EnvFile
      <4> QED
        BY <4>1, <4>3, <4>4 DEF Load, SettingsTypeOK, RunTypes
    <3> QED
      BY <3>1, <3>2
  <2>3. CASE UNCHANGED runStage
    BY <2>3
  <2>4. SettingsNext => UNCHANGED runStage \/ \E q \in Runs : RunStep(q)
    BY DEF SettingsNext, AppStep, SaveStep, SaveToken, SetFlag, AddWord, AddSource, BeginSave,
           WriteKeychain, ReadEnv, OpenEnv, WriteEnv, UpdateValue, FlagDone,
           ReadWords, WriteWords, WordDone, GetCustomSources, CountSources,
           PutSources, DatabaseBusy, RefreshButton, GetAllAsMap, Show, Reopen, run
  <2> QED
    BY <2>2, <2>3, <2>4
<1> QED
  BY <1>1, <1>2, <1>3, SettingsTypeCorrect, PTL DEF SettingsSpec, ReloadPasses

(* A run overwrites nothing that the app has saved.                        *)
THEOREM EditsKept == SettingsSpec => EditsSurviveRuns
<1>1. SettingsTypeOK /\ [SettingsNext]_settingsVars =>
      [\A r \in Runs : runStage'[r] # runStage[r] =>
          /\ \A f \in Flags : flags[f] # "none" => flags'[f] = flags[f]
          /\ custom' = custom]_settingsVars
  <2> SUFFICES ASSUME SettingsTypeOK, SettingsNext, NEW r \in Runs, runStage'[r] # runStage[r]
               PROVE  /\ \A f \in Flags : flags[f] # "none" => flags'[f] = flags[f]
                      /\ custom' = custom
    OBVIOUS
  <2>1. SettingsNext => UNCHANGED runStage \/ \E q \in Runs : RunStep(q)
    BY DEF SettingsNext, AppStep, SaveStep, SaveToken, SetFlag, AddWord, AddSource, BeginSave,
           WriteKeychain, ReadEnv, OpenEnv, WriteEnv, UpdateValue, FlagDone,
           ReadWords, WriteWords, WordDone, GetCustomSources, CountSources,
           PutSources, DatabaseBusy, RefreshButton, GetAllAsMap, Show, Reopen, run
  <2>2. PICK q \in Runs : RunStep(q)
    BY <2>1
  <2>3. CASE Migrate(q)
    BY <2>3 DEF Migrate, Seeded
  <2>4. CASE ~Migrate(q)
    BY <2>2, <2>4 DEF RunStep, Start, LoadEnv, ReloadEnv, Load,
                      ApplyFilterConfig, Exit, table
  <2> QED
    BY <2>3, <2>4
<1> QED
  BY <1>1, SettingsTypeCorrect, PTL DEF SettingsSpec, EditsSurviveRuns
=============================================================================
