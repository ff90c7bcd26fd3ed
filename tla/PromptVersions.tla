--------------------------- MODULE PromptVersions ---------------------------
(***************************************************************************)
(* The versions of one type of prompt, of which one should be active.      *)
(*                                                                         *)
(* Two writers: the app's repository, whose two operations are statements  *)
(* awaited one after the other, and the program's store, whose operations  *)
(* are transactions.  The app's handlers overlap at every await (a second  *)
(* tap), any statement may raise, and the app may be closed.               *)
(* Versions are never deleted, and statements of other types touch none of *)
(* these rows: the id of a version is its number.                          *)
(***************************************************************************)
EXTENDS Naturals

CONSTANTS
    Editors,     \* calls of the operations, by the app or the store
    MaxVersion   \* bound: versions

ASSUME MaxVersionAssumption == MaxVersion \in Nat \ {0}

VARIABLES
    versions,   \* the numbers in the table
    active,     \* those with is_active = 1
    editPc,     \* "idle", "create", "insert", "activate", "store" or "over"
    number,     \* newVersion or next_version; the version to activate
    alone       \* history: since the last operation that began while no
                \* other was midway, none was disturbed and none failed

promptTable == <<versions, active>>
promptVars  == <<versions, active, editPc, number, alone>>

VersionIds == 1..MaxVersion

(* The seed has one version of each type, which is active.                 *)
PromptInit ==
    /\ versions = {1}
    /\ active = {1}
    /\ editPc = [e \in Editors |-> "idle"]
    /\ number = [e \in Editors |-> 0]
    /\ alone = TRUE

(* Calls that have changed the table and not ended.                        *)
Midway == {e \in Editors : editPc[e] \in {"insert", "activate"}}
EditGoto(e, stage) == editPc' = [editPc EXCEPT ![e] = stage]

(* MAX(version) + 1.                                                       *)
NextVersion == 1 + CHOOSE v \in versions : \A w \in versions : w <= v

-----------------------------------------------------------------------------
(* PromptRepository of the app                                             *)

(* createVersion: SELECT MAX(version).                                     *)
ReadMaxVersion(e) ==
    /\ editPc[e] = "idle"
    /\ NextVersion <= MaxVersion
    /\ number' = [number EXCEPT ![e] = NextVersion]
    /\ EditGoto(e, "create")
    /\ UNCHANGED <<promptTable, alone>>

(* createVersion: UPDATE ... SET is_active = 0.                            *)
DeactivateAll(e) ==
    /\ editPc[e] = "create"
    /\ active' = {}
    /\ EditGoto(e, "insert")
    /\ alone' = (Midway = {})
    /\ UNCHANGED <<versions, number>>

(* createVersion: INSERT, which raises on UNIQUE(prompt_type, version).    *)
InsertVersion(e) ==
    /\ editPc[e] = "insert"
    /\ IF number[e] \in versions
       THEN alone' = FALSE /\ UNCHANGED promptTable
       ELSE /\ versions' = versions \cup {number[e]}
            /\ active' = active \cup {number[e]}
            /\ UNCHANGED alone
    /\ EditGoto(e, "over")
    /\ UNCHANGED number

(* activate(id): the first UPDATE, which deactivates; then the second.     *)
(* Variant: the version is set beside the active one.                      *)
KeptActive == active
NoneActive == {}

DeactivateFor(e, v) ==
    /\ editPc[e] = "idle"
    /\ v \in versions
    /\ active' = NoneActive
    /\ number' = [number EXCEPT ![e] = v]
    /\ EditGoto(e, "activate")
    /\ alone' = (Midway = {})
    /\ UNCHANGED versions

SetActive(e) ==
    /\ editPc[e] = "activate"
    /\ active' = active \cup {number[e]}
    /\ EditGoto(e, "over")
    /\ UNCHANGED <<versions, number, alone>>

(* A statement raises (the database is locked), or the app is closed.      *)
EditFails(e) ==
    /\ editPc[e] \in {"create", "insert", "activate"}
    /\ EditGoto(e, "over")
    /\ alone' = (alone /\ e \notin Midway)
    /\ UNCHANGED <<promptTable, number>>

-----------------------------------------------------------------------------
(* store_prompts of the program                                            *)

(* create_version: SELECT COALESCE(MAX(version), 0), before the BEGIN.     *)
StoreReadMax(e) ==
    /\ editPc[e] = "idle"
    /\ NextVersion <= MaxVersion
    /\ number' = [number EXCEPT ![e] = NextVersion]
    /\ EditGoto(e, "store")
    /\ UNCHANGED <<promptTable, alone>>

(* create_version: one transaction, taken back when the number is taken.   *)
StoreCreate(e) ==
    /\ editPc[e] = "store"
    /\ IF number[e] \in versions
       THEN UNCHANGED <<promptTable, alone>>
       ELSE /\ versions' = versions \cup {number[e]}
            /\ active' = {number[e]}
            /\ alone' = (Midway = {})
    /\ EditGoto(e, "over")
    /\ UNCHANGED number

(* activate: one transaction, after the lookup of the version's type.      *)
StoreActivate(e, v) ==
    /\ editPc[e] = "idle"
    /\ v \in versions
    /\ active' = {v}
    /\ alone' = (Midway = {})
    /\ EditGoto(e, "over")
    /\ UNCHANGED <<versions, number>>

PromptNext ==
    \E e \in Editors :
        \/ ReadMaxVersion(e) \/ DeactivateAll(e) \/ InsertVersion(e)
        \/ SetActive(e) \/ EditFails(e) \/ StoreReadMax(e) \/ StoreCreate(e)
        \/ \E v \in VersionIds : DeactivateFor(e, v) \/ StoreActivate(e, v)

PromptSpec == PromptInit /\ [][PromptNext]_promptVars

-----------------------------------------------------------------------------
(* Properties                                                              *)

(* Every variable has its type.                                            *)
PromptTypeOK ==
    /\ versions \subseteq VersionIds
    /\ active \subseteq versions
    /\ editPc \in [Editors -> {"idle", "create", "insert", "activate", "store", "over"}]
    /\ number \in [Editors -> {0} \cup VersionIds]
    /\ alone \in BOOLEAN

(* With no operation midway, one version is active, unless since the last  *)
(* operation that had the table for itself two of the app's operations met *)
(* or one of them failed after it had deactivated.                         *)
(* So any one undisturbed operation repairs what the others left.          *)
OneActive ==
    Midway = {} /\ alone => \E v \in versions : active = {v}

(* The numbers have no gap and none is given twice, also when two calls    *)
(* read the same maximum: the later one raises.                            *)
VersionsConsecutive ==
    \E n \in 1..MaxVersion : versions = 1..n
=============================================================================
