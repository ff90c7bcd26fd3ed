----------------------------- MODULE Migration -----------------------------
(***************************************************************************)
(* migrate(), which every command runs before it opens the database.       *)
(*                                                                         *)
(* Several processes may be in it at once, on a database that is empty,    *)
(* half migrated or complete, while the app writes to it; each may die at  *)
(* any point and be launched again.  The tables and the seed are one       *)
(* transaction, each new column a statement of its own.                    *)
(*                                                                         *)
(* SQLite in WAL mode: one writer; a connection that has only read in its  *)
(* transaction keeps the snapshot of its first statement, and its first    *)
(* write is refused at once when anybody writes, or wrote since.           *)
(***************************************************************************)
EXTENDS Naturals, Sequences

CONSTANTS
    Migrators,    \* processes in migrate()
    NewColumns,   \* new_columns: the sequence of columns to add
    MaxLaunches,  \* bound: launches
    MaxEdits      \* bound: settings saved by the app

ASSUME MigrationAssumption ==
    /\ NewColumns \in Seq({NewColumns[i] : i \in 1..Len(NewColumns)})
    /\ MaxLaunches \in Nat /\ MaxEdits \in Nat

VARIABLES
    tables,      \* have the tables been created (and committed)?
    setting,     \* a key of filter_config: "absent", "seed" or "user"
    columns,     \* the new columns processed_items has
    indexed,     \* has the index on is_read been created?
    lock,        \* who holds the write lock: {} or a migrator or the app
    migPc,       \* see MigStages
    column,      \* each migrator's place in new_columns
    old,         \* migrators whose snapshot is behind the database
    launches,    \* launches so far
    edits,       \* settings saved so far
    met          \* history: migrators that met another writer

migVars == <<tables, setting, columns, indexed, lock, migPc, column, old, launches, edits, met>>

App       == "app"
ColumnSet == {NewColumns[i] : i \in 1..Len(NewColumns)}
MigStages == {"idle", "tables", "waiting", "seed", "lookup", "alter", "verify",
              "done", "failed"}

(* A new file, or the database of an earlier version of the program, which *)
(* has the tables, and neither the new columns nor a key added since.      *)
MigInit ==
    /\ tables \in BOOLEAN
    /\ setting = "absent"
    /\ columns = {}
    /\ indexed = FALSE
    /\ lock = {}
    /\ migPc = [m \in Migrators |-> "idle"]
    /\ column = [m \in Migrators |-> 1]
    /\ old = {}
    /\ launches = 0
    /\ edits = 0
    /\ met = {}

InMigrate == {m \in Migrators : migPc[m] \notin {"idle", "done", "failed"}}
Reading   == {m \in Migrators : migPc[m] = "seed" /\ lock # {m}}

MigGoto(m, stage) == migPc' = [migPc EXCEPT ![m] = stage]

(* A commit: the snapshots that others hold are behind from now on.        *)
Committed(w) == old' = old \cup (Reading \ {w})

-----------------------------------------------------------------------------

(* A command is launched: connect, and _execute_pragmas.                   *)
LaunchMigrate(m) ==
    /\ migPc[m] \in {"idle", "done", "failed"}
    /\ launches < MaxLaunches
    /\ launches' = launches + 1
    /\ MigGoto(m, "tables")
    /\ column' = [column EXCEPT ![m] = 1]
    /\ met' = IF InMigrate = {} /\ lock = {} THEN met \ {m} ELSE met \cup InMigrate \cup {m}
    /\ UNCHANGED <<tables, setting, columns, indexed, lock, old, edits>>

(* BEGIN, and CREATE TABLE IF NOT EXISTS: where the tables exist this      *)
(* reads, where they do not it needs the write lock.                       *)
CreateTables(m) ==
    /\ migPc[m] = "tables"
    /\ IF tables THEN MigGoto(m, "seed") /\ old' = old \ {m} /\ UNCHANGED lock
       ELSE IF lock = {} THEN MigGoto(m, "seed") /\ lock' = {m} /\ UNCHANGED old
       ELSE MigGoto(m, "waiting") /\ UNCHANGED <<lock, old>>
    /\ UNCHANGED <<tables, setting, columns, indexed, column, launches, edits, met>>

(* The CREATE that waited gets the lock, and finds the tables there or not.*)
WaitForLock(m) ==
    /\ migPc[m] = "waiting"
    /\ lock = {}
    /\ lock' = {m}
    /\ MigGoto(m, "seed")
    /\ UNCHANGED <<tables, setting, columns, indexed, column, old, launches, edits, met>>

(* INSERT OR IGNORE; variant: INSERT OR REPLACE.                           *)
SeedReplaced == "seed"
SeedIgnored  == IF setting = "absent" THEN "seed" ELSE setting

(* The seed, its writes and the COMMIT.                                    *)
Seed(m) ==
    /\ migPc[m] = "seed"
    /\ lock \in {{}, {m}}
    /\ m \notin old
    /\ tables' = TRUE
    /\ setting' = SeedIgnored
    /\ lock' = {}
    /\ Committed(m)
    /\ MigGoto(m, "lookup")
    /\ UNCHANGED <<columns, indexed, column, launches, edits, met>>

(* _column_exists; variant: no lookup.                                     *)
NeverThere(m)   == FALSE
ColumnExists(m) == NewColumns[column[m]] \in columns

Lookup(m) ==
    /\ migPc[m] = "lookup"
    /\ IF column[m] > Len(NewColumns) THEN MigGoto(m, "verify") /\ UNCHANGED column
       ELSE IF ColumnExists(m)
            THEN column' = [column EXCEPT ![m] = @ + 1] /\ UNCHANGED migPc
            ELSE MigGoto(m, "alter") /\ UNCHANGED column
    /\ UNCHANGED <<tables, setting, columns, indexed, lock, old, launches, edits, met>>

(* ALTER TABLE ... ADD COLUMN, which commits by itself.                    *)
AlterTable(m) ==
    /\ migPc[m] = "alter"
    /\ lock = {}
    /\ NewColumns[column[m]] \notin columns
    /\ columns' = columns \cup {NewColumns[column[m]]}
    /\ column' = [column EXCEPT ![m] = @ + 1]
    /\ Committed(m)
    /\ MigGoto(m, "lookup")
    /\ UNCHANGED <<tables, setting, indexed, lock, launches, edits, met>>

(* CREATE INDEX IF NOT EXISTS, _verify_tables and _verify_pragmas (whose   *)
(* exceptions need a missing table or a pragma that has no effect).        *)
Verify(m) ==
    /\ migPc[m] = "verify"
    /\ tables
    /\ IF indexed THEN UNCHANGED <<indexed, old>>
                  ELSE lock = {} /\ indexed' = TRUE /\ Committed(m)
    /\ MigGoto(m, "done")
    /\ UNCHANGED <<tables, setting, columns, lock, column, launches, edits, met>>

(* An exception: ROLLBACK, close, raise, and the command ends with code 1. *)
(* Refused: the change of a new file to WAL while others are at it; a      *)
(* write while a writer keeps the lock for 5 seconds; the first write over *)
(* a snapshot that is behind, or while anybody writes, at once.            *)
Locked(m) ==
    \/ migPc[m] = "tables" /\ ~tables /\ InMigrate # {m}
    \/ migPc[m] = "waiting" /\ lock # {}
    \/ migPc[m] = "seed" /\ lock # {m} /\ (lock # {} \/ m \in old)
    \/ migPc[m] = "alter" /\ lock # {}
    \/ migPc[m] = "verify" /\ ~indexed /\ lock # {}

(* The column is there by now: duplicate column name.                      *)
DuplicateColumn(m) == migPc[m] = "alter" /\ NewColumns[column[m]] \in columns

MigrateRaises(m) ==
    /\ Locked(m) \/ DuplicateColumn(m)
    /\ MigGoto(m, "failed")
    /\ old' = old \ {m}
    /\ UNCHANGED <<tables, setting, columns, indexed, lock, column, launches, edits, met>>

(* The process dies: SQLite takes its open transaction back.               *)
DieInMigrate(m) ==
    /\ m \in InMigrate
    /\ MigGoto(m, "idle")
    /\ lock' = lock \ {m}
    /\ old' = old \ {m}
    /\ UNCHANGED <<tables, setting, columns, indexed, column, launches, edits, met>>

-----------------------------------------------------------------------------
(* The app saves a setting, once the tables exist.                         *)

EditBegins ==
    /\ tables
    /\ lock = {}
    /\ edits < MaxEdits
    /\ lock' = {App}
    /\ met' = met \cup InMigrate
    /\ UNCHANGED <<tables, setting, columns, indexed, migPc, column, old, launches, edits>>

EditCommits ==
    /\ lock = {App}
    /\ setting' = "user"
    /\ edits' = edits + 1
    /\ lock' = {}
    /\ Committed(App)
    /\ met' = met \cup InMigrate
    /\ UNCHANGED <<tables, columns, indexed, migPc, column, launches>>

MigStep(m) == \/ LaunchMigrate(m) \/ CreateTables(m) \/ WaitForLock(m) \/ Seed(m)
              \/ Lookup(m) \/ AlterTable(m) \/ Verify(m) \/ MigrateRaises(m)
              \/ DieInMigrate(m)
MigNext == EditBegins \/ EditCommits \/ \E m \in Migrators : MigStep(m)

MigSpec == MigInit /\ [][MigNext]_migVars

-----------------------------------------------------------------------------
(* Properties                                                              *)

(* Every variable has its type.                                            *)
MigTypeOK ==
    /\ tables \in BOOLEAN
    /\ setting \in {"absent", "seed", "user"}
    /\ columns \subseteq ColumnSet
    /\ indexed \in BOOLEAN
    /\ lock \in {{}, {App}} \cup {{m} : m \in Migrators}
    /\ migPc \in [Migrators -> MigStages]
    /\ column \in [Migrators -> 1..(Len(NewColumns) + 1)]
    /\ old \subseteq Migrators
    /\ launches \in Nat /\ edits \in Nat
    /\ met \subseteq Migrators

(* migrate returns only over a database with its tables, its seed and all  *)
(* new columns, whatever earlier launches left and others did meanwhile.   *)
MigrateCompletes ==
    \A m \in Migrators :
        migPc[m] = "done" => tables /\ setting # "absent" /\ columns = ColumnSet /\ indexed

(* It raises only when another writer was there while it ran: a launch by  *)
(* itself completes what a dead one left half done.                        *)
OnlyRacesRaise == \A m \in Migrators : migPc[m] = "failed" => m \in met

(* A setting the user saved outlives every later seed.                     *)
EditsOutliveSeed == edits > 0 => setting = "user"

(* What a launch may rely on after every other launch and edit.            *)
MigratedOrRaced == MigrateCompletes /\ OnlyRacesRaise /\ EditsOutliveSeed
=============================================================================
