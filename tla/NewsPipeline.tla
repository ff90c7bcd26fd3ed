---------------------------- MODULE NewsPipeline ----------------------------
(***************************************************************************)
(* The runs of the news pipeline over their shared SQLite database.        *)
(*                                                                         *)
(* Every run is one operating-system process that executes Pipeline.run    *)
(* once (the hourly launchd job, the app's manual trigger) or the --digest *)
(* command.  Runs share nothing but the database file, and take no common  *)
(* lock: the scheduled run takes none at all.                              *)
(*                                                                         *)
(* An item is named by the hash of its URL.  A batch is a bag of items     *)
(* (the collectors answer in any order and may name an item twice), so a   *)
(* batch is a function from items to a number of copies.                   *)
(*                                                                         *)
(* A connection of Python's sqlite3 opens a transaction by itself before a *)
(* writing statement and the store commits after it.  When the statement   *)
(* raises, the commit is not reached and the transaction stays open:       *)
(*   "auto"    no transaction,                                             *)
(*   "open"    begun, without the write lock (the statement met SQLITE_BUSY*)
(*             or another database error),                                 *)
(*   "writer"  begun, and holding the database's write lock (the statement *)
(*             failed on a constraint after it had taken the lock).        *)
(***************************************************************************)
EXTENDS Naturals

CONSTANTS
    Runs,        \* the processes that execute the pipeline
    Items,       \* URL hashes the collectors can deliver
    MaxCopies,   \* bound: copies of one item in a batch
    MaxFaults,   \* bound: database errors other than lock contention
    Branches     \* what configuration and hour let a run do: see FilterItems

ASSUME MaxCopiesAssumption == MaxCopies \in Nat
ASSUME BranchesAssumption ==
    Branches \subseteq {"individual", "hold", "digest", "force"}

VARIABLES
    pc,         \* the stage each run is in
    conn,       \* the transaction state of each run's connection
    fetched,    \* the batch each run collected
    todo,       \* what filter_new has still to look at
    asked,      \* {i} between url_hash_exists(i) = False and the insert of i
    batch,      \* the items a run carries through filters, summary and send
    hasError,   \* has_error of each run
    row,        \* the age of each item's processed_items row, or "absent"
    runRow,     \* each run's row in run_history
    faults,     \* database errors injected so far
    delivered,  \* history: times a run sent an item's message to Telegram
    digested,   \* history: the items a digest delivered
    degraded,   \* history: the runs whose filter_new fell back
    purged      \* history: the items whose row a cleanup deleted

dedup    == <<fetched, todo, asked>>
history  == <<delivered, digested, degraded, purged>>
vars     == <<pc, conn, fetched, todo, asked, batch, hasError, row, runRow,
              faults, delivered, digested, degraded, purged>>

-----------------------------------------------------------------------------

Bag    == [Items -> Nat]
Empty  == [i \in Items |-> 0]
Stages == {"idle", "collect", "filter_new", "filter", "summarize", "hold",
           "send", "digest", "force", "clean", "notify", "log", "logged", "exit",
           "leave", "done", "left", "killed"}
Ages   == {"absent", "today", "older", "expired"}
NoRow  == [status |-> "none", finished |-> FALSE]

Over(r)   == pc[r] \in {"idle", "done", "left", "killed"}
Stored(i) == row[i] # "absent"

(* Another connection holds the write lock: a write waits out busy_timeout *)
(* and raises.                                                             *)
Busy(r) == \E q \in Runs \ {r} : conn[q] = "writer"

(* Variants of Write: the commit is forgotten; nothing is written.         *)
WriteUncommitted(r) == conn' = [conn EXCEPT ![r] = "open"]
WriteSkipped(r)     == UNCHANGED conn

(* A committing write of run r whose error the caller swallows: it commits *)
(* whatever transaction was open, or meets the lock and leaves one open.   *)
Write(r) == conn' = [conn EXCEPT ![r] = IF Busy(r) THEN "open" ELSE "auto"]

Goto(r, stage) == pc' = [pc EXCEPT ![r] = stage]

Init ==
    /\ pc = [r \in Runs |-> "idle"]
    /\ conn = [r \in Runs |-> "auto"]
    /\ fetched = [r \in Runs |-> Empty]
    /\ todo = [r \in Runs |-> Empty]
    /\ asked = [r \in Runs |-> {}]
    /\ batch = [r \in Runs |-> Empty]
    /\ hasError = [r \in Runs |-> FALSE]
    /\ row = [i \in Items |-> "absent"]
    /\ runRow = [r \in Runs |-> NoRow]
    /\ faults = 0
    /\ delivered = [r \in Runs |-> Empty]
    /\ digested = {}
    /\ degraded = {}
    /\ purged = {}

-----------------------------------------------------------------------------
(* Start, collection                                                       *)

(* A process starts: it loads its configuration, which raises without the  *)
(* required keys or on a value that is no number, and runs migrate, whose  *)
(* seed takes the write lock and which raises when it cannot get it or     *)
(* when another process migrates at the same time.  A process turned away  *)
(* ends with code 1; the others are a pipeline run, or --digest ("force"). *)
Launch(r) ==
    /\ pc[r] = "idle"
    /\ \/ Goto(r, "left")
       \/ ~Busy(r) /\ Branches \ {"force"} # {} /\ Goto(r, "collect")
       \/ ~Busy(r) /\ "force" \in Branches /\ Goto(r, "force")
    /\ UNCHANGED <<conn, dedup, batch, hasError, row, runRow, faults, history>>

(* The subscriber poller writes, swallowing its errors; then fetch_all     *)
(* returns any sub-multiset of what the sources hold, a failed source      *)
(* contributing nothing.                                                   *)
Collect(r) ==
    /\ pc[r] = "collect"
    /\ Write(r) \/ UNCHANGED conn
    /\ \E b \in [Items -> 0..MaxCopies] :
          /\ fetched' = [fetched EXCEPT ![r] = b]
          /\ todo' = [todo EXCEPT ![r] = b]
    /\ Goto(r, "filter_new")
    /\ UNCHANGED <<asked, batch, hasError, row, runRow, faults, history>>

-----------------------------------------------------------------------------
(* SqliteDedup.filter_new                                                  *)

(* One url_hash_exists query of the loop in _do_filter.                    *)
UrlHashExists(r, i) ==
    /\ pc[r] = "filter_new"
    /\ asked[r] = {}
    /\ todo[r][i] > 0
    /\ IF Stored(i)
       THEN /\ todo' = [todo EXCEPT ![r][i] = @ - 1]
            /\ UNCHANGED asked
       ELSE /\ asked' = [asked EXCEPT ![r] = {i}]
            /\ UNCHANGED todo
    /\ UNCHANGED <<pc, conn, fetched, batch, hasError, row, runRow, faults,
                   history>>

(* UNIQUE(url_hash); variant: no constraint.                               *)
NoConstraint(i) == TRUE
UrlHashFree(i)  == ~Stored(i)

(* The row the insert leaves; variant: a row that is not kept.             *)
NotRecorded(i) == row
Recorded(i)    == [row EXCEPT ![i] = "today"]

(* insert_processed_item commits: the item is new and this run owns it.    *)
InsertItem(r, i) ==
    /\ asked[r] = {i}
    /\ ~Busy(r)
    /\ UrlHashFree(i)
    /\ row' = Recorded(i)
    /\ conn' = [conn EXCEPT ![r] = "auto"]
    /\ todo' = [todo EXCEPT ![r][i] = @ - 1]
    /\ asked' = [asked EXCEPT ![r] = {}]
    /\ batch' = [batch EXCEPT ![r][i] = @ + 1]
    /\ UNCHANGED <<pc, fetched, hasError, runRow, faults, history>>

(* filter_new returns: its working variables are gone.                     *)
ForgetInput(r) ==
    /\ fetched' = [fetched EXCEPT ![r] = Empty]
    /\ todo' = [todo EXCEPT ![r] = Empty]
    /\ asked' = [asked EXCEPT ![r] = {}]

(* filter_new's except clause: every collected item counts as new.         *)
FallBack(r, txn) ==
    /\ batch' = [batch EXCEPT ![r] = fetched[r]]
    /\ ForgetInput(r)
    /\ conn' = [conn EXCEPT ![r] = txn]
    /\ degraded' = degraded \cup {r}
    /\ Goto(r, "filter")
    /\ UNCHANGED <<hasError, row, runRow, delivered, digested, purged>>

(* The insert loses the race between query and insert: another run stored  *)
(* the same URL, UNIQUE(url_hash) fails, the write lock stays taken.       *)
InsertConflict(r) ==
    /\ \E i \in asked[r] : ~UrlHashFree(i)
    /\ ~Busy(r)
    /\ FallBack(r, "writer")
    /\ UNCHANGED faults

(* The insert cannot get the write lock within busy_timeout.               *)
InsertBusy(r) ==
    /\ asked[r] # {}
    /\ Busy(r)
    /\ FallBack(r, "open")
    /\ UNCHANGED faults

(* Any other database error in the loop, at the query or at the insert.    *)
DedupFault(r) ==
    /\ pc[r] = "filter_new"
    /\ faults < MaxFaults
    /\ faults' = faults + 1
    /\ FallBack(r, IF asked[r] = {} THEN conn[r] ELSE "open")

FilterNewDone(r) ==
    /\ pc[r] = "filter_new"
    /\ asked[r] = {}
    /\ \A i \in Items : todo[r][i] = 0
    /\ ForgetInput(r)
    /\ Goto(r, "filter")
    /\ UNCHANGED <<conn, batch, hasError, row, runRow, faults, history>>

-----------------------------------------------------------------------------
(* Filters and the branch on digest mode                                   *)

(* Without a new item the run goes on to retention and its record; variant:*)
(* it returns at once.                                                     *)
ReturnAtOnce(r) == Goto(r, "exit")
NothingNew(r)   == Goto(r, "clean")

(* Language detection and apply_filters keep some of the items, then run   *)
(* takes the branch of the configuration and the hour: "individual" sends  *)
(* each item, "hold" (digest mode, another hour) only summarises, "digest" *)
(* (digest mode, digest hour) sends the digest.                            *)
FilterItems(r) ==
    /\ pc[r] = "filter"
    /\ \E kept \in [Items -> 0..MaxCopies] :
          /\ \A i \in Items : kept[i] <= batch[r][i]
          /\ batch' = [batch EXCEPT ![r] = kept]
          /\ \/ kept = Empty /\ NothingNew(r)
             \/ kept # Empty /\ \E b \in Branches \ {"force"} :
                   Goto(r, IF b = "individual" THEN "summarize" ELSE b)
    /\ UNCHANGED <<conn, dedup, hasError, row, runRow, faults, history>>

-----------------------------------------------------------------------------
(* Summary, sending, digest                                                *)

(* summarize_and_translate: the models answer or fail, never raising past  *)
(* it; each call is followed by an insert into model_usage_log, the first  *)
(* of which ends the transaction that filter_new left open.                *)
SummarizeAndTranslate(r) ==
    /\ Write(r)
    /\ \/ pc[r] = "summarize" /\ Goto(r, "send") /\ UNCHANGED batch
       \/ /\ pc[r] = "hold"
          /\ Goto(r, "clean")
          /\ batch' = [batch EXCEPT ![r] = Empty]
    /\ UNCHANGED <<dedup, hasError, row, runRow, faults, history>>

(* The loop is over the batch; variant: an item stays in the batch after   *)
(* its turn.                                                               *)
Pending(r, i) == batch[r][i] > 0
Kept(r, i)    == batch
Taken(r, i)   == [batch EXCEPT ![r][i] = @ - 1]

(* One turn of send_messages: a hot item is first saved to hot_news; then  *)
(* the message reaches at least one chat or none.                          *)
SendItem(r, i) ==
    /\ pc[r] = "send"
    /\ Pending(r, i)
    /\ batch' = Taken(r, i)
    /\ Write(r) \/ UNCHANGED conn
    /\ \/ delivered' = [delivered EXCEPT ![r][i] = @ + 1]
       \/ UNCHANGED delivered
    /\ UNCHANGED <<pc, dedup, hasError, row, runRow, faults, digested, degraded,
                   purged>>

SendMessagesDone(r) ==
    /\ pc[r] = "send"
    /\ batch[r] = Empty
    /\ Goto(r, "clean")
    /\ UNCHANGED <<conn, dedup, batch, hasError, row, runRow, faults, history>>

(* _load_unsent_items: everything stored today whose telegram_sent is 0,   *)
(* which is everything stored today: no statement ever sets telegram_sent. *)
UnsentItems == {i \in Items : row[i] = "today"}

(* send_digest: a message of the digest may fail without an exception.     *)
SendDigest(r) ==
    /\ pc[r] \in {"digest", "force"}
    /\ \E sent \in SUBSET UnsentItems : digested' = digested \cup sent
    /\ Goto(r, IF pc[r] = "digest" THEN "clean" ELSE "leave")
    /\ UNCHANGED <<conn, dedup, batch, hasError, row, runRow, faults, delivered,
                   degraded, purged>>

(* The query of send_digest raises: the run goes to its except clause, the *)
(* --digest command ends.                                                  *)
DigestFault(r) ==
    /\ pc[r] \in {"digest", "force"}
    /\ faults < MaxFaults
    /\ faults' = faults + 1
    /\ hasError' = [hasError EXCEPT ![r] = pc[r] = "digest"]
    /\ Goto(r, IF pc[r] = "digest" THEN "notify" ELSE "leave")
    /\ UNCHANGED <<conn, dedup, batch, row, runRow, history>>

-----------------------------------------------------------------------------
(* Retention, error notice, run log, end of the process                    *)

CleanupOldData(r) ==
    /\ pc[r] = "clean"
    /\ conn[r] = "auto"
    /\ ~Busy(r)
    /\ row' = [i \in Items |-> IF row[i] = "expired" THEN "absent" ELSE row[i]]
    /\ purged' = purged \cup {i \in Items : row[i] = "expired"}
    /\ Goto(r, "log")
    /\ UNCHANGED <<conn, dedup, batch, hasError, runRow, faults, delivered,
                   digested, degraded>>

(* BEGIN inside an open transaction; variant: it waits.                    *)
BeginWaits(r)  == FALSE
BeginRaises(r) == conn[r] # "auto"

(* BEGIN raises inside a transaction left open; a DELETE raises against    *)
(* the lock or another error and is rolled back.  Either way the exception *)
(* leaves clean and the run counts as failed.                              *)
CleanupFails(r) ==
    /\ pc[r] = "clean"
    /\ \/ (BeginRaises(r) \/ Busy(r)) /\ UNCHANGED faults
       \/ faults < MaxFaults /\ faults' = faults + 1
    /\ hasError' = [hasError EXCEPT ![r] = TRUE]
    /\ Goto(r, "notify")
    /\ UNCHANGED <<conn, dedup, batch, row, runRow, history>>

(* TelegramErrorNotifier: a message to the administrator, a row in         *)
(* error_log, both at best effort.                                         *)
Notify(r) ==
    /\ pc[r] = "notify"
    /\ Write(r)
    /\ Goto(r, "log")
    /\ UNCHANGED <<dedup, batch, hasError, row, runRow, faults, history>>

(* SqliteRunLogger, first statement: the row with the status.              *)
InsertRun(r) ==
    /\ pc[r] = "log"
    /\ Write(r)
    /\ Goto(r, IF Busy(r) THEN "exit" ELSE "logged")
    /\ IF Busy(r)
       THEN UNCHANGED runRow
       ELSE runRow' = [runRow EXCEPT ![r].status =
                          IF hasError[r] THEN "failure" ELSE "success"]
    /\ UNCHANGED <<dedup, batch, hasError, row, faults, history>>

(* Second statement: finished_at and the counts.                           *)
UpdateRun(r) ==
    /\ pc[r] = "logged"
    /\ Write(r)
    /\ Goto(r, "exit")
    /\ IF Busy(r) THEN UNCHANGED runRow
                  ELSE runRow' = [runRow EXCEPT ![r].finished = TRUE]
    /\ UNCHANGED <<dedup, batch, hasError, row, faults, history>>

(* A statement of the run logger raises for another reason than the lock:  *)
(* log prints the counts to stderr and swallows the error.                 *)
LogFault(r) ==
    /\ pc[r] \in {"log", "logged"}
    /\ faults < MaxFaults
    /\ faults' = faults + 1
    /\ conn' = [conn EXCEPT ![r] = "open"]
    /\ Goto(r, "exit")
    /\ UNCHANGED <<dedup, batch, hasError, row, runRow, history>>

(* SqliteStore.close: an open transaction is rolled back.                  *)
Close(r) ==
    /\ pc[r] \in {"exit", "leave"}
    /\ Goto(r, IF pc[r] = "exit" THEN "done" ELSE "left")
    /\ conn' = [conn EXCEPT ![r] = "auto"]
    /\ UNCHANGED <<dedup, batch, hasError, row, runRow, faults, history>>

(* SIGTERM or a crash, anywhere: SystemExit passes the except clause of    *)
(* run, so neither the error notice nor the run log is written.  What the  *)
(* process held in memory is gone.                                         *)
Kill(r) ==
    /\ ~Over(r)
    /\ Goto(r, "killed")
    /\ conn' = [conn EXCEPT ![r] = "auto"]
    /\ ForgetInput(r)
    /\ batch' = [batch EXCEPT ![r] = Empty]
    /\ UNCHANGED <<hasError, row, runRow, faults, history>>

-----------------------------------------------------------------------------
(* The passing of time: rows stop being of today, then outlive retention   *)

Midnight ==
    /\ \E i \in Items : row[i] = "today"
    /\ row' = [i \in Items |-> IF row[i] = "today" THEN "older" ELSE row[i]]
    /\ UNCHANGED <<pc, conn, dedup, batch, hasError, runRow, faults, history>>

Expire(i) ==
    /\ row[i] = "older"
    /\ row' = [row EXCEPT ![i] = "expired"]
    /\ UNCHANGED <<pc, conn, dedup, batch, hasError, runRow, faults, history>>

-----------------------------------------------------------------------------

FilterNew(r) ==
    \/ \E i \in Items : UrlHashExists(r, i) \/ InsertItem(r, i)
    \/ InsertConflict(r) \/ InsertBusy(r) \/ DedupFault(r)
    \/ FilterNewDone(r)

SendMessages(r) == (\E i \in Items : SendItem(r, i)) \/ SendMessagesDone(r)

(* What a started process does by itself.                                  *)
Step(r) ==
    \/ Collect(r) \/ FilterNew(r) \/ FilterItems(r)
    \/ SummarizeAndTranslate(r) \/ SendMessages(r) \/ SendDigest(r) \/ DigestFault(r)
    \/ CleanupOldData(r) \/ CleanupFails(r) \/ Notify(r)
    \/ InsertRun(r) \/ UpdateRun(r) \/ LogFault(r) \/ Close(r)

Next ==
    \/ \E r \in Runs : Launch(r) \/ Step(r) \/ Kill(r)
    \/ Midnight
    \/ \E i \in Items : Expire(i)

Spec == Init /\ [][Next]_vars

(* A started process keeps taking steps: every network call of the code    *)
(* has a timeout and no step waits for another run.                        *)
Fairness == \A r \in Runs : WF_vars(Step(r))

-----------------------------------------------------------------------------
(* Properties                                                              *)

TypeOK ==
    /\ pc \in [Runs -> Stages]
    /\ conn \in [Runs -> {"auto", "open", "writer"}]
    /\ fetched \in [Runs -> Bag]
    /\ todo \in [Runs -> Bag]
    /\ asked \in [Runs -> SUBSET Items]
    /\ batch \in [Runs -> Bag]
    /\ hasError \in [Runs -> BOOLEAN]
    /\ row \in [Items -> Ages]
    /\ runRow \in [Runs -> [status : {"none", "success", "failure"},
                            finished : BOOLEAN]]
    /\ faults \in Nat
    /\ delivered \in [Runs -> Bag]
    /\ digested \in SUBSET Items
    /\ degraded \in SUBSET Runs
    /\ purged \in SUBSET Items

(* As long as retention has not deleted an item's row, at most one of the  *)
(* runs whose deduplication worked sends a message of its own about the    *)
(* item, and that run sends one, whatever the other runs and the digests   *)
(* do, wherever a run is killed and however long the batch carries a       *)
(* repeated URL.                                                           *)
DeliveredOnce ==
    \A i \in Items \ purged :
        /\ \A r \in Runs \ degraded : delivered[r][i] <= 1
        /\ \A r, q \in Runs \ degraded :
              r # q => delivered[r][i] = 0 \/ delivered[q][i] = 0

(* A run whose deduplication worked delivers only what it or another run   *)
(* has recorded in processed_items: the record precedes the message, so a  *)
(* crash between the two loses the item and never repeats it.              *)
RecordedBeforeSent ==
    \A r \in Runs \ degraded, i \in Items \ purged :
        delivered[r][i] > 0 => Stored(i)

(* The ledger the runs keep together: processed_items, and what the runs   *)
(* whose deduplication worked carry and have delivered.                    *)
LedgerOf(counts) ==
    [r \in Runs |-> IF r \in degraded THEN {}
                    ELSE {i \in Items \ purged : counts[r][i] > 0}]

Ledger == INSTANCE ItemLedger WITH
    recorded  <- {i \in Items \ purged : Stored(i)},
    held      <- LedgerOf(batch),
    sent      <- LedgerOf(delivered),
    excused   <- degraded,
    forgotten <- purged

(* The pipeline implements the ledger: every step of a run records, sends  *)
(* or gives up items by the rules of ItemLedger, or changes nothing the    *)
(* ledger sees.  A digest is no part of it: it sends what is recorded.     *)
ImplementsLedger == Ledger!LedgerSpec

(* A run is recorded as failed, its retention pass skipped, only when the  *)
(* deduplication of some run fell back (leaving a transaction open there)  *)
(* or the database itself reported an error: contention between healthy    *)
(* runs never fails a run.                                                 *)
FailureExplained ==
    \A r \in Runs : hasError[r] => degraded # {} \/ faults > 0

(* The write lock leaked by a failed insert is held by a run that fell     *)
(* back, and no longer when that run starts to send: the first insert into *)
(* model_usage_log, or the error notice, has committed.                    *)
LeakedLockConfined ==
    \A r \in Runs : conn[r] = "writer" =>
        /\ r \in degraded
        /\ pc[r] \in {"filter", "summarize", "hold", "digest", "clean", "notify"}

(* A pipeline run that got past its start (configuration and migrate) and  *)
(* ends by itself leaves a finished row in run_history, unless the         *)
(* deduplication of some run fell back or the database reported an error:  *)
(* nothing that healthy runs do beside it can lose its record.             *)
RunsAreLogged ==
    \A r \in Runs : pc[r] = "done" /\ ~runRow[r].finished =>
        degraded # {} \/ faults > 0

(* Every started run comes to its end, even one that meets a leaked lock,  *)
(* a database error or an open transaction.                                *)
RunEnds == \A r \in Runs : ~Over(r) ~> Over(r)

(* Not true of the code (digest_pipeline.py:26 says the digest loads the   *)
(* items not sent yet): nobody has delivered what a run that is about to   *)
(* send the digest will load.                                              *)
DigestLoadsUnsentOnly ==
    \A r, q \in Runs, i \in UnsentItems : pc[r] \in {"digest", "force"} =>
        i \notin digested /\ delivered[q][i] = 0
=============================================================================
