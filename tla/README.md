# TLA+ models of news-pulse

news-pulse is an hourly news pipeline (Python, started by launchd or by the macOS
app) and a Flutter app that share one SQLite database. This directory holds TLA+
modules translated from the code, TLC configurations that check them on small
instances, and TLAPS proofs of what matters most for instances of any size.

Paths below are relative to `src/`; `np/` stands for `src/news_pulse/`.

## 1. Inventory

| component | state it keeps | operations | interacts with |
|---|---|---|---|
| pipeline run (`np/orchestrator.py`, `np/__main__.py`, `np/cli_commands.py`) | stage, batch of items, `has_error` | collect, filter, summarise, send, clean, log; SIGTERM | everything below, one process per run |
| store and migration (`np/db/*`) | 11 tables of one SQLite file, one connection per process | one function per statement, `cleanup_old_data`, `migrate` | all runs and the app, through the file's write lock |
| deduplication (`np/blocks/dedup.py`) | `processed_items.url_hash` | query, insert, fall back | store |
| collectors (`np/blocks/fetcher`, `np/core/fetch_pipeline.py`) | none | fetch in four threads | the network |
| filters (`np/blocks/filter/*`) | none | blacklist, tiers, at most 8 items | configuration |
| models (`np/core/summarize_pipeline.py`, `np/core/fallback_chain.py`, `np/blocks/model_engine`, `summarizer`, `translator`) | the loaded model | load, generate, unload, fall back | Ollama, Claude CLI |
| sending (`np/core/send_pipeline.py`, `np/blocks/telegram_sender.py`, `hot_news_detector.py`) | attempts per chat | send with retries, save hot items | Telegram, store |
| digest (`np/core/digest_pipeline.py`, `np/blocks/digest_formatter.py`) | none | load unsent, split, send | store, Telegram |
| subscribers (`np/blocks/subscriber_poller.py`, `np/db/store_subscribers.py`, app repository) | `subscribers`, `telegram_update_offset` | poll, register, approve, reject, delete | Telegram, the app |
| prompts (`np/db/store_prompts.py`, app repository) | `prompt_versions` | create a version, activate | both programs |
| configuration (`np/blocks/config_loader.py`, `np/db/store_admin.py`, app repository, `.env` writer) | `filter_config` | load, upsert, update | both programs |
| schedule (`np/blocks/skip_detector.py`, `np/db/store_schedule.py`, `launchd/`) | `run_history`, `schedule_log` | detect missed slots, log them, catch up | store |
| retention, run log, error notice, health check, usage log | `run_history`, `error_log`, `health_check_results`, `model_usage_log` | delete by age, insert, update | store |
| calibration (`np/blocks/threshold_calibrator.py`) | none | binary search over the items of 30 days | store; nothing calls it |
| app (`news_pulse_app/lib`) | providers, subprocess | start a run, read and edit tables | store, `python -m news_pulse` |

What is hard: runs overlap (the scheduled run takes no lock, the manual trigger's
lock file is tested against `/proc`, which macOS does not have); Python's sqlite3
opens transactions implicitly and a statement that raises leaves them open; any
process may be killed between two statements; messages to Telegram and updates from
it may be repeated; the app edits the tables the runs read.

What makes each part correct is stated with the properties of its module below.

## 2. The modules

The most important behaviour first. "Proved" means that the module's safety properties
hold for every value of the constants; each is also checked on an instance. A violation
is a run that shows the code at odds with a text of the repository, quoted in
`PROJECT.json`.

| module | question | state |
|---|---|---|
| `NewsPipeline` with `ItemLedger` | what overlapping runs do to one database, and what a run promises for an item | checked and proved; one violation |
| `SubscriberPolling` | polling with an offset beside the app's administration | checked and proved |
| `ManualTrigger` | the lock file, the app's button and its subprocess | checked and proved; one violation |
| `TelegramSend` | retries of one message, duplicates, stale recipients | checked and proved |
| `ModelChain` | the models of a run, fall backs, the loaded model | checked and proved; one violation |
| `Settings` | how a setting saved in the app reaches the files, the table, the screen and a run | checked and proved; one violation |
| `HotNews` | the flag and the table of hot items, which both programs and the retention write | checked and proved; one violation |
| `PromptVersions` | the active version of a prompt, which both programs set | checked and proved |
| `Migration` | processes that migrate at once, over any state a dead one left | checked and proved |
| `ThresholdSearch` | the binary search of the calibration | checked and proved |
| `Intake` | sources, deduplication, filters and selection over several runs, as votes come in | checked and proved; two violations |
| `DigestFormat` | the rows of a digest, their order and their messages | checked and proved; one violation |
| `HealthCheck` | a check, its rows, and what the store and the app show of them | checked and proved |
| `Schedule` | hours slept through, and what is recorded of them | one violation, proved in general |

Every module takes its sets as CONSTANTS with the assumptions a proof needs, one
action per operation, and no RECURSIVE operator. `NewsPipeline` abstracts what
`Intake`, `ModelChain`, `TelegramSend`, `DigestFormat` and `HotNews` look at in detail.

An `MC*` module makes the instances of one component, and two make those of several at
once. `MCParts` has ten: `HotNews`, `PromptVersions`, `Migration`, `HealthCheck`,
`ThresholdSearch`, `DigestFormat`, `Intake`, `TelegramSend`, `ModelChain` and `Settings`
share no state in the program other than what their own modules model. A behaviour of
`MCParts` picks one (`part`) and is a behaviour of it, while the variables of the others
keep a value of their initial states. `Settings` comes in two halves, `tokens` (the saves
of tokens, which touch the files and the Keychain) and `tables` (all other saves and the
screen), which have only the runs in common. The run `parts` (sections 5, 6 and 8 to 11)
checks them all, and every property of one part holds trivially in the behaviours of
the others. `MCLive` does the same with the two components whose progress is checked,
`SubscriberPolling` and `ManualTrigger` (run `live`, sections 4 and 7).

What is left to do: rows of `filter_config` for the whitelist and their editor, the
ages of the tables other than `processed_items` and `health_check_results`, and VACUUM.

## 3. The runs of the pipeline

`NewsPipeline.tla` models every run as a process. `pc[r]` is the stage in
`Pipeline.run` (`np/orchestrator.py:86-134`); `conn[r]` is the state of the
connection's implicit transaction; `fetched`, `todo`, `asked` are the working
variables of `filter_new`; `batch` is the list `items`; `row`, `runRow` are the
tables `processed_items` and `run_history`. `delivered`, `degraded`, `purged` are
history: they only record what happened.

| action | code |
|---|---|
| `Launch` | configuration and `migrate` at the start of every command, which may turn it away, then the command |
| `Collect` | `poll` and `fetch_all` |
| `UrlHashExists`, `InsertItem` | the two statements per item of `_do_filter` |
| `InsertConflict`, `InsertBusy`, `DedupFault` (`FallBack`) | the insert meets `UNIQUE(url_hash)`, the write lock, another error; `filter_new`'s except clause |
| `FilterItems` (`NothingNew`) | language detection, `apply_filters`, the branch on digest mode and hour; a run without a new item goes on to its retention |
| `SummarizeAndTranslate` | the model calls and their rows in `model_usage_log` |
| `SendItem`, `SendMessagesDone` | one turn of `send_messages`, its end |
| `SendDigest`, `DigestFault` | `send_digest`, its query raising |
| `CleanupOldData`, `CleanupFails` | `cleanup_old_data` committing, raising |
| `Notify`, `InsertRun`, `UpdateRun`, `Close` | error notice, the two statements of the run logger, `close` |
| `LogFault` | either statement of the run logger raises; `run_logger.py:36-43` prints the counts to stderr and swallows the error |
| `Kill` | SIGTERM or a crash at any stage |
| `Midnight`, `Expire` | rows become yesterday's, outlive the retention time |

Two facts of the code shape the model. A connection of Python's sqlite3 begins a
transaction by itself before a writing statement; the store commits after the
statement, so a statement that raises leaves the transaction open: with the write
lock when it failed on a constraint, without it when it met the lock. And nothing
in the program ever sets `telegram_sent`.

Abstracted: the order of a batch (a bag of items), texts and languages, what the
models answer, `error_log`, `model_usage_log` and `hot_news` as contents (their
writes are there, as what they do to the open transaction), VACUUM, the counts of
`run_history`.

### Checked

| run | instance | question |
|---|---|---|
| `pipeline` | 2 runs over one item listed twice (1 fault, all branches), or over two items listed once each (no fault, every item sent); fairness | `DeliveredOnce`, `RecordedBeforeSent`, `FailureExplained`, `LeakedLockConfined`, `RunsAreLogged`, refinement `ImplementsLedger`, `RunEnds` |
| `digest_repeat` | 2 runs, 1 item listed twice, digest branches | `DigestLoadsUnsentOnly` is violated |

Bounds: two runs are what the leaked lock and the lost insert take. Two
copies make a repeated URL, and a batch of which a part is kept, sent or lost. Two items
are what it takes for a run to meet the lock in its deduplication (`InsertBusy`): the
other run has collided on one item while this one is about to insert the other. The
module picks between the two instances in its initial state (`listed`), because both at
once, with a fault, are 6.5 million states without liveness. One fault breaks any single
statement. Deadlock is not checked: every run is a one-shot
process, and a system whose runs have all ended has stopped.

Fairness: weak fairness of `Step(r)`. Every network call of the code has a timeout,
every model call too, and a write waits for the lock five seconds at most; nothing
waits for another run. Starting a process, killing it and time are not fair.

`RunsAreLogged` is about runs that got past their start: one that lacks a key of `.env`,
or that `migrate` turns away, ends before there is anything to record. From there on a
run that ends by itself leaves a finished row, unless a deduplication fell back, whose
lock the run logger may meet, or the database reported an error.

The violation is a disagreement between code and text, quoted in `PROJECT.json`:
digests repeat, because nothing sets `telegram_sent`. The deduplication of a run that
races another for the same item falls back to calling everything new, which sends it
twice: that is the exemption of degraded runs in `DeliveredOnce`, and what
`ImplementsLedger` shows to be the only way. Which rows a digest misses is the subject
of section 10.

### Proved

`NewsPipelineProofs` proves, for any sets of runs and items and any bounds:

- `TypeCorrect`. The type of `todo` is not inductive alone: the insert decrements a
  copy that the query saw, so `AskedFromInput` goes with it (`TypeInv`).
- `LockConfined`, `FailuresExplained` from `LockInv`: an open transaction exists
  only after some run fell back or the database reported an error: it needs a failed write,
  and a write fails only
  on a constraint (a fall back), on an injected error (a fall back, or a statement of
  the run logger) or on a lock such a run holds.
- `DeliveryOnce`, `DeliveryRecorded` from `DeliveryInv`: what a run carries plus what
  it has delivered (`Held`) is the quantity that is conserved. Inserting a row gives
  its run one copy of an item nobody held, sending moves it, everything else loses.
- `RunsLogged` from `LogInv` on top of `LockInv`: without a fall back and without a
  fault no connection is ever busy, so both statements of the run logger commit.
- `LedgerImplemented`: every step is a step of `ItemLedger`, or none; a digest is none.
- `RunsAreFinite`, the safety half of `RunEnds`. `Left(r)` is a pair of numbers: the stages
  before the run, and what is left of the loop it is in (the copies `filter_new` has not
  looked at, twice, since each is asked for and then inserted; the copies to be sent).
  Every step of the run lowers the pair in the lexicographic order, fall backs, faults
  and conflicts included; launching and killing lower it too; other runs, retention and
  midnight leave it alone; and the order has no endless descent (`LessEnds`, from the
  library's well-foundedness theorems). It needs that the items are finitely many.

`ItemLedgerProofs` proves what the ledger itself promises, `LedgerOneHand`. The only
assumptions are `MaxCopies \in Nat` and that `Branches` names modes, besides the finite
`Items` of `RunsAreFinite`; that a run always has a step to take, and so `RunEnds` itself,
is model-checked only.

## 4. Polling for subscribers

`SubscriberPolling.tla` is the first step of every run (`np/blocks/subscriber_poller.py`):
load the stored offset, call `getUpdates`, register every `/start`, save the offset.
Two runs may do it at once, any of them may break anywhere, and the administrator
approves, rejects and deletes in the app.

| state, action | code |
|---|---|
| `offset`, `sub` | `filter_config.telegram_update_offset`, `subscribers.status` |
| `sent`, `confirmed`, `Confirm` | Telegram's queue of updates, external: a request with an offset confirms everything below it |
| `LoadOffset`, `GetUpdates`, `ProcessUpdate`, `SaveOffset` | the parts of `_do_poll`, one per call that leaves the process |
| `PollFails` | `poll`'s except clause, or the death of the process, at any of them |
| `Approve`, `Reject`, `Delete` | `subscriber_repository.dart` |

`live` takes two polls, two chats, two messages, answers of one message at a time and
one broken poll. Two messages are what a stale offset takes: one poll saves an older
offset than the other; and with answers of one message a batch is cut, so that the
second message waits for another poll. It shows that no request is lost (`NoRequestLost`), that a
message is handled twice only after polls overlapped or broke (`HandledOnce`), that a
repeated `/start` never takes a decision back (`DecisionsKept`), and that every message
is handled in the end (`EveryMessageHandled`). Fairness: weak fairness of each poll,
because launchd starts a run every hour and every call has a timeout.

`SubscriberPollingProofs` proves the three safety properties and the types for any
number of polls, chats and messages. The inductive invariant says what every local
variable still knows: everything below a loaded offset (`from`), below the loop's
position (`next`), below the stored offset and everything Telegram has forgotten has
been handled (`AnswersCovered`, `OffsetCovered`), and every handled `/start` is
registered or was deleted. `HandledOnce` needs that without overlap the offset is past
everything handled whenever no answer is being worked on (`Undisturbed`).
`PollsAreFinite` says that a poll has only so much to do: each step after its first lowers
the pair of calls and updates it has left, and nothing raises it but the next poll of the
same run. The end of its answer (`last`) is fixed when it arrives, so chats that go on
writing cannot keep a poll in its loop.

Not modelled: the 24 hours after which Telegram drops updates, gaps between update
ids, the names of subscribers.

## 5. Sending

`TelegramSend.tla` is one run of `send` per message (`np/blocks/telegram_sender.py`):
read the approved chats (`CollectChatIds`), then post to one after the other
(`NextChat`, `SendTo`), up to `MaxTries` attempts each. A post is accepted, refused,
answered by 429, or accepted with its answer lost, which the sender cannot tell from a
refusal (`AttemptRaised`). `received`, `lost` and `revoked` are history.

The part `send` of `parts` takes two messages, the administrator and a subscriber, the
three attempts of the code, two decisions, and the death of the process anywhere.
Repeats are lost answers and at most three (`RepeatsExplained`). The results tell the
truth (`ResultsTell`): a chat counted as a success has the message, one in
`failed_chat_ids` has nothing but copies whose answers were lost, and once `send` has
returned, a recipient without the message is in that list. Every recipient ends up in
one of the two lists (`EveryRecipientAnswered`), although the loop has two ways to give
up. The stale list of recipients lives for one message (`RejectionHeeded`).

`TelegramSendProofs` proves the four properties and the types for any number of
messages, chats and attempts (`RepeatsAreLost`, `ResultsAreTrue`, `NobodyForgotten`,
`RejectionIsHeeded`). The inductive invariant relates the history to the sender's
position. `SoundInv` bounds what a chat has received by its lost answers, for every
message at any time; it is kept only because a chat that comes next, and a message that
comes later, are untouched (`AheadInv`, `BeforeTurn`), and the chat at hand has received
nothing but what was lost (`InTurn`). `AfterTurn` and `AnsweredInv` say that no chat
leaves the loop without a place in one of the lists, `NamedInv` that a chat on the
list of recipients is approved or was revoked no earlier than this message.
`SendingIsFinite`: each step of the sender lowers the messages left, or the chats left
of this message, or the attempts left at this chat, in this order of importance;
decisions of the administrator change none of them, because the list of recipients is
read once per message. It assumes finitely many chats.

Not modelled: the text. Telegram may refuse a message whose MarkdownV2 is not escaped,
which is one of the refusals.

## 6. Models

`ModelChain.tla` is `summarize_and_translate` for one run, item by item and
implementation by implementation; `calls` is history. The run picks one engine for all
implementations (`engine`): Ollama, whose `generate` uses the model that was loaded
last (`current`), or the Claude CLI, which knows no model. Only the scheduled run
registers a handler for SIGTERM (`handler`); manual and catch-up runs
(`cli_commands.py:71-130`) die of it at once, as every run dies of SIGKILL or a crash
(`DieInChain`, recorded in `cut`).

The part `chain` of `parts` takes two items in every language, both engines, every
outcome of every call, and both ways to end anywhere:

- `RightModelLoaded`: with Ollama, an implementation that has a model of its own is
  answered by that model.
- `FirstAnswerEnds`: an implementation is called at most once for an item, and only
  after all those before it in its chain were called for that item and raised.
- `ErrorsExplained`, `TextKept`: errors and empty texts are exactly those of failed chains.
- `UnloadedAtEnd`: a run that ends by itself, or by SIGTERM where it has the handler,
  leaves no model loaded; only a process that dies without it may.

Two items let the second meet what the first left loaded.

`chain_fallback` is a violation: the documents give the last place of both chains to
`ClaudeCliEngine`, and the code passes `ClaudeCliSummarizer` the engine of the run, so
that in local mode it generates with the Ollama model that failed just before it
(`LastFallbackIsClaude`).

`ModelChainProofs` proves the five properties and the types for any number of
items (`OwnModelAnswers`, `NobodyAsksTwice`, `ErrorsAreExplained`, `TextIsKept`,
`NothingStaysLoaded`). The inductive invariant has one part per question: `EngineInv`
says at which stages a model is loaded; `CallsInv` what the calls of a task look like
when its loop is at an item and an implementation (`Progress`: nothing beyond this item,
and of this item the implementations before this one, which all raised); `ResultInv`
what a result says once its first chain (`SumResult`) and its second (`TransResult`) are
over; `UsageInv` that a row of the usage log names the implementation that ended the
chain. The last is `UsageIsRight`, proved and in no run. The row itself has no item id,
because the language detectors lose it; the model keeps the item beside the row to
compare the two. `ChainsAreFinite`: each step lowers the stages left, or in a loop the
implementations that its items may still try.

A remark: the Claude implementations never raise, so every row of the usage log has
`success = 1`, their failures included. Abstracted: prompts and texts (none, empty, a
summary, a translation), latencies. The digest mode, which holds the results back,
follows the same loops.

## 7. The manual trigger

`ManualTrigger.tla` has the lock file of `np/cli_commands.py` and the app's button.
Process ids are the processes; the id of a dead process is used again, by a command or
by any other process, so two ids make every chain of owners.

| state, action | code |
|---|---|
| `trigger`, `dialog`, `Press`, `Tell`, `CloseDialog` | `manual_trigger_provider.dart`, `manual_trigger_button.dart` |
| `child`, `ended`, `pipe`, `Answer`, `Forget` | `pipeline_runner.dart`: the process, its exit code, the lines in the pipe of its stderr |
| `lock`, `FindLock`, `ReadLock`, `AcquireRefused`, `CheckPasses`, `OpenLock`, `WriteLock` | `_acquire_lock`: is there a file, which id (`seen`), is it under `/proc`; create or truncate, write |
| `ReleaseLock` | `_release_lock`, also when another command wrote the file since, and also when `unlink` fails, which it swallows |
| `Log`, `Report`, `Exit` | what the command writes to stderr, which blocks on a full pipe |
| `procfs` | whether the system has `/proc`: Linux has, macOS has not |
| `Raises`, `Kill`, `Quit`, `OtherProcess` | exceptions, signals, the closing of the app, processes that take no lock |

The part `trigger` of `live` takes both systems and shows: a file that no live command
is about to write or remove was left by a command that was killed, or that met an error
when it wrote or removed it (`NoLockLeft`); the app has one process at work
(`OneChild`); the button comes back, or the process is blocked on the pipe that nobody
reads (`OnlyPipeBlocks`). Fairness: a command goes on by itself, and Dart completes
`exitCode` once the process is gone. The proviso of `OnlyPipeBlocks` does happen: a
command that writes more than the pipe holds blocks, and the button never comes back.

`lock_ignored` is a violation: `feature-spec-v2.md:204` says that the lock prevents a
second run. On macOS, the only platform of the product, a command that has read the id
of a manual run still at work finds no `/proc` and starts (`DuplicatesPrevented`). What
overlapping runs then do is the subject of section 3.

`ManualTriggerProofs` proves `NoLockLeft`, `OneChild` and the types for any set of ids,
with and without `/proc` (`NoLockForgotten`, `ButtonStartsOne`). `ChildInv`: until the
app is closed, the live process that the button started is the one it waits for.
`CommandsAreFinite`: every step of a command lowers the lines that its pipe still
takes, or the stages before it; only a new process of the same id begins again. The
app's process therefore ends, or stops at the pipe it has filled.

## 8. Settings

`Settings.tla` follows a setting from the app to a run. A token goes to the Keychain
and to `.env`; a switch, a suggested word and a new source go to the table
`filter_config`; the screen shows a cached map of that table; a run loads `.env`,
applies the seed to the table, loads `.env` again and reads the table.

There may be two `.env` files. The app takes the first one above its binary, eight
levels up at most, and else one in its working directory
(`env_writer_service.dart:12-24`); the runs take that of the pipeline
(`cli_commands.py:50-54`). `elsewhere` says whether they differ, and `theirs` is then
the file of the runs, which the app never writes (`RunsFile`).

| state, action | code |
|---|---|
| `env`, `elsewhere`, `theirs`, `keychain` | the lines of the two files by key; `secure_storage_service.dart` |
| `flags`, `blacklist`, `custom` | seeded rows; the row `blacklist_keywords`; the row `custom_sources` |
| `saveStage`, `subject`, `value`, `file`, `list`, `made` | a save under way, between its awaited calls; the saves begun |
| `SaveToken` (`BeginSave`), `WriteKeychain`, `ReadEnv`, `OpenEnv`, `WriteEnv` | `_save` of the token row and `updateKey` (`writeAsString` truncates, then writes); each may throw, the last one midway |
| `SetFlag`, `UpdateValue`, `FlagDone` | `_update` of the sections, `updateValue`, the invalidation |
| `AddWord`, `ReadWords`, `WriteWords`, `WordDone` | `_addToBlacklist` |
| `AddSource`, `GetCustomSources`, `CountSources`, `PutSources` (`ListExtended`, `StoredSource`) | the wizard's `_save`, `saveCustomSource`; the entry it stores, without a `source_id` |
| `DatabaseBusy` | a writing statement of the app that meets the lock |
| `shown`, `fetch`, `GetAllAsMap`, `Show`, `RefreshButton` | `configMapProvider` |
| `Reopen` | the app is closed in the middle of anything and opened again |
| `Start`, `LoadEnv`, `Migrate`, `ReloadEnv`, `ApplyFilterConfig`, `Exit` | `run_pipeline` and `_load_config_and_db`; a load raises without a required key, and on a value that is no number (`Present`, `Parses`) |

`mishaps` is history: saves of tokens that overlapped (`overlap`), that stopped half way
(`half`), a file left truncated or cut (`file`), additions of sources that overlapped
(`list`). The properties say that these, and nothing else, cost anything:

- `NoKeyLost`: the `.env` of the runs keeps the keys without which no run starts.
- `KeychainAgrees`: the token in the Keychain, which the screen shows, is the one in the
  `.env` that the app finds. The runs use it only where that file is theirs.
- `SourcesKept`: an added source stays in the list.
- `ShownIsFresh`: the cached map never settles on a value older than the table's. It
  needs no such proviso: an invalidation drops the query under way.
- `ReloadPasses`: a run that read `.env` once is stopped by reading it again only if the
  file has got a value that is no number. No key is lost to it while the app rewrites
  the file, since `load_dotenv` takes no key away; the first load has no such
  protection, and a run that meets the truncated file fails there.
- `EditsSurviveRuns`: the seed at every start undoes nothing (proved, in no run).

The parts `tokens` and `tables` of `parts` take two saves at a time and two in all
(`MaxSaves`), one run, two keys, of which one is required and one a number, a value that
is a number and one that is not, one switch, one word and two sources. An overlap takes
two saves, and whatever one save and one run do to each other takes one of each.

`settings_unused` shows that a documented path ends nowhere: the wizard gives a source
no `source_id`, and the loader drops sources without one (`AddedIsUsed`). A remark: the
card of suggested words (`WriteWords`) updates a row that nothing inserts, so its words
reach no run either.

`SettingsProofs` proves all six, and the types, for any number of saves, runs, keys and
entries. The invariant of each property says what holds in the middle of a save. The
argument is the same for the file, the Keychain and the list: as long as no two saves
of a sort have overlapped there is only one (`Alone`), so what it has read is still
what it is going to replace (`EnvSafe`, `KeychainSafe`, `SourceSafe`); a file of the runs
that is not the app's is out of its reach. `RunSafe` is that the environment a run has
loaded only grows and was a number where it must be one, `ScreenSafe` that rows being
shown are the table's unless a save is about to invalidate them; `EditsSurviveRuns`
needs no more than the types.

Abstracted: a key that matches another as a prefix or has a space before `=`; the text
of a list; the whitelist and its editor; which switches a configuration takes; numbers
beyond whether they are one. A run that meets the write lock while it applies the seed
is modelled in `NewsPipeline`.

## 9. From the sources to the selection

`Intake.tla` is one run after the other: the fetches of the four sorts of sources, the
deduplication, the blacklist, the tiers and the selection of eight, each with its except
clause, while readers vote between the runs.

| state, action | code |
|---|---|
| `points`, `Vote` | votes of a listing at Hacker News and Reddit, external; `{}` is `None` |
| `StartIntake`, `whitelist` | `Pipeline.__init__`, which goes on without keywords when the store raises |
| `toCollect`, `rawItems`, `CollectSource`, `SkipSource` | `fetch_all`: threads that end in any order, a source off or failing; the list of what they found |
| `items`, `routed` | the items of the run, and those the selector got: positions in `rawItems` |
| `Deduplicate`, `DeduplicateFails`, `stored` | `filter_new`, which stores a row before any filter has seen the item; when the database fails, the rows before the failing entry stay stored and every entry is an item |
| `ApplyBlacklist`, `RouteTiers`, `SelectItems` | `blacklist_filter.py`, `tier_router.py`, `priority_selector.py` |
| `place`, `Place`, `ByList`, `ByVotes`, `ByTier` | the order of the selection: the place of an item is the number of items that a stable sort puts before it |
| `FilterFails` | their except clauses |

`SelectionRight` relates what the selector got and what it kept: all of the first two
tiers, beyond eight only for them, the best voted of the third, no place left free while
something is dropped. `FirstSightDecides` says what storing before filtering means: the
votes, and the source, with which a post is first seen decide for good, and a post that
was below its threshold then is never selected, whatever it gets later.

The part `intake` of `parts`: five posts that cover both tiers, the blacklist, a
whitelisted post without votes and a post that two sources list; two runs, so that a post is seen again with another vote; one fault;
two places instead of eight, so that the first tiers can fill them, exceed them and leave
some over; thresholds of one vote, which a listing passes or not.

Two violations compare the selection with the documents. `tier_quota`: they give the
tiers quotas of 7, 1 and 4, which no code reads, and eight places may all go to one
tier (`QuotasKept`; five posts suffice). `young_votes`: they lower the vote threshold for
posts less than two hours old, and no code reads `hn_young_min_points` or the age of a
post (`YoungVotesSuffice`). `SelectionRight` and `FirstSightDecides` state what the code
does instead.

`PartsProofs` proves both, and the types, for any posts, finitely many listings, votes,
thresholds and limit (`SelectionIsRight`, `FirstSightIsFinal`, `IntakeTypeCorrect`). The
filters only take positions away, so `IntakeInv` can say of every item at every stage what
entry it is: unless its post is of a run with a fault, it is the entry the post was first
seen as, and its post has one item. A place is a number of items, so the sorting needs no
induction over a list: for a strict total order of a finite set (`Sorts`) what comes sooner
has the smaller place (`PlaceGrows`, a set and its proper subset), places tell the order
(`PlaceTells`), and the first n are n unless there are fewer (`FirstAreFirst`). The last is
the one that needs induction, and gets it as the least element of a set of numbers
(`LeastNat`, from the well-foundedness theorems of the library). That the first sight
of a post exists is another use of `LeastNat`.

A remark: a fetcher swallows its own exceptions, so `fetch_errors` of `fetch_all` counts
no source that failed. Not modelled: the parsing of feeds and the matching of words,
custom sources, retention.

## 10. The digest and the threshold search

`DigestFormat.tla` is `send_digest` in detail: `StoreToday`, `ToggleHot` and `DayEnds`
change the rows; `LoadDigest` is `_load_unsent_items` and the start of `format_digest`;
`PlaceEntry` is a turn of its loop, which puts the first of the sorted rows that are left
(`unplaced`) into the current message or opens the next one (`AddEntry`);
`SendNextMessage` sends. An entry is its length, a message the entries it holds. Other
processes may change the rows while the loop goes on.
`DigestRight` has three parts: the messages hold each loaded row once, hot ones first and
then by url (`InOrder`); a message exceeds the limit only when it is a single entry that
does, and a message is broken only where the next entry does not fit (`SplitWell`); a row
that is in no digest was stored after the last digest of its day (`OnlyLateMissed`), nothing
else loses one. That these rows are lost too is the violation `digest_late`:
`feature-spec-v2.md:360` says that a digest sends every item with `telegram_sent = 0`,
and the code loads the rows of the day only (`LateIsSent`; two rows and two days). The
part `digest` of `parts`: three rows
with entries of length 2, 5 or 7, a header of 2 and a limit of 6, so that entries fit
together, only alone, or never; two days.

`PartsProofs` proves it for any rows, lengths and limit (`DigestIsRight`,
`DigestTypeCorrect`). `DigestInv` states the three parts for a loop
midway: a row that is placed sorts before every row still to be placed; what the messages
hold was loaded and placed, in the order of the sort; what was placed is in a message left,
or was sent; each message keeps the limit (`WithinLimit`) and was opened because its first
entry did not fit into the one before (`OpenedBy`). `EntryAdded` is the lemma about a
turn: where each entry is afterwards, whether the message was extended (`EntryExtends`) or
a new one opened (`EntryOpens`).

A remark: `digest_pipeline.py:47` reads the column `summary_text`, which is called
`summary_ko`, so an entry never has its summary.

`ThresholdSearch.tla` is `suggest_thresholds`: `NextSource` loads the votes of a source,
`Probe` is a turn of the binary search, `Suggest` its result, `SuggestRaises` the except
clause, which drops the suggestions made before. `SmallestFitting`: the search ends at
the least threshold whose rate does not exceed the target, NULL votes and sources
without items included, when some threshold of the range does. When none does, the
search answers 0, at which everything with votes passes, although
`threshold_calibrator.py:4-5` promises a threshold close to the target rate and
`feature-spec-v2.md:416` a rate of 30 to 50 %; the instance has such votes, and the
property claims nothing for them. The part `threshold` of `parts`: two sources, three
articles with up to five votes, thresholds to 4, a target of two in five. `PartsProofs`
proves it for any votes and bounds (`SearchFindsLeast`): below `lo` nothing fits, `best`
is the one above `hi` and fits, or none was found yet (`SearchInv`), and the rate does
not grow with the threshold (`FitsAbove`), without which the search would prove nothing.

## 11. Tables with several writers

### Hot items

`HotNews.tla` follows items from the deduplication to `is_hot` and `hot_news`.

| state, action | code |
|---|---|
| `carried`, `StoreItem`, `CallNew`, `DetectLanguage` | the item of a run: `filter_new`, its fall back, the detector that builds a new item without `db_id` |
| `JudgeHot`, `JudgeOrdinary`, `InsertHotNews`, `SaveHotFails` | `detect` and the two commits of `_save_hot`; an exception or a death between them |
| `hotRow`, `lastId`, `linked`, `unlinked`, `PurgeItem` | ids are never used again; the retention deletes the item and sets the references to NULL |
| `tile`, `hotTab`, `LoadNews`, `LoadHotTab` | the app's two lists, as loaded last |
| `MarkAsHot`, `ToggleOff`, `RemoveHot` | `markAsHot`, `unmarkAsHot`, from a list that may have aged |

`DuplicatesExplained`: a second row of a URL has one of four causes. Two runs, two
urls, two ids and two taps let each cause happen. `PartsProofs` proves it for any
numbers (`DuplicatesAreExplained`), from `FirstRow`: as long as none of the causes is
there, the URL has one row at most, it is the user's or the program's, and the program's
comes from the only run that has begun with the URL.

`hot_unflagged` shows a bug of the code: `DetectedIsFlagged` is violated, because
`language_detector.py:32` loses the `db_id`, the item that a run saved as hot never gets
`is_hot = 1`, and the row refers to no item.

### Prompt versions

`PromptVersions.tla` has the app's two operations, statement by statement
(`ReadMaxVersion`, `DeactivateAll`, `InsertVersion`; `DeactivateFor`, `SetActive`), the
store's as transactions (`StoreReadMax`, `StoreCreate`, `StoreActivate`), and the failure
of any statement (`EditFails`). The seed makes version 1 active. With nothing midway one version is active, or two of the
app's operations met or one broke after it had deactivated, and no undisturbed operation
has begun since (`OneActive`). Four operations and three versions: two to disturb each
other, one before and one after them. Proved for any number as `OneVersionActive`, with
`NumbersConsecutive` (two calls that read the same maximum: one raises, and the numbers
keep no gap). `PromptInv` says that an operation midway that had the table for itself left
no version active.

### Migration

`Migration.tla` is `migrate()` by processes that may die anywhere, over an empty, a half
migrated or an older database, while the app saves a setting. SQLite's part is modelled
as far as it decides who is refused: one writer, and a transaction that has only read
cannot write once another has committed (`old`, `SQLITE_BUSY_SNAPSHOT`).
`MigratedOrRaced`: `migrate` returns only over a complete database; it raises only when
another writer was there while it ran; a saved setting outlives every later seed.
Instance: two processes, two of the new columns, four launches (a death, its repair, and
two that race), one edit. Proved as `MigrationSafe`: `DoneSoFar` is what a process has
done up to its stage and nobody undoes; `Undisturbed` that one which met no writer has
the lock, an up-to-date snapshot and an up-to-date lookup.

### Health checks

`HealthCheck.tla` is a check (`Check`), the insert of each answer (`SaveItem`,
`SaveItemFails`, `DieInCheck`), the clock of whole seconds and the retention, with the two
readers as operators: the store shows the greatest id of a target, the app the greatest
`created_at` of a type. `ShownExplained`: between two checks the app hides a row of the
last one only when its type was saved across a second, the store only when the same check
saved the target again (the configuration may name one model for both tasks); and the app
shows an older row only after Ollama was down, for rows that could not be saved, or within
the same second. Two checks and one second, in which each case happens; one model for both
tasks; retention of no second, to let it happen.

`PartsProofs` proves it for any models, sources, number of checks and retention
(`ShownIsExplained`, `HealthTypeCorrect`). `HealthInv` says that ids
follow the order of the checks and of the seconds, and that a row of an earlier check whose
target the last one asked for again (`AskedAgain`: all targets, the models only while
Ollama was up) was saved again, failed to be, or is still to be saved. That the targets of
two checks agree is the lemma `AnswersAgree`.

### Schedule

`Schedule.tla` has the hours of launchd (`FiredHours`), those the detector expects
(`ExpectedHours`), runs, hours slept through and `--catchup`. `missed_unseen` shows a bug
of the code: `MissedRecorded` is violated, because `skip_detector.py:44` reads a column
`run_at` that `run_history` does not have, so that no hour is ever found missed.
`PartsProofs` proves the bug in general (`NothingIsCaughtUp`): whatever hours are expected,
fired or slept through, nothing is ever recorded as missed, and `--catchup` starts no run.
Remarks: launchd fires at hour 0, which the detector does not expect; `get_missed` and
`mark_executed` are called by nothing.

Deadlock is not checked in `parts`, `hot_unflagged` and `missed_unseen`: the counters that
bound them (runs, launches, taps, checks, days, hours) run out, and a sender or a chain
that is over has stopped. The same goes for `pipeline`, `digest_repeat`,
`chain_fallback`, `tier_quota`, `young_votes` and `digest_late`. In `live`,
`lock_ignored` and `settings_unused` it is checked.

## 12. Limits

Every safety invariant and action property of the passing runs is proved for every value
of the constants, and so are the type invariants, which are in no run. Only
model-checked, on the instances above, are the three liveness properties (`RunEnds`,
`EveryMessageHandled`, `OnlyPipeBlocks`). They need ENABLED, for the fairness, which the
prover does not have. What it can say of them is proved: a run, a poll and a command each
go down an order without endless descent (`RunsAreFinite`, `PollsAreFinite`,
`CommandsAreFinite`), and so do a sender and a chain, of which no liveness property is
stated (`SendingIsFinite`, `ChainsAreFinite`). What is left to TLC is that the next step
can always be taken.

The nine violations are shown by TLC; one of them (`missed_unseen`) is proved in general.

The prover has no induction over data. Where a proof needs one (sorted places, the first
entry of a post, the latest row) it takes the least element of a set of numbers, which
the library's theorems about well-founded orders give.

Assumed by the proofs: the named ASSUMEs of the modules, which say that bounds are
numbers, that the sets of URLs of two sorts of sources are disjoint, that required and
numeric keys are keys, that the listings of a run and the articles of a source are
finitely many, and the like; TLC evaluates each in the runs of its module. Three theorems
assume more in their own statement: `RunsAreFinite` and `SendingIsFinite` that items and
chats are finitely many, `NothingIsCaughtUp` that hours are numbers.

Not modelled:

- statistics (`np/db/store_analytics.py`, charts of the app): queries that read only;
- the texts of messages, prompts and summaries, beyond their lengths in a digest;
- widgets, theme, menu bar and the macOS runner of the app: they read the tables, and the
  writes they call are modelled with the tables;
- installation scripts: run once, by hand;
- the parsing of feeds and the network below it: no state of their own;
- VACUUM, and the ages of tables other than `processed_items` and
  `health_check_results`: each is one DELETE by date;
- the whitelist's rows and their editor, and numbers in settings beyond whether they are one;
- in `NewsPipeline`, the contents of `error_log`, `model_usage_log` and `hot_news`. The
  update of a processed item by its id is never reached (section 11, hot items).
