# db-connect: a TLA+ model of the back end

db-connect is a desktop database client (Tauri: a Rust back end, a TypeScript
front end) for MySQL, PostgreSQL, SQLite, SQL Server and ClickHouse. This
directory holds TLA+ modules that model the parts of the back end that keep
state or carry out several steps against a database, the TLC configurations that
check them on small instances, and TLAPS proofs, for all sizes, about data tasks
(registry, commands and workers, snapshots and their sort, the transfer itself, its
gate and the pages of its preview), the two registries of cancellable statements,
the connection manager, the metadata cache and its pages, and the synchronisation
of schemas.

## 1. Inventory

Paths are relative to `src/src-tauri/src` unless they start with `src/src`.

| Component | State | Operations | Hard behaviours | Module |
|---|---|---|---|---|
| Task registry (`db/data_tasks/registry.rs`) | one mutex over task records, cancellations that came before their task, and a single writer slot | register_preview, set_ready, begin_execution, cancel, progress, finish, discard, list/snapshot/has_active (all of which expire previews), restore, trim, append_cleanup_error | every thread calls it in any order; late progress; two ends of one task; limits (3 previews, 100 terminal records, 1000 early cancellations) | DataTaskRegistry |
| Commands and workers (`commands/data_tasks.rs`) | plan map, spool directories, history lock, two spawned tasks per data task | start preview, execute, cancel, discard, poll, diff, list; publish, persist, prune, maintenance, cancel_all | several lock sections per command; persist may fail at each point; plans removed by a list made earlier; panics | DataTaskRuntime, AppExit |
| History (`db/data_tasks/history.rs`) | `history.json` | save (temporary file and rename, at most 100), load | a crash between two saves; unfinished tasks on restart | DataTaskRuntime |
| Executor (`db/data_tasks/executor.rs`, `plan.rs`, `metadata.rs`) | the plan, the target session and its transaction | prepare (read, compare, plan), execute (preflight, BEGIN, drift check, write, verify, COMMIT or ROLLBACK) | cancellation against commit; unanswered COMMIT or ROLLBACK; drift between preview and execution; what an account cannot see | DataTaskRuntime, DataTransfer, AtomicTransfer, TransferGate, DiffPages |
| Snapshots (`executor.rs`, `spool.rs`, `adapters/*`) | a channel of one place, spool files, memory and disk budget | stream, convert, spool, sort, merge | reader and writer wait for each other; budgets at their limit; every error path gives back what it took | SnapshotStream, ExternalSort |
| Values (`type_mapping.rs`, `value.rs`, `adapters/*`) | none | judge two types, read, convert, bind, compare | ranges and scales at their edges | ValueTransfer |
| MySQL query registry (`db/mysql_query.rs`) | query entries, phase and outcome of each | register, cancel, attach, run, settle, close | completion against KILL QUERY; cancel before register; waiting for an outcome | MysqlQuery |
| Table query registry (`db/table_query.rs`, the drivers) | query entries | register, cancel, run, drop, stop | sessions that go back to the pool with something running | TableQuery |
| Connection manager, SSH tunnels (`db/connection.rs`, `db/ssh_tunnel/*`, `commands/connection.rs`) | active connections with pools and tunnels, the file of trusted keys | connect, test, disconnect (normal, forced, idle), ping, use, clear a host | close in flight against use; idle check against activity; failures in the middle of a connect | Connections |
| Metadata cache and pagination (`db/table_pagination.rs`, `commands/data.rs`) | cached columns, cursors, generations, epochs | load a page, remember, invalidate, close, activate | a read that spans an invalidation or a reconnect | TablePages |
| Saved connections (`commands/connection.rs`) | one encrypted file | save, group, order, move, delete, export, import, migrate | masked passwords; commands that overlap without a lock; a death while a file is written | SavedConnections |
| Row editing (`commands/data.rs`, `db/batch_update.rs`, `db/mysql_deferred_fields.rs`, the drivers) | a transaction per batch | batch update, insert, update, delete, full rows | equal keys in other spellings; rows that move; other sessions; COMMIT without answer | RowEditing |
| Schema comparison and synchronisation (`db/schema_compare`, `db/schema_sync`, `commands/database_sync.rs`) | two temporary connections | compare, preview, execute, re-compare, clean up | order of DDL, and what the server refuses in that order; drift against a confirmed fingerprint; partial DDL | Schema, SchemaPlan, DatabaseSync |
| SQL files (`commands/sql_file.rs`, `db/sql_script.rs`) | a cancel token, a file | export, import, split | several catalogue queries without a transaction; session settings; quoting; bodies that contain semicolons | SqlFile, SqlScript |
| Application exit (`lib.rs`, `lifecycle.rs`) | prompt flag | close the window, quit, confirm, cancel all, wait, exit | tasks that start between two checks of one exit | AppExit |
| Binary export (`commands/file_io.rs`) | one pending path | prepare, take, cancel | the time limit; write against cancel | - |
| Object commands, dialects, credentials, preferences | none shared between calls | one statement or file per command | text generation and I/O | - |
| Front-end stores (`src/src/stores/*.ts`) | snapshots by task, execution ids | apply snapshot, start, execute, cancel, discard | events and answers out of order | - |

How they interact: the front end calls Tauri commands. A data task command
registers its intent in the registry, saves the history, spawns a worker and
returns. The worker reports progress through a callback (registry, then history,
then an event) and shares one cancellation flag with its record. It streams both
endpoints into spools through the adapters, compares them, and after the user's
confirmation writes the difference in one transaction. Every command and a 30
second timer prune the plan map. The registry lock, the plan-map lock and the
history lock are never held together except that persist takes the registry lock
inside the history lock. All other commands take a pool handle from the
connection manager under its lock and use it after the lock; DDL and disconnects
invalidate the metadata cache by generation and epoch.

What makes the parts correct: a target is written by at most one task at a time,
with exactly what the preview showed, in one step; each confirmed plan runs at
most once; an accepted cancellation is never followed by a commit and never hits
somebody else's statement; the reported outcome is true or says that it is
unknown (across lost answers, panics and crashes); every task ends; snapshots of
user data do not outlive their task; a session returns to its pool quiet, without
a transaction and with its settings; pages neither repeat nor skip rows; files
hold what the user saved; limits hold.

## 2. Modules

| Module | Models |
|---|---|
| `DataTaskRegistry` | the registry; every method is one action, because every method holds the mutex for its whole body |
| `DataTaskRuntime` | commands, workers, executor control, history, crash and restart; extends `DataTaskRegistry` and uses its actions as the lock sections of its threads |
| `AtomicTransfer` | abstract: what a data task promises |
| `DataTransfer` | the rows of one task from preview to result; implements `AtomicTransfer` |
| `TransferGate` | the conditions under which a task may write to its target, over what the account can see |
| `DiffPages` | the pages of a preview's differences |
| `SnapshotStream`, `ExternalSort` | reading an endpoint into a spool, and sorting the spool |
| `ValueTransfer` | one cell from a source column to a target column |
| `MysqlQuery`, `TableQuery` | the two registries of cancellable statements, with the sessions |
| `Connections`, `TablePages`, `SavedConnections` | connection manager, tunnels and known hosts; metadata cache and pages; the file of saved connections |
| `AppExit` | closing and quitting while data tasks run |
| `RowEditing` | batch updates, single edits, full rows |
| `Schema`, `SchemaPlan`, `DatabaseSync` | tables and DDL; the five planners; the commands that compare and synchronise |
| `SqlFile`, `SqlScript` | export and import of SQL files; the splitters of their text |
| `DataTaskRuntimeProofs`, `DataTransferProofs`, `SnapshotProofs`, `QueryProofs`, `ConnectionsProofs`, `StatementsProofs`, `ScriptProofs` | theorems about the modules they extend, section 4 |
| `Sums`, `Induction` | sums over sequences and sets; lemmas the proofs share, on inductions, sums, orders, paths through a sequence of tokens and the places of flattened sequences |
| `MC*` | instances for TLC |

Components that share no state are checked in one run. Such an MC module has a
variable `part`, chosen initially: a behaviour moves the part it names and leaves
the others where they start. The parts do not weaken each other: every
property is checked on all behaviours of its own part.

A definition whose comment starts with "Faulty" is a plausible mistake in the
definition that follows it. No action uses it: it documents which mistake a
property detects.

### DataTaskRegistry

`rec` is `records` (an id without record has `NoRecord`), `cancelledBefore` is
`cancelled_before_register`, `writer` is `writer`, `now` is the clock. A record
keeps what the methods decide on: status, cancellation flag, execution input,
execution id, plan id, plan of the shown preview, its deadline, the commit state
of the result, the time of the last touch. Row counters, sequence numbers, the
request and message texts are left out.

`Expired` is the effect of `expire`, which most methods run first; `TrimChoices`
are the sets `trim` may remove (records of one millisecond have no order).
`RaiseCancelFlag` is the progress callback that sets the shared flag from
outside. `Partial`, a status and a commit state that no code constructs, is left
out.

### DataTaskRuntime

A thread is a command in flight (`Callers`), the preview or execution worker of a
task, or the timer. `thread[th].at` is where it is; each lock section is one
action, and between two of them everything else may happen. Clean-up calls
(publish, prune, persist) are a list in `todo` that a thread works off.

| Code | Actions |
|---|---|
| `start_data_task_preview` | StartPreview, RecordPreview, Abandon, SpawnPreview |
| its worker, `prepare_task` | Emit, Journal, PreviewWork, BuildPlan, InsertPlan, PublishPlan, WithdrawPlan, PreviewFails, FinishPreview |
| `execute_data_task` | Execute, PruneList .. PruneDelete, LookupPlan, BeginTask, RecordExecution, Abandon, SpawnExecution |
| its worker, `execute_sqlite`, `execute_network` | Preflight, OpenTransaction, TransactionWork, TransactionFails, Emit, Journal, SendCommit, CommitConfirmed, CommitUnconfirmed, CommitReported, Rollback, ExecutorPanics, FinishExecution |
| `cancel_data_task`, `discard_data_task_preview` | CancelTask, Discard, DiscardCancels |
| `get_data_task`, `get_data_task_diff`, `list_data_tasks` | Poll |
| `prune`, `publish`, `persist`, `maintenance` | PruneList, PruneRemove, PruneDelete, TailPersist, Maintenance |
| crash, `initialize`, `load_history`, `restore` | Restart |
| the target database | DatabaseDecides |

`target[t]` is the truth the reports are compared with: `clean`, `open`, `lost`
(the session ended before COMMIT was sent), `inflight` (COMMIT sent, not decided)
and `committed`.

Choices worth knowing:

- `persist` is one action. The history lock is held from the listing to the
  rename, and the file is read only at start-up.
- A failed `publish` appends its note in the same step as the listing that
  preceded it; the note is not part of the state, only the touch is.
- A failed write of the history in the progress callback lists the records and
  sets the flag in one step. The worker reads the flag only afterwards.
- The front end makes a fresh UUID per task and keeps one execution id per task
  (`dataTaskStore.ts`), so `Executions = Tasks`, and an id is not previewed
  again while any thread still works for it or after it has written.
- `set_ready` refused for any other reason than a cancellation or a trimmed
  record does not occur with fresh ids, so WithdrawPlan concludes with Cancelled.
- Prune deletes the snapshot directory even if an execution holds the plan; the
  executor therefore needs `plan \in spools` to go on.
- A history file that cannot be read makes every command fail and is not
  modelled; neither are directories that cannot be created.

### DataTransfer and AtomicTransfer

A row is <<table, key, value>>; the value in a table with a foreign key is a key
of its parent. `plan` is the frozen preview, `tx` the target as the open
transaction sees it, `tgt` the committed target, `session` and `link` the state
of the transaction and of the connection. Prepare, begin_protected_write, the
drift check, the batches (`Stages`: deletes, updates and inserts, tables in the
order of their foreign keys, which the plan keeps), maintain_generators, Verify, Commit and Rollback are actions;
others write whenever no lock stops them, statements fail, a link breaks, and
the server may decide on a COMMIT after the client has given up. `Coerced` is a
server that stores something else than it was given.
`AtomicTransfer` knows only the mode, the frozen source, the target and the
outcome: the target changes in one step by the rule of the mode. The refinement
mapping takes `tgt` for the target and "the session has committed" for the step;
the run `data` checks `Atomic`, the abstract specification as a property.

### TransferGate, DiffPages, ValueTransfer

`TransferGate` separates the truth about a target (`world`: foreign keys, triggers,
policies, kind of table, rights) from what metadata_inner of each adapter reads of
it (`view`); the preview is judged on the first view, and Recheck demands the same
fingerprint after the tables are locked. `Alter` changes the world in between.
`ValueTransfer` follows one cell through declared type, type judgement, wire
format, conversion, bind and read-back per engine. Only the 64 bit width is scaled
down; other widths, lengths, precisions and scales are the real ones.
`DiffPages` is `diff_page` with its two limits.

### SnapshotStream and ExternalSort

A row is its size; the reader leases memory for the payload and for the row (and
waits), the writer leases too (and fails at once), a channel of one place
connects them. The sort is the binary counter of runs, written row by row so that
each write may fail; `used` is the quota, `merged` the result.

### MysqlQuery and TableQuery

An attempt is one command call with its guard. The entries lock and the phase lock
of a cancellation are separate actions. A KILL may time out and arrive later
(`late`). `session[s]` says whether a session is pooled, used or given up and what
runs on it: this is what the properties compare.

### Connections, TablePages, SavedConnections

`stage[c]` follows a connection from prepare to gone; the lock sections of use and
disconnect are separate actions. `known` is the file of trusted keys, `clearing` the
copy that clear_known_host rewrites under KNOWN_HOSTS_LOCK. `TablePages` keeps the
server's `version`, the cache, generation, cursors and the loads in flight, each
with a lookup, two metadata queries, a store and a query.

In `SavedConnections` a command is one of `Callers`; several run at once, because the
commands are asynchronous and take no lock (commands/connection.rs:709-905). Each
loads the file (`LoadFile`), migrates a plain one (`Migrate`, a file beside it and a
rename), and, when it changed what it loaded, empties the file and writes it (`CutFile`,
`WriteFile`: the two halves of `std::fs::write`, line 462). Deleting and reordering load
twice. Between any two of these steps the other commands go on: a reader may meet the
file that is cut, a writer may overwrite what another one wrote, and two that write at
once may leave the end of the longer text behind. `missed` is what others wrote behind a
command's back, and `doubtful` the ids for which that made a difference; `torn` says that
the process died, or an error came, in the middle of a write.

### AppExit

The main thread takes one event (a window that is asked to close, a quit, the
request of the waiting loop, the last window gone), asks has_active and then
allows or refuses: two steps, because tasks move in between. `prompt` is
exit_prompt_open. cancel_all lists the tasks (`promised`) and cancels them one by
one (`todo`); the loop looks, saves and requests in three steps and goes on.
Commands are sent by the window and received later, also after it has gone. A
task is its status, with the transitions of `DataTaskRegistry`; the limit of one
writer is left out, which only adds behaviours.

### RowEditing

`Statements` is build_batch_update_statements (grouping by changed columns,
splitting by rows and parameters); a batch validates all statements first and
then writes them in one transaction while other sessions insert, update and
delete. `Class` maps spellings of a key to what the database considers equal.

### Schema, SchemaPlan, DatabaseSync

A table has columns with the attributes the comparison looks at; `Ran` applies a
statement the way the server does, or refuses it: names that are missing or there
already, keys, and what each server forbids of a column (`Refuses`: SQL Server a new
type under a default constraint, PostgreSQL a new type no assignment reaches, MySQL an
AUTO_INCREMENT column without its key and a change between virtual and stored). Each planner returns operations
and blocked columns; the fingerprint is the plan with what it was computed from.
`DatabaseSync` reads public snapshot and native metadata by two queries each side;
a world says how often other clients may interfere (`drifts`) and calls may fail
(`faults`).

### SqlFile and SqlScript

`SqlFile` exports a catalogue of objects with dependencies through several queries
(`Queries`); the file is the sequence of the exported statements. The import first cuts
it (`AllFragments`): a trigger, event or routine may have a `body`, BEGIN ... END
in no quotes, and except in the batches of SQL Server the splitter cuts it at each of
its semicolons into a head, the inner statements and an END. Then `statements` run one
by one against a database `dest` that accepts or refuses each (`Accepted`, an external
server): it refuses the head and what makes no sense outside, an insert runs on its own,
and a lone END ends a transaction of SQLite. `exporting`, `nth` and `doing`, `line` are the places of the two commands,
`meta` and `rowsRead` what the export read, `session` the settings of the pooled
connection. `MCStatements` moves it, `DatabaseSync` or `SqlScript`, one per behaviour.
`SqlScript` works on tokens: the characters a splitter looks at, and the
words by which the ClickHouse splitter knows an INSERT with data. It writes statements
with comments, literals and bodies (in dollar quotes or in none), reads the text back,
and compares with what should have been cut (`AllPieces`). `Misread` marks a statement
the splitter cannot read as it was meant: a literal in which a backslash that is no
escape stands unpaired before a quote or the end, and a `#` that is an operator.

## 3. Properties and runs

| Run | Instance | Distinct states | Checks |
|---|---|---|---|
| `registry` | 2 tasks, 2 plans, 2 execution ids; limits 1; clock to 2 | 58 000 | RegistryTypeOK, WriterOwns, RunningPhase, ExecutedOnce, PreviewsBounded, CancellingEnds, TerminalIsFinal |
| `runtimes` | one task from the start with timer and crash; two previewed tasks (network, SQLite); two commands on one previewed task beside two finished ones | 1 472 000 | RuntimeTypeOK, HonestResult, CancelHonoured, DurableIntent, WriterHasThread, OneTransaction, ExecutionStartedOnce |
| `runtime_ends` | one network task, one command, the timer, fairness | 156 000 | TaskEnds, OrphanPlansRemoved |
| `queries` | two ids with one cancel, one id with two cancels, page loads of all engines; one session; fairness | 103 000 | StopStaysWithQuery, OneRunPerId, CancelTrue, CancellationsEnd |
| `statements` | every pair of small tables, native details (AUTO_INCREMENT, generated, defaults), drift on two tables, up to two failures; one or two catalogues per engine, with bodies; files of two statements with contents of up to two characters, and with bodies of two statements | 1 532 000 | SyncHonest, KeyNeverLost, SameContent, FileHonest, Replays, RoundTrip |
| `snapshots` | sorts of up to 9 rows, streams of up to 3 rows on three kinds of adapter, transfers without drift; fairness | 76 000 | SnapshotExact, SortExact, StagesEnd |
| `data` | transfers over two tables and four rows in all modes; 59 column types; one unusual fact and one change of a target; spools of up to 4 operations; batches of up to 2 updates | 681 000 | Atomic, CommitsPreview, ValuesIntact, WritesOnlyPreview, PagesComplete, BatchExact, RollbackHonest |
| `connections` | two tunnelled connections (one a test); two page loads with one DDL; commands on saved connections, two at a time and three one by one; an exit with two tasks; fairness | 570 000 | ConnectionsKept, PagesTrue, FilesKept, EndsReached |
| `ready_has_plan` | one task without crash | violated | ReadyHasPlan |
| `discard_spares_execution` | one previewed task, 2 commands | violated | DiscardSparesExecution |
| `full_sync` | the synchronisations of `statements` | violated | FullySynced |
| `values_verify` | the values' part of `data` | violated | AcceptedVerifies |

What they show:

- **WriterOwns, OneTransaction, WriterHasThread**: at most one execution at a
  time, and a taken slot always has a thread that will release it, also when the
  history cannot be written or the worker panics.
- **ExecutedOnce, ExecutionStartedOnce**: no double execution, although
  `execute_data_task` looks for the execution id, prunes, looks up the plan and
  begins in four lock sections.
- **RunningPhase, CancellingEnds, TerminalIsFinal, CancelHonoured**: the
  protocol between the shared flag, the status and the commit: `cancel` refuses
  Committing, `progress` refuses Cancelling, and the worker registers Committing
  *before* it reads the flag for the last time. Any other order loses a cancel.
- **HonestResult, DurableIntent**: `None`, `RolledBack` and `Committed` are
  true; whenever COMMIT has been sent for a listed task the history already says that
  an execution began, so a crash at this instant restores an unknown outcome.
- **Atomic, CommitsPreview, WritesOnlyPreview, StagesEnd**: the target changes
  in one step to what the preview promised or not at all, although others write
  and connections break; no foreign key, trigger or policy that the account could
  not see adds to it; a silent server does not keep the locks.
- **SnapshotExact, SortExact, StagesEnd, PagesComplete, ValuesIntact**: every row of an
  endpoint is in the snapshot once and in key order, budgets balance on every
  error path, reader and writer never wait for each other for ever, pages of the
  preview show every difference once, and a verified value kept its meaning.
- **StopStaysWithQuery, OneRunPerId, CancelTrue, CancellationsEnd**: a late KILL never
  reaches the next statement of a pooled session, an answer "cancelled" is true,
  and nobody waits for a cancellation for ever. The first three are MysqlQuery's with
  one id; CancellationsEnd adds the executions with two ids and the page loads.
- **ConnectionsKept, EndsReached, PagesTrue, FilesKept**: failed connects leave no ssh
  process and no password file; an idle disconnect spares a connection in use; no
  answered DDL leaves old metadata in use, and cursors lead to the page that
  counting would show; a trusted key is lost only on request; a saved connection or
  password only on request, by an interrupted write or by a command that overlapped with
  one that wrote it; a forced disconnect ends although a query hangs; once the user has chosen to leave,
  the application ends, after the tasks it cancelled and with their outcomes saved,
  unless a task that was started later never ends.
- **BatchExact, RollbackHonest**: a committed batch changed exactly the rows it
  names; "rolled back" is true; a session returns to the pool without transaction.
- **SyncHonest, KeyNeverLost, SameContent**: drift stops an execution, its report
  is true, nothing is deleted unasked, and every planned statement can be run in its
  place unless the two definitions of its table clash (`Clash`, read off the schemas
  alone). A plan for a table that clashes never completes: the clashes are exactly what
  the servers refuse (Observations).
- **FileHonest, Replays, RoundTrip**: reports match the file; a cancelled export writes
  nothing (the file, which is created before the first check, stays empty,
  sql_file.rs:3183); the connection that ran a whole file is clean. An import of the export
  of a quiet database gives the same objects and rows, except for the objects whose bodies
  the import cuts and what needs them: these are lost and reported, rows that inserts of
  such a body leave behind are the only strays, and nothing else fails. The splitters cut
  the statements as they were exported, and bodies in no quotes into their statements,
  up to the first literal or operator that they misread.
- **TaskEnds, OrphanPlansRemoved**: nothing stays for ever.

Bounds. Two tasks are enough for the slot and for uniqueness, because every
method touches one record, or all of them in the same way. A limit of one
reaches the limit of three, of 100 and of 256; TerminalLimit 0, or two with two
finished tasks beside the running one, makes a record vanish while its threads
still run. MaxTime 1 or 2 with a life of 1 puts every action before and after a
deadline. HistoryLimit is at least the number of tasks:
DurableIntent depends on the record of a running task not falling off the end
of the file (the code keeps 100 and at most 100 terminal records). `runtime_ends`
has CancelLimit 0, because a cancel ahead of its task is a matter of safety.
One session makes every statement of the pool meet every other. Two tables with
two keys, batches of one and one drift put a foreign write before and after every
step of a transfer. Sorts of 7 and 9 rows reach the third level of the binary
counter and the last pass over unequal levels. Pages of one row over three rows
in two orders show a wrong cursor at once. A table of four rows is cut at MaxRows 3 and
a list of two failures overflows with the third. MaxBroken, MaxFaults and
`faults` bound failures per behaviour, MaxChanges, MaxDrift and `drifts` changes by others,
MaxAlters changes of a target's catalogue. Runs have CHECK_DEADLOCK FALSE because clocks and command counts are
bounded and the user need not send a command; that nothing hangs is what the
liveness properties say.

Symmetry is used in `registry` only; runs with liveness have none.

Fairness. Weak fairness of each command under way, each worker and the timer:
Tokio polls every spawned task, and database calls whose answer the code waits for
are bounded by time-outs (ten seconds for COMMIT, ROLLBACK and SQLite locks, two
for KILL and for a forced close). In `AppExit` the ends of cancelled and committing
tasks are fair for the same reason, those of other tasks and answers of the user are
not. There is no fairness for user commands, for the
statements of users, for the arrival of a KILL, for the database's decision on a
COMMIT. Liveness of data tasks is that of a process that keeps running (`FairSpec`
has no Restart); what a crash leaves is a matter of the safety properties. SQLite's interrupt is fair because its progress handler
runs in the process. In `snapshots` the reader's wait for memory is part of its
step, so that waiting for ever would be a violation.

### Disagreements between the code and its texts

- `ReadyHasPlan`: README.md:69 of the repository gives a preview 15 minutes. A
  prune that listed the records just before `set_ready` and takes the plan-map
  lock just after the insert removes the new plan. The task becomes Ready, and
  execute and diff answer that the preview is stale. No data is at risk.
- `DiscardSparesExecution`: registry.rs:377 refuses to discard a running plan,
  but the test is made on a snapshot and the cancel happens under a second lock.
  An execution that begins in between is cancelled (and rolled back properly).
- `FullySynced`: the design of the synchronisation says that a table disappears
  from the list once it is synchronised. Moved columns (MySQL, ClickHouse) and
  column numbers with gaps (PostgreSQL, SQL Server) keep it there.
- `AcceptedVerifies`: columns of one engine are judged by range but their values
  are not converted, so INT UNSIGNED to BIGINT is accepted, written, found
  different when it is read back, and rolled back.

### Observations

Met while modelling, and excluded from the instances or the properties where they
would hide everything else; none is part of a run:

- Updates run before inserts (executor.rs:1262): a row that is updated to refer to
  a row that the same plan inserts is refused by the server.
- Only quotes are doubled in SQLite values and PostgreSQL comments, while the
  splitter (sql_script.rs:60) takes a backslash for an escape, and outside of quotes a `#`
  for a comment, which in PostgreSQL is an operator. A literal with an unpaired backslash
  before a quote or its end shifts every cut behind it. The instances have these
  statements; RoundTrip promises what was cut off before the first of them (`Misread`),
  and on the instances each of them really is cut wrongly.
- A body in no quotes is cut at its semicolons (sql_script.rs:115), except in SQL Server's
  batches. The repository's README says so of SQLite's triggers (README.md:44-45, which
  also has the dollar quotes of PostgreSQL); it does not of MySQL's triggers and events
  (sql_file.rs:3478, 3514). The import reports the head as failed and goes on: an insert of
  the body runs as a statement of its own, a stray END closes the transaction of a SQLite
  file early. Replays keeps this to the object and what needs it (`Lost`, `Strays`). Its
  instances take such an insert to be one row; bodies with statements that control
  transactions are left out.
- ClickHouse materialized views copy the rows again on import (sql_file.rs:2837); Replays
  counts them (`Copies`). SQL Server views are exported in the order of their names
  (sql_file.rs:1480); the exports of the instances have none that needs a later one.
- Some changes of a column cannot be made by the statements the planners send, in any
  order, and are neither blocked nor noticed before the server refuses them, although the
  repository's README (README.md:52) says that changes which cannot be expressed safely
  are blocked: on SQL Server the type is altered before the default constraint is dropped
  (sqlserver_ddl.rs:603-631, error 5074); on PostgreSQL ALTER TYPE has no USING and comes
  before the default is changed (postgres_ddl.rs:265-329); on MySQL a column becomes
  AUTO_INCREMENT before it has its key or loses the key under it (mysql.rs:468, 623, error
  1075), or becomes virtual or ceases to be (error 3106). `Clash` names them, and
  SameContent says that they are all and that none of them ever completes.
- Two large rows may or may not meet the memory limit of a snapshot, depending on
  how far the writer is (executor.rs:862).
- A normal or idle disconnect closes the SSH tunnel before the pool, which cuts
  the queries in flight that closing the pool would wait for.
- Two overlapping commands on saved connections each write the file they loaded: the
  last one wins, and a command that reads the file while it is cut sees none. FilesKept
  excuses the ids another command wrote meanwhile (`doubtful`), and no others. The file is
  written in place (commands/connection.rs:462), so a death in between leaves an empty or
  a broken one (`torn`).
- DDL whose answer is lost does not invalidate the metadata cache, because only a
  completed statement counts.
- A key that is NULL is compared with `=` by some single edits and changes no row.
- DATETIME2(3) to DATETIME2(7) on SQL Server differs when read back; MySQL's TEXT is
  judged unlimited, so LONGTEXT to TEXT fails when it is written; MySQL's FLOAT is
  accepted and cannot be read.
- The oldest tombstone of an early cancel is dropped at 256 entries; a query that
  arrives later runs.
- A comment (lib.rs:81) says that a refused exit keeps an accessible window. Closing
  the window (lib.rs:164) and the exit that follows (lib.rs:275) are two checks; a
  command that registers its task between them keeps the application open without a
  window. `AppExit` has these behaviours (dialog "shown" with `window` FALSE).
- A quit that finds no active task leaves without the save that the waiting loop
  makes (lib.rs:110); the history may still call the last task running, and it is
  restored as interrupted or unknown. LeavesSettled is about the loop's exit only.

## 4. Proofs

Every theorem holds for every value of the constants that satisfies the named
assumptions: any number of tasks, threads, crashes, ids, sessions, tables, rows,
connections. The assumptions fix the types of the constants and say no more than
the code does (finite sets, limits that are numbers, Nil outside the sets it
stands beside). TLC evaluates them: `ASSUME`s of the modules themselves (for `SqlScript`, what the files a
run reads must be: ScriptsAreReadable, neither INSERTs nor statements of ClickHouse have bodies,
dollar quotes and `#` operators are PostgreSQL's, and a quoted body does not contain its
tag; for `SqlFile`, CataloguesAreLegal: a catalogue is a finite set of objects with different names, only
triggers, events and routines have a body, and every SQLite trigger has one), and the
`...ConstantsOK` hypotheses of `MysqlQuery`, `TableQuery` and `TransferGate`
through the `ASSUME`s of `MCQueries` and `MCData`.

| Module | Theorems (the property a run checks in brackets) |
|---|---|
| `DataTaskRuntimeProofs` | registry: RegistryInvariance, FlagsAndLimits, all seven properties of `registry`; threads: RuntimeInvariance, RuntimeTypeCorrect (RuntimeTypeOK), RegistrySafeAcrossCrashes, RuntimeImplementsRegistry; tasks: TasksInvariance, ResultsHonest (HonestResult), CancellationHonoured (CancelHonoured), OneOpenTransaction (OneTransaction), SlotHasThread (WriterHasThread), StartedOnce (ExecutionStartedOnce), IntentDurable (DurableIntent) |
| `DataTransferProofs` | TransferInvariance, TransferIsAtomic (Atomic), CommitsWhatWasShown (CommitsPreview); gate: GateHolds (WritesOnlyPreview), from PreviewRowsOnly and DialogAgrees; pages of a preview: PagesInvariance, EveryDifferenceShown (PagesComplete) |
| `SnapshotProofs` | StreamInvariance, SnapshotIsExact (SnapshotExact); SortInvariance, SortIsExact (SortExact) |
| `QueryProofs` | MySQL's executions: MysqlInvariance, KillsStayHome (StopStaysWithQuery), IdsRunOnce (OneRunPerId), AcceptedCancelsWork (CancelTrue); page loads: TableInvariance, StopsStayHome, LoadsRunOnce, CancelledBeforeBegin (together the `LoadsSafe` of CancellationsEnd) |
| `ConnectionsProofs` | ConnectionsHold (ConnectionsKept), TrustedKeysKept (PinsKept, the first part of FilesKept); table pages: PagesInvariance, PagesAreTrue (PagesTrue) |
| `StatementsProofs` | synchronisation: SyncInvariance, SyncIsHonest (SyncHonest), KeyIsNeverLost (KeyNeverLost), NothingDroppedUnasked (DropsOptIn, the second part of SameContent); export and import of SQL files: FilesHonest (FileHonest) |
| `ScriptProofs` | the text of SQL files: StatementsReturn (RoundTrip) |

### Registry

The inductive invariant is RegistryTypeOK, WriterOwns, RunningPhase,
ExecutionIdShown and ExecutedOnce. WriterOwns alone is not inductive: a task that
runs with status Ready could be cancelled to a terminal status without releasing
the slot, so RunningPhase is needed, which in turn needs the order that `Phase`
gives. ExecutionIdShown is needed because `set_ready` tests the snapshot's
execution id, not the record's execution. One lemma per method; `QuietStep` covers
the methods that leave the slot alone. `FlagsAndLimits` adds that a Cancelling
record has its flag raised, that a terminal record has a result, and
PreviewsBounded. The flag is why `set_ready` cannot revive a Cancelling task; the
result is why append_cleanup_error cannot change one. PreviewsBounded is a
cardinality argument: no step but register_preview adds an open preview.
CancellingOnlyEnds and FirstResultWins follow from a relation between a record and
its successor (`Lawful`) that every method satisfies.

### Commands and workers

The second part of `DataTaskRuntimeProofs` shows that each thread has, at each place, what its code
needs there. The type invariant is not inductive alone: a progress report is a step
of the registry only if the worker knows its task and its status. It gives the
refinement RuntimeImplementsRegistry: between two crashes every step of the runtime
is a method of the registry or leaves it alone.

The third part follows ownership. At most one thread at a time works for a
task between its registration and the end of its worker (`Owns`): the registering
command, the preview worker, the command that begins the execution, the execution
worker. Only the owner touches the target or registers a result, so what the owner
knows of the target (`Holds`) survives whatever the others cancel, expire, trim,
list and save (`Quiet`). HonestResult is not inductive because a restart makes
results from the history: the invariant also says that the history never calls a
task finished, or not executed, while its execution worker is at work.

IntentDurable has a hypothesis, `[]FitsHistory`: the tasks the registry lists fit
into the history file. The code keeps the 100 records updated last while the
registry may list 100 finished tasks, three previews and the running one, so a full
list can drop an entry; nothing is claimed about a list that does not fit.
DurableIntent is about tasks the registry lists: a finished task that is trimmed
leaves the file, too.

### Transfer and gate

`TransferIsAtomic` is the refinement of `AtomicTransfer`, step by step: Init maps to
the abstract Init and every step to an abstract step or a stutter. The invariant
says that the place of the task tells the state of its transaction at the server
(`SessionOK`), that the plan is the preview's (`PlanOK`), that under the locks the
target is the one that was compared (`TxOK`), and that an append met no key of the
target (`AppendOK`). The last needs the order of the statements: the insert order
covers every table (`EarlierIsTotal`, `OrderCovers`), a batch is never empty while
rows are pending (`BatchMoves`, from the well-foundedness of Nat), and a stage ends
only when nothing is pending. To be provable the order of the tables is a rank (the
number of tables before one) and a batch the pending rows with fewer than `Batch`
smaller keys, instead of sorted sequences.

`GateHolds`: under the locks the last view is the target as it is, and what a view
does not show is not taken for absent (`ViewTrue`). `MaxOdd` and `MaxAlters` are
arbitrary; with `MaxOdd` above 2 the target is any.

### Cancellable statements

Again ownership: a live execution or load owns the entry of its id, and from Connect
to Finish a session that nobody else holds. A KILL exists only for an execution whose
requested flag is up, and that flag makes Finish give the session up for good; for
table queries the engine's way of stopping decides whether a session may be pooled.
OneRunPerId is not inductive since prune drops entries: the proof needs that what
runs is never pruned (`PruneFacts`).

AcceptedCancelsWork has a hypothesis, `[]Room`: no tombstone is evicted to make room.
With more than MAX_RETAINED ended ids the oldest tombstone goes, and the query it was
for runs when it arrives (section 3, Observations).

### Connections

IdleSparesUse needs that a command with a fresh handle keeps its connection recent
while it is registered (`HandleIsRecent`), and that a disconnect has a mode only
after it took the connection (`ModeIsTaken`). TrustedKeysKept rests on the one lock:
a login holds KNOWN_HOSTS_LOCK (`LoginHoldsLock`), a clean-up holds it too, so its
copy is still the file when it replaces the file (`ClearHoldsLock`).

### Snapshots, sorts and pages

SnapshotIsExact: a row is in the source, in the channel, with the worker or in the
spools, in this order, and its lease is where it is. SortIsExact says for the runs of
the external sort what this says for a stream: any weight of rows (one per row, bytes
in memory, bytes on disk, occurrences of one size) adds up to the same over all
places, and every run is sorted. From the weights follow at once that no row is lost
or doubled, that the digest is over the input, and what the quota is charged with.

EveryDifferenceShown: a page ends where the next begins (`PagesInv`), so what was
shown is always a prefix of the operations; the fold of `diff_page` is shown to take
the longest prefix within its two limits. PagesAreTrue: cache, cursors and loads agree
on the key that each read of the metadata found; `generation` and `epoch` make a store
of older metadata impossible, and a page by cursor and a page by count are the same
segment of the same order.

### Synchronisation

SyncIsHonest needs to know what is in a plan. HonestReport speaks of operations whose
statements are spread over the plan's statement list; that none of them is applied
and called pending needs that every operation owns one stretch of that list
(`StatementsAre`), for all five planners (`PlanTableIs`); that an execution gets
as far as its report says needs that the target stays a database of tables under
every statement (`ApplyIs`, `AcceptsAllIs`). These are inductions over sequences,
carried out as a well-founded argument on lengths (`Induction`). The invariant is `SInv`.

KeyIsNeverLost: every statement the SQL Server planner sends to a table with a key
that is to have one either leaves the key alone (a column of the key is neither
altered nor dropped) or is a batch that ends by adding a key (`KeepsKey`, `BatchKeeps`,
`SsIs`); a batch runs whole or not at all (`KeysKept`), so no failure leaves the table
in between. That a table had a key when the execution began follows from the second
reading of the schemas: undisturbed, it shows what the databases hold (`Fresh`), and
the fingerprint makes it the reading of the preview. NothingDroppedUnasked has the
same shape: unasked, every planner's statements only add (`Fits`, `AdditiveKeeps`).
Its hypothesis, `NoTableIsNone`, says that the value for an absent table is not a
table; TLC, where that value is a model value, has no way to evaluate it.

### Files

StatementsReturn: a splitter's mode moves with each token (`Moves`), and reading a text
without cutting is a path through the modes (`Path`, `Reads`). Every literal of an export
is a path from outside of quotes back to it (`ReadsLiteral`): each token of the content,
encoded, leads from inside the quotes to inside of them. Where the writer only doubles
quotes and the reader knows escapes, this holds when no unpaired backslash stands before a
quote or the end (`BackslashesAre`, `ReadsUnshifted`). Hence values and comments are
such paths, bodies in dollar quotes (`ReadsDollars`: nothing of them is looked at until the
tag returns) and bodies of SQL Server's batches (`ReadsBatch`), and whole statements
(`ReadsStatement`). A body in no quotes is a sequence of statements like others
(`Pieces`). At a terminator the splitter is outside, so it cuts there, and cuts nowhere
else; a ClickHouse INSERT is cut at its lone semicolon and a leading comment does not make
another statement look like one (`ChunkCut`, `NoPayload`). What surrounds a statement are
line ends, which trimming removes (`TrimmedAround`).

The invariant `Splitting` has two cases. On the track it says which token of which piece
is read, and that what was cut off is what was exported up to there. From the first piece
that is misread the splitter is off the track, and the invariant only keeps what was cut
off before (`LostStays`: a splitter takes nothing back). So the theorem leaves nothing out
by an assumption; what it says of a file with a misread piece is that everything in front
of it was cut as it was exported. RowsCounted follows the counter of rows through the same
literals (`TalliedRow`).

FilesHonest: the invariant `FileInv` follows the file from the catalogue to the import.
ExportHonest alone is not inductive, because the report is computed from `meta` and
`rowsRead` and the file is built from them earlier, at once or, for MySQL, object by
object. `Yields` says what a sequence of statements contains: each object of a set is
created once, no other, and so many rows are inserted; it is closed under putting parts
with different objects one after the other, so each of the four scripts yields `meta`
and `Total(meta, rowsRead)`, and MySQL's file yields the objects before its place
(`SoFar`). For that, names order the objects of a kind without a gap (`ByName` puts each
in one place: `Ranking`) and the kinds of two queries are apart; that two objects never
share a name is an assumption about a catalogue at one time and an invariant of `cat`,
but not of `meta`, which reads it at several times: in `meta` only objects that
one query reads together differ in their names (`Distinct`), which is what the order needs. `Cancelling`
has that only ClickHouse's exports are registered and that an early cancel meets a check
before the script; `Importing` that every statement is counted and the first failures
are kept. The settings of the connection follow the frame of a file, its first and last
statements (`Framed`). Cutting bodies leaves the frame where it is and puts nothing but
creations, inserts and pieces of bodies between (`CutFramed`, `Cutting`); while no
statement broke, `SessionOk` gives the settings at each place, where the transaction of a
SQLite file may already be over, because an END that was cut off ended it.

### Only model-checked

- Liveness (TaskEnds, OrphanPlansRemoved, StagesEnd, CancelAnswered and CancelledEnds
  in CancellationsEnd, EndsReached with ForceEnds and ConfirmedExits): fairness and
  ENABLED are outside the prover.
- ValuesIntact: a case distinction over 59 concrete types, which TLC covers entirely.
- StatementsRunnable and ContentEqual in SameContent: what a whole plan of each of the
  five planners makes of a table, column by column, and that it is refused exactly when
  the definitions clash. The theorems have that its
  statements are well formed, take nothing away unasked and never lose a key.
- BatchExact (grouping and splitting of a batch) and SavedKept in FilesKept: folds over
  records with many fields.
- Replays: whether a server accepts each statement depends on the dependencies of the
  exported catalogue, which for arbitrary ones (a view over a later view) need not
  suit the order of the script, and on the external server of the model; what the
  import loses with a body is a closure over these dependencies.
- RollbackHonest, LeavesSettled and PromptTrue in EndsReached.

The library's induction theorems take an operator as a parameter, which the provers
cannot instantiate. The inductions over data above rest on `WFMin`, which has none
(a nonempty set of numbers has a least member): module `Induction` derives from it
that a set of numbers with 0 and the successor of each of its members is all of Nat,
and that functions defined from their value one below exist. The lemmas about sums,
finite orders and runs along a sequence that the other modules share are there too.

## 5. Not modelled, and the plan

Left, in this order:

1. The binary export registry (file_io.rs:54): write, cancel and a second prepare
   compete for one pending path.
2. The front-end store (dataTaskStore.ts:46): events and answers in any order
   converge to the last snapshot.
3. A history whose limit is smaller than the number of tasks (history.rs:38), and
   the 1000 cancellations ahead of their tasks (registry.rs:264).
4. Proofs: RollbackHonest of `RowEditing`;
   LeavesSettled and PromptTrue of `AppExit`.

Outside the model for good: SQL text and identifier quoting per dialect, value
conversion for display, ssh command lines and certificates, drivers, encryption, key
files and the user interface; the object commands (`commands/database`, indexes,
triggers, routines) send one statement each and keep nothing. What they answer is a
nondeterministic choice here.
