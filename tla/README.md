# A verification development for apiary-pgsink

`pgsink` follows the SQLite database of an Apiary daemon and replicates it into
PostgreSQL. It shares no lock, no log and no protocol with the daemon: it reads
tables that change under it, decides from a *cursor column* what is new, and
upserts that. Whether a row can slip between two reads is the question this
development is about. It holds TLA+ modules translated from the Go source, TLC
configurations that check them on small instances, and TLAPS proofs of the
properties that matter most for every value of the constants.

Paths below are relative to the repository, without the leading `src/`.

## 1. Inventory

| Part | Source | State it keeps | Operations |
|---|---|---|---|
| Incremental pass | `internal/pipeline/sync.go` | Go locals of one pass: watermarks read, next watermark, selectors, `afterRowID`, page | `Sync`, `syncTable`, `selectors`, `rescanOpen`, `followParent`, `advance`, `back`, `Lag` |
| Backfill | `internal/pipeline/backfill.go` | Go locals of one table | `Backfill`, `backfillTable` |
| Follow loop | `internal/pipeline/loop.go` | timer, backoff | `Loop`, `drain` |
| Waker | `internal/wake/wake.go`, `cmd/pgsink/sync.go` | a channel of capacity one, its own backoff, an HTTP stream | `Run`, `startWaker` |
| Batch writer | `internal/target/write.go` | the replicated tables, the quarantine | `WriteBatch`, `WriteBatchIsolating`, `quarantine`, `convert` |
| Sync state | `internal/target/state.go` | `apiary_sync_state` | `Watermarks`, `SetWatermark`, `OpenKeys` |
| SQLite reader | `internal/source/sqlite/{cursor,read}.go` | none (one statement, one snapshot) | `MaxCursorValue`, `Advance`, `Batch`, `Compile` |
| Catalog | `internal/catalog/` | `tables.yaml` | `Load`, `Validate`, `Drift` |
| Configuration | `internal/config/` | the resolved plan | `Load`, `Resolve`, `Check` |
| Target schema | `internal/target/{schema,conn}.go`, `internal/pgtype/` | PostgreSQL DDL | `Desired`, `Diff`, `Apply`, `EnsureSchema` |
| Reflection | `internal/source/sqlite/reflect.go` | none | `Open`, `Reflect` |
| Extra fields | `internal/enrich/` | none | `Prepare`, `Value` |
| Metrics | `internal/observe/` | counters behind a mutex | `RecordPass`, `RecordError`, `/readyz` |
| Commands | `cmd/pgsink/` | flags | `sync`, `backfill`, `migrate`, `doctor` |

How they interact. The loop starts a pass when its timer fires or when the waker
goroutine has put a token in the channel. A pass reads every watermark from the
target, then for each table: the maximum cursor value from SQLite, the keys of
the rows the *target* holds as unsettled, page after page of rows from SQLite,
each written to PostgreSQL in one transaction (or row by row if that fails, with
the refused rows filed in the quarantine), and at the end the new watermark.
Nothing but the target outlives a pass. A backfill is the same reader and writer
with a different moment to record the watermark, and may run in another process
at the same time. The command counts each pass in a registry, from which the
probes of an HTTP goroutine answer whether the sink is ready.

What is hard about it:

- the daemon commits between any two statements of a pass, and stamps rows with
  a clock taken before the commit, which may be stepped back;
- a pass can die between any two statements, and an error on `COMMIT` does not
  say whether the batch landed;
- five ways of following a table (`catalog.Class`), each with its own blind spot
  that another mechanism has to cover: the overlap, the rescan, the whole read;
- filters admit and reject rows over time, and the watermark is taken under them;
- two goroutines, a timer, a lossy channel and a lossy stream, and a context that
  may end anywhere;
- several tables in one pass: the first that fails ends it, after those before
  it have recorded their watermarks, and children may come before their parents;
- a backfill and a sync of one table, which do not know of each other.

What makes each part correct:

- *pass*: no row is ever out of the target and out of reach of the next pass; a
  completed pass is as fresh as the source was when it began; copies never move
  back; if the daemon rests and failures stop, the copy converges;
- *writer*: a batch lands whole, or every row of it is written or filed;
- *backfill*: what it has not copied when it ends is above the mark it recorded;
- *loop*: no nudge is lost, a failure costs the documented delay and no more,
  losing the stream costs latency only, shutdown ends both goroutines;
- *service*: a good pass covers every table of the plan; whoever is told that the
  sink is ready finds a target that is current; every change arrives;
- *catalog, configuration, schema*: a plan that passes `Check` has a `Desired`
  schema; `Diff` then `Apply` reaches it, whole or not at all, and takes nothing
  away; while a command runs, the target keeps what the command was told it has,
  whatever other commands do; what `doctor` accepts, `sync` can follow.

## 2. Modules

| Module | Models | Extends |
|---|---|---|
| `ApiaryTable` | one table of the source and the daemon that writes it (external) | |
| `TableSync` | `syncTable` with the reads and writes it makes | `ApiaryTable` |
| `Replica` | the abstract promise: an at-least-once archive | |
| `MCTableSync` | the history and the refinement mapping TLC needs | `TableSync`, instance of `Replica` |
| `Backfill` | `backfillTable` in a process of its own, beside the pass of `TableSync`, over one target | `TableSync`, and an instance of it |
| `TableSyncClaims` | statements of the documentation that the code does not keep | `TableSync` |
| `SinkLoop` | `Loop`, `drain`, `Waker.Run`, `startWaker` | |
| `Service` | all of `sync`: the loop, `Sync` over the tables of a plan, `followParent`, the metrics registry | `SinkLoop` |
| `MCService` | a child and its parent, in the order of the catalog | `Service` |
| `Plan` | `Validate`, `Drift`, `Resolve`, `Check`, `Columns`, `Desired`, `MapColumn`, `Diff` as operators | |
| `SharedSchema` | the abstract promise: a migration is one step that carries out its plan and adds nothing else | |
| `Migration` | `doctor`, and the commands that make the target fit the plan or look whether it does, side by side | `Plan`, instance of `SharedSchema` |
| `MCMigration` | two small catalogs, two releases, fourteen jobs | `Migration` |
| `TableSyncProofs`, `NothingLostProofs`, `MCTableSyncProofs`, `BackfillProofs`, `SinkLoopProofs`, `ServiceProofs`, `MigrationProofs` | the theorems | the module proved about |

### ApiaryTable

The daemon is outside the repository; it is modelled from what the catalog says
of it. A row is `src[k]`, where `k` is its rowid (all tables are rowid tables,
and paging is by rowid). A *version* of a row keeps only what the pipeline can
tell apart: its number `rev`, its cursor value `cur` (0 is NULL, or a text
`strftime` cannot parse), whether its state column is terminal, whether the
filters admit it and whether PostgreSQL refuses it. `Class` and `CursorColumn`
say how the catalog follows the table; `Filtering` says which columns the
configured filters look at, hence which writes can change what they admit. Steps:
`Insert`, `Update` (never on `append_only`; on an `open_row` row only until it
settles), `Prune` (retention) and `Tick`. A stamp is any moment of the clock up
to `Skew` ago: the row may be committed later than it was stamped, and the clock
may be stepped back. `Legacy` rows precede the sink, and their stamps do not
parse.

### TableSync

One action per statement the pass sends, because the daemon may commit between
any two of them:

| Action | Code |
|---|---|
| `BeginPass` | `Watermarks`, at the top of `Sync` |
| `ReadMax` | `MaxCursorValue` |
| `Select` | `selectors`, and `OpenKeys` for an `open_row` table |
| `ReadPage` | `Batch` with the current selector |
| `WriteBatch`, `BatchRefused`, `BatchFault` | the transaction of `WriteBatch`: commits, is refused, or fails with or without having committed |
| `IsolateRow`, `Quarantine`, `RowFault`, `Isolated` | the fallback of `WriteBatchIsolating` |
| `NextPage`, `NextSelector`, `Drained` | the two loops of `syncTable` |
| `SetWatermark` | the upsert of the watermark, and the end of the pass |
| `Abort` | any error return, the end of the context, or the death of the process |

`tgt`, `filed` and `wm` are the target. The other variables are locals of the
pass and are reset by `EndPass`, which is how a restart is modelled: a crash
leaves exactly the target. Watermark 0 is the empty string, which `advance`
turns into a selector of everything. `OpenKeys` has a `LIMIT` and no
`ORDER BY`, so it returns *any* `OpenLimit` of the candidates.

`filed[k][r]` counts quarantine rows up to `FiledCap`.

### Replica

What the sink promises of one table, whatever its class: versions are issued by
the source; the target's copy of a row only moves to newer versions; the
quarantine only grows; and no step lets go (`owed`) of a row that is wanted and
has not arrived. `MCTableSync` maps `owed` to what the next pass would read,
computed from the watermark and the target alone, so the refinement says that
the watermark is never ahead of the copy.

### Backfill

A backfill has locals of its own (`bpc`, `bnext`, `bafter`, `bpage`, `bfull`), and
the sync that may be following the same table has those of `TableSync`; a step of
either may come between any two steps of the other. The statements a backfill
shares with a pass are those of `Scan`, an instance of `TableSync` on the
backfill's locals with no mark to start from and no key to rescan.

| Action | Code |
|---|---|
| `BeginBackfill`, `BeginScan` | `backfillTable` up to its first page |
| `ScanStep` | `MaxCursorValue`, `Batch` and `WriteBatchIsolating` for the backfill |
| `MarkBatch` | `SetWatermark` after a batch; a short batch is the last |
| `EndBackfill`, `AbortBackfill` | the last page has been read; any error, or the death of the process |
| `SyncStep` | a step of a pass, or its failure, in the other process |
| `Refilter` | both commands are stopped and started with other filters (external) |

`torn` is history: a backfill has recorded its mark and has not read its last
page, or the filters have changed, and no backfill has run to its end since.

### SinkLoop

`at` is where `Loop` is, `timer` is `timer.C`, `signal` the token in the
channel. A pass is one step that begins and one that ends (`PassSucceeds`,
`PassFails`, `PassCancelled`, `PassTimesOut`). `waker` is where the goroutine of
`startWaker` is. `drain` is two actions, as the waker may send between two of
its receives. `events`, `stale`, `late`, `heard`, `fails` are history the
properties need. Delays are numbers and not clocks: a timer that is set may fire
at any later moment. The timer semantics are those of Go 1.23 and later (the
module requires 1.26): `Reset` discards a value that was not received.

`PassTimesOut` rests on a fact outside the repository: pgx opens connections
under a deadline of its own (`connect_timeout`, or the pool's default of two
minutes) and reports its expiry as an error that wraps
`context.DeadlineExceeded`.

### Service

`Service` extends `SinkLoop` and opens its pass up. The state of a table is how
far it goes: `last` is its latest change in the source, `held` the latest the
target has, `mark` its watermark; moments are numbered by the daemon's changes.
What happens inside one table is `TableSync`; here it is one step, which is what
`NothingLost` and `FreshAsOfStart` there entitle it to be.

| Action | Code |
|---|---|
| `AwaitPass` | `select` and `drain` in `Loop`, and the start of `Sync` |
| `SyncTable` | one round of the loop over the tables in `Sync` |
| `CompletePass` | the end of `Sync`, `OnPass` and `RecordPass` |
| `FailPass` | an error of a table or of `Watermarks`, `OnError` and `RecordError` |
| `DropPass` | the pass is cancelled or times out: neither callback is called |
| `ChangeTable` | the daemon changes one table (external) |
| `Elsewhere` | the timer, the waker and the interrupt of `SinkLoop` |

`Parent[t]` is 0 for a table with a cursor. A `follow_parent` table has none, so
it keeps the watermark it was read with (`NextMark`), which is empty for ever, and
`selectors` reads the whole of it (`Reached`); `ParentsMark`, its mutant, is the
design the code's `followParent` was written for, where children that change by
themselves are lost. `passAt` and `errorAt` are the two times the registry
compares, reduced to their order; `Ready` is `Healthy`.

### Plan

A table is a function from column names to types, `Absent` where it has no such
column; a table with no columns is one the database does not have. A file is its
defaults and a block for some tables: what it enables, includes, excludes, adds,
filters on and calls JSON. `Resolves` says whether `Resolve` takes the file,
`Planned` which tables it plans, `FitsTable` is `Plan.Check` for one table,
`Columns` the columns to read, `IsDesirable` whether `Desired` returns a schema
and `Desired` which one, `Missing` and `Conflicts` the two kinds of change `Diff`
reports. `Class`, `Key`, `Cursor`, `State` and `Parent` are the catalog, `Valid` what
`Validate` requires of an entry (part of `CatalogAssumption`), and `Matches` says
that `Drift` has no error to report of a table.

### Migration

A process is one run of `pgsink`; two may overlap, and `Process` shares nothing
but the source and the target. `release` is the version of the Apiary whose
database is reflected, `have` the target's tables, `lock` the tables an open
transaction has altered.

| Action | Code |
|---|---|
| `Open` | `openSession` as far as the resolved plan |
| `Reflect` | `Reflect` of the source, one table at a time |
| `Restrict`, `Misfit` | `Check` and `restrict`, which end the session or narrow it |
| `Approve`, `Disapprove` | `doctor --config`: `Drift`, then `checkConfig` |
| `EnsureSchema` | one statement of `EnsureSchema` |
| `Compare`, `Undesirable` | `plannedChanges` for one table |
| `UpToDate`, `Apply`, `Decline` | what the commands do about the changes |
| `Exec`, `ExecFails` | the statements of `DB.Apply` for one table |
| `Commit`, `CommitLost` | its commit, and the commit whose answer is lost |
| `Exit` | any error return, the end, or the death of the process |
| `Upgrade` | Apiary is upgraded (external) |

A job is a command, its file and its `--tables`. `write` is `sync` or `backfill`,
which compare and refuse to start on a difference; `migrate, write` is
`backfill --migrate`. The statements for one table are one step: the first takes
the table's lock and holds it to the end of the transaction. Creating a table
and adding to one are one step too: `CREATE TABLE` on a table that another
process has created meanwhile fails, and so does `Exec`, since the instance
column it adds is there. PostgreSQL folds a name written without quotes, which
is what `Folded` does; names read back from its catalog are folded already.
`SharedSchema` is what these commands promise each other. It knows what the
target has, what each command wants of it and who relies on it. `Migrate` carries a
plan out in one step: the target then suits it, and has gained nothing but columns
of the plan that it lacked. `Migration` maps a plan to what the command compares the
target with (`Decided`), and reliance to having found or made it fit; the one step
is the commit.

Not modelled: the row locks of writers, columns that an operator drops or
retypes by hand while a process runs, and the primary key of a table made by
hand.

## 3. Runs

| Run | What it shows |
|---|---|
| `sync_open_row` | `TypeOK`, `NothingLost`, `FreshAsOfStart`, `Converges`, `ImplementsReplica` for an `open_row` table keyed on its id, of which no row is filed (see below) |
| `sync_mutable` | the same for a `mutable` table under a filter that any update may cross, a skewed clock and rows older than the sink |
| `backfill` | `BackfillTypeOK`, `LostOnlyWhenTorn`, `BackfillCovers` for an `append_only` table with refused rows, failures and a change of filters, beside a sync of it |
| `service` | `ServiceTypeOK`, `NudgeKept`, `WaitsItsTurn`, `Covered`, `ReadyMeansCurrent`, `Arrives`, `ShutsDown` for a child and its parent |
| `migration` | `MigrationTypeOK`, `SinkFits`, `ApprovedIsFollowable`, `NoDeadlock`, `AdditiveOnly`, `WholePlans`, `MigratesInOneStep` for two processes with any of fourteen jobs, beside an upgrade |
| `backfill_interrupted`, `backfill_beside_sync`, `settled_filter`, `unstarted_row`, `same_stamp`, `loop_timeout`, `mixed_case` | a statement of the repository that the code violates (section 6) |

The properties:

- `NothingLost`: at every instant, mid-pass and after a pass that died anywhere, a
  row the filters admit is in the target in its current version, or filed in the
  quarantine in that version, or would be read by the next pass. Recording the
  maximum read *before* the rows is what makes it true; reading it after them, or
  recording it from an aborted pass, breaks it.
- `FreshAsOfStart`: when a pass is about to record its watermark, every row
  admitted when it began has arrived in the version of that moment or a later
  one, unless the source has dropped it or the filters have rejected it since.
  A row that leaves the filters and comes back while the pass is on is the next
  pass's concern: it was written after this one began. Dropping the second page, or asking the source instead of the target what
  is unsettled, breaks it.
- `Converges`: if the daemon stops and failures stop, the target ends up holding
  every admitted row in its current version, or the quarantine does.
- `ImplementsReplica`: the refinement of `Replica`.

  These four, and the theorems about them, leave out one thing the code can do to
  an `open_row` table: file a row that has not settled. The target does not hold
  such a row, so the rescan never asks for its completion, and once the watermark
  has passed its id nothing reads it again. A row gets there in two ways: the
  target refuses it (`Refusals`), or its own write fails while the target is failing
  and the quarantine is written when it has recovered (`RowFaults`,
  `internal/target/write.go:275-289`). Both are `FALSE` in `sync_open_row`, where a
  failed batch is written again row by row and every row lands, or the pass dies; with
  either of them TLC refutes `NothingLost` (section 6). For the other classes both are
  covered by the theorems; `backfill` runs with both, and `sync_mutable` with neither,
  for its size (half a million states without them).
- `LostOnlyWhenTorn`: rows of an `append_only` table are lost only between the
  first recorded mark of a backfill and its last page, including after its death,
  or after a change of filters, until a backfill runs to its end. `BackfillCovers`:
  a backfill that read its last page leaves nothing behind that is not beyond its
  mark. Together: running it again to the end repairs what an interruption or a
  wider filter lost, whatever a sync does meanwhile. For rows that change this is
  false, which is finding `backfill_beside_sync`.
- `NudgeKept`: an event heard since the last pass began has a token in the
  channel, or the loop is draining and about to begin a pass.
- `WaitsItsTurn`: the n-th failure in a row sets the timer to the n-th delay of the
  doubling sequence, capped. It is about the value the timer is set to: a nudge may
  begin the next pass before it fires, as in the code. `ShutsDown`: the end of the context ends both goroutines,
  in the middle of a pass or outside one.
- `Covered`: when nothing has changed since a good pass began, the target has the
  latest of every table. Giving children a watermark breaks it.
- `ReadyMeansCurrent`: whoever finds the sink ready between two passes finds in the
  target all that had changed when the last pass began. Going on to the next table
  after a failure, and reporting the pass as good, breaks it; so does a readiness
  that does not look at failures.
- `Arrives`: every change reaches the target, whatever becomes of the stream and
  of the passes before, unless the loop is over.
- `SinkFits`: a process that writes, or has reported success, finds in the target
  every column it wants, in the type it wants. It compared once, so this says
  that nothing another process does, with another file, takes that away.
- `ApprovedIsFollowable`: two processes, one that has approved a file over some
  source and one that writes with the same file over the same source: the columns
  that the writer's passes name are there, in the source (key, cursor, filters) and
  in the target (the state column `OpenKeys` asks for). `sync` never looks for drift
  itself. A file that leaves the state column out is excepted by name: `doctor`
  approves it, and TLC refutes the property without the exception.
- `AdditiveOnly`: no step removes or retypes a column of the target.
- `WholePlans`: a step that alters the target carries out the whole plan of a
  command that migrates, also when a statement of it is refused. `NoDeadlock`:
  two processes never wait for each other's tables.
- `MigratesInOneStep`: the refinement of `SharedSchema`. A command compares with a
  target it has read one table at a time, waits for locks, and alters one table after
  another, while others do the same; it comes to the same as doing all of it in the
  instant of the commit. Adding columns with `IF NOT EXISTS`, so that a second
  migration never fails, breaks it: the one that finds a column of another type goes
  on as if it were its own.

### Bounds, and why they are enough

- *Rows* (2 or 3) and *batch size* (1 or 2): the hazards are between two rows
  (one moves the maximum, the other is behind it) and at a page boundary (a full
  page, then a short or empty one). With batch size 1 each row is a page; with 3
  rows and size 2 a full page is followed by a short one.
- *Versions* (2 or 3): inserted, updated, settled are three; so are admitted,
  rejected and admitted again, which two versions do not show. More repeat.
- *Clock* (3 ticks in `sync_mutable`, with `Skew` = `Overlap` = 1): enough for a stamp
  below, equal to and above the watermark, for a step back that just suffices, and for
  a row the step back leaves outside the window; with 2 every stamp is inside it. An
  id is no stamp, and needs one tick.
- *Rows older than the sink* (`Legacy`, both rows of `sync_mutable`): their stamps do
  not parse until they are written again. A row that leaves the filters before the
  first pass and comes back with a stamp is an insert as far as the pass can tell; the
  other runs of the pass insert.
- *Failures* (1 in the passes, 3 in the service): a failure resets the pass to what
  the target holds, so the state after two is a state after one reached from a
  different target; the loop needs as many as the doubling takes to meet the cap
  (1, 2, 3 with `MaxBackoff` 3).
- *Open limit*: at least the number of rows. Below it, which rows `OpenKeys`
  returns is PostgreSQL's choice, and `Converges` would need a promise about it.
- *Chunk size* 1: each key to rescan is a selector of its own.
- *Deletions* (`MaxGone`: every row in `sync_open_row`, 1 in `backfill`, none in
  `sync_mutable`, whose room goes to versions and ticks): the maximum goes down, or a
  page shrinks, when one row is gone.
- *Refilters* (1): what matters is a row below the mark that becomes visible.
- *Events* (2): one covered by the pass in flight, one not; and one to each of two
  tables.
- *Tables of the service* (2, the child first): one recorded before the failure of
  the other, a child visited before its parent.
- *Processes* and *tables* (2, 2): a race, and a cycle of locks, need two of each.
- *Releases* (2): the upgrade adds a column to one table and brings the other, so
  a process may see either release of each.
- *Jobs* (14): the commands, `doctor` among them, a file that agrees, one that
  disagrees on the type of a column, an extra field where another file reads a
  column, an include with a window, a reserved name, a key left out, which `Resolve`
  refuses, and a state column left out, which it takes.

The theorems of section 5 do not depend on any of them.

### Fairness

`FairSpec` assumes only `WF_vars(Progress)`: the loop starts pass after pass and
a pass ends or fails. That the loop does so is what `Arrives` shows of
`Service`, unless it is over. Nothing is assumed of the daemon; "failures stop"
is the bound `MaxFaults`. `FairLoop` assumes weak fairness of the timer (a timer
that is set fires), of the loop's goroutine, and of the waker's reaction to the
end of the context (the request, the read and the sleep all watch it). It
assumes strong fairness of `TakeDone`, because a Go `select` picks at random
among the cases that are ready, so `ctx.Done()` is not passed over forever. It
assumes nothing of connecting or of receiving events: the daemon may be down, or
accept a connection and never answer. `FairService` assumes the same of the
service: that the goroutine runs on (`WF` of `Goroutine`) takes it through the
tables of a pass, each of which ends, well or not.

`Service.cfg` and `LoopTimeout.cfg` disable the deadlock check because the loop and
the waker do stop. In the modules of the pass there is always a next pass.

`Spec` of `Migration` assumes no fairness: its properties are of safety. A process
can always begin, so it has no deadlock of its own; `NoDeadlock` is about locks.

## 4. How code is abstracted

Kept: every state change, guard, early return and error path of the functions
above, and their order. Abstracted: a row to its version record, a filter to
what it admits, SQL text to the predicate it evaluates, a timestamp to a tick, a
delay to a number. Left out: value conversion, the injected columns, progress
reports, `rows_total` (only reported), and `ctx.Err()` checks whose effect
`Abort` already has. A pass reads all watermarks at once, before the first table;
no table's watermark is another's, so `SyncTable` reads it when it visits the
table.

## 5. Theorems

| Module | Theorem | Says |
|---|---|---|
| `TableSyncProofs` | `TypeCorrect` | `Spec => []TypeOK` |
| `NothingLostProofs` | `NothingIsLost` | `ASSUME Followable PROVE Spec => []NothingLost` |
| `MCTableSyncProofs` | `PassImplementsArchive` | `ASSUME Followable PROVE MCSpec => ImplementsReplica` |
| `MCTableSyncProofs` | `PassesAreFresh` | `ASSUME Followable, RescanReachesAll PROVE MCSpec => []FreshAsOfStart` |
| `BackfillProofs` | `BackfillTypeCorrect` | `BackfillSpec => []BackfillTypeOK` |
| `BackfillProofs` | `BackfillRepairs` | `ASSUME Rerunnable PROVE BackfillSpec => []LostOnlyWhenTorn` |
| `BackfillProofs` | `BackfillReachesAll` | `ASSUME Rerunnable PROVE BackfillSpec => []BackfillCovers` |
| `SinkLoopProofs` | `LoopTypeCorrect` | `LoopSpec => []LoopTypeOK` |
| `SinkLoopProofs` | `NoNudgeIsLost` | `LoopSpec => []NudgeKept` |
| `SinkLoopProofs` | `FailuresWaitTheirTurn` | `LoopSpec => []WaitsItsTurn` |
| `ServiceProofs` | `ServiceIsALoop` | `ServiceSpec => LoopSpec` |
| `ServiceProofs` | `ServiceTypes` | `ServiceSpec => []ServiceTypeOK` |
| `ServiceProofs` | `GoodPassesCover` | `ServiceSpec => []Covered` |
| `ServiceProofs` | `ReadinessIsHonest` | `ServiceSpec => []ReadyMeansCurrent` |
| `ServiceProofs` | `ServiceKeepsNudges`, `ServiceWaitsItsTurn` | `ServiceSpec => []NudgeKept`, `ServiceSpec => []WaitsItsTurn` |
| `MigrationProofs` | `MigrationTypes` | `Spec => []MigrationTypeOK` |
| `MigrationProofs` | `TargetStaysFit` | `Spec => []SinkFits` |
| `MigrationProofs` | `LocksAreOrdered` | `Spec => []NoDeadlock` |
| `MigrationProofs` | `NothingIsTaken` | `Spec => AdditiveOnly` |
| `MigrationProofs` | `PlansAreWhole` | `Spec => WholePlans` |
| `MigrationProofs` | `DoctorIsEnough` | `Spec => []ApprovedIsFollowable` |
| `MigrationProofs` | `MigrationIsOneStep` | `Spec => MigratesInOneStep` |
| `MigrationProofs` | `OneStepIsEnough` | `MigratesInOneStep => []Shared!Trusted` |

Those about tables and the loop rest on the named assumptions on constants:
`ClassAssumption`, `CursorAssumption`, `FilteringAssumption`, `BoundAssumption`,
`PassAssumption`, `RefilterAssumption`, `LoopAssumption`, `ServiceAssumption`. They say that a bound is a
natural number, that a batch, a chunk and a limit are positive, and that a table has
no cursor exactly when it is a snapshot.

`Followable` names the tables and settings for which nothing is lost:

- `append_only` on an id;
- `mutable` on `updated_at`, when the clock lags by no more than the overlap;
- `open_row` on an id, when the filters do not look at a column that changes, the
  target accepts every row (`~Refusals`) and no row's own write fails and leaves a
  good row to the quarantine (`~RowFaults`);
- `snapshot`.

Each exclusion is a real one: findings `settled_filter`, `unstarted_row`
and `same_stamp`, and the filed rows of section 6, are what happens outside it. Failures of a
statement, of a batch and of the process are all inside it, commits whose answer is
lost included.

`NothingLost` is not inductive: it speaks of the recorded watermark, and
`SetWatermark` replaces it by the one the pass holds. The inductive invariant is

    IInv == TypeOK /\ SourceInv /\ CopyInv /\ PassInv /\ NothingLost /\ MidPass

`SourceInv` says what the table's rows look like: none beyond `top`, no cursor
beyond the `Horizon`. `CopyInv` says that the target and the page in flight hold
versions the row has had, the page none older than the target, and that a
settled copy is the row as it is. `PassInv` says that marks are not beyond the
horizon and that the pass started from the mark still recorded. `MidPass` is the
heart: once the maximum has been read, every admitted row has arrived, or is
within reach of a pass that starts from the *next* mark, or is ahead of the
advancing selector, or is carried by the page in flight. When the last selector
is drained nothing is ahead and nothing is carried, which is `NothingLost` for
the mark about to be recorded. The proof has one lemma for each step, and the
daemon's steps are reduced to one description of what a write may do to a row
(`Rewritten`).

"Within reach" counts a row the target holds as unsettled whether or not it is
among the `OpenLimit` keys of the next pass.

`PassImplementsArchive` maps each step to one of `Replica` from the same invariant: a
step of the pass or a failure of it is a `Transfer`, a write of the daemon an `Issue`,
a deletion a `Drop`, and `NothingLost` in the new state is `KeepsTrack`.

`PassesAreFresh` needs an invariant of its own, `FreshInv`: a version that is still
due is `Coming`, that is, found from the mark the pass started with, or ahead of the
advancing selector, or left to the rescan, or in the page in flight in that version or
a later one. It has one more hypothesis, `RescanReachesAll`: the limit of `OpenKeys`
is no less than the number of rows. Without it the theorem is false, as the limit has
no order behind it (`internal/target/state.go:92`): a pass may end with an open row it
was never told to ask after. The first statement of `FreshAsOfStart` did not survive
the attempt to prove it. It took a row as due although the filters had rejected and
admitted it again while the pass was on; with three versions TLC shows that such a row
may be missed by that pass, and it is the next one's.

Two processes write the same copy in `Backfill`, so `NothingLost` has to do without
the fact that `MidPass` leans on, that the pass's mark is the recorded one. The
invariant `BInv` follows four marks instead: the one the backfill records
(`AfterScan`), the one recorded (`AfterMark`), the one a pass has read (`AfterStart`)
and the one it will record (`AfterPass`). What each leaves out is in the target or in
the quarantine, or ahead of the process that will record it, or carried in its page, or
`Owed` to a backfill, which is `torn`. Whichever process records last, the mark it
records leaves out nothing else. `Rerunnable` names the tables: `append_only` on an
id, `open_row` on an id when the filters look at no column that changes and no row is
filed (neither `Refusals` nor `RowFaults`), and (where it says little, since every pass reads all of it) `snapshot`. A
`mutable` table is not among them: finding `backfill_beside_sync`. An `open_row` table
is, although its rows change too: what lands over a newer version there is unsettled,
and the rescan comes back to it. `BackfillTypeCorrect` has no hypothesis.

`FailuresWaitTheirTurn` rests on `DelayInv`, that while the loop is not over its
backoff is the delay of the failure to come, and on `NextDelay`, that doubling one
delay of the sequence and capping it gives the next. That 2^(n+1) is twice 2^n is the
one fact the provers do not have; lemma `PowerOfTwo` counts subsets for it.

Those of `ServiceProofs` hold for any number of tables in any order, and any
parents. `ServiceIsALoop` is a refinement: every step of the service is a step of
`SinkLoop` or leaves its variables alone, so what is proved of the loop holds of
the service (`ServiceKeepsNudges`, `ServiceWaitsItsTurn`). The invariant is

    IInv == ServiceTypeOK /\ MarksInv /\ SweepInv /\ Covered /\ ReadyMeansCurrent

`MarksInv` says that only a table with a cursor has a watermark, and that either the
table has changed after it or the target has its latest; `SweepInv` that, in a pass,
each table already visited is in the target in its latest state or has changed since
the pass began, which none has unless `late` says so. When the last table has been
visited that gives `Covered`, if nothing changed since, and `ReadyMeansCurrent`,
whatever changed.

Those of `MigrationProofs` hold for any number of processes, tables, releases and
jobs. They rest on `CatalogAssumption` (the kinds of the catalog's entries) and
`MigrationAssumption`: files and databases are of their kinds, no table of
Apiary's has a column with the instance column's name, folding twice is folding
once, and the columns of a table made by hand are folded, as PostgreSQL's are.
`SinkFits` alone is not inductive. The invariant is

    IInv == MigrationTypeOK /\ FoldedInv /\ \A p \in Process : ProcessInv(p)

`FoldedInv` keeps every name in the target folded. For each process, `CompareInv`
says that each table it has visited lacks only the columns it has noted, and that
the others fit unless it is blocked; `ApplyInv` that the tables it has locked still
lack exactly what it is about to add, which the lock guarantees; `FitInv` is
`SinkFits` for it. A commit of another process keeps all three, because it adds
columns under names that were absent and changes no other (lemma
`SparedKeepsInv`). `NoDeadlock` follows from `LockInv`: a process holds only
tables before all those it has still to alter. `DoctorIsEnough` adds
`DoctorInv`: an approved file is sound for the source that was reflected, and a
command is restricted to tables of its plan. The state column in the target it takes
from `FitInv` of the writer.

`MigrationIsOneStep` adds `AddInv` to the invariant: the columns a process is about to
add are of its plan. At a commit the locked tables still lack exactly these
(`LockInv`) and the others fit (`ApplyInv`), so the target suits the plan and has
gained nothing else; that is `Migrate`. `UpToDate` is `Rely`, a commit whose answer is
lost is a `Migrate` of a command that then gives up, and every other step changes at
most what one command wants. `OneStepIsEnough` is about the abstract specification
alone: under it, whoever relies on the target goes on finding all of its plan there.

Model-checked only: `Converges`, `Arrives` and `ShutsDown`. They are liveness under
fairness, which is out of the prover's reach. Every invariant and every action
property of the passing runs, and both refinements, are theorems.

## 6. Findings

1. `backfill_interrupted`: a backfill records the maximum of the whole table
   after its first batch (`internal/pipeline/backfill.go:132`). Interrupted
   there, the rows it had not read are below the watermark and no `sync` pass
   looks for them. The comment above the call says the opposite.
2. `settled_filter`: with a filter on the state column of an `open_row` table a
   row that settles after one with a higher id never arrives, where
   `docs/commands.md:86-89` says it "arrives complete".
3. `unstarted_row`: a row of `step_runs` inserted after the first pass has a NULL
   cursor until it finishes. `tables.yaml:199-202` says the rescan finds it; the
   rescan asks the target, which does not have it. It arrives when it settles.
4. `same_stamp`: `sync.overlap` is documented for every timestamp cursor
   (`internal/config/config.go:40-42`), and applied only to `mutable` tables.
5. `loop_timeout`: a pass that fails with `context.DeadlineExceeded` while the
   context of the loop is alive ends the loop with no error
   (`internal/pipeline/loop.go:73`).
6. `mixed_case`: an extra field may be spelled with capitals, and is written
   without quotes, so PostgreSQL folds it. The comparison looks for the name as
   the file spells it, so a second `migrate` finds the column missing again and
   fails on it, where `TestMigrateCreatesThenIsANoOp` states that it finds
   nothing to do; `sync` refuses to start.
7. `backfill_beside_sync`: `docs/commands.md:42` calls it safe to run `backfill` again
   because "every write is an idempotent upsert", and `internal/target/write.go:57-60`
   says that every delivery path must land on the same result. The upsert overwrites
   unconditionally. Beside a sync of a `mutable` table, a page the pass read before a
   row changed may land over what the backfill wrote, and the backfill then records a
   maximum past that row: the target keeps the older version until the row changes
   again.

Met while reading, and not stated as a run: `docs/commands.md:26-27` says what
`Diff` does with a column the target has and the plan does not, and `Diff` does not
look at one; `--dry-run` still creates the schema and its two tables; `doctor`
accepts an extra field with the reserved name, which `Desired` refuses. The
quarantine counter leaves out rows that a failing pass quarantined, where
`docs/operating.md:40` says to alert if it moves; the lag gauge keeps its value
while passes fail. `docs/commands.md:66` says that a `follow_parent` table is read
where its parent has moved, and every pass reads the whole of it.
`internal/target/state.go:61-62` says of `OpenKeys` "most recently written first", and
there is no `ORDER BY`. The kind of a watermark is recorded and never compared with
the catalog's. An `open_row` table with a key of two columns would have no rescan, and
nothing says so (the catalog has none).

Met while modelling, and not stated as a run, since `Followable` and the settings of
`sync_open_row` exclude it: an `open_row` row that is filed before it has settled is
lost. `WriteBatchIsolating` files a row whatever error its own write met, if the
quarantine can then be written (`internal/target/write.go:275-289`): only a failing
quarantine is taken to mean that "the target is unhealthy, not that the row is bad".
So a target that fails for a moment has good rows filed, `internal/target/schema.go:24`
("rows the target refused") notwithstanding. The target does not hold such a row, the
watermark passes its id, and its completion is never read, where
`docs/commands.md:75-79` says that the target's answer cannot miss a completion, as
"the row stays in that set until the pass that settles it". With `RowFaults = TRUE` and
`MaxFaults = 2` in `SyncOpenRow.cfg` TLC refutes `NothingLost` by one row: its batch
fails, its own write fails, it is filed, the watermark is recorded, it settles. With
`Refusals = TRUE` it does so by a row whose first version is refused. A row that the
quarantine cannot hold either, such as one whose text has a zero byte, which `jsonb`
refuses too, ends every pass from then on, where `internal/target/schema.go:26-32` says
that the quarantine keeps one value from stalling the sink; for safety that is `Abort`.

## 7. Not modelled yet, and the plan

In this order:

1. What a pass of one table is to `Service`: an abstract table (how far it goes, what
   the target has of it, its mark) that `MCTableSync` implements and whose one step is
   `SyncTable`, so that the composition rests on a theorem and not on a comparison of
   two properties.
2. The registry's totals, for what the counters promise of rows quarantined by a
   pass that then fails.

Not planned: value conversion and time parsing (pure functions over text, better
tested), extra fields (a pure function of the row and the moment), the command
line and reports, the test fixture, the primary key of a table made by hand. Two
syncs of one instance over one target would be as unprotected as a sync and a
backfill are, and are not modelled; two that migrate are, in `Migration`.
