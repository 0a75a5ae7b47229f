# flats: a verification project

flats is an embedded vector database in Rust: collections of fixed-dimension vectors with
typed metadata, a SQL dialect, a write-ahead log, crash recovery and online compaction. This
directory holds TLA+ models of the whole way from a keystroke in the shell to the pages of the
files, TLC configurations that check them on small instances, and TLAPS proofs of what matters
most for instances of every size.

Paths below are relative to the repository, which lies under `src/`; `wal.rs` is
`src/src/wal/wal.rs`, `mod.rs` is `src/src/engine/mod.rs`, `index.rs` alone is
`src/src/index/index.rs`.

Contents: [the system](#1-the-system) · [the modules](#2-the-modules) ·
[what is checked](#3-what-is-checked) · [bounds](#4-bounds) · [fairness](#5-fairness) ·
[what is proved](#6-what-is-proved) · [where code and documentation disagree](#7-where-code-and-documentation-disagree) ·
[what is not modelled](#8-what-is-not-modelled) · [plan](#9-plan) ·
[running it](#10-running-it)

## 1. The system

Any number of caller threads share one `Db`. Writes become records; one commit thread is the
only writer of every store. Readers never wait for it: they take an immutable snapshot of
which ordinals (row slots) are live, and read append-only data beside the writer.

```
 callers ──record──▶ mpsc channel ──▶ commit thread ──▶ log file (fsync = commit point)
    ▲                     ▲                 │
    │ answer              │ checkpoint,     ├──▶ vector file   (mmap, published count)
    └─────────────────────┼─────────────────┤
                          │ truncate, flip  ├──▶ tuple store
       flusher thread ────┤                 └──▶ metadata (live bitmap, postings) ─▶ LiveHandle
       compactor thread ──┘                                                             │
 queries ◀── epoch check, live snapshot, vector reader, metadata reader ◀───────────────┘
```

### Components

**Write-ahead log** (`wal.rs`).
*State:* the file, `next_lsn`, the poison, the channel.
*Operations:* `append`, `checkpoint`, `truncate`, `control`, `shutdown`, `recover`.
*Interaction:* every writer blocks on its answer; the stores sit behind the trait `Apply`.
*Hard:* group commit shares one fsync; a failed apply must not let one watermark claim a hole;
control operations run between two batches; truncation replaces the file by rename; torn tails.
*Correct when:* what is acknowledged is durable and visible, LSNs are never reused, a poisoned
log is frozen, every waiter is answered.

**Applier, stores and checkpoints** (`mod.rs`).
*State:* per collection the vector file, metadata and tuple store, each with its own watermark;
`last_applied`; per-collection floors; the ordinal allocators.
*Operations:* `apply` (insert, delete, mutate), `checkpoint`, `Db::open`, `insert`, `delete`,
`update_rows`, `mutate`.
*Interaction:* the commit thread folds a record store by store, liveness last, while readers run.
*Hard:* three stores durable at three different moments; replay of a suffix against stores of
different ages; callers racing on a primary key; ordinals taken before the record is logged.
*Correct when:* the three stores converge after any crash, the log loses a record only when every
store has it, keys stay unique, a snapshot finds every row it promises.

**Liveness handle** (`metadata/index.rs`, `LiveHandle`).
*State:* a version counter, a cached snapshot, two locks.
*Operations:* `resolve` by readers; `apply_mutation`, then `bump`, by the commit thread.
*Hard:* the bitmap and the version change in two steps; several readers refill one cache.
*Correct when:* a label never leads its contents, reads are current and monotone, at most one set
is materialized per version, nobody deadlocks.

**Flat vector index** (`index.rs`).
*State:* a memory map, the published count, two header slots.
*Operations:* `write_at`, `begin_checkpoint`, `sync_data`, `stage_watermark`, `sync_header`,
`open`, `search_filtered`.
*Hard:* scans without locks; headers and pages torn or reordered by a crash, or trusted
and never flushed; flushes that fail.
*Correct when:* a valid header never claims what the pages lack, `open` always finds one the log
reaches, a scan sees only whole vectors.

**Compaction, write gate and flip epoch** (`engine/compact.rs`).
*State:* the gate, the staged copy, the directories `live`, `staged`, `retired`, the epoch.
*Operations:* `build`, the flip (`stage`, `swap_dirs`, `install`), `settle`, `WriteGate::enter`
and `close`, `Epoch::begin`, `unchanged`, `publish`.
*Interaction:* the compactor closes the gate and sends a job to the commit thread.
*Hard:* ordinals are renumbered under running writes and queries; two renames and their flushes,
each of which may fail or be cut by a crash; a statement that enters the gate twice.
*Correct when:* no row is lost or revived, no record reaches ordinals of another generation, one
generation survives any crash, everybody gets out of the gate.

**Statement execution** (`query.rs`, `vm/exec.rs`, `engine/cursor.rs`).
*State:* per call a program, its machine (registers, cursors, the rows handed out), an attempt.
*Operations:* `Db::execute`; the instructions of `Vm::exec_one`; `Db::insert`, `update_rows`,
`mutate`, `create_collection`; `RowStream`.
*Interaction:* a write runs inside the write gate and sends one record; a read opens its cursors
under the epoch and then streams without the database.
*Hard:* rows are read, changed by others, then written; the snapshot, the readers of the stores
and the generation are taken one after the other; a stream outlives writes and flips.
*Correct when* a write happens at one moment or not at all, a read is of one moment, contention
is only reported to a loser, every call ends.

**V-SQL front end, compiler** (`sql/`, `compiler/`): text to tokens to tree to plan to program;
pure functions. *Hard:* a second, smaller lexer in the shell; the vector stands outside the
stored columns, so ordinals and ids differ by one; registers and jumps are allocated by hand.
*Correct when* what runs is what was written, and what is not a statement is refused.

**Catalog and DDL** (`mod.rs`).
*State:* `catalog.snap`, the directories, the registry, the published map, the frozen watermark
of a failed create.
*Operations:* `Db::open`, `create_collection`, `apply_create`, `checkpoint`, `close`, `drop`.
*Interaction:* a create goes through the log; the catalog's watermark joins the truncation
minimum; the flusher and the compactor ask the commit thread, and `close` joins all three.
*Hard:* a create that fails while it is applied; a crash between directory, catalog and log,
or while a file is made in place; two creates at once; threads that wait for each other at the end.
*Correct when* what was acknowledged is there after any crash, the database opens, `close` ends.

**Metadata lookups and snapshot files** (`metadata/`): postings by value, liveness sets, the tuple
store's rows, files replaced as a whole. *Hard:* two zeroes and NaN in an order; a liveness set
older than the postings; crashes between write, flush, rename and the directory's flush.
*Correct when* a lookup returns exactly the rows that match, and every file opens to what the
records up to its LSN add up to.

**Shell and platform** (`main.rs`, `editor.rs`, `platform/`): lines are gathered, split into
statements and run; a line editor decodes keystrokes from bytes. *Hard:* Ctrl-C as byte and as
signal, a closed output, rows held back while columns are measured. *Correct when* keys do what
they say and a script's exit code tells the truth.

**Kernels** (`simd/`): floating-point distances.

The hazards of this code, each at the line where it bites and with the properties that watch it,
are listed in `PROJECT.json`.

## 2. The modules

| module | models | composed with |
| --- | --- | --- |
| `DurableLog` | the promise of the log: kept, visible, answered | abstract specification of `CommitLog` |
| `CommitLog` | commit thread, file, recovery | refines `DurableLog`; its stores are abstract |
| `CommitLog_proofs` | theorems about `CommitLog`, and that it implements `DurableLog` | |
| `Stores` | three stores per collection, fan-out, checkpoint, replay | takes the log's promise as given |
| `Stores_proofs` | theorems about `Stores` | |
| `LiveHandle` | `resolve` against `apply_mutation` and `bump` | |
| `LiveHandle_proofs` | theorems about `LiveHandle` | |
| `FlatIndex` | one vector file with its header slots and scans | one store of `Stores`, opened up |
| `FlatIndex_proofs` | theorems about `FlatIndex` | |
| `Compaction` | gate, rebuild, flip, settle, epoch | stores reduced to one generation image |
| `Compaction_proofs` | theorems about `Compaction` | |
| `Snapshots` | a file replaced as a whole, step by step | extended by `MetaStore`, `Catalog` |
| `MetaStore` | metadata index and tuple store: lookups, records, files | two stores of `Stores`, opened up |
| `MetaStore_proofs` | theorems about `MetaStore` and its files | |
| `Catalog` | create, open, checkpoint, close, the threads' end | takes stores and log as one step each |
| `Catalog_proofs` | theorems about `Catalog` | |
| `Sql` | tree, schemas, binder, planner, compiler, program check | |
| `Table` | the promise of `Db::execute` | abstract specification of `Statements` |
| `Table_proofs` | theorems about `Table` | |
| `Statements` | calls, machine, gate, commit thread, flip | extends `Sql`; refines `Table` |
| `Grammar` | lexer and parser | extends `Sql` |
| `Editor` | bytes to keys to lines, history | |
| `Shell` | read, split, run, print | extends `Grammar`, `Editor` |
| `MCCommitLog`, `MCStores`, `MCCompaction`, `MCStatements`, `MCMetaStore`, `MCCatalog`, `MCShell` | constants for TLC, symmetry | |

The modules cut the system at the promises its parts make. `CommitLog` treats the stores as the
set of frames they absorbed and shows that a committed frame is recoverable and applied in
order. `Stores` starts from there: a record is in `hist` once durable, and what remains is
whether three stores agree. `FlatIndex` opens the one store whose durability is not a snapshot
file, `MetaStore` the two whose durability is one. `Compaction` starts from one image per
generation, whose atomicity is the subject of `Stores` and `Snapshots`. `Catalog` asks which
collections and threads there are, with a collection as one store. `Statements` stands on all of
them: with a log that keeps its promise, one table is what callers see. `Shell` ends where
`Db::execute` begins: it runs the real lexer and parser, and the answers of the database are any
that its kind of statement may get.

### CommitLog

| model | code |
| --- | --- |
| `queue`, `Submit`, `Request` | the channel; `WalHandle::append`, `checkpoint`, `truncate`, `control` |
| `pc`, `batch`, `ctl`: `Receive`, `Drain`, `DrainEnds` | `commit_loop`: one blocking `recv`, then `try_recv` up to `MAX_BATCH`, a control op ends the drain |
| `todo`, `nextLsn`: `AssignLsns`, `FrameFails` | numbering and framing in `commit_batch` |
| `Write`, `WriteFails`, `Sync`, `SyncFails` | `write_all`, `sync_data` and `fail_batch`; the frames stay in the file |
| `mem`, `Apply`, `ApplyFails`, `poison` | apply in order; the first failure poisons the log and the rest of the batch is refused |
| `Checkpoint`, `CheckpointFails`, `Job`, `JobHalts`, `ControlRefused` | the control ops and the refusal of all of them once poisoned |
| `upTo`: `Truncate`, `TruncateFails`, `ReopenFails` | `truncate_wal`: copy, fsync, rename, reopen |
| `log.good`, `log.lost`, `log.torn`, `unsynced`, `suspect`, `shadow`, `attached` | what recovery would read of the file, what no fsync has covered, what a failed fsync left, the file a rename not yet flushed replaced, whether the handle is that file |
| `Kill`, `PowerLoss`, `RenameUndone`, `Restart` | process death, power cut, `recover` and `Wal::start` |

A record is the call that sends it. The codec is reduced to: a frame is intact, torn or absent,
and recovery never reads past a tear. `Apply` has one successful outcome, since "applied",
"stale" and "duplicate" all advance the stores; which one it is belongs to `Stores`.

`harm` records the disk failures that have happened. `Durable`, `PrefixApplied`,
`ReadYourWrites` and `FreshLsn` are stated for behaviours whose only failure is a failed fsync
(kills, power cuts that tear nothing, failed applies, failed checkpoints and failed truncations
are never excused): under the others the code does not keep them, and section 7 and the hazard
list say where. `DurableLog` is the log without LSNs, batches and files: a call is
answered ok only when it is kept, an I/O error is answered only for what is not kept, a crash
loses only what is in doubt.

### Stores

`mem[c]` and `disk[c]` hold, per collection, the three stores with their watermarks. `FanOut` is
the order flat, tuple, meta of `apply`, one store per step (`Reach`), so that a reader can look
in between; `Refuse` is the verdict that touches no store. `SyncStore`, `SyncCatalog`,
`Truncate` and `CheckpointFails` are `IndexApplier::checkpoint` with a stop at every place it may
fail; collections come in any order (a hash map), stores in the order vector, metadata, tuples.
`Crash` keeps what is durable plus any of the vector slots written since, because the vector
file is a memory map. `Open`, `Replay`, `Ready` are `Db::open`: floors per collection, the log
above the lowest watermark, allocators seeded by the vector count.

A caller may use any ordinal not used yet in this session (`free`; the allocator hands them out
in order, the calls reach the log in any order) and may name any row some snapshot of this
session has held (`seen`): this is what a caller that resolved its rows earlier may send.
`truth` is what the verdicts the callers were given leave. `skewed` collects the collections a
replay may have judged differently (section 7, items 4 and 5): `Rejudged` names the records that
makes possible, those at or below `metadata.snap` but above `tuples.snap` that are a keyed insert,
an update of several rows, or an update that was refused.
Snapshot files (write, fsync, rename, fsync of the directory) are one step, and so is the vector
file's header: one that is trusted before it is flushed (section 7, item 10) is the subject of `FlatIndex`.

### LiveHandle

`pc[r]` walks through `resolve`: load the version, look in the cache, lock the cache, look again,
take the metadata lock and read the version, copy the bitmap, fill the cache. The commit thread changes a
statement's rows one by one under the metadata lock and bumps afterwards without a lock. The bitmap is
the number of records it reflects and the number of rows of the next one (`rows # 0` is half a
statement).

### FlatIndex

A vector is the LSN that wrote it. `Logged`, `Copied`, `Publish`, `Admit` split one insert: the
slot may be torn, is whole, is counted, is live. The checkpoint is its four calls; either flush
may fail with any of its pages written, and `SyncHeader` flushes the staged slot's page only. A
header, too, is written in two steps (`Overwrite`, `StageWatermark`), and the kernel may write a
header's page back at any time (`WriteBack`). `Kill` ends the process and leaves every page as it is
in the cache, flushed or not, so that `Open` may trust a slot that is on no disk; `PowerCut`, which may
come after a kill, leaves each unflushed page old, new or torn. `watermark` is history: `exposed`
says that a checkpoint staged over the only slot that was flushed, `lost` that `Open` then took a
header below the base of the log. Readers take a snapshot, load the count, and scan.

### Compaction

A row is the LSN that installed it, so that a row keeps its identity when its ordinal changes;
`truth` is the log read as statements about rows. `wr[w]` is a statement inside the gate, with
its attempt. `comp` is where the compactor stands (`copy`, `wait`) and then the commit thread
doing the flip for it (`stage` to `even`). `dirs` are the three directories, and `maybe` every
layout a crash may leave since the last flush of the parent directory. The first three records
are given, so that a collection starts with a hole to compact.

### Sql and Statements

`Bind`, `Plan`, `Compile` and `Validate` of `Sql` follow the four passes as functions from a
record to a record; an `err` other than `""` is the error they return. `Fresh` and `Emit` are the
compiler's state. Literals are a type and numbers, so that an INT column compared with a FLOAT,
or coerced into one, means what it means in the code.

`calls[c]` is one call of `Db::execute`: its statement, phase, program, machine (`vm`: program
counter, registers, cursors, the liveness it resolved), attempt and outcome. Every instruction is
a step of its own, and an error goes through `Raised`, which knows what the phase makes of it.
`stage` is where the commit thread stands with the first record of `queue`: `Judge` puts the rows
in place, `Absorb` changes the liveness, `Publish` bumps its version and answers, so that a reader
can come between any two of them. `flip`, `epoch`, `serving` and `gens` are the end of a
compaction: the gate closes once no statement is inside, a generation with the live rows
renumbered is installed under an odd epoch, readers are given it, the epoch is made even and the
gate opens. `moments` and `spent` are history: what the table has been since a call began, and
the row versions it ever held.

`Table` has rows, versions and calls only. A version is a number that every row gets when it is
made and keeps when it is renumbered. Under the refinement the table is what a new snapshot would
show, and a write has taken effect as soon as one would show it, answered or not.

### Snapshots, MetaStore, Catalog

`After` gives a file one of its five steps, `Abandoned` what a failed or killed step leaves,
`AfterPowerCut` every outcome of a power cut: the entry the directory has flushed or the newer
one, bytes that were never flushed as nothing. `Sealed` and `Intact` are the checksum.

`MetaStore` absorbs a record in the tuple store (`Write`), then in the index (`Absorb`), with
queries looking in between with a liveness set from before (`held`). `LookupEq`, `LookupRange`,
`Get` and `IsLive` are the read paths, down to the words of a liveness set. `Open` reads the two
files, which may be of different ages; `Replay` then puts the log's records into both stores, one
record per step, from the older file's LSN on, and `IsStale` may leave a record out, as it does in
the code. Each record was applied when it was logged; during a replay one can look stale when the index
already has the retirements of records above it. `skewed` is history: such a record retired rows
that were live, and they stay. How acknowledged rows may be lost that way is the subject of `Stores`
and section 7.

`Catalog` names the threads: callers, flusher, compactor, main; each waits in `waits` for the
commit thread, which does one `job` at a time from a FIFO `queue`. Applying a create is four
steps and the file's five (`CreateStores`, `CreateEntry`, `WriteCatalog`, `Publish`); `StepFails`
may end each of them, poisoning the log or making open return an error. `Db::open` makes the stores
that are not there one collection at a time (`MakeMissing`). While stores are being made (`Making`), a
failed step, a kill or a power cut may leave a `vectors.idx` without headers (`LeftHalf`,
`disk.half`): `FlatIndex::create` works in place, and what exists is opened, so such a collection
no longer opens (`Opens`). The other two stores are files replaced as a whole. `ending` is what `close`
or `drop` still has to do, in the code's order. `told` is what callers were told. The log is the
set of its frames: their order in the file is that of their LSNs, and `Replay` takes the lowest
that has not been read.

### Grammar, Editor, Shell

A text is a sequence of characters in which one letter may stand for a word: the lexer and the
parser walk it as the code does, precedence, keywords and the longest match included. `Shell`
feeds it lines: `Gather` is the splitter, `Execute` the call, `Row` a row printed or held back,
`Signal` a Ctrl-C outside the editor, `ReaderLeaves` the output closing, `HangUp` the end of a
terminal's input, in the middle of a sequence or not. `Editor` decodes one
byte per step. Only a byte from 0x40 to 0x7e ends an escape sequence (`Finals`); every other, Enter
and Ctrl-C among them, counts as a parameter, and after `MaxParams` of them the sequence is given up.
`Spell` writes a tree out again and is what `MeansWhatIsWritten` compares with.

### Reading conventions

A definition with an underscore in its name and the word *variant* or *mutant* in its comment is
never used by a specification. It is the neighbouring definition with one plausible mistake, and
`PROJECT.json` says which property the mistake breaks: it is the evidence that the property
depends on that line of the code.

## 3. What is checked

| run | properties | what it shows |
| --- | --- | --- |
| `commitlog` | `TypeOK`, `Durable`, `PrefixApplied`, `ReadYourWrites`, `FreshLsn`, `PoisonFreezes` | With one kind of disk failure in a behaviour and kills, cuts and restarts anywhere: a record whose fsync succeeded is in the file or in durable stores at every instant; the stores hold a prefix; an acknowledged record is readable; no LSN is used twice; poison freezes everything. |
| `commitlog_promise` | `ImplementsDurableLog`, `AppendAnswered` | Without disk failures the log implements `DurableLog`; every append is answered. |
| `stores` | `ConvergedInStep`, `SnapshotReadable`, `TruncationSafe`, `KeysUnique`, `RowsStable` | Two collections, one keyed: after any crash and replay the three stores hold the rows the acknowledged verdicts leave, unless section 7's window was hit; snapshots are readable in the middle of a fan-out; truncation loses nothing; keys are unique; no row a snapshot held is overwritten. |
| `live_handle` | `WholeStatements`, `Current`, `Monotone`, `LocksReleased` | Two readers against the commit thread. |
| `flat_index` | `HeaderHonest`, `Reopens`, `ScanSound` | Ordinals logged in any order, a scan, failed flushes, kills and power cuts: headers are honest, and one the log reaches survives unless the only flushed one was staged over. |
| `compaction` | `RowsKept`, `CrashSafe`, `OrdinalsCurrent`, `HaltedOrAgreed`, `QueriesCoherent` | Two statements and a query against up to two flips, with every rename and flush failing and crashes anywhere, the log itself not failing. |
| `compaction_ends` | `GatePasses` | The gate never deadlocks, statements retry and leave, a started compaction ends; failed log writes included. |
| `statements` | `StreamsOneMoment`, `SchemaRoundTrip`, `LostToProgress`, `ImplementsTable`, `EveryCallEnds` | Reads, creates and statements that mean nothing alone; writes against writes, reads and creates, beside the commit thread and a flip: what `Table` promises is what happens, to the last row of a stream; every call ends. |
| `metastore` | `LookupsExact`, `Reopens` | Lookups with older liveness sets between two stores, files killed or cut off at each of their steps. |
| `catalog` | `CatalogComplete`, `OpensAgain`, `CloseEnds` | One collection supplied, two callers, flusher, compactor and main, one failing file or flush, crashes and power cuts anywhere: what was acknowledged is there, the database opens unless a `vectors.idx` was left half made, close ends. |
| `front_end` | `SplitterAgrees`, `MeansWhatIsWritten`, `KeysArrive`, `ExitTellsTruth` | Scripts and keystrokes through splitter, lexer, parser and editor, with Ctrl-C and a closed output at every point. |
| `catalog_new_collection` | `CatalogComplete` | The counterexample of section 7, item 1. |

Deadlock is checked except in `statements` and `front_end`, where every call may have ended and
every script has. In `CommitLog` a commit thread blocked in `recv` with nobody
waiting is the step `Idle`, so a waiting caller and a thread that cannot move would be reported.
In the other modules a crash is always possible, so that waiting for each other shows only in
the liveness properties.

## 4. Bounds

* `CommitLog`: two calls and `MaxBatch` 2. Two calls make both a batch of two and two batches of
  one, with any control op between, before or after them; every hazard listed needs one record
  that is lost and one that claims it. `MaxFaults` 1 keeps to one *kind* of disk failure per
  behaviour, occurring any number of times.
* `Stores`: three records, three ordinals, one key. The interesting windows need an insert, an
  update or delete of its row, and one record more; the key is shared, so every two inserts of
  the keyed collection collide. One unkeyed collection with
  two keys, two ordinals and four records was run once (0.4 million states): an insert, a
  delete, the update that is refused, and the record that gets the ordinal the update had taken.
* `LiveHandle`: two readers, two rows per statement, three records: a reader can be overtaken by
  the other one and by the writer twice.
* `FlatIndex`: three ordinals in any order, two records, header sequence numbers up to four:
  each slot is written twice, so the older valid header is ever one that was trusted once, and a
  header that is only cached can be staged over, flushed, or lost. Two records suffice for one that is
  below the base of the log and one above it. One reader: scans touch nothing the others read.
* `Compaction`: two writers, one query, two flips (`MaxGen` 3), three given records and two new
  ones (`MaxLog` 5); the allocator reaches its capacity. `compaction_ends` trades the query and
  the second flip for the liveness graph and lets log writes fail. A larger instance was run once
  and found nothing more: six records with one flip (12 million states).
* `Statements`: `MCStatements` lists the workloads: ten reads that use each comparison, connective and
  ranking, and 26 statements to refuse, alone; every two of eight writes, a filter and a ranking
  against each write, a filter of several lookups against an update, every two creates; and three
  writes of one row, so that the second of two attempts is lost too. Two live rows and one dead, five ordinals, so that the last free ones are fought for; one
  flip.
* `MetaStore`: three records over three ordinals and a column of each type; the rows hold a negative
  zero, a smaller number and texts in either order, the probes are both zeroes, numbers around
  them, NaN and absent values; liveness words of two bits, so that a set has two words and
  ordinals past its end are asked for. A replay that leaves a record out is reached; one that is
  `skewed` needs four records and four ordinals. That instance, with one INT column and without
  `Resolve` and `SaveFails`, was run once with the inductive invariant of section 6 (1.5 million
  states), and the proofs cover it.
* `Catalog`: one collection supplied to every open, two names to create, two frames, one failure. Two
  creates, a create and an insert, or two inserts reach every order of create, checkpoint, crash,
  replay and create again, and the stores of the supplied collection are made by an open that may
  fail or be cut. Two larger instances were run once and found nothing more: three frames without
  a supplied collection (0.5 million states), three frames with it and one name (1.3 million).
  `catalog_new_collection` supplies the collection to some opens only, with three frames and no
  failures.
* `Shell`: `MCShell` lists the scripts: each kind of statement in several spellings, statements
  with one token missing, doubled or changed, and all texts of a few characters; keystrokes as
  whole sequences, four to a session, among them one with as many parameters as are allowed, one
  with more, and one broken off by Ctrl-C, Enter and half a character; three rows with two held
  back, and Escape with Enter.

`Calls`, `Writers` and `Queries` are symmetric sets in the runs that check no liveness.

## 5. Fairness

* `CommitLog`: weak fairness of the commit thread. It is an operating-system thread that blocks
  in `recv` only. No caller, fault or restart is fair; `AppendAnswered` therefore includes
  "crashed" among the answers, for a caller whose process ended.
* `LiveHandle`: weak fairness of each reader and of the commit thread. Weak is not enough in
  general to take a contended lock, but here the writer has finitely many records, which is the
  bound `MaxRecords`; with unbounded traffic `LocksReleased` relies on the lock being handed over
  in finite time, as the holders do bounded work and take the locks in one order.
* `Compaction`: weak fairness of every thread, and strong fairness of taking a given writer's
  record from the channel. The model keeps no queue; the channel is first in, first out, so a
  record in it cannot be passed over for ever, and the strong fairness says just that. Entering
  the gate, starting a compaction and crashing are not fair.
* `Statements`: weak fairness of the commit thread and of a compaction that waits, strong
  fairness of each caller. A caller can be shut out of the gate only while it is closed, and the
  gate is closed finitely often, so strong fairness says that a thread waiting on the condition
  variable is woken in the end.
* `Catalog`: weak fairness of the commit thread and of the ends of the threads. Nobody has to
  call, tick or close; `CloseEnds` says that a close, once begun, ends or the process does.
* `MetaStore` and `Shell` state no fairness and check no liveness.

## 6. What is proved

TLAPS proves the following for every value of the constants, from the named
assumptions on them: `CommitLogAssumption` and `LiveHandleAssumption` (batch size positive, the
sentinels distinct from the threads), `FlatIndexAssumption`, `StoresAssumption` (finitely many
collections, some of them keyed, capacity positive), `CompactionAssumption` (sizes are numbers, the
sentinel is no thread), `CatalogAssumption` (an embedder declares finitely many collections, whose
ids are numbers; the sentinel is no caller), `SchemaAssumption` (a row has each column once, a value of
its type and no NaN), `ProbesAssumption` (a probe is a number, a text or NaN), `SizesAssumption` and, for `Table`, the hypothesis `Wellformed` in the
theorems themselves, as are the hypotheses on faults of `Compaction` and `Catalog`.

**`CommitLog_proofs`**, for any set of calls, any batch size, any set of faults:

| theorem | states |
| --- | --- |
| `TypeCorrect` | `Spec => []TypeOK` |
| `Invariance` | `Spec => []IInv` |
| `CommittedIsDurable` | `Spec => []Durable` |
| `StoresHoldAPrefix` | `Spec => []PrefixApplied` |
| `AckedIsVisible` | `Spec => []ReadYourWrites` |
| `LsnsAreFresh` | `Spec => []FreshLsn` |
| `PoisonIsFinal` | `Spec => PoisonFreezes` |

None of these is inductive. `Durable` alone does not survive a truncation: one has to know that
everything at or below the truncation point is in `disk.ops`, which in turn rests on the stores
holding a prefix when the checkpoint took its watermark, which rests on the order in which a
batch is applied. `IInv` names the links of this chain:

* `ControlInv`: which of `batch`, `ctl`, `todo` are empty at which `pc`, and that a poisoned log
  is at no point of a commit or a truncation;
* `FileInv`: without a tear nothing is `lost`, the handle is attached, and what no fsync has covered
  is in the file and is not yet in use;
* `TodoInv`: the frames in progress are above everything in the stores, below `nextLsn`, and
  committed once the thread applies them;
* `StoreInv`: what the stores hold below the watermark is exactly durable; every committed frame
  is recoverable; a committed frame missing from `mem` has nothing above it in `mem`;
* `LsnInv`: `nextLsn` is above every frame in use;
* `AckInv`: an acknowledged call is committed, and in the stores while the process runs.

All but `TypeOK` and `ControlInv` are conditional on the same excuse as the properties, and
`HarmGrows` shows that the excuse is never withdrawn. The step lemma has one case per action.

And for any set of calls and any batch size, with crashes and lost power but no failing disk
(`Faults = {}`): `LogKeepsItsPromise`, that is `Spec => ImplementsDurableLog`.
Every step of the log is a step of `DurableLog` or leaves its state alone. The steps that look
like nothing are the hard ones: a truncation and a checkpoint must forget no kept call, a loss of
power may forget only calls nobody was answered for, and an answer must go to a call that was
still waiting. `PInv` adds to `IInv` what they rest on:

* `PlaceInv`: a waiting call is in one place only, the channel, the batch or the numbered frames,
  so that a call is answered once and never "failed" when a frame of it is in the file;
* `FrameInv`: every frame is of a call that was made, and while the call waits it is in `todo`;
* `DoubtInv`: what no fsync has covered is of a call that waits or went down with the process;
* `AbsorbedInv`: while the log runs unpoisoned, the stores have every frame of the file that is
  above the watermark and not in progress, so that moving the watermark drops none.

**`LiveHandle_proofs`**, for any number of readers, rows and records: `TypeCorrect`,
`Invariance`, and `LabelsLag`, `SnapshotsAreWhole`, `ReadsAreCurrent`, `ReadsAreMonotone`,
`BuiltOncePerVersion` for `NeverLeads`, `WholeStatements`, `Current`, `Monotone`,
`OncePerVersion`. The invariant says how far the counter lags (`version = records` when the
applier is idle, one behind while it publishes), who holds which lock at which `pc`, that the
cached set is sound and no newer than the version, and that a set under construction was read
under the metadata lock. Monotonicity is where it has to be strong: a reader's last set must be no
newer than what the cache, or the reader itself while it holds the cache lock, is about to give.

**`FlatIndex_proofs`**, for any capacity, number of readers, length of the log and number of
checkpoints, with flushes that fail, kills that leave dirty pages in the cache and power cuts that leave
any of them old, new or torn: `HeadersAreHonest`, `AlwaysReopens` and `ScansAreSound` for
`HeaderHonest`, `Reopens` and `ScanSound`, and `TypeCorrect`. The first and the third are claimed until
records are lost, the second while no checkpoint has staged over the only slot flushed
(section 7, item 10); `LostOnlyExposed` says that records are lost in no other way.
`HeaderHonest` alone is not inductive: the
invariant needs it of the header in the mapping as well as of the one on disk, and against the pages of
both (`HeadersKept`), because a power cut may keep either of each. What both agree on is clean, so no
crash can change it. The slot an open handle trusts need not be clean. For `Reopens` the invariant says
instead that, while `watermark` is `durable`, some slot is (`AnchorInv`), and that any slot as new, on
either side, is above the base of the log; staging keeps this unless it rewrites that slot. Behind all of it:
an ordinal is logged once, so a page being written is one that nothing claims.

**`Table_proofs`**, for any callers, statements, rows and keys: `TypeCorrect`, `UniqueKeys` (no two
rows of the table, or of any moment a read may still answer from, have one key) and
`VersionsNameRows` (a version names one row for ever, so that an UPDATE which finds the versions
it read still there writes over nothing). The hypothesis `Wellformed` says that an INSERT carries
data and an UPDATE leaves the key as it was: the binder refuses `SET` of a key column. The
invariant adds that every version in sight was spent, which is what makes a new row unlike every
row anybody has seen; one lemma per kind of write shows that it only adds new versions. As
`Statements` implements `Table` on the instances checked, these hold of what callers see there.

**`Stores_proofs`**, for any finite set of collections, any keys and capacity, a log of any
length, with checkpoints that stop anywhere and crashes anywhere:

| theorem | states |
| --- | --- |
| `SafeInvariance` | `Spec => []Safe` |
| `TruncationIsSafe` | `Spec => []TruncationSafe` |
| `RowsAreStable` | `Spec => RowsStable` |
| `SnapshotsAreReadable` | `Spec => []SnapshotReadable` |
| `StoresConverge` | `Spec => []ConvergedInStep` |
| `KeysAreUnique` | `Spec => []KeysUnique` |

`Safe` holds whatever a replay is judged by: control, the order of the watermarks of one collection on
disk and in memory and against the log's base (`LsnInv`), what a stopped checkpoint has synced
(`SyncInv`), ordinals that are free, seen or in a record not yet applied being three different things
(`SessionInv`), how far the fan-out is (`StepInv`). The first two theorems need no more.

Convergence is about three stores of three ages and a replay over liveness from the future. The
argument that makes it tractable: an ordinal is installed by at most one applied record and retired
only by later ones, so what is alive after *n* records is a set expression over them (`Alive`) in
which their order does not occur. Each store on disk holds what is alive at its own watermark
(`OnDisk`). In a replay memory holds what is alive at the newer of the record reached and the
watermark of the liveness, and possibly rows that a record still to be replayed retires; past the
newest watermark no such record is left, and memory is what the log says (`MemInv` states both).
`HistInv` says that the verdicts in the log are those this history makes, and that keys
are unique at each of its points, `BegunInv` that a fan-out is of a record
that was applied. All of these are
claimed for collections outside `skewed` only, and the lemmas about the replay of
a record that is judged are where each disjunct of `Rejudged` is needed (`ReplayInv`); that of the refused update was found here, by a case
that would not go through, and TLC then found the behaviour.

**`Compaction_proofs`**, for any writers, queries, attempts and sizes:

| theorem | states |
| --- | --- |
| `FlipInvariance` | `Spec => []FlipInv` |
| `AgreesOrHalts` | `Spec => []HaltedOrAgreed` |
| `QueriesSeeOneGeneration` | `Spec => []QueriesCoherent` |
| `CaughtUpIsMemory` | after the catch-up the copy is the live rows of memory, in slots of their own |
| `RowsInvariance` | `SyncMayFail = FALSE /\ Spec => []RowsInv` |
| `RowsAreKept`, `CrashesAreSafe`, `OrdinalsAreCurrent` | the same for `RowsKept`, `CrashSafe`, `OrdinalsCurrent` |

`FlipInv` says which layouts a crash may leave at each step of the flip and to which generation each
settles (`DirInv`), and when the epoch is odd (`EpochInv`); it holds with failing log writes too. The
four theorems about rows are for a log that does not fail (`SyncMayFail = FALSE`): with it the code does
not keep `OrdinalsCurrent` (section 7, item 6), as a frame left by a failed fsync has no caller the gate
could wait for. `RowsInv` says that what recovery would make of the generation in memory is that
memory, with the record being applied (`MemInv`); that a record on its way names rows memory has and
a slot of its own (`WriterInv`); and that the copy is the rows it was built from, renumbered by rank,
later the rows of memory (`CopyInv`). Every layout in `maybe` then settles to a good generation
(`FileInv`). That ranks are one to one is induction on a set's size; it and the replay of a log of any
length are done with minimal counterexamples, from the well-foundedness of `<`.

**`Catalog_proofs`**, for any callers, names, schemas and declared collections, a log of any
length, any number of failures, with crashes and power cuts at every step:

| theorem | states |
| --- | --- |
| `Invariance` | `Spec => []Inv` |
| `CollectionsAreKept` | `Spec => []CatalogComplete` |
| `AlwaysOpens` | `Spec => []OpensAgain` (it opens unless a `vectors.idx` was left half made, section 7, item 11), if no flush of the log fails or all collections have one schema |

All three under two hypotheses, each with a counterexample when it is dropped. `OneList`: the embedder
declares the same collections at every open (section 7, item 1). `OneKindOfFailure`: what fails is
either steps of the catalog's file or flushes of the log, as often as may be, and directory entries
are flushed (section 7, items 8 and 9). The run `catalog` has both kinds, one failure in all; the
third theorem's condition is item 7.

The catalog's file is written by three kinds of job, a power cut may bring the previous one back, and
what it lacks must then be in the log. `RecallInv` says so of both, the one on disk and the one the
directory has flushed: every collection with an insert in the log or an acknowledged one is
in the catalog or has a create above the catalog's LSN. Truncation is where that is hard: it
needs `CoverInv`, that the LSNs go on above every watermark on disk and in memory, and `DirInv`, that
an acknowledged insert is in the log or in rows whose directory stays. `HomeInv` carries this through
an open: what is not registered yet is awaited, by a create not yet replayed, and `LogInv` has that
create come before any insert of its collection, so that no replayed insert misses its stores.
`FileInv` has the file loadable at each of the five steps; `MemInv`, `JobInv` and its parts tie
memory to the catalog that is being written, and `WaitInv` says that a queued create has an
id and a name still free, which holds because one caller at a time creates. Without failing flushes
`KnownInv` has the collections of catalog and log agree with the directories, which is what
`AlwaysOpens` needs.

**`MetaStore_proofs`**, for any schema, rows and probes, any capacity and word size and a log of any
length, with checkpoints that fail, kills and power cuts at every step of either file and at every
record of a replay:

| theorem | states |
| --- | --- |
| `Invariance` | `Spec => []Inv` |
| `LookupsAreExact` | `Spec => []LookupsExact` |
| `FilesReopen` | `Spec => []Reopens` |

What the records say of a row does not depend on the order they are told in: an ordinal is installed
by one record at most and retired after it (`LogInv`). So telling an index some records again changes
nothing, and half way through a replay onto stores of two ages it has what it had or more. `Inv` says so
of memory (`MemInv`): each column has, under each thing a row has in it, exactly the rows that have
it, of the rows it was told of; those are all rows of the log so far unless a replay was skewed; every
live row is among them and, once no replay is under way, in the tuple store.
`IsColumn` and `TokensOK` are what a column is, with a dictionary that numbers its texts
one to one. `FileInv` says that each file is whole, whatever a power cut makes of it, and decodes to
such a store; `SavingInv` says that what is being written, at each of the five steps, is what memory has.

The two files are replaced one after the other, so they may be opened in more combinations than
were ever in memory together. `Good` is the relation between an index file and a tuple file that a replay needs, `FileInv` claims it of
every pair a power cut may leave, and `BackInv` is why a pair stays good when either half is
replaced: a tuple file is never newer than the index in memory and has the live rows it could have.
That rests on the order in the code, index first. Whether a record is stale is asked of the index
at that point of the replay, which is why the model replays record by record; `ReplayAt` says what
the two stores have on the way.

`LookupsExact` carries no excuse: also after a skewed replay, a lookup answers exactly the live rows
by the values the tuple store has. What such a replay may change is which rows are live, and there
`Reopens` says less, as it states. From the invariant to the properties it takes that key order is
numeric order with the zeroes alike (`Key` and `Size`), that posting lists masked by an older
liveness set are the rows of that set, and that the words of a set, cut off after its last row,
have the same members.

**Left to model checking.** Liveness and anything with fairness (`AppendAnswered`,
`LocksReleased`, `GatePasses`, `EveryCallEnds`, `CloseEnds`): the provers have no backend for it
here. `Sql`, `Statements`, `Grammar` and `Shell` walk trees and texts with recursive
operators, which rules proofs about them out; so the refinement `ImplementsTable` and the properties
of `Statements` and `Shell` stay with TLC.

## 7. Where code and documentation disagree

Item 1 is a run whose expected result is the violation, `catalog_new_collection`. For the
others the definition or the constants to check are given; the passing runs leave them out by an
excuse the property names.

1. **A new collection restarts the LSNs** (`catalog_new_collection`, `CatalogComplete`).
   `wal.rs:1009` says the LSN counter must never resume at or below the checkpoint watermark.
   `Db::open` (`mod.rs:1006`) passes the minimum over all stores, which is 0 for a collection
   supplied to open for the first time; if the log was truncated to nothing, the next insert into
   an older collection gets an LSN its stores already claim, is taken for a replay and is
   acknowledged without being applied. Starting the counter past the highest watermark would
   close it. (Opening after a damaged snapshot, which `MetadataIndex::open` documents as rebuilt
   from the log, restarts the counter the same way; the truncated log does not reach back.)
2. **A torn tail stays in the file.** `recover` stops at
   the tear and calls the rest discarded (`wal.rs:325`), but `Wal::start` opens the file for
   append and does not cut it. Records acknowledged afterwards lie behind the tear; the next
   restart does not find them. Setting the file's length to the last good frame before appending
   would close it. Check `AckedSurvives` in `CommitLog.cfg` with `Faults = {"torn"}`.
3. **A failed fsync does not undo the write.**
   `ARCHITECTURE.md:162` and `wal.rs:880` say the writes did not commit and the LSNs are reclaimed; the
   frames stay in the file, the LSNs stay used, and a restart applies them. Check `FailedStaysOut`
   with `Faults = {"sync"}`.
4. **A replayed insert can be judged again.**
   `mod.rs:449-454` says every replay reaches the same verdict. After a crash between
   `metadata.snap` and `tuples.snap` the insert is replayed against liveness that holds its own
   row; `duplicate_key` finds that row and refuses it, and the tuple store never gets the values.
   Check the property `SameVerdict` in `Stores.cfg`.
5. **A refused update can be applied by a replay.**
   `metadata/index.rs:486-491` says the staleness verdict is the same on every replay. A refused update writes
   no vector, so after a restart the allocator hands its ordinals out again; if one is live when
   the crash of item 4 makes the update replay, `is_stale` may say no and the update is applied after
   all: rows that were acknowledged are retired, or, when its retired rows are gone already, its key
   is posted under a row that has another. Check `Converged` in `Stores.cfg` with one unkeyed
   collection, `MaxLog = 4` and two ordinals and two keys (the posting) or four ordinals (the rows). Items 4 and 5 share one cause: `metadata.snap` is written before `tuples.snap`. In a
   version of the model with the tuple snapshot first, `Converged` held without excuse (one
   unkeyed collection with four records, 5.2 million states; one keyed with three ordinals,
   0.7 million).
6. **A frame from before a flip can reach the new generation.** `compact.rs:27-29` says that with the gate closed no record names an old
   ordinal that has not been applied. The gate waits for calls; the frame of a failed fsync has no call
   any more, lies above the flip's LSN, and is applied to renumbered rows after a restart. Check
   `OrdinalsCurrent` in `Compaction.cfg` with one writer, no query, `MaxLog = 4`, `MaxGen = 2` and
   `SyncMayFail = TRUE`.
7. **A half-made collection of another create keeps the database from opening.** A create whose
   flush fails may still be in the log; a second create, of another name and schema, gets the
   same id, and a crash once its directory is made leaves a directory that the replay of the
   first cannot open (`SchemaMismatch`, `mod.rs:232-236`), at every later open. Check `OpensAgain`
   in `Catalog.cfg` with `Faults = {"flush"}` and two shapes in `MCWanted`.
8. **The log's own directory entry is not flushed** when the file is made, nor the entry of a
   supplied collection's catalog before its process ends; a power cut may take them, with what
   was acknowledged. Check `CatalogComplete` in `Catalog.cfg` with `"entry"` in `Faults`.
9. **Two failures can give a collection to the create that failed.** A create whose flush fails
   stays in the log; the next create gets the same id, and its catalog is renamed into place, but
   flushing the directory fails, which poisons the log. The database is closed and opened again,
   from the renamed catalog, where the id is the second create's, and an insert is acknowledged. A
   power cut now brings the older catalog back, and the replay gives the id to the first create,
   with the other's row. Reading a catalog at open does not flush its directory entry. Check
   `CatalogComplete` in `Catalog.cfg` with one caller, `MaxLog = 4` and `MaxFaults = 2`.
10. **A header that was never flushed may be the only good one left.**
    `index.rs:56-58` says that with two slots a torn header flush cannot lose the watermark. A kill between `stage_watermark` and `sync_header` leaves the newest slot in the page
    cache only; `open` trusts it and does not flush it, and the next checkpoint stages over the one
    slot that is on disk. A power cut then may tear that one, and leave of the other what it
    was before, whose LSN may be below what the log was truncated to, or tear both. In the first case
    the database opens and has lost records (`watermark = "lost"`), in the second it does not open.
    Flushing the trusted slot in `open` would close it. Check `TornFlushKeepsWatermark` in
    `FlatIndex.cfg`.
11. **A half-made `vectors.idx` keeps the database from opening.**
    `mod.rs:232-236` says a half-materialized collection is absorbed. `FlatIndex::create` makes the file under its final name before it sizes it and writes its headers; after
    a kill, a power cut or a failed `set_len` in between, the file exists, so that every later open calls
    `FlatIndex::open`, which finds no valid slot. Making it under another name and renaming it, or
    making it anew when no slot is valid and the log is whole, would close it. Check `HalfMadeAbsorbed` in
    `Catalog.cfg`.
12. **Escape and then Enter does not behave like Enter.**
    `editor.rs:31-33` says it does. `escape` takes the byte of Enter for the second byte of a sequence
    and ignores it (`editor.rs:223-229`). `KeysArrive` holds of what the code does; check it in
    `Shell.cfg` with `Keystrokes <- MCEscapeEnter` and `Scripts <- MCNoScript` for what is documented.

Met on the way, and recorded as hazards or here rather than as runs:

* The safety argument of the lock-free scan (`index.rs:154-157`) says slots below the published
  count are never written again. `write_at` does fill such a slot when ordinals are logged out of
  order. `ScanSound` shows why no scan is wrong: the slot's row is in no snapshot yet.
* `mod.rs:1147` argues a burned ordinal is in no log record; after item 3 it may be.
* Ordinals an embedder keeps across a compaction name other rows; `mod.rs:1180` makes that the
  caller's duty. Statements resolve inside the gate.
* If the retired directory cannot be removed, later compactions fail at their first rename until
  the database is reopened.
* An idle collection's watermark stays where it was and pins truncation of the whole log; that of
  a new, empty collection is 0, so that nothing is truncated until it gets a record.
* The shell's header promises exit code 130 for a script that Ctrl-C ends; `run` clears the signal
  before a statement, so a Ctrl-C that came before it is forgotten. A closed output while a prompt
  is redrawn is reported as "error reading input" with exit code 1.
* `escape` (`editor.rs:220`) promises that an unknown sequence never sprays its bytes into the
  line: `ESC ESC [ A` and `ESC [ [ A` do, and so does what follows the 17th parameter byte: the
  sequence is given up there and the next byte read as a key, which is what `front_end` expects.
  Inside a sequence Enter and Ctrl-C are parameters, so that they do nothing until it ends.
* `i64::MIN` cannot be written as a literal. Blank means Unicode whitespace to the shell and ASCII
  to the lexer. The parser's recursion is as deep as the text's parentheses.
* `query.rs:393-395` says the binder rejects SEARCH; it binds it, and it runs.
* After a failed flush of a memory map, a retried flush may succeed without writing; the model
  keeps such pages dirty.

## 8. What is not modelled

* Payloads: vectors, names and texts are numbers or letters. A checksum is intact or not.
* The order in which several faults of one statement are named.
* Distances, the top-k heap and the kernels: floating point. `Statements` ranks by exact integers.
* Damage to a file after it was flushed; a file system that breaks its own promises.
* Several collections in one compaction, the triggers of compaction and of the flusher (when
  they start, not what they do).
* A conflict between callers in `MetaStore`, a refused record in `MetaStore` and `Catalog`, a damaged
  log in `Statements`: each is another module's subject, as section 2 says.
* That the flush of the root directory before a create's catalog is written (`mod.rs:701`) would
  also flush an older catalog's rename whose own flush failed: `CreateEntry` leaves it unflushed.
* Directory fsync in `truncate_wal`: modelled as absent, as the code has it (`shadow`).
* Terminal drawing, raw mode, column widths, `.help` and `.schema`.
* An embedder's direct calls with ordinals it kept (section 7).

## 9. Plan

Done: `CommitLog` with `DurableLog`, `Stores`, `LiveHandle`, `FlatIndex`, `Compaction`,
`Statements` with `Sql` and `Table`, `Catalog`, `MetaStore` with `Snapshots`, `Shell` with `Grammar`
and `Editor`; proofs about `CommitLog` (with its refinement of `DurableLog`), `Stores`,
`LiveHandle`, `FlatIndex`, `Compaction`, `Table`, `Catalog` and `MetaStore`.

Abstract specifications still worth stating: a collection as one map from row to value, with
`Stores` (tuple snapshot first, or outside the window of section 7) implementing it; one
generation-free collection, with `Compaction` implementing it through `truth`.

Proofs still worth doing: the two refinements just named, and the steps of `Statements` that do not
look into trees, once what its programs do is a constant of the module rather than the result of
recursive operators.

## 10. Running it

In this directory: `tlc -config CommitLog.cfg MCCommitLog` and likewise for the other
configurations (`PROJECT.json` pairs each with its module), and `tlapm CommitLog_proofs.tla`,
and likewise for the other modules of proofs. Every run takes less than
four minutes on two cores; the proofs take from seconds to
ten minutes each from nothing.
