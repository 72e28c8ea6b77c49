# Verification of NoBugDB

TLA+ models of the transactional core of NoBugDB, an SQL engine in C++: locks,
multi-version rows, transactions, statement dispatch, and the journal that
brings tables to disk. The models are checked by TLC on small instances; the
lock manager and the transaction manager are also proved with TLAPS for every
number of transactions and keys.

## The system

| Part | State | Operations | Interacts with |
|---|---|---|---|
| Lock manager (`core/lock_manager.cc`) | request queue per key, keys per owner, wait-for graph, one condition variable | `acquire` (may sleep or throw), `release_all` | every statement, before `db_mutex_` |
| Transaction manager (`core/transaction_manager.cc`) | next id, outcome per id, active ids, registered snapshots | begin, commit, abort, visibility, horizon, freezing rule | executors, vacuum |
| Table (`core/table.cc`) | row versions with `xmin`, `xmax`; indexes; dirty flag | insert, update, delete (versioned in a transaction, in place outside), vacuum, freeze | heap, executors |
| Database (`core/database.cc`) | catalog, `db_mutex_`, `active_session_`, `next_lock_id_` | `execute_query`, dispatch, BEGIN, COMMIT, ROLLBACK, DDL, foreign keys, triggers | everything |
| Journal and files (`storage/wal_manager.cc`, `persistence_manager.cc`) | `wal.log`, `.db` files, staged files | flush, recover, load | COMMIT, start-up |
| Vacuum worker (`core/database.cc`) | thread, interval, stop flag | vacuum all tables | `db_mutex_` |
| Buffer pool, pages, heap (`storage/`) | frames, pins, dirty bits; slotted pages | pin, unpin, evict, flush; insert, update, delete | Table |
| Server, connections, thread pool (`network/`, `threading/`) | connection threads, task queue | accept, submit, stop | Database |
| Coordinator, shards (`network/`, `core/shard_*`) | shard map, pinned endpoint of a transaction | route, scatter and merge | workers by RPC |
| Indexes, partitions, catalogs, plan cache | B-trees, partition bounds, definitions, LRU list | lookups, routing, invalidation | executors |
| Parser, planner, SELECT pipeline, values | none beyond a call | pure computation | executors |

What makes it hard: a statement takes `db_mutex_` several times and locks in
between; `active_session_` is written outside the mutex; snapshots, vacuum,
freezing and in-place writes outside transactions meet on the same row
versions; outcomes of transactions live in memory only; the flush is a sequence
of file operations that a crash or an error can cut anywhere. `PROJECT.json`
lists each of these hazards at its line, with the properties that cover it.

## Modules

| Module | Models | Notes |
|---|---|---|
| `LockTable` | what the lock manager promises | abstract: set of holders per key |
| `LockManager` | `core/lock_manager.cc` | one action per stretch of code under `mutex_` |
| `MCLockManager` | instance for TLC | also states the code's depth-first search and checks it against `has_cycle` on every graph of three nodes |
| `LockManagerProofs` | theorems on `LockManager` | |
| `TransactionManager` | `core/transaction_manager.cc` | BEGIN's three calls are one action: callers hold `db_mutex_` |
| `TransactionManagerProofs` | theorems on `TransactionManager` | |
| `VersionedTable` | row operations of `core/table.cc`, row loops of `executor/query_executor.cc` | pure operators on sequences of versions |
| `AtomicStore` | what transactions promise when they do not overlap | abstract: rows in memory and on disk, one open transaction |
| `Engine` | `execute_query`, dispatch, BEGIN, COMMIT, ROLLBACK, vacuum, restart | composes the transaction manager and the table; locks appear as the abstract lock table, with exclusive owners only, since every lock that statements take is exclusive |
| `MCEngine` | instance for TLC | symmetry, view |
| `Durability` | `flush_dirty_tables_locked`, journal, recovery, loading | one action per file operation |

Names follow the source (`can_grant`, `rebuild_wait_edges`, `isVisible`,
`execute_commit`, ...). Actions that are a part of a function carry the name of
what they do (`Grant`, `Sleep`, `Preview`, `StageTable`). Operators called
"faulty variant" are not used by any specification: each is a plausible bug
that makes a property fail, kept to show that the property can fail.

Abstractions: a queue of lock requests is a set, because `can_grant` skips
waiting requests and the wait-for graph is a union over the queue. A row is a
primary key and one value. The value is the number of the transaction that
wrote it, which the engine never reads. The content of a table in `Durability`
is a version number. An unsynchronised read of `active_session_` yields its
value or any value that a thread in `execute_query` may write meanwhile, and
each of the reads of a statement has its own value (`WriteModes`): one for the
lookup, two for each row, except that DELETE asks only once whether to write
versions. That the pointer is reset between the test for null and its use,
which ends the process, is not shown as a step of its own: it is a `Restart`.
The rows of an UPDATE are locked and changed in any order: a scan and a range
predicate yield ascending indices, but an equality on a secondary index yields
the order of the index entry. Expressions are not modelled; with `MayThrow` an
expression may throw (a division by zero does) at any row of a statement.
CHECK constraints, foreign keys and triggers, which can also end a statement
between two rows, have the effect of a failing row of an INSERT or UPDATE.
A statement that would exceed `MaxRows` is not executed.

In `Durability` a record of which a failed append wrote a part stays in the
journal as a torn record. If others follow it, `recover` takes their bytes for
the missing ones: it may read the torn record with foreign content, lose any
number of records after it, or lose the rest of the journal. That bytes read
out of step happen to form a valid record of another kind, or a table that
`load_table` accepts, is left out.

How state corresponds to code:

- `LockManager`: `tables`, `txn_tables`, `wait_for` are the fields of the same
  names; `call[t]` is where the thread of owner `t` stands in `acquire` (not in
  it, about to pass the loop, or in `cv_.wait`). `acquire` and `acquire_resume`
  run one pass of the loop, which ends in `Grant`, `ThrowDeadlock` or `Sleep`.
- `TransactionManager`: `next_xid`, `statuses`, `active_xids`,
  `active_snapshots` are the fields; "Unknown" and `NoSnapshot` stand for absent
  entries.
- `Engine`: `rows` is the row directory of the table, `disk` its file; `in_tx`,
  `txn_id`, `snapshot` are the session's fields; `pc`, `stmt`, `todo` say where
  its statement stands. `abandoned` is a history variable: owners whose
  statement an exception has ended. `Submit`, `Preview`, `Acquire`, `Execute`,
  `ReleaseLocks`, `Persist`, `Return` are the sections of `execute_query` and
  `dispatch_statement` in their order; `Deadlock` is the handler of
  `DeadlockException`, `Throw` what the other handlers leave behind;
  `execute_begin`, `execute_commit`, `execute_rollback` run under `db_mutex_` as
  a whole; `Restart` is a kill and a start.
- `Durability`: `mem` and `dirty` are the tables in memory, `file`, `stage`,
  `wal` the files; `pc`, `staged`, `todo` say where the flush or the start
  stands. `committed`, `failed` and `damaged` are history variables.

## Runs

| Run | Result | Shows |
|---|---|---|
| `lock_manager` | passes | exclusion, no circle of waiters, no lost wakeup, no leftover request or edge, sleepers are never deadlock victims, implements `LockTable` |
| `transaction_manager` | passes | snapshots are stable (exception 1), freezing is invisible, the horizon never moves back |
| `engine_serial` | passes | transactions that do not overlap implement `AtomicStore`, with a crash at any step and statements that fail or throw half way; primary keys are unique |
| `engine_concurrent` | passes | overlapping transactions on two threads: the fields of a session agree, no leaked lock (exception 2), only writes and COMMIT change what others see, BEGIN sees the committed rows |
| `engine_faults` | passes | with restarts, failing writes and exceptions: no leaked lock (exception 2), ROLLBACK undoes its transaction (exception 1) |
| `durability` | passes | with a crash or a failing write at any point, a flush with a commit record survives (exception 3); without failures recovery restores exactly what commit records cover |
| `vacuum_horizon` | violated | the horizon is not the "safe GC cutoff" of the header |
| `engine_primary_key` | violated | a key freed by an undecided deletion is used again |
| `engine_isolation` | violated | statements outside transactions show in open snapshots |
| `engine_commit_lost` | violated | an unfrozen commit is not visible after a restart |
| `engine_active_session` | violated | statements race on `active_session_` |
| `durability_staged` | violated | leftover staged files are loaded |

The violated properties state what a document, comment or test of the
repository says; `findings` in `PROJECT.json` quotes the line.

Three properties that pass name an exception, because the code makes one:

1. A COMMIT whose write to disk fails has already committed and perhaps frozen
   its versions, and leaves the session in the transaction. A ROLLBACK then
   aborts the committed transaction: frozen rows stay visible, and the versions
   that were not frozen disappear from snapshots that saw them.
   `SnapshotStable` confines the change to that transaction's versions,
   `RollbackUndoes` to what readers see (no stamp is left in any case).
2. An exception that is not a deadlock leaves a statement outside a transaction
   without releasing its locks (`UPDATE ... SET n = n / 0`). `NoLeakedLocks`
   allows the locks of such owners only. They are freed by the session's next
   statement outside a transaction, and never if it begins a transaction first.
3. A failed append leaves a torn record, nothing cuts it off, and the next flush
   appends to it; and `recover` does not look whether it wrote a file in full.
   `CommittedSurvives` ends where a record follows a torn one or a restored
   file is short. It covers a torn record at the end of the journal.

What a statement outside a transaction has changed when it fails stays in
memory, is seen by the next BEGIN and goes to disk with the next flush:
`AtomicStore` has such statements as part of what is promised.

Five more cases follow from the modelled code and have no run of their own:

- Row locks are named after row indices. The vacuum of a COMMIT or ROLLBACK
  renumbers rows, after which the lock of an open transaction names another row
  and a second transaction can replace its `xmax`.
- Lock owner ids of sessions outside a transaction and transaction ids both
  count from 1, so two sessions can own locks under one id.
- Transaction ids count from 1 again after a restart, and versions in the files
  can carry an id that is handed out again; `BeginSeesCommitted` is checked
  without restarts.
- `recover` replays every blob if there is any commit record: the blobs of a
  flush cut short count when an earlier, failed flush left its commit record.
- A staged file left by a crash also brings a dropped table back.

### Bounds

- `lock_manager`: three owners and three keys. A deadlock of three needs three
  of each; an upgrade with a bystander needs three owners.
- `transaction_manager`: five transactions: a reader, one in its snapshot's
  active set, one ended before, one begun after, and a second reader.
- Engine runs: two sessions, one or two primary keys, two or three row versions
  (`MaxRows`), INSERTs of one or two rows (`MaxValues`), two transactions
  (`MaxXid`), one or two lock ids (`MaxLockId`), six to nine statements
  (`MaxStmts`). One UPDATE in a transaction needs two versions of a row, an
  interleaving of two transactions six statements, a statement that fails half
  way two keys and two rows. The passing runs use the symmetry of sessions and
  keys. `engine_concurrent` ignores the file, which nothing reads without
  restarts.
- `durability`: two tables, three changes (`MaxVersion`), at most three
  records in the journal a flush starts from (`MaxJournal`). Two tables make a
  flush that is cut between tables, three changes make two flushes and a
  change after them.

Deadlock checking is on for the `lock_manager` and `durability` runs. The
transaction and engine runs stop when their ids or statements are used up.

### Fairness

No fairness is assumed anywhere: all properties are safety properties.
`NoLostWakeup` is the safety half of progress in the lock manager; that a
request is eventually served also depends on clients that release their locks
and is part of the plan.

## Proofs

`LockManagerProofs` assumes nothing about the sets of owners and keys. The
inductive invariant `IInv` joins to the checked properties: every call in
progress has its request queued (`CallsQueued`), `wait_for` is the graph of the
queues (`WaitForFresh`), and a sleeper's request cannot be granted
(`SleepersBlocked`). The cycle argument: a grant adds edges only to a
transaction that no longer waits; a sleep adds edges only from the sleeper, and
the search found no cycle through it; the other steps remove edges. From `IInv`
follow type correctness, `HoldersCompatible`, `NoWaitCycle`, `NoOrphanRequest`,
`NoLostWakeup`, `SleeperIsNeverVictim` and the refinement of `LockTable`.

`TransactionManagerProofs` assumes that the bound on ids is a natural number.
`IInv` says that outcomes and the active set agree, that readers are active,
and that what a snapshot sees has ended. A committed transaction may be ended
again, as after a COMMIT that failed to reach the disk; only its ROLLBACK
changes an outcome that a snapshot sees. From `IInv` follow type correctness,
`SnapshotStable` and `FreezeIsInvisible`.

Only model-checked: `HorizonAdvances` and everything about `Engine` and
`Durability`. Out of the prover's reach: liveness under fairness, `ENABLED`,
and induction over recursive definitions (the depth-first search in
`MCLockManager`).

## Plan

1. `LockClients`: clients that lock and release in two phases, fair threads,
   every request served or refused.
2. Buffer pool against a plain page memory; page and heap operations.
3. Thread pool, connections and server stop; disconnect inside a transaction;
   all threads waiting for locks; the vacuum worker's stop.
4. Triggers that lock while `db_mutex_` is held; foreign-key actions; partition
   routing and pruning; B-tree; plan cache.
5. Coordinator: a transaction over separate worker sessions.
6. Proofs: `CommittedSurvives` and `RecoveryExact` of `Durability`,
   `NoLeakedLocks` of `Engine`, buffer pool refinement, `HorizonAdvances`.

## Not modelled

Parser, planner, values and expressions, the SELECT pipeline, authentication,
option parsing and socket calls are pure computation or operating system calls.
Byte formats of pages, files and messages, and loss of power (the journal is
flushed to the operating system, not synced to the device) are left out.
`PROJECT.json` gives the status of every part.
