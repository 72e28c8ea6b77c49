------------------------------- MODULE Engine -------------------------------
(***************************************************************************)
(* Database::execute_query and dispatch_statement for one table: sessions  *)
(* that send BEGIN, COMMIT, ROLLBACK, INSERT, UPDATE and DELETE, the locks *)
(* they take, the row versions they write, the background vacuum, and the  *)
(* image of the table on disk.                                             *)
(*                                                                         *)
(* db_mutex_ is taken several times within one statement, and each section *)
(* of code under it is one action.  The field active_session_ is written   *)
(* by execute_query without the mutex, and the executors read it to learn  *)
(* which session they work for.  The lock manager appears as its abstract  *)
(* lock table (LockManager implements LockTable); every lock the statements *)
(* take is exclusive, so a key has one owner.  Writing the dirty table to  *)
(* disk is one step here.                                                  *)
(*                                                                         *)
(* A row's value is the number of the transaction whose statement wrote    *)
(* it, 0 outside a transaction: it is data, which the engine never reads.  *)
(***************************************************************************)
EXTENDS VersionedTable, FiniteSets

CONSTANTS Sessions,   \* client sessions
          NoSession,  \* nullptr
          PrimaryKeys,
          Workers,    \* threads of the pool: statements in progress at a time
          Overlap,    \* whether statements of others may come between the
                      \* statements of a transaction
          MayCrash,   \* whether the server may be killed and restarted
          MayFail,    \* whether writing the table to disk may fail
          MayThrow,   \* whether an expression may throw (n / 0) in a statement
          MaxValues,  \* bound on the number of rows of one INSERT
          MaxRows,    \* bound on the number of row versions
          MaxLockId,  \* bound on next_lock_id_
          MaxStmts    \* bound on the number of statements

ASSUME EngineAssumption ==
  /\ NoSession \notin Sessions
  /\ Workers \in Nat \ {0} /\ MaxValues \in Nat \ {0}
  /\ MaxRows \in Nat /\ MaxLockId \in Nat /\ MaxStmts \in Nat
  /\ {Overlap, MayCrash, MayFail, MayThrow} \subseteq BOOLEAN

VARIABLES rows,           \* the versions in memory
          disk,           \* the versions in the table's file
          in_tx,          \* in_tx[s]: in_transaction_ of the session
          txn_id,         \* txn_id[s]: transaction_id_, the owner of its locks
          snapshot,       \* snapshot[s]: snapshot_, NoSnapshot if empty
          locks,          \* locks[k]: owner of lock k, 0 if free
          next_lock_id,   \* ids for sessions that lock outside a transaction
          abandoned,      \* history: owners whose statement outside a
                          \* transaction threw and so did not release its locks
          active_session,
          pc,             \* pc[s]: the step its statement is at
          stmt,           \* stmt[s]: the statement it executes
          todo,           \* todo[s]: lock keys it still has to acquire
          sent            \* number of statements so far (for the bound)

sessionVars == <<in_tx, txn_id, snapshot>>
lockVars == <<locks, next_lock_id, abandoned>>
stmtVars == <<pc, stmt, todo, sent>>
vars == <<tmVars, rows, disk, sessionVars, lockVars, active_session, stmtVars>>

TableKey == 0                       \* the lock on the whole table
LockKeys == 0 .. MaxRows            \* and on its row indices
LockIds == 0 .. (IF MaxXid < MaxLockId THEN MaxLockId ELSE MaxXid)

\* INSERT ... VALUES values; UPDATE or DELETE ... WHERE key IN keys, where the
\* UPDATE may also set the key, to the element of to.
Plain(op) == [op |-> op, values |-> <<>>, keys |-> {}, to |-> {}]
Control == {Plain(op) : op \in {"begin", "commit", "rollback"}}
Inserts == {[Plain("insert") EXCEPT !.values = vs] : vs \in SeqOf(PrimaryKeys, MaxValues) \ {<<>>}}
Updates == {[Plain("update") EXCEPT !.keys = K, !.to = T] :
              K \in SUBSET PrimaryKeys \ {{}}, T \in {{}} \cup {{k} : k \in PrimaryKeys}}
Deletes == {[Plain("delete") EXCEPT !.keys = K] : K \in SUBSET PrimaryKeys \ {{}}}
Dml == Inserts \cup {st \in Updates : st.to # st.keys} \cup Deletes
NoStmt == Plain("none")

Versions == [key : PrimaryKeys, val : 0 .. MaxXid, xmin : 0 .. MaxXid, xmax : 0 .. MaxXid]

\* Types, and the fields of a session agree: it has a snapshot exactly as long
\* as it is in a transaction, and then an id too (execute_begin, EndTransaction).
EngineTypeOK ==
  /\ TypeOK
  /\ rows \in Seq(Versions) /\ Len(rows) <= MaxRows
  /\ disk \in Seq(Versions) /\ Len(disk) <= MaxRows
  /\ in_tx \in [Sessions -> BOOLEAN]
  /\ txn_id \in [Sessions -> LockIds]
  /\ snapshot \in [Sessions -> Snapshots]
  /\ \A s \in Sessions : /\ in_tx[s] <=> snapshot[s] # NoSnapshot
                         /\ in_tx[s] => txn_id[s] # 0
  /\ locks \in [LockKeys -> LockIds]
  /\ next_lock_id \in 1 .. MaxLockId + 1
  /\ abandoned \subseteq LockIds \ {0}
  /\ active_session \in Sessions \cup {NoSession}
  /\ pc \in [Sessions -> {"idle", "control", "preview", "lock",
                          "release", "persist", "return"}]
  /\ stmt \in [Sessions -> Control \cup Dml \cup {NoStmt}]
  /\ todo \in [Sessions -> Seq(LockKeys)]
  /\ sent \in 0 .. MaxStmts

-----------------------------------------------------------------------------

EngineInit ==
  /\ Init
  /\ rows = <<>> /\ disk = <<>>
  /\ in_tx = [s \in Sessions |-> FALSE]
  /\ txn_id = [s \in Sessions |-> 0]
  /\ snapshot = [s \in Sessions |-> NoSnapshot]
  /\ locks = [k \in LockKeys |-> 0] /\ next_lock_id = 1 /\ abandoned = {}
  /\ active_session = NoSession
  /\ pc = [s \in Sessions |-> "idle"]
  /\ stmt = [s \in Sessions |-> NoStmt]
  /\ todo = [s \in Sessions |-> <<>>]
  /\ sent = 0

Busy == {s \in Sessions : pc[s] # "idle"}

Goto(s, step) == pc' = [pc EXCEPT ![s] = step]

get_reader_xid(a) == IF a # NoSession /\ in_tx[a] THEN txn_id[a] ELSE 0
get_reader_snapshot(a) == IF a # NoSession /\ in_tx[a] THEN snapshot[a] ELSE NoSnapshot

\* A session that asks for a lock of another owner.
Blocked(s) ==
  pc[s] = "lock" /\ todo[s] # <<>> /\ locks[Head(todo[s])] \notin {0, txn_id[s]}

\* The sessions of S wait for each other.
Circle(S) == S # {} /\ \A s \in S : Blocked(s) /\ \E u \in S : locks[Head(todo[s])] = txn_id[u]

Victim(s) == \E S \in SUBSET Sessions : s \in S /\ Circle(S)

\* execute_query of s ends without waiting for db_mutex_.
Ending(s) ==
  \/ pc[s] = "return"
  \/ pc[s] = "release" /\ stmt[s] = NoStmt
  \/ Victim(s) /\ ~in_tx[s]

\* Sessions whose execute_query can start while the statement of s runs under
\* db_mutex_.
Starting(s) ==
  LET staying == {u \in Busy : u = s \/ ~Ending(u)}
  IN  IF Cardinality(staying) < Workers
      THEN {u \in Sessions \ {s} : pc[u] = "idle" \/ Ending(u)} ELSE {}

\* What the statement of s may read from active_session_, each time it does:
\* the others set it when they start and reset it when they end or give up.
get_active_session(s) ==
  {active_session} \cup Starting(s) \cup
    {n \in {NoSession} : Starting(s) # {} \/ \E u \in Sessions \ {s} : Ending(u) \/ Victim(u)}

\* How the statement of s may write one row.  It reads active_session_ to learn
\* whether to write a version, and again for the xid to stamp it with.
WriteModes(s) ==
  LET A == get_active_session(s)
      versioned == {a \in A : a # NoSession /\ in_tx[a]}
  IN  {[versioned |-> FALSE, xid |-> 0] : a \in A \ versioned}
        \cup {[versioned |-> TRUE, xid |-> get_reader_xid(b)] : a \in versioned, b \in A}

\* execute_query up to dispatch_statement.  BEGIN inside a transaction, COMMIT
\* and ROLLBACK outside one return an error and change nothing.
Submit(s, st) ==
  /\ pc[s] = "idle" /\ Cardinality(Busy) < Workers
  /\ sent < MaxStmts /\ sent' = sent + 1
  /\ Overlap \/ \A u \in Sessions \ {s} : ~in_tx[u]
  /\ st.op = "begin" => ~in_tx[s]
  /\ st.op \in {"commit", "rollback"} => in_tx[s]
  /\ active_session' = s
  /\ stmt' = [stmt EXCEPT ![s] = st]
  /\ todo' = [todo EXCEPT ![s] = IF st.op = "insert" THEN <<TableKey>> ELSE <<>>]
  /\ Goto(s, CASE st \in Control -> "control"
               [] st.op = "insert" -> "lock"
               [] OTHER -> "preview")
  /\ UNCHANGED <<tmVars, rows, disk, sessionVars, lockVars>>

\* An exception leaves dispatch_statement at once: nothing is released and
\* nothing is written to disk.  Outside a transaction, the locks the session
\* holds by then have no one left to release them.
Throw(s) ==
  /\ stmt' = [stmt EXCEPT ![s] = NoStmt]
  /\ todo' = [todo EXCEPT ![s] = <<>>]
  /\ Goto(s, "return")
  /\ abandoned' = abandoned \cup {id \in {locks[k] : k \in LockKeys} \ {0} :
                                    id = txn_id[s] /\ ~in_tx[s]}

\* UPDATE and DELETE first look for the rows to lock.  WHERE may throw on any
\* row that is visible.
Preview(s) ==
  /\ pc[s] = "preview"
  /\ \E a \in get_active_session(s) :
       LET visible == get_visible_row_indices(rows, get_reader_xid(a), get_reader_snapshot(a))
           I == collect_matching_indices(rows, stmt[s].keys,
                                         get_reader_xid(a), get_reader_snapshot(a))
       IN  \/ /\ \E order \in Orders(I) : todo' = [todo EXCEPT ![s] = order]
              /\ Goto(s, "lock")
              /\ UNCHANGED <<stmt, abandoned>>
           \/ MayThrow /\ visible # {} /\ Throw(s)
  /\ UNCHANGED <<tmVars, rows, disk, sessionVars, locks, next_lock_id, active_session, sent>>

\* A session without a transaction id takes one to own its locks.
ensure_lock_txn_id(s) ==
  /\ pc[s] = "lock" /\ todo[s] # <<>>
  /\ txn_id[s] = 0 /\ next_lock_id <= MaxLockId
  /\ txn_id' = [txn_id EXCEPT ![s] = next_lock_id]
  /\ next_lock_id' = next_lock_id + 1
  /\ UNCHANGED <<tmVars, rows, disk, in_tx, snapshot, locks, abandoned, active_session, stmtVars>>

\* acquire_table_lock and acquire_row_lock return once the lock is granted.
Acquire(s) ==
  /\ pc[s] = "lock" /\ todo[s] # <<>>
  /\ txn_id[s] # 0 /\ ~Blocked(s)
  /\ locks' = [locks EXCEPT ![Head(todo[s])] = txn_id[s]]
  /\ todo' = [todo EXCEPT ![s] = Tail(@)]
  /\ UNCHANGED <<tmVars, rows, disk, sessionVars, next_lock_id, abandoned,
                 active_session, pc, stmt, sent>>

\* Without an id, 0, the session has no locks.
release_session_locks(s) ==
  /\ locks' = [k \in LockKeys |-> IF locks[k] = txn_id[s] THEN 0 ELSE locks[k]]
  /\ abandoned' = abandoned \ {txn_id[s]}
  /\ UNCHANGED next_lock_id

\* DeadlockException reaches execute_query: roll back, or release the locks.
Deadlock(s) ==
  /\ Victim(s)
  /\ active_session' = NoSession
  /\ todo' = [todo EXCEPT ![s] = <<>>]
  /\ IF in_tx[s] THEN /\ stmt' = [stmt EXCEPT ![s] = Plain("rollback")]
                      /\ Goto(s, "control")
                      /\ UNCHANGED lockVars
                 ELSE /\ stmt' = [stmt EXCEPT ![s] = NoStmt]
                      /\ Goto(s, "idle")
                      /\ release_session_locks(s)
  /\ UNCHANGED <<tmVars, rows, disk, sessionVars, sent>>

\* The row loop of the statement of s, over its first n rows.  Each row has its
\* own w; DELETE asks only once whether to write versions.
Loop(s, order, w, n) ==
  LET v == IF in_tx[s] THEN txn_id[s] ELSE 0
  IN  CASE stmt[s].op = "insert" -> InsertRows(rows, SubSeq(stmt[s].values, 1, n), v, w)
        [] stmt[s].op = "update" -> UpdateRows(rows, SubSeq(order, 1, n), stmt[s].to, v, w)
        [] stmt[s].op = "delete" -> DeleteRows(rows, SubSeq(order, 1, n), w)

\* execute_insert_statement, execute_update_statement, execute_delete_statement:
\* the rows are looked up again, as the session that active_session_ names sees
\* them, and treated one by one.  An expression may throw at any row: INSERT
\* catches the exception and returns an error, UPDATE does not, and DELETE
\* evaluates WHERE before its first row.  Rows treated before stay as they are.
Execute(s) ==
  /\ pc[s] = "lock" /\ todo[s] = <<>>
  /\ \E reader \in get_active_session(s) :
       LET visible == get_visible_row_indices(rows, get_reader_xid(reader),
                                              get_reader_snapshot(reader))
           I == collect_matching_indices(rows, stmt[s].keys, get_reader_xid(reader),
                                         get_reader_snapshot(reader))
           insert == stmt[s].op = "insert"
           all == IF insert THEN Len(stmt[s].values) ELSE Cardinality(I)
           Done(n, throws) ==
             \E order \in Orders(I), w \in [1 .. n -> WriteModes(s)] :
               LET result == Loop(s, order, w, n)
               IN  /\ stmt[s].op = "delete" =>
                        \A i, j \in 1 .. n : w[i].versioned = w[j].versioned
                   /\ Len(result.rows) <= MaxRows
                   /\ rows' = result.rows
                   /\ IF throws /\ result.ok /\ ~insert THEN Throw(s)
                      ELSE /\ stmt' = IF result.ok /\ ~throws THEN stmt
                                      ELSE [stmt EXCEPT ![s] = NoStmt]
                           /\ Goto(s, IF in_tx[s] THEN "return" ELSE "release")
                           /\ UNCHANGED <<todo, abandoned>>
       IN  \/ Done(all, FALSE)
           \/ /\ MayThrow /\ (insert \/ visible # {})
              /\ \E n \in 0 .. all : /\ n = all => n = 0
                                     /\ stmt[s].op = "delete" => n = 0
                                     /\ Done(n, TRUE)
  /\ UNCHANGED <<tmVars, disk, sessionVars, locks, next_lock_id, active_session, sent>>

\* Faulty variant of ReleaseLocks: a statement that failed keeps its locks.
ReleaseLocksOnSuccess(s) ==
  /\ pc[s] = "release"
  /\ IF stmt[s] = NoStmt THEN UNCHANGED lockVars ELSE release_session_locks(s)
  /\ Goto(s, IF stmt[s] = NoStmt THEN "return" ELSE "persist")
  /\ UNCHANGED <<tmVars, rows, disk, sessionVars, active_session, stmt, todo, sent>>

\* release_session_locks after a statement outside a transaction.
ReleaseLocks(s) ==
  /\ pc[s] = "release"
  /\ release_session_locks(s)
  /\ Goto(s, IF stmt[s] = NoStmt THEN "return" ELSE "persist")
  /\ UNCHANGED <<tmVars, rows, disk, sessionVars, active_session, stmt, todo, sent>>

\* persist_dirty_tables after a statement outside a transaction.
Persist(s) ==
  /\ pc[s] = "persist"
  /\ disk' = rows \/ (MayFail /\ disk' = disk)
  /\ Goto(s, "return")
  /\ UNCHANGED <<tmVars, rows, sessionVars, lockVars, active_session, stmt, todo, sent>>

execute_begin(s) ==
  /\ pc[s] = "control" /\ stmt[s].op = "begin"
  /\ \E x \in Xids : /\ begin(x)
                      /\ txn_id' = [txn_id EXCEPT ![s] = x]
                      /\ snapshot' = [snapshot EXCEPT ![s] = active_snapshots'[x]]
  /\ in_tx' = [in_tx EXCEPT ![s] = TRUE]
  /\ Goto(s, "return")
  /\ UNCHANGED <<rows, disk, lockVars, active_session, stmt, todo, sent>>

\* Faulty variant of EndTransaction: the session keeps its snapshot.
EndTransactionKeepingSnapshot(s) ==
  /\ release_session_locks(s)
  /\ in_tx' = [in_tx EXCEPT ![s] = FALSE]
  /\ txn_id' = [txn_id EXCEPT ![s] = 0]
  /\ Goto(s, "return")
  /\ UNCHANGED <<snapshot, active_session, stmt, todo, sent>>

\* The end of execute_commit and of execute_rollback.
EndTransaction(s) ==
  /\ release_session_locks(s)
  /\ in_tx' = [in_tx EXCEPT ![s] = FALSE]
  /\ txn_id' = [txn_id EXCEPT ![s] = 0]
  /\ snapshot' = [snapshot EXCEPT ![s] = NoSnapshot]
  /\ Goto(s, "return")
  /\ UNCHANGED <<active_session, stmt, todo, sent>>

\* vacuum_all_tables, with the outcome of the transaction already recorded.
Vacuumed(r) == vacuum_versions(r)'

\* Vacuum, freeze the transaction's versions if no snapshot objects, write the
\* table to disk and end the transaction.  If the write fails, before or after
\* it is in the journal, COMMIT returns an error and neither releases the locks
\* nor resets the session.
execute_commit(s) ==
  /\ pc[s] = "control" /\ stmt[s].op = "commit"
  /\ commitTransaction(txn_id[s])
  /\ \E r \in {rows}, x \in {txn_id[s]} :
       rows' = IF canFreezeCommitted(x)' THEN freeze_committed_versions(Vacuumed(r), x)
                                         ELSE Vacuumed(r)
  /\ \/ disk' = rows' /\ EndTransaction(s)
     \/ /\ MayFail
        /\ disk' \in {disk, rows'}
        /\ Goto(s, "return")
        /\ UNCHANGED <<sessionVars, lockVars, active_session, stmt, todo, sent>>

\* ROLLBACK: the vacuum removes what the transaction wrote.
execute_rollback(s) ==
  /\ pc[s] = "control" /\ stmt[s].op = "rollback"
  /\ abortTransaction(txn_id[s])
  /\ \E r \in {rows} : rows' = Vacuumed(r)
  /\ EndTransaction(s)
  /\ UNCHANGED disk

\* execute_query ends.
Return(s) ==
  /\ pc[s] = "return"
  /\ active_session' = NoSession
  /\ stmt' = [stmt EXCEPT ![s] = NoStmt]
  /\ Goto(s, "idle")
  /\ UNCHANGED <<tmVars, rows, disk, sessionVars, lockVars, todo, sent>>

\* run_vacuum_worker, or the statement VACUUM.
Vacuum ==
  /\ rows' = vacuum_versions(rows)
  /\ UNCHANGED <<tmVars, disk, sessionVars, lockVars, active_session, stmtVars>>

\* The server dies, starts again and runs load_from_disk.  The transaction
\* manager, the locks and the sessions are new.
Restart ==
  /\ MayCrash
  /\ rows' = disk /\ disk' = disk
  /\ next_xid' = 1 /\ next_lock_id' = 1
  /\ statuses' = [x \in Xids |-> "Unknown"]
  /\ active_xids' = {}
  /\ active_snapshots' = [x \in Xids |-> NoSnapshot]
  /\ in_tx' = [s \in Sessions |-> FALSE]
  /\ txn_id' = [s \in Sessions |-> 0]
  /\ snapshot' = [s \in Sessions |-> NoSnapshot]
  /\ locks' = [k \in LockKeys |-> 0] /\ abandoned' = {}
  /\ active_session' = NoSession
  /\ pc' = [s \in Sessions |-> "idle"]
  /\ stmt' = [s \in Sessions |-> NoStmt]
  /\ todo' = [s \in Sessions |-> <<>>]
  /\ UNCHANGED sent

EngineNext ==
  \/ \E s \in Sessions :
       \/ \E st \in Control \cup Dml : Submit(s, st)
       \/ Preview(s) \/ ensure_lock_txn_id(s) \/ Acquire(s) \/ Deadlock(s)
       \/ Execute(s) \/ ReleaseLocks(s) \/ Persist(s)
       \/ execute_begin(s) \/ execute_commit(s) \/ execute_rollback(s)
       \/ Return(s)
  \/ Vacuum
  \/ Restart

EngineSpec == EngineInit /\ [][EngineNext]_vars

-----------------------------------------------------------------------------

\* The rows that a reader sees, as a set and as positions.
View(reader_xid, snap) ==
  {<<rows[i].key, rows[i].val>> : i \in get_visible_row_indices(rows, reader_xid, snap)}

SessionView(s) == View(get_reader_xid(s), get_reader_snapshot(s))
LatestView == View(0, NoSnapshot)

\* What a transaction manager without memory shows of the file: versions
\* stamped by a transaction it does not know are not committed.
DurableView == {<<disk[i].key, disk[i].val>> : i \in {j \in DOMAIN disk : disk[j].xmin = 0}}

\* The statement of s, one of ops, is executed in this step.
Executes(s, ops) ==
  /\ pc[s] \in {"lock", "control"} /\ pc'[s] \in {"release", "return"}
  /\ stmt[s].op \in ops

\* Primary keys are unique among the rows that a reader outside a transaction
\* sees (validate_primary_key_uniqueness).
PrimaryKeyUnique ==
  LET I == get_visible_row_indices(rows, 0, NoSnapshot)
  IN  \A i, j \in I : rows[i].key = rows[j].key => i = j

\* Sessions whose transactions do not overlap see an atomic, durable store: a
\* transaction reaches the disk as a whole at COMMIT or not at all, a statement
\* outside a transaction that succeeds is on disk before the next one starts,
\* and what one that fails half way left in memory goes with the next write,
\* across rollbacks, vacuums and crashes at any point of a statement.
Store == INSTANCE AtomicStore WITH
  Keys <- PrimaryKeys, Vals <- 0 .. MaxXid, durable <- DurableView, latest <- LatestView,
  busy <- \E s \in Sessions : pc[s] \in {"release", "persist"} /\ stmt[s] # NoStmt,
  open <- \E s \in Sessions : in_tx[s],
  work <- UNION {SessionView(s) : s \in {u \in Sessions : in_tx[u]}}
StoreSpec == Store!Spec

\* A lock is never left behind: its owner is a session in a transaction or in
\* the middle of a statement, after errors, deadlocks and failed writes too.
\* The one exception is a statement outside a transaction that an exception
\* ends (UPDATE ... SET n = n / 0): its locks stay.
NoLeakedLocks ==
  \A k \in LockKeys : locks[k] \notin {0} \cup abandoned =>
    \E s \in Sessions : txn_id[s] = locks[k] /\ (in_tx[s] \/ pc[s] # "idle")

\* ROLLBACK leaves nothing behind, whoever vacuums and freezes in between: no
\* version, and no deletion, with the stamp of the transaction is in the table,
\* and readers outside a transaction see the rows they saw before.  The
\* exception to the latter is a ROLLBACK after a COMMIT whose write failed.
RollbackUndoes ==
  [][\A s \in Sessions : Executes(s, {"rollback"}) =>
       /\ \A i \in DOMAIN rows' : txn_id[s] \notin {rows'[i].xmin, rows'[i].xmax}
       /\ isCommitted(txn_id[s]) \/ LatestView' = LatestView]_vars

\* Only a statement that writes, or a COMMIT, changes what readers outside a
\* transaction see: vacuum, rollback, freezing and locking never do, as long as
\* no write to disk fails and the server is not restarted.
OnlyWritesChangeRows ==
  [][LatestView' # LatestView =>
       \E s \in Sessions : Executes(s, {"insert", "update", "delete", "commit"})]_vars

\* A transaction starts from the committed rows (captureSnapshot at BEGIN), as
\* long as the server is not restarted.
BeginSeesCommitted ==
  [][\A s \in Sessions : Executes(s, {"begin"}) => SessionView(s)' = LatestView]_vars

-----------------------------------------------------------------------------
(* What the documentation says and overlapping transactions do not keep.   *)

\* Snapshot isolation: between BEGIN and the end of its transaction, what a
\* session sees changes by its own statements only.
SnapshotIsolation ==
  [][\A s \in Sessions :
       in_tx[s] /\ in_tx'[s] /\ SessionView(s)' # SessionView(s) =>
         Executes(s, {"insert", "update", "delete"})]_vars

\* A row that readers see and a committed transaction wrote is in the file.
CommitSurvivesRestart ==
  \A i \in get_visible_row_indices(rows, 0, NoSnapshot) :
    rows[i].val # 0 => <<rows[i].key, rows[i].val>> \in DurableView

\* Statements are serialized, so each writes for its own session: what a
\* statement inside a transaction writes carries the transaction's stamp
\* until the transaction commits.
WritesCarryTheirTransaction ==
  \A i \in DOMAIN rows : rows[i].val # 0 =>
    rows[i].xmin = rows[i].val \/ isCommitted(rows[i].val)
=============================================================================
