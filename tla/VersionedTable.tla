--------------------------- MODULE VersionedTable ---------------------------
(***************************************************************************)
(* The row versions of one table: the row operations of core/table.cc and  *)
(* the row loops of executor/query_executor.cc.                            *)
(*                                                                         *)
(* A table is a sequence of versions.  Its primary key is the field key;   *)
(* val stands for the other columns.  The position of a version is the row *)
(* index that row locks are named after.  Each operation takes and returns *)
(* a sequence, and one that validates its row also returns whether it      *)
(* succeeded: the executors catch the exception and report an error.       *)
(*                                                                         *)
(* For every row, a loop asks anew whether it works for a transaction and  *)
(* for which: its writes w are a sequence of [versioned, xid], one per row.*)
(* A versioned write may have xid 0, when the second answer differs.       *)
(***************************************************************************)
EXTENDS TransactionManager, Sequences, SequencesExt

Version(k, v, xmin, xmax) == [key |-> k, val |-> v, xmin |-> xmin, xmax |-> xmax]

\* validate_primary_key_uniqueness: a version that anyone has deleted or
\* replaced, committed or not, does not count.
KeyFree(rows, k, exclude) ==
  \A i \in DOMAIN rows : rows[i].key = k /\ rows[i].xmax = 0 => i = exclude

get_visible_row_indices(rows, reader_xid, snapshot) ==
  {i \in DOMAIN rows : isVisible(rows[i].xmin, rows[i].xmax, reader_xid, snapshot)}

\* collect_matching_indices of UPDATE and DELETE ... WHERE key IN keys.
collect_matching_indices(rows, keys, reader_xid, snapshot) ==
  {i \in get_visible_row_indices(rows, reader_xid, snapshot) : rows[i].key \in keys}

\* The orders in which collect_matching_indices may return the rows I:
\* ascending from a scan or from the sets that range predicates go through, the
\* order of an index entry when a secondary index is looked up.  An UPDATE in
\* place moves its row to the end of the entry, so any order can come about.
Orders(I) == SetToSeqs(I)

\* Faulty variant of insert_row: the key is not checked.
insert_row_unchecked(rows, k, v, xid) ==
  [rows |-> Append(rows, Version(k, v, xid, 0)), ok |-> TRUE]

\* INSERT: insert_row_versioned inside a transaction, insert_row outside (xid 0).
insert_row(rows, k, v, xid) ==
  IF KeyFree(rows, k, 0) THEN [rows |-> Append(rows, Version(k, v, xid, 0)), ok |-> TRUE]
                         ELSE [rows |-> rows, ok |-> FALSE]

\* update_row overwrites key and value in place and keeps the stamps.
update_row(rows, i, k, v) ==
  IF KeyFree(rows, k, i)
  THEN [rows |-> [rows EXCEPT ![i].key = k, ![i].val = v], ok |-> TRUE]
  ELSE [rows |-> rows, ok |-> FALSE]

\* update_row_versioned stamps the old version, whatever stamp it had, and
\* appends the new one.
update_row_versioned(rows, i, k, v, xid) ==
  IF KeyFree(rows, k, i)
  THEN [rows |-> Append([rows EXCEPT ![i].xmax = xid], Version(k, v, xid, 0)), ok |-> TRUE]
  ELSE [rows |-> rows, ok |-> FALSE]

delete_row(rows, i) == RemoveAt(rows, i)

delete_row_versioned(rows, i, xid) == [rows EXCEPT ![i].xmax = xid]

\* InsertExecutor::execute: one row per key of values, up to the first one
\* that fails; the rows before it stay.
InsertRows(rows, values, v, w) ==
  FoldLeftDomain(LAMBDA acc, j : IF acc.ok THEN insert_row(acc.rows, values[j], v, w[j].xid)
                                           ELSE acc,
                 [rows |-> rows, ok |-> TRUE], values)

\* UpdateExecutor::execute: row after row, up to the first one that fails.  The
\* set to holds the key that SET gives to the row, or nothing.
UpdateRows(rows, order, to, v, w) ==
  LET key(r) == IF to = {} THEN r.key ELSE CHOOSE k \in to : TRUE
      update(acc, j) ==
        LET i == order[j]
        IN  IF ~acc.ok THEN acc
            ELSE IF w[j].versioned
                 THEN update_row_versioned(acc.rows, i, key(acc.rows[i]), v, w[j].xid)
                 ELSE update_row(acc.rows, i, key(acc.rows[i]), v)
  IN  FoldLeftDomain(update, [rows |-> rows, ok |-> TRUE], order)

\* DeleteExecutor::execute: from the last row to the first.
DeleteRows(rows, order, w) ==
  LET sorted == SortSeq(order, >)
      delete(acc, j) == IF w[j].versioned THEN delete_row_versioned(acc, sorted[j], w[j].xid)
                                          ELSE delete_row(acc, sorted[j])
  IN  [rows |-> FoldLeftDomain(delete, rows, sorted), ok |-> TRUE]

-----------------------------------------------------------------------------

\* Faulty variants: an aborted deletion is kept; a deletion in progress counts.
KeepAborted(r) == r
GarbageUncommitted(r, horizon) == isAborted(r.xmin) \/ (r.xmax # 0 /\ r.xmax < horizon)

\* vacuum_versions, row by row: forget an aborted deletion, then drop what an
\* aborted transaction wrote or a committed one below the horizon deleted.
ClearAborted(r) == IF isAborted(r.xmax) THEN Version(r.key, r.val, r.xmin, 0) ELSE r

Garbage(r, horizon) ==
  \/ isAborted(r.xmin)
  \/ r.xmax # 0 /\ isCommitted(r.xmax) /\ r.xmax < horizon

vacuum_versions(rows) ==
  LET horizon == getVacuumHorizon
      kept == SelectSeq(rows, LAMBDA r : ~Garbage(r, horizon))
  IN  [i \in DOMAIN kept |-> ClearAborted(kept[i])]

\* Faulty variant of freeze_committed_versions: written versions keep their stamp.
freeze_deleted_versions(rows, xid) == SelectSeq(rows, LAMBDA r : r.xmax # xid)

\* freeze_committed_versions: drop what xid deleted, unstamp what it wrote.
freeze_committed_versions(rows, xid) ==
  LET kept == SelectSeq(rows, LAMBDA r : r.xmax # xid)
  IN  [i \in DOMAIN kept |-> IF kept[i].xmin = xid THEN [kept[i] EXCEPT !.xmin = 0]
                                                  ELSE kept[i]]
=============================================================================
