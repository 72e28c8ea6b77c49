------------------------- MODULE TransactionManager -------------------------
(***************************************************************************)
(* The transaction manager of core/transaction_manager.cc: transaction     *)
(* ids, their outcome, the snapshots of open transactions and the rules    *)
(* that say which row versions a reader sees.                              *)
(*                                                                         *)
(* A row version carries xmin, the transaction that wrote it, and xmax,    *)
(* the transaction that deleted or replaced it; 0 stands for a write that  *)
(* every reader sees, or for no deletion.  Database::execute_begin calls   *)
(* beginTransaction, captureSnapshot and registerSnapshot under db_mutex_, *)
(* which every other caller of the manager holds too, so BEGIN is one      *)
(* action.                                                                 *)
(***************************************************************************)
EXTENDS Integers

CONSTANT MaxXid      \* bound on next_xid_ (a 64-bit counter in the code)

ASSUME MaxXidAssumption == MaxXid \in Nat

VARIABLES next_xid,         \* the next id beginTransaction hands out
          statuses,         \* statuses[x], "Unknown" when the map has no x
          active_xids,      \* ids handed out and not yet ended
          active_snapshots  \* active_snapshots[x], NoSnapshot when there is none

tmVars == <<next_xid, statuses, active_xids, active_snapshots>>

Xids == 1 .. MaxXid
Statuses == {"Unknown", "InProgress", "Committed", "Aborted"}
Snapshots == [xmax : 0 .. MaxXid + 1, active_xids : SUBSET Xids]

\* nullptr in the code.  A captured snapshot has xmax > 0.
NoSnapshot == [xmax |-> 0, active_xids |-> {}]

TypeOK ==
  /\ next_xid \in 1 .. MaxXid + 1
  /\ statuses \in [Xids -> Statuses]
  /\ active_xids \in SUBSET Xids
  /\ active_snapshots \in [Xids -> Snapshots]

-----------------------------------------------------------------------------

\* Faulty variant of isCommitted: whatever is not aborted counts.
isNotAborted(x) == x = 0 \/ (x \in Xids /\ statuses[x] # "Aborted")

isCommitted(x) == x = 0 \/ (x \in Xids /\ statuses[x] = "Committed")
isAborted(x)   == x # 0 /\ x \in Xids /\ statuses[x] = "Aborted"

\* The snapshot was taken before x ended.
Unseen(x, snapshot) == x >= snapshot.xmax \/ x \in snapshot.active_xids

\* Whether the deletion or replacement recorded in xmax counts for the reader.
DeletedFor(xmax, reader_xid, snapshot) ==
  /\ xmax # 0
  /\ \/ xmax = reader_xid
     \/ /\ snapshot = NoSnapshot \/ ~Unseen(xmax, snapshot)
        /\ isCommitted(xmax)

isVisible(xmin, xmax, reader_xid, snapshot) ==
  IF xmin = 0 THEN ~DeletedFor(xmax, reader_xid, snapshot)
  ELSE IF xmin = reader_xid THEN xmax # reader_xid
  ELSE /\ snapshot = NoSnapshot \/ ~Unseen(xmin, snapshot)
       /\ isCommitted(xmin)
       /\ ~DeletedFor(xmax, reader_xid, snapshot)

Readers == {x \in Xids : active_snapshots[x] # NoSnapshot}

\* Faulty variant of getVacuumHorizon: the newest snapshot instead of the oldest.
getVacuumHorizonNewest ==
  IF Readers = {} THEN next_xid
  ELSE CHOOSE h \in {active_snapshots[x].xmax : x \in Readers} :
         \A x \in Readers : h >= active_snapshots[x].xmax

getVacuumHorizon ==
  IF Readers = {} THEN next_xid
  ELSE CHOOSE h \in {active_snapshots[x].xmax : x \in Readers} :
         \A x \in Readers : h <= active_snapshots[x].xmax

\* Faulty variant of canFreezeCommitted: only the xmax of a snapshot is looked at.
canFreezeBelowXmax(x) == x # 0 /\ \A r \in Readers : x < active_snapshots[r].xmax

canFreezeCommitted(x) ==
  /\ x # 0
  /\ \A r \in Readers : ~Unseen(x, active_snapshots[r])

-----------------------------------------------------------------------------

Init ==
  /\ next_xid = 1
  /\ statuses = [x \in Xids |-> "Unknown"]
  /\ active_xids = {}
  /\ active_snapshots = [x \in Xids |-> NoSnapshot]

\* Faulty variants of begin: the snapshot forgets the transactions in progress;
\* its xmax is one too high.
BeginAs(x, xmax, active) ==
  /\ x = next_xid
  /\ next_xid' = next_xid + 1
  /\ statuses' = [statuses EXCEPT ![x] = "InProgress"]
  /\ active_xids' = active_xids \cup {x}
  /\ active_snapshots' = [active_snapshots EXCEPT ![x] = [xmax |-> xmax, active_xids |-> active]]
begin_without_active(x) == BeginAs(x, next_xid + 1, {})
begin_with_high_xmax(x) == BeginAs(x, next_xid + 2, active_xids \cup {x})

\* beginTransaction, captureSnapshot and registerSnapshot: the snapshot is
\* taken after the id is active, so it lists its own transaction.
begin(x) ==
  /\ x = next_xid
  /\ next_xid' = next_xid + 1
  /\ statuses' = [statuses EXCEPT ![x] = "InProgress"]
  /\ active_xids' = active_xids \cup {x}
  /\ active_snapshots' = [active_snapshots EXCEPT
                            ![x] = [xmax |-> next_xid', active_xids |-> active_xids']]

End(x, status) ==
  /\ statuses' = [statuses EXCEPT ![x] = status]
  /\ active_xids' = active_xids \ {x}
  /\ active_snapshots' = [active_snapshots EXCEPT ![x] = NoSnapshot]
  /\ UNCHANGED next_xid

commitTransaction(x) == End(x, "Committed")
abortTransaction(x)  == End(x, "Aborted")

\* The transactions that a session may end.  A COMMIT whose write to disk fails
\* has committed its transaction and leaves the session in it, so a second
\* COMMIT, or a ROLLBACK, may follow.  After a ROLLBACK nothing does.
Endable == active_xids \cup {x \in Xids : statuses[x] = "Committed"}

Next ==
  \/ \E x \in Xids : begin(x)
  \/ \E x \in Endable : commitTransaction(x)
  \/ \E x \in Endable : abortTransaction(x)

Spec == Init /\ [][Next]_tmVars

-----------------------------------------------------------------------------

\* Transactions that this step rolls back although they had committed.
Undone == {x \in Xids : statuses[x] = "Committed" /\ statuses'[x] = "Aborted"}

\* A snapshot is stable: as long as a reader's snapshot is registered, no
\* BEGIN, COMMIT or ROLLBACK of anyone changes which versions it sees.  There is
\* one exception: a ROLLBACK after a COMMIT whose write to disk failed, and it
\* changes nothing but versions which that transaction wrote or deleted.
SnapshotStable ==
  [][\A r \in Readers : active_snapshots'[r] # NoSnapshot =>
       \A xmin, xmax \in 0 .. MaxXid :
         \/ isVisible(xmin, xmax, r, active_snapshots[r])'
              = isVisible(xmin, xmax, r, active_snapshots[r])
         \/ {xmin, xmax} \cap Undone # {}]_tmVars

\* When canFreezeCommitted lets COMMIT freeze the versions of x, no open
\* snapshot sees a difference: a version written by x reads the same with
\* xmin 0, and a version that x deleted was already gone (x cannot have deleted
\* a version that the open transaction r wrote: it does not see it).
FreezeIsInvisible ==
  \A x \in Xids : isCommitted(x) /\ canFreezeCommitted(x) =>
    \A r \in Readers, other \in 0 .. MaxXid :
      /\ isVisible(x, other, r, active_snapshots[r])
           = isVisible(0, other, r, active_snapshots[r])
      /\ other # r => ~isVisible(other, x, r, active_snapshots[r])

\* The horizon only moves forward: no snapshot taken later needs a version that
\* an earlier vacuum was allowed to drop.
HorizonAdvances == [][getVacuumHorizon' >= getVacuumHorizon]_tmVars

\* What the header says of getVacuumHorizon, "safe GC cutoff": a version whose
\* deleter has committed below the horizon is seen by no open snapshot.
HorizonIsSafe ==
  \A x \in Xids : isCommitted(x) /\ x < getVacuumHorizon =>
    \A r \in Readers, xmin \in 0 .. MaxXid :
      xmin # r => ~isVisible(xmin, x, r, active_snapshots[r])
=============================================================================
