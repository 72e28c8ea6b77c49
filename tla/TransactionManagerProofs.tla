---------------------- MODULE TransactionManagerProofs ----------------------
(***************************************************************************)
(* Proofs, for any number of transactions, that registered snapshots are   *)
(* stable and that freezing is invisible to them.                          *)
(***************************************************************************)
EXTENDS TransactionManager, TLAPS

-----------------------------------------------------------------------------
(* The inductive invariant.                                                *)

\* active_xids_ and statuses_ agree, and ids are handed out in order.
StatusesAgree ==
  \A x \in Xids : /\ x \in active_xids <=> statuses[x] = "InProgress"
                  /\ x >= next_xid <=> statuses[x] = "Unknown"

\* A registered snapshot belongs to an open transaction.
ReadersActive == Readers \subseteq active_xids

\* What a registered snapshot does not list as unseen had ended when it was
\* taken, so its outcome is final, unless a failed COMMIT is rolled back.
SeenHasEnded ==
  \A r \in Readers, x \in Xids :
    ~Unseen(x, active_snapshots[r]) => statuses[x] \in {"Committed", "Aborted"}

IInv == TypeOK /\ StatusesAgree /\ ReadersActive /\ SeenHasEnded

-----------------------------------------------------------------------------

\* A new transaction manager satisfies the invariant.
LEMMA InitIInv == Init => IInv
<1> SUFFICES ASSUME Init PROVE IInv
  OBVIOUS
<1>1. NoSnapshot \in Snapshots
  BY MaxXidAssumption DEF NoSnapshot, Snapshots
<1>2. TypeOK
  BY <1>1, MaxXidAssumption DEF Init, TypeOK, Statuses, Xids
<1>3. Readers = {}
  BY DEF Init, Readers
<1>4. StatusesAgree
  BY DEF Init, StatusesAgree, Xids
<1> QED BY <1>2, <1>3, <1>4 DEF IInv, ReadersActive, SeenHasEnded

\* BEGIN keeps it: the new snapshot sees only transactions that have ended.
LEMMA BeginStep == ASSUME IInv, NEW y \in Xids, begin(y) PROVE IInv'
<1> DEFINE snap == [xmax |-> next_xid', active_xids |-> active_xids']
<1>n. /\ next_xid \in Nat /\ next_xid' = next_xid + 1 /\ y = next_xid
      /\ next_xid' \in 1 .. MaxXid + 1
  BY MaxXidAssumption DEF IInv, TypeOK, begin, Xids
<1>a. active_xids' \in SUBSET Xids /\ active_xids' = active_xids \cup {y}
  BY DEF IInv, TypeOK, begin
<1>s. /\ statuses' \in [Xids -> Statuses]
      /\ statuses'[y] = "InProgress"
      /\ \A x \in Xids \ {y} : statuses'[x] = statuses[x]
  BY DEF IInv, TypeOK, begin, Statuses
<1>m. /\ snap \in Snapshots /\ snap # NoSnapshot
      /\ active_snapshots' \in [Xids -> Snapshots]
      /\ active_snapshots'[y] = snap
      /\ \A r \in Xids \ {y} : active_snapshots'[r] = active_snapshots[r]
  <2>1. snap \in Snapshots
    BY <1>n, <1>a, MaxXidAssumption DEF Snapshots
  <2>2. snap.xmax # NoSnapshot.xmax
    BY <1>n DEF NoSnapshot
  <2> QED BY <2>1, <2>2 DEF IInv, TypeOK, begin
<1>1. TypeOK'
  BY <1>n, <1>a, <1>s, <1>m DEF TypeOK
<1>2. StatusesAgree'
  BY <1>n, <1>a, <1>s DEF IInv, TypeOK, StatusesAgree, Xids
<1>3. Readers' = Readers \cup {y}
  BY <1>m DEF Readers
<1>4. ReadersActive'
  BY <1>3, <1>a DEF IInv, ReadersActive
<1>5. SeenHasEnded'
  <2> SUFFICES ASSUME NEW r \in Readers', NEW x \in Xids,
                      ~Unseen(x, active_snapshots'[r])
               PROVE  statuses'[x] \in {"Committed", "Aborted"}
    BY DEF SeenHasEnded, Unseen
  <2>1. CASE r = y
    <3>1. x < next_xid' /\ x \notin active_xids'
      BY <2>1, <1>m, <1>n DEF Unseen, Xids
    <3>2. x # y /\ x < next_xid /\ x \notin active_xids
      BY <3>1, <1>n, <1>a DEF Xids
    <3>3. statuses[x] \notin {"InProgress", "Unknown"}
      BY <3>2, <1>n DEF IInv, StatusesAgree, Xids
    <3> QED BY <3>2, <3>3, <1>s DEF IInv, TypeOK, Statuses
  <2>2. CASE r # y
    <3>1. r \in Readers /\ active_snapshots'[r] = active_snapshots[r]
      BY <2>2, <1>3, <1>m DEF Readers
    <3>2. statuses[x] \in {"Committed", "Aborted"}
      BY <3>1 DEF IInv, SeenHasEnded
    <3>3. x # y
      BY <3>2, <1>n DEF IInv, StatusesAgree, Xids
    <3> QED BY <3>2, <3>3, <1>s
  <2> QED BY <2>1, <2>2
<1> QED BY <1>1, <1>2, <1>4, <1>5 DEF IInv

\* COMMIT and ROLLBACK keep it, the second COMMIT or the ROLLBACK of a
\* transaction that has committed included.
LEMMA EndStep ==
  ASSUME IInv, NEW y \in Endable, NEW status \in {"Committed", "Aborted"},
         End(y, status)
  PROVE  IInv'
<1>y. y \in Xids
  BY DEF IInv, TypeOK, Endable
<1>s. /\ statuses' \in [Xids -> Statuses]
      /\ statuses'[y] = status
      /\ \A x \in Xids \ {y} : statuses'[x] = statuses[x]
  BY <1>y DEF IInv, TypeOK, End, Statuses
<1>m. /\ active_snapshots' \in [Xids -> Snapshots]
      /\ active_snapshots'[y] = NoSnapshot
      /\ \A r \in Xids \ {y} : active_snapshots'[r] = active_snapshots[r]
  <2>1. NoSnapshot \in Snapshots
    BY MaxXidAssumption DEF NoSnapshot, Snapshots
  <2> QED BY <2>1, <1>y DEF IInv, TypeOK, End
<1>1. TypeOK'
  BY <1>s, <1>m DEF IInv, TypeOK, End
<1>2. StatusesAgree'
  <2>1. statuses[y] # "Unknown"
    BY <1>y DEF IInv, StatusesAgree, Endable
  <2> QED BY <2>1, <1>y, <1>s DEF IInv, TypeOK, StatusesAgree, End
<1>3. Readers' = Readers \ {y}
  BY <1>m DEF Readers
<1>4. ReadersActive'
  BY <1>3 DEF IInv, ReadersActive, End
<1>5. SeenHasEnded'
  <2> SUFFICES ASSUME NEW r \in Readers', NEW x \in Xids,
                      ~Unseen(x, active_snapshots'[r])
               PROVE  statuses'[x] \in {"Committed", "Aborted"}
    BY DEF SeenHasEnded, Unseen
  <2>1. r \in Readers /\ active_snapshots'[r] = active_snapshots[r]
    BY <1>3, <1>m DEF Readers
  <2>2. statuses[x] \in {"Committed", "Aborted"}
    BY <2>1 DEF IInv, SeenHasEnded
  <2> QED BY <2>2, <1>s
<1> QED BY <1>1, <1>2, <1>4, <1>5 DEF IInv

\* Every step of the transaction manager keeps the invariant.
LEMMA NextIInv == IInv /\ [Next]_tmVars => IInv'
<1> SUFFICES ASSUME IInv, [Next]_tmVars PROVE IInv'
  OBVIOUS
<1>1. ASSUME NEW y \in Xids, begin(y) PROVE IInv'
  BY <1>1, BeginStep
<1>2. ASSUME NEW y \in Endable, commitTransaction(y) \/ abortTransaction(y)
      PROVE  IInv'
  BY <1>2, EndStep DEF commitTransaction, abortTransaction
<1>3. CASE UNCHANGED tmVars
  BY <1>3 DEF tmVars, IInv, TypeOK, StatusesAgree, ReadersActive, Readers,
              SeenHasEnded, Unseen
<1> QED BY <1>1, <1>2, <1>3 DEF Next

\* Every behaviour of the transaction manager satisfies the invariant.
THEOREM Invariance == Spec => []IInv
BY InitIInv, NextIInv, PTL DEF Spec

\* Type correctness of the transaction manager's maps and sets.
THEOREM TypeCorrect == Spec => []TypeOK
<1>1. IInv => TypeOK
  BY DEF IInv
<1> QED BY <1>1, Invariance, PTL

-----------------------------------------------------------------------------

\* What a registered snapshot sees never changes, whoever begins, commits or
\* rolls back, but for versions of a transaction whose COMMIT failed to reach
\* the disk and which is then rolled back.
THEOREM Stability == Spec => SnapshotStable
<1> DEFINE Same == \A r \in Readers : active_snapshots'[r] # NoSnapshot =>
                     \A xmin, xmax \in 0 .. MaxXid :
                       \/ isVisible(xmin, xmax, r, active_snapshots[r])'
                            = isVisible(xmin, xmax, r, active_snapshots[r])
                       \/ {xmin, xmax} \cap Undone # {}
<1>1. ASSUME IInv, Next, NEW r \in Readers, active_snapshots'[r] # NoSnapshot
      PROVE  \A xmin, xmax \in 0 .. MaxXid :
               \/ isVisible(xmin, xmax, r, active_snapshots[r])'
                    = isVisible(xmin, xmax, r, active_snapshots[r])
               \/ {xmin, xmax} \cap Undone # {}
  <2> DEFINE snap == active_snapshots[r]
  <2>r. r \in Xids /\ r \in active_xids /\ snap # NoSnapshot
    BY <1>1 DEF IInv, ReadersActive, Readers
  <2>1. active_snapshots'[r] = snap
    <3>1. ASSUME NEW y \in Xids, begin(y) PROVE y # r
      BY <1>1, <3>1, <2>r DEF begin, IInv, TypeOK, StatusesAgree, Xids
    <3>2. ASSUME NEW y \in Endable, End(y, "Committed") \/ End(y, "Aborted")
          PROVE  y # r
      BY <1>1, <3>2, <2>r DEF End, IInv, TypeOK
    <3> QED
      BY <1>1, <3>1, <3>2, <2>r
      DEF Next, begin, commitTransaction, abortTransaction, End, IInv, TypeOK
  <2>2. ASSUME NEW x \in 0 .. MaxXid, ~Unseen(x, snap), x \notin Undone
        PROVE  isCommitted(x)' <=> isCommitted(x)
    <3>1. CASE x = 0
      BY <3>1 DEF isCommitted
    <3>2. CASE x # 0
      <4>1. x \in Xids
        BY <3>2, MaxXidAssumption DEF Xids
      <4>2. statuses[x] \in {"Committed", "Aborted"}
        BY <1>1, <2>2, <4>1 DEF IInv, SeenHasEnded
      <4>3. x \notin active_xids /\ x # next_xid
        BY <1>1, <4>1, <4>2 DEF IInv, TypeOK, StatusesAgree, Xids
      <4>4. statuses[x] = "Committed" => statuses'[x] # "Aborted"
        BY <2>2, <4>1 DEF Undone
      <4>5. ASSUME NEW y \in Xids, begin(y) PROVE statuses'[x] = statuses[x]
        BY <1>1, <4>1, <4>3, <4>5 DEF begin, IInv, TypeOK
      <4>6. ASSUME NEW y \in Endable, NEW status \in {"Committed", "Aborted"},
                   End(y, status)
            PROVE  statuses'[x] = statuses[x]
        <5>1. x # y => statuses'[x] = statuses[x]
          BY <1>1, <4>1, <4>6 DEF End, IInv, TypeOK
        <5>2. x = y => statuses[x] = "Committed" /\ statuses'[x] = status
          BY <1>1, <4>1, <4>3, <4>6 DEF End, Endable, IInv, TypeOK
        <5> QED BY <5>1, <5>2, <4>4, <4>6
      <4>7. statuses'[x] = statuses[x]
        BY <1>1, <4>5, <4>6 DEF Next, commitTransaction, abortTransaction
      <4> QED BY <4>1, <4>7 DEF isCommitted
    <3> QED BY <3>1, <3>2
  <2> SUFFICES ASSUME NEW xmin \in 0 .. MaxXid, NEW xmax \in 0 .. MaxXid,
                      xmin \notin Undone, xmax \notin Undone
               PROVE  isVisible(xmin, xmax, r, active_snapshots[r])'
                        = isVisible(xmin, xmax, r, active_snapshots[r])
    OBVIOUS
  <2>3. DeletedFor(xmax, r, active_snapshots[r])' <=> DeletedFor(xmax, r, snap)
    BY <2>r, <2>1, <2>2 DEF DeletedFor, Unseen
  <2> QED BY <2>r, <2>1, <2>2, <2>3 DEF isVisible, Unseen
<1>2. IInv /\ [Next]_tmVars => [Same]_tmVars
  BY <1>1
<1> QED BY <1>2, Invariance, PTL DEF Spec, SnapshotStable

\* COMMIT may freeze the versions of its transaction whenever
\* canFreezeCommitted says so: no open snapshot can tell.
THEOREM FreezeSafety == Spec => []FreezeIsInvisible
<1>1. ASSUME IInv, NEW x \in Xids, isCommitted(x), canFreezeCommitted(x),
             NEW r \in Readers, NEW other \in 0 .. MaxXid
      PROVE  /\ isVisible(x, other, r, active_snapshots[r])
                  = isVisible(0, other, r, active_snapshots[r])
             /\ other # r => ~isVisible(other, x, r, active_snapshots[r])
  <2>1. x # 0 /\ r \in Xids /\ active_snapshots[r] # NoSnapshot
    BY <1>1 DEF Readers, Xids
  <2>2. ~Unseen(x, active_snapshots[r])
    BY <1>1 DEF canFreezeCommitted
  <2>3. x # r
    BY <1>1, <2>1 DEF IInv, ReadersActive, StatusesAgree, isCommitted
  <2>4. isVisible(x, other, r, active_snapshots[r])
          = isVisible(0, other, r, active_snapshots[r])
    BY <1>1, <2>1, <2>2, <2>3 DEF isVisible, DeletedFor
  <2>5. DeletedFor(x, r, active_snapshots[r])
    BY <1>1, <2>1, <2>2 DEF DeletedFor
  <2> QED BY <2>4, <2>5 DEF isVisible
<1>2. IInv => FreezeIsInvisible
  BY <1>1 DEF FreezeIsInvisible
<1> QED BY <1>2, Invariance, PTL
=============================================================================
