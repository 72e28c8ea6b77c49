---------------------------- MODULE LockManager ----------------------------
(***************************************************************************)
(* The lock manager of core/lock_manager.cc: table and row locks, a queue  *)
(* of requests per key, a wait-for graph that is searched for a cycle      *)
(* before a request goes to sleep, and one condition variable that every   *)
(* sleeper shares.                                                         *)
(*                                                                         *)
(* acquire and release_all hold mutex_ except while acquire sleeps in      *)
(* cv_.wait, so each stretch of code between taking the mutex and giving   *)
(* it up is one action.  A transaction runs one statement at a time, so it *)
(* has at most one call of acquire in progress: call[t] is that call.      *)
(*                                                                         *)
(* A queue is a set of requests.  Its order is never visible: can_grant    *)
(* skips requests that are not granted, so a request never waits for an    *)
(* earlier one in the queue, and wait_for_ is a union over the queue.      *)
(***************************************************************************)
EXTENDS Naturals, FiniteSets

CONSTANTS Txns,     \* the transactions (lock owners)
          Keys      \* lock keys: table names and "table:#row" names

VARIABLES tables,     \* tables[k]: the requests queued for k, {} if no entry
          txn_tables, \* txn_tables[t]: the keys release_all will visit
          wait_for,   \* wait_for[t]: the transactions t waits for
          call        \* call[t]: progress of t's call of acquire

lmVars == <<tables, txn_tables, wait_for, call>>

Shared == "Shared"
Exclusive == "Exclusive"
Modes == {Shared, Exclusive}

Requests == [txn : Txns, mode : Modes, granted : BOOLEAN]

\* A call is over (Idle), runs its loop once it has the mutex (ready), or
\* sleeps in cv_.wait.
Idle == [at |-> "idle"]
Calls == {Idle} \cup [at : {"ready", "asleep"}, key : Keys, mode : Modes]

Call(at, k, m) == [at |-> at, key |-> k, mode |-> m]

Waiting(t) == call[t] # Idle

Types ==
  /\ tables \in [Keys -> SUBSET Requests]
  /\ txn_tables \in [Txns -> SUBSET Keys]
  /\ wait_for \in [Txns -> SUBSET Txns]
  /\ call \in [Txns -> Calls]

\* Types, and only a call in progress has edges in wait_for_.
TypeOK ==
  /\ Types
  /\ \A t \in Txns : wait_for[t] # {} => Waiting(t)

-----------------------------------------------------------------------------

\* A granted request that makes a request of its own transaction for mode m
\* superfluous.
Covers(r, t, m) ==
  r.granted /\ r.txn = t /\ (r.mode = Exclusive \/ m = Shared)

\* Faulty variant of Conflicts: shared holders do not stop an exclusive request.
ConflictsExclusiveOnly(r, t, m) == r.granted /\ r.txn # t /\ r.mode = Exclusive

Conflicts(r, t, m) ==
  r.granted /\ r.txn # t /\ (r.mode = Exclusive \/ m = Exclusive)

can_grant(queue, t, m) ==
  \/ \E r \in queue : Covers(r, t, m)
  \/ \A r \in queue : ~Conflicts(r, t, m)

Holders(queue) == {r.txn : r \in {q \in queue : q.granted}}

\* rebuild_wait_edges_locked: a waiter points at every other holder of the
\* key it waits for.
rebuild_wait_edges(tb) ==
  [t \in Txns |->
     UNION {Holders(tb[k]) \ {t} :
              k \in {l \in Keys : \E r \in tb[l] : r.txn = t /\ ~r.granted}}]

\* Every member of S waits for a member of S.
Knot(edges, S) == S # {} /\ \A t \in S : edges[t] \cap S # {}

\* The depth-first search of has_cycle meets a node it is still visiting
\* exactly when start is on an endless path of edges.
has_cycle(edges, start) == \E S \in SUBSET Txns : start \in S /\ Knot(edges, S)

\* cv_.notify_all()
WakeAll(c) ==
  [t \in Txns |-> IF c[t].at = "asleep" THEN Call("ready", c[t].key, c[t].mode)
                                        ELSE c[t]]

-----------------------------------------------------------------------------

Init ==
  /\ tables = [k \in Keys |-> {}]
  /\ txn_tables = [t \in Txns |-> {}]
  /\ wait_for = [t \in Txns |-> {}]
  /\ call = [t \in Txns |-> Idle]

Pending(t, m) == [txn |-> t, mode |-> m, granted |-> FALSE]
Holding(t, m) == [txn |-> t, mode |-> m, granted |-> TRUE]

\* One pass through the loop of acquire ends in a grant, in a deadlock
\* exception or in cv_.wait.  tb is tables with t's request in the queue of k.
Grant(t, k, m, tb) ==
  /\ tables' = [tb EXCEPT ![k] = (@ \ {Pending(t, m)}) \cup {Holding(t, m)}]
  /\ txn_tables' = [txn_tables EXCEPT ![t] = @ \cup {k}]
  /\ wait_for' = rebuild_wait_edges(tables')
  /\ call' = WakeAll([call EXCEPT ![t] = Idle])

\* Faulty variants of ThrowDeadlock: the request stays in the queue; it is
\* erased, but the edges are not built again.
ThrowDeadlockKeepingRequest(t, k, m, tb) ==
  /\ tables' = tb
  /\ wait_for' = rebuild_wait_edges(tables')
  /\ call' = [call EXCEPT ![t] = Idle]
  /\ UNCHANGED txn_tables

ThrowDeadlockStaleEdges(t, k, m, tb) ==
  /\ tables' = [tb EXCEPT ![k] = {r \in @ : r.txn # t \/ r.granted}]
  /\ wait_for' = rebuild_wait_edges(tb)
  /\ call' = [call EXCEPT ![t] = Idle]
  /\ UNCHANGED txn_tables

ThrowDeadlock(t, k, m, tb) ==
  /\ tables' = [tb EXCEPT ![k] = {r \in @ : r.txn # t \/ r.granted}]
  /\ wait_for' = rebuild_wait_edges(tables')
  /\ call' = [call EXCEPT ![t] = Idle]
  /\ UNCHANGED txn_tables

Sleep(t, k, m, tb) ==
  /\ tables' = tb
  /\ wait_for' = rebuild_wait_edges(tables')
  /\ call' = [call EXCEPT ![t] = Call("asleep", k, m)]
  /\ UNCHANGED txn_tables

\* Faulty variants of LoopPass: the search stops at cycles of two; it takes a
\* node that two paths reach for a cycle.
LoopPassPairs(t, k, m, tb) ==
  LET edges == rebuild_wait_edges(tb)
  IN  IF can_grant(tb[k], t, m) THEN Grant(t, k, m, tb)
      ELSE IF \E u \in edges[t] : t \in edges[u] THEN ThrowDeadlock(t, k, m, tb)
      ELSE Sleep(t, k, m, tb)
LoopPassJoin(t, k, m, tb) ==
  LET edges == rebuild_wait_edges(tb)
  IN  IF can_grant(tb[k], t, m) THEN Grant(t, k, m, tb)
      ELSE IF has_cycle(edges, t) \/ \E u, w \in edges[t] : w \in edges[u]
           THEN ThrowDeadlock(t, k, m, tb)
      ELSE Sleep(t, k, m, tb)

LoopPass(t, k, m, tb) ==
  IF can_grant(tb[k], t, m) THEN Grant(t, k, m, tb)
  ELSE IF has_cycle(rebuild_wait_edges(tb), t) THEN ThrowDeadlock(t, k, m, tb)
  ELSE Sleep(t, k, m, tb)

Enqueue(t, k, m) == [tables EXCEPT ![k] = @ \cup {Pending(t, m)}]

\* acquire, up to its return, its exception or its first wait.
acquire(t, k, m) ==
  /\ ~Waiting(t)
  /\ IF \E r \in tables[k] : Covers(r, t, m)
     THEN /\ txn_tables' = [txn_tables EXCEPT ![t] = @ \cup {k}]
          /\ UNCHANGED <<tables, wait_for, call>>
     ELSE LoopPass(t, k, m, Enqueue(t, k, m))

\* acquire, from a return of cv_.wait to the end of the next pass.
acquire_resume(t) ==
  /\ call[t].at = "ready"
  /\ LoopPass(t, call[t].key, call[t].mode, tables)

\* cv_.wait may return although nobody notified.
SpuriousWakeup(t) ==
  /\ call[t].at = "asleep"
  /\ call' = [call EXCEPT ![t] = Call("ready", @.key, @.mode)]
  /\ UNCHANGED <<tables, txn_tables, wait_for>>

\* Faulty variants of release_all: without notify_all; with the whole queue
\* of a key erased.
release_all_silent(t) ==
  /\ ~Waiting(t)
  /\ tables' = [k \in Keys |-> {r \in tables[k] : r.txn # t \/ k \notin txn_tables[t]}]
  /\ txn_tables' = [txn_tables EXCEPT ![t] = {}]
  /\ wait_for' = rebuild_wait_edges(tables')
  /\ UNCHANGED call
release_all_queue(t) ==
  /\ ~Waiting(t)
  /\ tables' = [k \in Keys |-> IF k \in txn_tables[t] THEN {} ELSE tables[k]]
  /\ txn_tables' = [txn_tables EXCEPT ![t] = {}]
  /\ wait_for' = rebuild_wait_edges(tables')
  /\ call' = WakeAll(call)

release_all(t) ==
  /\ ~Waiting(t)
  /\ tables' = [k \in Keys |-> IF k \in txn_tables[t]
                               THEN {r \in tables[k] : r.txn # t}
                               ELSE tables[k]]
  /\ txn_tables' = [txn_tables EXCEPT ![t] = {}]
  /\ wait_for' = rebuild_wait_edges(tables')
  /\ call' = WakeAll(call)

Step(t) ==
  \/ \E k \in Keys, m \in Modes : acquire(t, k, m)
  \/ acquire_resume(t)
  \/ SpuriousWakeup(t)
  \/ release_all(t)

Next == \E t \in Txns : Step(t)

Spec == Init /\ [][Next]_lmVars

-----------------------------------------------------------------------------

Granted(k) == {r \in tables[k] : r.granted}

\* Two transactions hold one key only when both hold it shared: what can_grant
\* is for, in any order of requests, upgrades, wakeups and releases.
HoldersCompatible ==
  \A k \in Keys : \A r, q \in Granted(k) :
    r.txn # q.txn => r.mode = Shared /\ q.mode = Shared

\* The transactions never wait for each other in a circle: the check before
\* cv_.wait catches every deadlock between lock requests, also one that is
\* completed by a grant to, or a request of, a transaction that is not on the
\* key of the sleeper.
NoWaitCycle == \A S \in SUBSET Txns : ~Knot(rebuild_wait_edges(tables), S)

\* A sleeper always has someone to wait for, so it is never left asleep on a
\* lock it could have: each change that can free a lock wakes it.
NoLostWakeup ==
  \A t \in Txns : call[t].at = "asleep" =>
    /\ ~can_grant(tables[call[t].key], t, call[t].mode)
    /\ wait_for[t] # {}

\* release_all finds every request of a transaction that has no call in
\* progress, so no lock outlives its transaction.
NoOrphanRequest ==
  \A t \in Txns, k \in Keys : \A r \in tables[k] :
    r.txn = t => \/ r.granted /\ k \in txn_tables[t]
                 \/ Waiting(t) /\ call[t].key = k /\ r = Pending(t, call[t].mode)

\* A call that has slept ends with its lock: only the request that closes a
\* cycle is refused, never one that is already in the queue.
SleeperIsNeverVictim ==
  [][\A t \in Txns : Waiting(t) /\ ~Waiting(t)' =>
       \E r \in tables'[call[t].key] : Covers(r, t, call[t].mode)]_lmVars

\* The queues implement the abstract lock table.
Locks == INSTANCE LockTable
           WITH held <- [k \in Keys |-> {<<r.txn, r.mode>> : r \in Granted(k)}]

LocksSpec == Locks!Spec
=============================================================================
