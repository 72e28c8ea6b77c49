------------------------- MODULE LockManagerProofs -------------------------
(***************************************************************************)
(* Proofs, for any sets of transactions and keys, that the lock manager    *)
(* keeps holders compatible, never lets transactions wait in a circle,     *)
(* never loses a wakeup, refuses only requests that close a cycle, and     *)
(* implements the abstract lock table.                                     *)
(***************************************************************************)
EXTENDS LockManager, TLAPS

-----------------------------------------------------------------------------
(* The inductive invariant.                                                *)

\* The call in progress has its request in the queue.
CallsQueued ==
  \A t \in Txns : Waiting(t) => Pending(t, call[t].mode) \in tables[call[t].key]

\* wait_for_ is up to date whenever mutex_ is free.
WaitForFresh == wait_for = rebuild_wait_edges(tables)

\* The first conjunct of NoLostWakeup; the second follows from it.
SleepersBlocked ==
  \A t \in Txns : call[t].at = "asleep" =>
    ~can_grant(tables[call[t].key], t, call[t].mode)

IInv ==
  /\ Types
  /\ CallsQueued
  /\ NoOrphanRequest
  /\ WaitForFresh
  /\ HoldersCompatible
  /\ NoWaitCycle
  /\ SleepersBlocked

Queues == [Keys -> SUBSET Requests]

\* tb is tables with the request of t for k, and no other waiting request of t.
Queued(t, k, m, tb) ==
  /\ tb \in Queues
  /\ Pending(t, m) \in tb[k]
  /\ \A l \in Keys : tables[l] \subseteq tb[l]
  /\ \A l \in Keys : \A r \in tb[l] : r \in tables[l] \/ r = Pending(t, m)
  /\ \A l \in Keys : \A r \in tb[l] :
       r.txn = t /\ ~r.granted => l = k /\ r = Pending(t, m)

-----------------------------------------------------------------------------
(* Facts about the operators.                                              *)

\* An edge of the rebuilt graph: a waiter and another holder of its key.
LEMMA Edge ==
  ASSUME NEW tb \in Queues, NEW t \in Txns, NEW h
  PROVE  h \in rebuild_wait_edges(tb)[t] <=>
           /\ h # t
           /\ \E k \in Keys : \E r, q \in tb[k] :
                r.txn = t /\ ~r.granted /\ q.txn = h /\ q.granted
BY DEF rebuild_wait_edges, Holders, Queues

\* rebuild_wait_edges_locked yields a set of transactions for each transaction.
LEMMA EdgesType ==
  ASSUME NEW tb \in Queues
  PROVE  rebuild_wait_edges(tb) \in [Txns -> SUBSET Txns]
<1>1. \A t \in Txns : rebuild_wait_edges(tb)[t] \in SUBSET Txns
  BY Edge DEF Queues, Requests
<1> QED BY <1>1 DEF rebuild_wait_edges

\* The requests that acquire puts in a queue, and how they differ.
LEMMA RequestType ==
  ASSUME NEW t \in Txns, NEW m \in Modes
  PROVE  /\ Pending(t, m) \in Requests
         /\ Pending(t, m).txn = t
         /\ Pending(t, m).mode = m
         /\ ~Pending(t, m).granted
         /\ Holding(t, m) \in Requests
         /\ Holding(t, m).txn = t
         /\ Holding(t, m).mode = m
         /\ Holding(t, m).granted
BY DEF Pending, Holding, Requests

\* notify_all leaves calls what they are, none of them asleep.
LEMMA WakeAllType ==
  ASSUME NEW c \in [Txns -> Calls]
  PROVE  /\ WakeAll(c) \in [Txns -> Calls]
         /\ \A t \in Txns : /\ WakeAll(c)[t].at # "asleep"
                            /\ WakeAll(c)[t] = Idle <=> c[t] = Idle
                            /\ c[t] # Idle => /\ WakeAll(c)[t].key = c[t].key
                                              /\ WakeAll(c)[t].mode = c[t].mode
BY DEF WakeAll, Calls, Call, Idle

\* t's own waiting request is the only difference between tables and tb.
LEMMA Enqueued ==
  ASSUME IInv, NEW t \in Txns, NEW k \in Keys, NEW m \in Modes, ~Waiting(t)
  PROVE  Queued(t, k, m, Enqueue(t, k, m))
<1>1. Pending(t, m) \in Requests
  BY RequestType
<1>2. Enqueue(t, k, m) \in Queues
  BY <1>1 DEF Enqueue, Queues, IInv, Types
<1>3. \A l \in Keys : \A r \in tables[l] : ~(r.txn = t /\ ~r.granted)
  BY DEF IInv, NoOrphanRequest
<1> QED
  BY <1>1, <1>2, <1>3 DEF Enqueue, Queued, IInv, Types

\* When acquire resumes after a wait, its request is still in the queue.
LEMMA Resumed ==
  ASSUME IInv, NEW t \in Txns, call[t].at = "ready"
  PROVE  /\ call[t].key \in Keys
         /\ call[t].mode \in Modes
         /\ Queued(t, call[t].key, call[t].mode, tables)
<1>1. call[t] # Idle /\ call[t] \in Calls
  BY DEF IInv, Types, Idle
<1>2. call[t].key \in Keys /\ call[t].mode \in Modes
  BY <1>1 DEF Calls
<1>3. Pending(t, call[t].mode) \in tables[call[t].key]
  BY <1>1 DEF IInv, CallsQueued, Waiting
<1>4. \A l \in Keys : \A r \in tables[l] :
        r.txn = t /\ ~r.granted => l = call[t].key /\ r = Pending(t, call[t].mode)
  BY DEF IInv, NoOrphanRequest
<1> QED
  BY <1>2, <1>3, <1>4 DEF Queued, Queues, IInv, Types

\* Whether a request can be granted depends on the granted requests only.
LEMMA SameGrants ==
  ASSUME NEW p, NEW q, NEW t, NEW m,
         \A r \in p : r.granted => r \in q,
         \A r \in q : r.granted => r \in p
  PROVE  can_grant(p, t, m) <=> can_grant(q, t, m)
BY DEF can_grant, Covers, Conflicts
-----------------------------------------------------------------------------
(* Each way out of a pass through the loop keeps the invariant.            *)

\* A grant keeps it: new edges lead to t only, and t waits for nobody; every
\* sleeper is woken.
LEMMA GrantStep ==
  ASSUME IInv, NEW t \in Txns, NEW k \in Keys, NEW m \in Modes, NEW STATE tb,
         Queued(t, k, m, tb), can_grant(tb[k], t, m),
         Waiting(t) => k = call[t].key /\ m = call[t].mode,
         Grant(t, k, m, tb)
  PROVE  IInv'
<1> DEFINE c == [call EXCEPT ![t] = Idle]
<1>r. /\ Pending(t, m) \in Requests /\ Holding(t, m) \in Requests
      /\ Pending(t, m).txn = t /\ ~Pending(t, m).granted
      /\ Holding(t, m).txn = t /\ Holding(t, m).granted
      /\ Holding(t, m).mode = m
  BY RequestType
<1>t. /\ tables' \in Queues
      /\ Holding(t, m) \in tables'[k]
      /\ \A l \in Keys : \A r \in tables'[l] :
           r \in tables[l] \/ (l = k /\ r = Holding(t, m))
      /\ \A l \in Keys : \A r \in tables[l] : r \in tables'[l] \/ r = Pending(t, m)
      /\ \A l \in Keys : \A r \in tables'[l] : ~(r.txn = t /\ ~r.granted)
  BY <1>r DEF Grant, Queued, Queues
<1>c. c \in [Txns -> Calls] /\ c[t] = Idle /\ \A u \in Txns \ {t} : c[u] = call[u]
  BY DEF IInv, Types, Calls
<1>w. /\ call' = WakeAll(c)
      /\ call' \in [Txns -> Calls]
      /\ \A u \in Txns : /\ call'[u].at # "asleep"
                         /\ call'[u] = Idle <=> c[u] = Idle
                         /\ c[u] # Idle => /\ call'[u].key = c[u].key
                                           /\ call'[u].mode = c[u].mode
  BY <1>c, WakeAllType DEF Grant
<1>1. Types'
  <2>1. wait_for' \in [Txns -> SUBSET Txns]
    BY <1>t, EdgesType DEF Grant
  <2>2. txn_tables' \in [Txns -> SUBSET Keys]
    BY DEF Grant, IInv, Types
  <2> QED BY <1>t, <1>w, <2>1, <2>2 DEF Types, Queues
<1>2. CallsQueued'
  <2> SUFFICES ASSUME NEW u \in Txns, call'[u] # Idle
               PROVE  Pending(u, call'[u].mode) \in tables'[call'[u].key]
    BY DEF CallsQueued, Waiting
  <2>1. u # t /\ call[u] # Idle /\ call'[u].key = call[u].key /\ call'[u].mode = call[u].mode
    BY <1>c, <1>w
  <2>2. call[u].key \in Keys /\ call[u].mode \in Modes
    BY <2>1 DEF IInv, Types, Calls
  <2>3. Pending(u, call[u].mode) \in tables[call[u].key]
    BY <2>1 DEF IInv, CallsQueued, Waiting
  <2>4. Pending(u, call[u].mode) # Pending(t, m)
    BY <2>1 DEF Pending
  <2> QED BY <2>1, <2>2, <2>3, <2>4, <1>t
<1>3. NoOrphanRequest'
  <2> SUFFICES ASSUME NEW u \in Txns, NEW l \in Keys, NEW r \in tables'[l], r.txn = u
               PROVE  \/ r.granted /\ l \in txn_tables'[u]
                      \/ /\ call'[u] # Idle
                         /\ call'[u].key = l
                         /\ r = Pending(u, call'[u].mode)
    BY DEF NoOrphanRequest, Waiting
  <2>0. \A v \in Txns : txn_tables[v] \subseteq txn_tables'[v]
    BY DEF Grant, IInv, Types
  <2>1. CASE l = k /\ r = Holding(t, m)
    BY <2>1, <1>r DEF Grant, IInv, Types
  <2>2. CASE r \in tables[l] /\ r.granted
    BY <2>0, <2>2, <1>t, <1>r DEF IInv, NoOrphanRequest, Pending
  <2>3. CASE r \in tables[l] /\ ~r.granted
    <3>1. u # t
      BY <2>3, <1>t
    <3>2. call[u] # Idle /\ call[u].key = l /\ r = Pending(u, call[u].mode)
      BY <2>3 DEF IInv, NoOrphanRequest, Waiting
    <3> QED BY <3>1, <3>2, <1>c, <1>w
  <2> QED BY <2>1, <2>2, <2>3, <1>t
<1>4. WaitForFresh'
  BY DEF Grant, WaitForFresh, rebuild_wait_edges
<1>5. HoldersCompatible'
  <2>1. \A q \in tables[k] : q.granted /\ q.txn # t => q.mode = Shared /\ m = Shared
    <3> SUFFICES ASSUME NEW q \in tables[k], q.granted, q.txn # t
                 PROVE  q.mode = Shared /\ m = Shared
      OBVIOUS
    <3>0. q \in tb[k] /\ q.mode \in Modes
      BY DEF Queued, Queues, Requests
    <3>1. CASE \E r \in tb[k] : Covers(r, t, m)
      <4>1. PICK r \in tb[k] : Covers(r, t, m)
        BY <3>1
      <4>2. r \in tables[k] /\ r.txn = t /\ r.granted
        BY <4>1, <1>r DEF Queued, Covers
      <4>3. r.mode = Shared /\ q.mode = Shared
        BY <4>2 DEF IInv, HoldersCompatible, Granted
      <4> QED BY <4>1, <4>3 DEF Covers, Shared, Exclusive
    <3>2. CASE \A r \in tb[k] : ~Conflicts(r, t, m)
      BY <3>0, <3>2 DEF Conflicts, Modes
    <3> QED BY <3>1, <3>2 DEF can_grant
  <2> QED
    BY <2>1, <1>r, <1>t DEF IInv, HoldersCompatible, Granted
<1>6. NoWaitCycle'
  <2> DEFINE e == rebuild_wait_edges(tables)
             f == rebuild_wait_edges(tables')
  <2> SUFFICES ASSUME NEW S \in SUBSET Txns, Knot(f, S)
               PROVE  FALSE
    BY DEF NoWaitCycle, rebuild_wait_edges, Knot, Holders
  <2>q. tables \in Queues /\ tables' \in Queues
    BY <1>t DEF IInv, Types, Queues
  <2>1. f[t] = {}
    BY <2>q, <1>t, Edge
  <2>2. t \notin S
    BY <2>1 DEF Knot
  <2>3. ASSUME NEW u \in Txns, u # t, NEW h \in f[u], h # t
        PROVE  h \in e[u]
    <3>1. PICK l \in Keys : \E r, q \in tables'[l] :
                r.txn = u /\ ~r.granted /\ q.txn = h /\ q.granted
      BY <2>3, <2>q, Edge
    <3>2. \E r, q \in tables[l] : r.txn = u /\ ~r.granted /\ q.txn = h /\ q.granted
      BY <2>3, <3>1, <1>t, <1>r
    <3>3. h # u
      BY <2>3, <2>q, Edge
    <3> QED BY <3>2, <3>3, <2>q, Edge
  <2>4. Knot(e, S)
    BY <2>2, <2>3 DEF Knot
  <2> QED BY <2>4 DEF IInv, NoWaitCycle
<1>7. SleepersBlocked'
  BY <1>w DEF SleepersBlocked
<1> QED BY <1>1, <1>2, <1>3, <1>4, <1>5, <1>6, <1>7 DEF IInv

\* Giving up keeps it: nothing granted changes, and no edge is added.
LEMMA DeadlockStep ==
  ASSUME IInv, NEW t \in Txns, NEW k \in Keys, NEW m \in Modes, NEW STATE tb,
         Queued(t, k, m, tb),
         Waiting(t) => k = call[t].key /\ m = call[t].mode,
         ThrowDeadlock(t, k, m, tb)
  PROVE  IInv'
<1>r. Pending(t, m) \in Requests /\ Pending(t, m).txn = t /\ ~Pending(t, m).granted
  BY RequestType
<1>t. /\ tables' \in Queues
      /\ \A l \in Keys : \A r \in tables'[l] : r \in tables[l]
      /\ \A l \in Keys : \A r \in tables[l] : r \in tables'[l] \/ r = Pending(t, m)
      /\ \A l \in Keys : \A r \in tables'[l] : ~(r.txn = t /\ ~r.granted)
  BY <1>r DEF ThrowDeadlock, Queued, Queues
<1>c. /\ call' \in [Txns -> Calls]
      /\ call'[t] = Idle
      /\ \A u \in Txns \ {t} : call'[u] = call[u]
  BY DEF ThrowDeadlock, IInv, Types, Calls
<1>1. Types'
  <2>1. wait_for' \in [Txns -> SUBSET Txns]
    BY <1>t, EdgesType DEF ThrowDeadlock
  <2> QED BY <1>t, <1>c, <2>1 DEF ThrowDeadlock, Types, IInv, Queues
<1>2. CallsQueued'
  <2> SUFFICES ASSUME NEW u \in Txns, call'[u] # Idle
               PROVE  Pending(u, call'[u].mode) \in tables'[call'[u].key]
    BY DEF CallsQueued, Waiting
  <2>1. u # t /\ call[u] # Idle /\ call'[u] = call[u]
    BY <1>c
  <2>2. call[u].key \in Keys /\ call[u].mode \in Modes
    BY <2>1 DEF IInv, Types, Calls
  <2>3. Pending(u, call[u].mode) \in tables[call[u].key]
    BY <2>1 DEF IInv, CallsQueued, Waiting
  <2>4. Pending(u, call[u].mode) # Pending(t, m)
    BY <2>1 DEF Pending
  <2> QED BY <2>1, <2>2, <2>3, <2>4, <1>t
<1>3. NoOrphanRequest'
  <2> SUFFICES ASSUME NEW u \in Txns, NEW l \in Keys, NEW r \in tables'[l], r.txn = u
               PROVE  \/ r.granted /\ l \in txn_tables'[u]
                      \/ /\ call'[u] # Idle
                         /\ call'[u].key = l
                         /\ r = Pending(u, call'[u].mode)
    BY DEF NoOrphanRequest, Waiting
  <2>1. \/ r.granted /\ l \in txn_tables[u]
        \/ call[u] # Idle /\ call[u].key = l /\ r = Pending(u, call[u].mode)
    BY <1>t DEF IInv, NoOrphanRequest, Waiting
  <2>2. u = t => r.granted
    BY <1>t
  <2>3. CASE r.granted
    BY <2>1, <2>3, RequestType DEF ThrowDeadlock, Pending
  <2>4. CASE ~r.granted
    BY <2>1, <2>2, <2>4, <1>c
  <2> QED BY <2>3, <2>4
<1>4. WaitForFresh'
  BY DEF ThrowDeadlock, WaitForFresh, rebuild_wait_edges
<1>5. HoldersCompatible'
  BY <1>t DEF IInv, HoldersCompatible, Granted
<1>6. NoWaitCycle'
  <2> DEFINE e == rebuild_wait_edges(tables)
             f == rebuild_wait_edges(tables')
  <2> SUFFICES ASSUME NEW S \in SUBSET Txns, Knot(f, S)
               PROVE  FALSE
    BY DEF NoWaitCycle, rebuild_wait_edges, Knot, Holders
  <2>q. tables \in Queues /\ tables' \in Queues
    BY <1>t DEF IInv, Types, Queues
  <2>1. ASSUME NEW u \in Txns, NEW h \in f[u]
        PROVE  h \in e[u]
    BY <2>1, <2>q, <1>t, Edge
  <2>2. Knot(e, S)
    BY <2>1 DEF Knot
  <2> QED BY <2>2 DEF IInv, NoWaitCycle
<1>7. SleepersBlocked'
  <2> SUFFICES ASSUME NEW u \in Txns, call'[u].at = "asleep"
               PROVE  ~can_grant(tables'[call'[u].key], u, call'[u].mode)
    BY DEF SleepersBlocked, can_grant, Covers, Conflicts
  <2>1. call'[u] = call[u] /\ call[u] # Idle
    BY <1>c DEF Idle
  <2>2. call[u].key \in Keys
    BY <2>1 DEF IInv, Types, Calls
  <2>3. /\ \A r \in tables[call[u].key] : r.granted => r \in tables'[call[u].key]
        /\ \A r \in tables'[call[u].key] : r.granted => r \in tables[call[u].key]
    BY <2>2, <1>t, <1>r
  <2>4. ~can_grant(tables[call[u].key], u, call[u].mode)
    BY <2>1 DEF IInv, SleepersBlocked
  <2> QED BY <2>1, <2>3, <2>4, SameGrants
<1> QED BY <1>1, <1>2, <1>3, <1>4, <1>5, <1>6, <1>7 DEF IInv

\* Going to sleep keeps it: the only new edges leave t, and the search from t
\* found no cycle among them.
LEMMA SleepStep ==
  ASSUME IInv, NEW t \in Txns, NEW k \in Keys, NEW m \in Modes, NEW STATE tb,
         Queued(t, k, m, tb), ~can_grant(tb[k], t, m),
         ~has_cycle(rebuild_wait_edges(tb), t),
         Waiting(t) => k = call[t].key /\ m = call[t].mode,
         Sleep(t, k, m, tb)
  PROVE  IInv'
<1>r. Pending(t, m) \in Requests /\ Pending(t, m).txn = t /\ ~Pending(t, m).granted
  BY RequestType
<1>t. /\ tables' \in Queues
      /\ Pending(t, m) \in tables'[k]
      /\ \A l \in Keys : \A r \in tables'[l] :
           r \in tables[l] \/ (l = k /\ r = Pending(t, m))
      /\ \A l \in Keys : \A r \in tables[l] : r \in tables'[l]
  BY <1>r DEF Sleep, Queued, Queues
<1>c. /\ call' \in [Txns -> Calls]
      /\ call'[t] # Idle /\ call'[t].key = k /\ call'[t].mode = m
      /\ \A u \in Txns \ {t} : call'[u] = call[u]
  BY DEF Sleep, IInv, Types, Call, Calls, Idle
<1>1. Types'
  <2>1. wait_for' \in [Txns -> SUBSET Txns]
    BY <1>t, EdgesType DEF Sleep
  <2> QED BY <1>t, <1>c, <2>1 DEF Sleep, Types, IInv, Queues
<1>2. CallsQueued'
  <2> SUFFICES ASSUME NEW u \in Txns, call'[u] # Idle
               PROVE  Pending(u, call'[u].mode) \in tables'[call'[u].key]
    BY DEF CallsQueued, Waiting
  <2>1. CASE u = t
    BY <2>1, <1>c, <1>t
  <2>2. CASE u # t
    <3>1. call[u] # Idle /\ call'[u] = call[u]
      BY <2>2, <1>c
    <3>2. call[u].key \in Keys
      BY <3>1 DEF IInv, Types, Calls
    <3>3. Pending(u, call[u].mode) \in tables[call[u].key]
      BY <3>1 DEF IInv, CallsQueued, Waiting
    <3> QED BY <3>1, <3>2, <3>3, <1>t
  <2> QED BY <2>1, <2>2
<1>3. NoOrphanRequest'
  <2> SUFFICES ASSUME NEW u \in Txns, NEW l \in Keys, NEW r \in tables'[l], r.txn = u
               PROVE  \/ r.granted /\ l \in txn_tables'[u]
                      \/ /\ call'[u] # Idle
                         /\ call'[u].key = l
                         /\ r = Pending(u, call'[u].mode)
    BY DEF NoOrphanRequest, Waiting
  <2>1. CASE r \in tables[l] /\ (u # t \/ r.granted)
    BY <2>1, <1>c DEF Sleep, IInv, NoOrphanRequest, Waiting
  <2>2. CASE u = t /\ ~r.granted
    BY <2>2, <1>c, <1>t DEF Sleep, Queued
  <2> QED BY <2>1, <2>2, <1>t, <1>r
<1>4. WaitForFresh'
  BY DEF Sleep, WaitForFresh, rebuild_wait_edges
<1>5. HoldersCompatible'
  BY <1>t, <1>r DEF IInv, HoldersCompatible, Granted
<1>6. NoWaitCycle'
  <2> DEFINE e == rebuild_wait_edges(tables)
             f == rebuild_wait_edges(tables')
  <2> SUFFICES ASSUME NEW S \in SUBSET Txns, Knot(f, S)
               PROVE  FALSE
    BY DEF NoWaitCycle, rebuild_wait_edges, Knot, Holders
  <2>q. tables \in Queues /\ tables' \in Queues
    BY <1>t DEF IInv, Types, Queues
  <2>1. t \notin S
    <3>1. ~has_cycle(f, t)
      BY DEF Sleep
    <3> QED BY <3>1 DEF has_cycle
  <2>2. ASSUME NEW u \in Txns, u # t, NEW h \in f[u]
        PROVE  h \in e[u]
    <3>1. PICK l \in Keys : \E r, q \in tables'[l] :
                r.txn = u /\ ~r.granted /\ q.txn = h /\ q.granted
      BY <2>2, <2>q, Edge
    <3>2. \E r, q \in tables[l] : r.txn = u /\ ~r.granted /\ q.txn = h /\ q.granted
      BY <2>2, <3>1, <1>t, <1>r
    <3>3. h # u
      BY <2>2, <2>q, Edge
    <3> QED BY <3>2, <3>3, <2>q, Edge
  <2>3. Knot(e, S)
    BY <2>1, <2>2 DEF Knot
  <2> QED BY <2>3 DEF IInv, NoWaitCycle
<1>7. SleepersBlocked'
  <2> SUFFICES ASSUME NEW u \in Txns, call'[u].at = "asleep"
               PROVE  ~can_grant(tables'[call'[u].key], u, call'[u].mode)
    BY DEF SleepersBlocked, can_grant, Covers, Conflicts
  <2>1. CASE u = t
    BY <2>1, <1>c DEF Sleep
  <2>2. CASE u # t
    <3>1. call'[u] = call[u] /\ call[u] # Idle
      BY <2>2, <1>c DEF Idle
    <3>2. call[u].key \in Keys
      BY <3>1 DEF IInv, Types, Calls
    <3>3. /\ \A r \in tables[call[u].key] : r.granted => r \in tables'[call[u].key]
          /\ \A r \in tables'[call[u].key] : r.granted => r \in tables[call[u].key]
      BY <3>2, <1>t, <1>r
    <3>4. ~can_grant(tables[call[u].key], u, call[u].mode)
      BY <3>1 DEF IInv, SleepersBlocked
    <3> QED BY <3>1, <3>3, <3>4, SameGrants
  <2> QED BY <2>1, <2>2
<1> QED BY <1>1, <1>2, <1>3, <1>4, <1>5, <1>6, <1>7 DEF IInv

\* One pass through the loop of acquire keeps the invariant.
LEMMA LoopPassStep ==
  ASSUME IInv, NEW t \in Txns, NEW k \in Keys, NEW m \in Modes, NEW STATE tb,
         Queued(t, k, m, tb),
         Waiting(t) => k = call[t].key /\ m = call[t].mode,
         LoopPass(t, k, m, tb)
  PROVE  IInv'
<1>1. CASE can_grant(tb[k], t, m)
  BY <1>1, GrantStep DEF LoopPass
<1>2. CASE ~can_grant(tb[k], t, m) /\ has_cycle(rebuild_wait_edges(tb), t)
  BY <1>2, DeadlockStep DEF LoopPass
<1>3. CASE ~can_grant(tb[k], t, m) /\ ~has_cycle(rebuild_wait_edges(tb), t)
  BY <1>3, SleepStep DEF LoopPass
<1> QED BY <1>1, <1>2, <1>3

-----------------------------------------------------------------------------
(* The remaining steps.                                                    *)

\* release_all only removes requests, and it wakes every sleeper.
LEMMA ReleaseStep ==
  ASSUME IInv, NEW t \in Txns, release_all(t)
  PROVE  IInv'
<1>t. /\ tables' \in Queues
      /\ \A l \in Keys : \A r \in tables'[l] : r \in tables[l]
      /\ \A l \in Keys : \A r \in tables[l] : r.txn # t => r \in tables'[l]
  BY DEF release_all, IInv, Types, Queues
<1>o. \A l \in Keys : \A r \in tables'[l] : r.txn # t
  BY DEF release_all, IInv, NoOrphanRequest
<1>w. /\ call' \in [Txns -> Calls]
      /\ \A u \in Txns : /\ call'[u].at # "asleep"
                         /\ call'[u] = Idle <=> call[u] = Idle
                         /\ call[u] # Idle => /\ call'[u].key = call[u].key
                                              /\ call'[u].mode = call[u].mode
  BY WakeAllType DEF release_all, IInv, Types
<1>i. call[t] = Idle
  BY DEF release_all, Waiting
<1>1. Types'
  <2>1. wait_for' \in [Txns -> SUBSET Txns]
    BY <1>t, EdgesType DEF release_all
  <2>2. txn_tables' \in [Txns -> SUBSET Keys]
    BY DEF release_all, IInv, Types
  <2> QED BY <1>t, <1>w, <2>1, <2>2 DEF Types, Queues
<1>2. CallsQueued'
  <2> SUFFICES ASSUME NEW u \in Txns, call'[u] # Idle
               PROVE  Pending(u, call'[u].mode) \in tables'[call'[u].key]
    BY DEF CallsQueued, Waiting
  <2>1. u # t /\ call[u] # Idle /\ call'[u].key = call[u].key /\ call'[u].mode = call[u].mode
    BY <1>i, <1>w
  <2>2. call[u].key \in Keys /\ call[u].mode \in Modes
    BY <2>1 DEF IInv, Types, Calls
  <2>3. Pending(u, call[u].mode) \in tables[call[u].key]
    BY <2>1 DEF IInv, CallsQueued, Waiting
  <2> QED BY <2>1, <2>2, <2>3, <1>t, RequestType
<1>3. NoOrphanRequest'
  <2> SUFFICES ASSUME NEW u \in Txns, NEW l \in Keys, NEW r \in tables'[l], r.txn = u
               PROVE  \/ r.granted /\ l \in txn_tables'[u]
                      \/ /\ call'[u] # Idle
                         /\ call'[u].key = l
                         /\ r = Pending(u, call'[u].mode)
    BY DEF NoOrphanRequest, Waiting
  <2>1. u # t /\ txn_tables'[u] = txn_tables[u]
    BY <1>o DEF release_all, IInv, Types
  <2>2. \/ r.granted /\ l \in txn_tables[u]
        \/ call[u] # Idle /\ call[u].key = l /\ r = Pending(u, call[u].mode)
    BY <1>t DEF IInv, NoOrphanRequest, Waiting
  <2> QED BY <2>1, <2>2, <1>w
<1>4. WaitForFresh'
  BY DEF release_all, WaitForFresh, rebuild_wait_edges
<1>5. HoldersCompatible'
  BY <1>t DEF IInv, HoldersCompatible, Granted
<1>6. NoWaitCycle'
  <2> DEFINE e == rebuild_wait_edges(tables)
             f == rebuild_wait_edges(tables')
  <2> SUFFICES ASSUME NEW S \in SUBSET Txns, Knot(f, S)
               PROVE  FALSE
    BY DEF NoWaitCycle, rebuild_wait_edges, Knot, Holders
  <2>q. tables \in Queues /\ tables' \in Queues
    BY <1>t DEF IInv, Types, Queues
  <2>1. ASSUME NEW u \in Txns, NEW h \in f[u]
        PROVE  h \in e[u]
    BY <2>1, <2>q, <1>t, Edge
  <2>2. Knot(e, S)
    BY <2>1 DEF Knot
  <2> QED BY <2>2 DEF IInv, NoWaitCycle
<1>7. SleepersBlocked'
  BY <1>w DEF SleepersBlocked
<1> QED BY <1>1, <1>2, <1>3, <1>4, <1>5, <1>6, <1>7 DEF IInv

\* A step that leaves the queues alone, and changes no call except from asleep
\* to ready.
LEMMA QuietStep ==
  ASSUME IInv, UNCHANGED <<tables, wait_for>>,
         txn_tables' \in [Txns -> SUBSET Keys],
         \A u \in Txns : txn_tables[u] \subseteq txn_tables'[u],
         call' \in [Txns -> Calls],
         \A u \in Txns : /\ call'[u] = Idle <=> call[u] = Idle
                         /\ call'[u].at = "asleep" => call[u].at = "asleep"
                         /\ call[u] # Idle => /\ call'[u].key = call[u].key
                                              /\ call'[u].mode = call[u].mode
  PROVE  IInv'
<1>1. Types'
  BY DEF IInv, Types
<1>2. CallsQueued'
  BY DEF IInv, CallsQueued, Waiting
<1>3. NoOrphanRequest'
  <2> SUFFICES ASSUME NEW u \in Txns, NEW l \in Keys, NEW r \in tables[l], r.txn = u
               PROVE  \/ r.granted /\ l \in txn_tables'[u]
                      \/ /\ call'[u] # Idle
                         /\ call'[u].key = l
                         /\ r = Pending(u, call'[u].mode)
    BY DEF NoOrphanRequest, Waiting
  <2>1. \/ r.granted /\ l \in txn_tables[u]
        \/ call[u] # Idle /\ call[u].key = l /\ r = Pending(u, call[u].mode)
    BY DEF IInv, NoOrphanRequest, Waiting
  <2> QED BY <2>1
<1>4. WaitForFresh'
  BY DEF IInv, WaitForFresh, rebuild_wait_edges
<1>5. HoldersCompatible'
  BY DEF IInv, HoldersCompatible, Granted
<1>6. NoWaitCycle'
  BY DEF IInv, NoWaitCycle
<1>7. SleepersBlocked'
  <2> SUFFICES ASSUME NEW u \in Txns, call'[u].at = "asleep"
               PROVE  ~can_grant(tables[call'[u].key], u, call'[u].mode)
    BY DEF SleepersBlocked, can_grant, Covers, Conflicts
  <2>1. call[u].at = "asleep" /\ call[u] # Idle
    BY DEF Idle
  <2> QED BY <2>1 DEF IInv, SleepersBlocked
<1> QED BY <1>1, <1>2, <1>3, <1>4, <1>5, <1>6, <1>7 DEF IInv
-----------------------------------------------------------------------------
(* The theorems.                                                           *)

\* The empty lock manager satisfies the invariant.
LEMMA InitIInv == Init => IInv
<1> SUFFICES ASSUME Init PROVE IInv
  OBVIOUS
<1>1. Types /\ CallsQueued /\ NoOrphanRequest /\ HoldersCompatible /\ SleepersBlocked
  BY DEF Init, Types, CallsQueued, Waiting, NoOrphanRequest, HoldersCompatible,
         Granted, SleepersBlocked, Calls, Idle
<1>2. \A t \in Txns : rebuild_wait_edges(tables)[t] = {}
  BY Edge DEF Init, Queues
<1>3. WaitForFresh
  BY <1>2 DEF Init, WaitForFresh, rebuild_wait_edges
<1>4. NoWaitCycle
  BY <1>2 DEF NoWaitCycle, Knot
<1> QED BY <1>1, <1>3, <1>4 DEF IInv

\* Every step of acquire, release_all or a spurious wakeup keeps the invariant.
LEMMA NextIInv == IInv /\ [Next]_lmVars => IInv'
<1> SUFFICES ASSUME IInv, [Next]_lmVars PROVE IInv'
  OBVIOUS
<1>1. ASSUME NEW t \in Txns, NEW k \in Keys, NEW m \in Modes, acquire(t, k, m)
      PROVE  IInv'
  <2>1. CASE \E r \in tables[k] : Covers(r, t, m)
    <3>1. /\ UNCHANGED <<tables, wait_for, call>>
          /\ txn_tables' = [txn_tables EXCEPT ![t] = @ \cup {k}]
      BY <1>1, <2>1 DEF acquire
    <3>2. /\ txn_tables' \in [Txns -> SUBSET Keys]
          /\ \A u \in Txns : txn_tables[u] \subseteq txn_tables'[u]
      BY <3>1 DEF IInv, Types
    <3>3. call' \in [Txns -> Calls]
      BY <3>1 DEF IInv, Types
    <3> QED BY <3>1, <3>2, <3>3, QuietStep
  <2>2. CASE ~ \E r \in tables[k] : Covers(r, t, m)
    <3>1. ~Waiting(t) /\ LoopPass(t, k, m, Enqueue(t, k, m))
      BY <1>1, <2>2 DEF acquire
    <3>2. Queued(t, k, m, Enqueue(t, k, m))
      BY <3>1, Enqueued
    <3> QED BY <3>1, <3>2, LoopPassStep
  <2> QED BY <2>1, <2>2
<1>2. ASSUME NEW t \in Txns, acquire_resume(t)
      PROVE  IInv'
  BY <1>2, Resumed, LoopPassStep DEF acquire_resume
<1>3. ASSUME NEW t \in Txns, SpuriousWakeup(t)
      PROVE  IInv'
  <2>1. /\ UNCHANGED <<tables, wait_for, txn_tables>>
        /\ call' = [call EXCEPT ![t] = Call("ready", call[t].key, call[t].mode)]
        /\ call[t].at = "asleep" /\ call[t] # Idle
    BY <1>3 DEF SpuriousWakeup, Idle
  <2>2. call[t].key \in Keys /\ call[t].mode \in Modes
    BY <2>1 DEF IInv, Types, Calls
  <2>3. call' \in [Txns -> Calls]
    BY <2>1, <2>2 DEF IInv, Types, Call, Calls
  <2>4. \A u \in Txns : /\ call'[u] = Idle <=> call[u] = Idle
                        /\ call'[u].at = "asleep" => call[u].at = "asleep"
                        /\ call[u] # Idle => /\ call'[u].key = call[u].key
                                             /\ call'[u].mode = call[u].mode
    BY <2>1 DEF IInv, Types, Call, Idle
  <2>5. /\ txn_tables' \in [Txns -> SUBSET Keys]
        /\ \A u \in Txns : txn_tables[u] \subseteq txn_tables'[u]
    BY <2>1 DEF IInv, Types
  <2> QED BY <2>1, <2>3, <2>4, <2>5, QuietStep
<1>4. ASSUME NEW t \in Txns, release_all(t)
      PROVE  IInv'
  BY <1>4, ReleaseStep
<1>5. CASE UNCHANGED lmVars
  <2>1. /\ UNCHANGED <<tables, wait_for, txn_tables, call>>
        /\ txn_tables' \in [Txns -> SUBSET Keys]
        /\ call' \in [Txns -> Calls]
    BY <1>5 DEF lmVars, IInv, Types
  <2> QED BY <2>1, QuietStep
<1> QED BY <1>1, <1>2, <1>3, <1>4, <1>5 DEF Next, Step

\* Every behaviour of the lock manager satisfies the inductive invariant.
THEOREM Invariance == Spec => []IInv
BY InitIInv, NextIInv, PTL DEF Spec

\* Type correctness of the lock manager's four maps, and no transaction keeps
\* an edge in the wait-for graph once its call of acquire is over.
THEOREM TypeCorrect == Spec => []TypeOK
<1>1. ASSUME IInv, NEW t \in Txns, NEW h \in wait_for[t]
      PROVE  Waiting(t)
  <2>1. tables \in Queues
    BY <1>1 DEF IInv, Types, Queues
  <2>2. h \in rebuild_wait_edges(tables)[t]
    BY <1>1 DEF IInv, WaitForFresh
  <2>3. PICK k \in Keys : \E r \in tables[k] : r.txn = t /\ ~r.granted
    BY <2>1, <2>2, Edge
  <2> QED BY <1>1, <2>3 DEF IInv, NoOrphanRequest
<1>2. IInv => TypeOK
  BY <1>1 DEF IInv, TypeOK
<1> QED BY <1>2, Invariance, PTL

\* acquire and release_all never let two transactions hold a key in
\* conflicting modes.
THEOREM Exclusion == Spec => []HoldersCompatible
<1>1. IInv => HoldersCompatible
  BY DEF IInv
<1> QED BY <1>1, Invariance, PTL

\* The search before each wait leaves no deadlock between lock requests.
THEOREM DeadlockFreedom == Spec => []NoWaitCycle
<1>1. IInv => NoWaitCycle
  BY DEF IInv
<1> QED BY <1>1, Invariance, PTL

\* release_all leaves nothing behind.
THEOREM NoOrphans == Spec => []NoOrphanRequest
<1>1. IInv => NoOrphanRequest
  BY DEF IInv
<1> QED BY <1>1, Invariance, PTL

\* No call of acquire stays in cv_.wait while its lock is free.
THEOREM Wakeups == Spec => []NoLostWakeup
<1>1. ASSUME IInv, NEW t \in Txns, call[t].at = "asleep"
      PROVE  /\ ~can_grant(tables[call[t].key], t, call[t].mode)
             /\ wait_for[t] # {}
  <2>1. ~can_grant(tables[call[t].key], t, call[t].mode)
    BY <1>1 DEF IInv, SleepersBlocked
  <2>2. call[t] # Idle /\ call[t].key \in Keys /\ call[t].mode \in Modes
    BY <1>1 DEF IInv, Types, Calls, Idle
  <2>3. PICK q \in tables[call[t].key] : q.granted /\ q.txn # t
    BY <2>1 DEF can_grant, Conflicts
  <2>4. Pending(t, call[t].mode) \in tables[call[t].key]
    BY <1>1, <2>2 DEF IInv, CallsQueued, Waiting
  <2>5. q.txn \in rebuild_wait_edges(tables)[t]
    <3>1. tables \in Queues
      BY <1>1 DEF IInv, Types, Queues
    <3>2. Pending(t, call[t].mode).txn = t /\ ~Pending(t, call[t].mode).granted
      BY <2>2, RequestType
    <3> QED BY <2>2, <2>3, <2>4, <3>1, <3>2, Edge
  <2> QED BY <1>1, <2>1, <2>5 DEF IInv, WaitForFresh
<1>2. IInv => NoLostWakeup
  BY <1>1 DEF NoLostWakeup
<1> QED BY <1>2, Invariance, PTL

\* A transaction that sleeps in acquire leaves it with its lock and never with
\* a deadlock exception.
THEOREM VictimClosesCycle == Spec => SleeperIsNeverVictim
<1> DEFINE Kept == \A t \in Txns : Waiting(t) /\ ~Waiting(t)' =>
                     \E r \in tables'[call[t].key] : Covers(r, t, call[t].mode)
<1>1. ASSUME IInv, NEW u \in Txns, Step(u), NEW t \in Txns, Waiting(t), ~Waiting(t)'
      PROVE  \E r \in tables'[call[t].key] : Covers(r, t, call[t].mode)
  <2>1. call[t] # Idle /\ call'[t] = Idle /\ call \in [Txns -> Calls]
    BY <1>1 DEF Waiting, IInv, Types
  <2>2. \A c \in [Txns -> Calls] : WakeAll(c)[t] = Idle <=> c[t] = Idle
    BY WakeAllType
  <2>3. u = t
    <3> SUFFICES ASSUME u # t PROVE FALSE
      OBVIOUS
    <3>1. [call EXCEPT ![u] = Idle] \in [Txns -> Calls]
      BY <2>1 DEF Calls
    <3>2. WakeAll([call EXCEPT ![u] = Idle])[t] # Idle /\ WakeAll(call)[t] # Idle
      BY <2>1, <2>2, <3>1
    <3>3. ASSUME NEW k, NEW m, NEW tb, LoopPass(u, k, m, tb)
          PROVE  FALSE
      BY <2>1, <3>2, <3>3 DEF LoopPass, Grant, ThrowDeadlock, Sleep
    <3>4. CASE \E k \in Keys, m \in Modes : acquire(u, k, m)
      BY <2>1, <3>3, <3>4 DEF acquire
    <3>5. CASE acquire_resume(u)
      BY <3>3, <3>5 DEF acquire_resume
    <3>6. CASE SpuriousWakeup(u)
      BY <2>1, <3>6 DEF SpuriousWakeup
    <3>7. CASE release_all(u)
      BY <2>1, <3>2, <3>7 DEF release_all
    <3> QED BY <1>1, <3>4, <3>5, <3>6, <3>7 DEF Step
  <2>4. ~SpuriousWakeup(t)
    BY <2>1 DEF SpuriousWakeup, Call, Idle
  <2>5. acquire_resume(t)
    BY <1>1, <2>3, <2>4 DEF Step, acquire, release_all
  <2> DEFINE k == call[t].key
             m == call[t].mode
  <2>6. k \in Keys /\ m \in Modes /\ Queued(t, k, m, tables)
    BY <1>1, <2>5, Resumed DEF acquire_resume
  <2>7. LoopPass(t, k, m, tables)
    BY <2>5 DEF acquire_resume
  <2>8. ~has_cycle(rebuild_wait_edges(tables), t)
    BY <1>1 DEF IInv, NoWaitCycle, has_cycle
  <2>9. ~Sleep(t, k, m, tables)
    BY <2>1 DEF Sleep, Call, Idle
  <2>10. Grant(t, k, m, tables)
    BY <2>7, <2>8, <2>9 DEF LoopPass
  <2>11. Holding(t, m) \in tables'[k]
    BY <2>6, <2>10 DEF Grant, Queued, Queues
  <2>12. Covers(Holding(t, m), t, m)
    BY <2>6, RequestType DEF Covers, Modes
  <2> QED BY <2>11, <2>12
<1>2. ASSUME IInv, Next
      PROVE  Kept
  BY <1>1, <1>2 DEF Next
<1>3. IInv /\ [Next]_lmVars => [Kept]_lmVars
  BY <1>2
<1> QED BY <1>3, Invariance, PTL DEF Spec, SleeperIsNeverVictim
-----------------------------------------------------------------------------
(* The queues implement the abstract lock table.                           *)

\* held of the abstract lock table: the refinement mapping.
HeldPairs == [k \in Keys |-> {<<r.txn, r.mode>> : r \in Granted(k)}]

\* A pass through the loop obtains the lock or leaves the holders alone.
LEMMA LoopPassRefines ==
  ASSUME IInv, NEW t \in Txns, NEW k \in Keys, NEW m \in Modes, NEW STATE tb,
         Queued(t, k, m, tb), LoopPass(t, k, m, tb)
  PROVE  (\E l \in Keys, n \in Modes : Locks!Obtain(t, l, n)) \/ UNCHANGED HeldPairs
<1>r. /\ Pending(t, m) \in Requests /\ ~Pending(t, m).granted
      /\ Holding(t, m).txn = t /\ Holding(t, m).mode = m /\ Holding(t, m).granted
  BY RequestType
<1>b. \A l \in Keys : {r \in tb[l] : r.granted} = Granted(l)
  BY <1>r DEF Queued, Granted
<1>1. CASE can_grant(tb[k], t, m)
  <2>1. tables' = [tb EXCEPT ![k] = (@ \ {Pending(t, m)}) \cup {Holding(t, m)}]
    BY <1>1 DEF LoopPass, Grant
  <2>2. \A l \in Keys : {r \in tables'[l] : r.granted}
          = IF l = k THEN Granted(l) \cup {Holding(t, m)} ELSE Granted(l)
    BY <2>1, <1>b, <1>r DEF Queued, Queues
  <2>3. HeldPairs' = [HeldPairs EXCEPT ![k] = @ \cup {<<t, m>>}]
    <3>1. HeldPairs' = [l \in Keys |-> {<<r.txn, r.mode>> : r \in {q \in tables'[l] : q.granted}}]
      BY DEF HeldPairs, Granted
    <3>2. HeldPairs'[k] = HeldPairs[k] \cup {<<t, m>>}
      <4>1. HeldPairs'[k] = {<<r.txn, r.mode>> : r \in Granted(k) \cup {Holding(t, m)}}
        BY <2>2, <3>1
      <4>2. HeldPairs[k] = {<<r.txn, r.mode>> : r \in Granted(k)}
        BY DEF HeldPairs
      <4> QED BY <4>1, <4>2, <1>r
    <3>3. \A l \in Keys \ {k} : HeldPairs'[l] = HeldPairs[l]
      BY <2>2, <3>1 DEF HeldPairs
    <3>4. HeldPairs = [l \in Keys |-> HeldPairs[l]] /\ HeldPairs' = [l \in Keys |-> HeldPairs'[l]]
      BY <3>1 DEF HeldPairs
    <3> QED BY <3>2, <3>3, <3>4
  <2>4. ASSUME NEW q \in Granted(k), q.txn # t
        PROVE  q.mode # Exclusive /\ m # Exclusive
    <3>1. q \in tb[k] /\ q.granted
      BY <2>4, <1>b DEF Granted
    <3>2. CASE \A r \in tb[k] : ~Conflicts(r, t, m)
      BY <2>4, <3>1, <3>2 DEF Conflicts
    <3>3. CASE \E r \in tb[k] : Covers(r, t, m)
      <4>1. PICK r \in Granted(k) : Covers(r, t, m)
        BY <3>3, <1>b DEF Covers
      <4>2. r.mode = Shared /\ q.mode = Shared
        BY <4>1, <2>4 DEF IInv, HoldersCompatible, Covers
      <4> QED BY <4>1, <4>2 DEF Covers, Shared, Exclusive
    <3> QED BY <1>1, <3>2, <3>3 DEF can_grant
  <2>5. \A h \in HeldPairs[k] : h[1] # t => ~Locks!Conflict(h[2], m)
    BY <2>4 DEF HeldPairs, Locks!Conflict, Locks!Exclusive, Exclusive
  <2> QED BY <2>3, <2>5 DEF Locks!Obtain, HeldPairs
<1>2. CASE ~can_grant(tb[k], t, m)
  <2>1. \A l \in Keys : {r \in tables'[l] : r.granted} = {r \in tb[l] : r.granted}
    <3>1. \/ tables' = [tb EXCEPT ![k] = {r \in @ : r.txn # t \/ r.granted}]
          \/ tables' = tb
      BY <1>2 DEF LoopPass, ThrowDeadlock, Sleep
    <3>2. tb \in Queues
      BY DEF Queued
    <3>3. CASE tables' = [tb EXCEPT ![k] = {r \in @ : r.txn # t \/ r.granted}]
      <4>1. \A l \in Keys : tables'[l]
              = IF l = k THEN {r \in tb[l] : r.txn # t \/ r.granted} ELSE tb[l]
        BY <3>2, <3>3 DEF Queues
      <4> QED BY <4>1
    <3> QED BY <3>1, <3>3
  <2> QED BY <2>1, <1>b DEF HeldPairs, Granted
<1> QED BY <1>1, <1>2

\* What acquire and release_all do to the granted requests is what the abstract
\* lock table allows, and nothing else changes them.
THEOREM Refinement == Spec => LocksSpec
<1>1. Init => Locks!Init
  BY DEF Init, Locks!Init, Granted
<1>2. ASSUME IInv, [Next]_lmVars
      PROVE  [Locks!Next]_HeldPairs
  <2>1. ASSUME NEW t \in Txns, NEW k \in Keys, NEW m \in Modes, acquire(t, k, m)
        PROVE  (\E l \in Keys, n \in Modes : Locks!Obtain(t, l, n)) \/ UNCHANGED HeldPairs
    <3>1. CASE \E r \in tables[k] : Covers(r, t, m)
      BY <2>1, <3>1 DEF acquire, HeldPairs, Granted
    <3>2. CASE ~ \E r \in tables[k] : Covers(r, t, m)
      <4>1. ~Waiting(t) /\ LoopPass(t, k, m, Enqueue(t, k, m))
        BY <2>1, <3>2 DEF acquire
      <4>2. Queued(t, k, m, Enqueue(t, k, m))
        BY <1>2, <4>1, Enqueued
      <4> QED BY <1>2, <4>1, <4>2, LoopPassRefines
    <3> QED BY <3>1, <3>2
  <2>2. ASSUME NEW t \in Txns, acquire_resume(t)
        PROVE  (\E l \in Keys, n \in Modes : Locks!Obtain(t, l, n)) \/ UNCHANGED HeldPairs
    BY <1>2, <2>2, Resumed, LoopPassRefines DEF acquire_resume
  <2>3. ASSUME NEW t \in Txns, release_all(t)
        PROVE  Locks!ReleaseAll(t)
    <3>1. \A k \in Keys : {r \in tables'[k] : r.granted} = {r \in Granted(k) : r.txn # t}
      BY <1>2, <2>3 DEF release_all, Granted, IInv, NoOrphanRequest
    <3>2. HeldPairs' = [k \in Keys |-> {h \in HeldPairs[k] : h[1] # t}]
      BY <3>1 DEF HeldPairs, Granted
    <3> QED BY <3>2 DEF Locks!ReleaseAll, HeldPairs
  <2>4. CASE (\E t \in Txns : SpuriousWakeup(t)) \/ UNCHANGED lmVars
    BY <2>4 DEF SpuriousWakeup, lmVars, HeldPairs, Granted
  <2>5. Modes = Locks!Modes
    BY DEF Modes, Shared, Exclusive, Locks!Modes, Locks!Shared, Locks!Exclusive
  <2> QED
    BY <1>2, <2>1, <2>2, <2>3, <2>4, <2>5 DEF Next, Step, Locks!Next
<1>3. IInv /\ [Next]_lmVars => [Locks!Next]_HeldPairs
  BY <1>2
<1> QED
  BY <1>1, <1>3, Invariance, PTL DEF Spec, LocksSpec, Locks!Spec, HeldPairs

=============================================================================
