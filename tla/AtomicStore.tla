---------------------------- MODULE AtomicStore ----------------------------
(***************************************************************************)
(* What the engine promises to clients whose transactions do not overlap:  *)
(* a transaction that starts from the rows of its predecessors, sees its   *)
(* own changes and takes effect, in memory and on disk, as a whole or not  *)
(* at all; and statements outside a transaction that are on disk before    *)
(* the next one starts.  A statement that fails may have had an effect on  *)
(* some of its rows, which no one undoes.                                  *)
(***************************************************************************)
EXTENDS Integers

CONSTANTS Keys,      \* primary keys
          Vals       \* values of the other columns

VARIABLES durable,   \* the rows that survive a crash
          latest,    \* the rows that a reader outside a transaction sees
          busy,      \* whether a statement has yet to write latest to disk
          open,      \* whether a transaction is open
          work       \* the rows that the open transaction sees

storeVars == <<durable, latest, busy, open, work>>

KeysOf(S) == {r[1] : r \in S}

Insert(S, K, v) == S \cup {<<k, v>> : k \in K}
Update(S, K, v) == {<<r[1], IF r[1] \in K THEN v ELSE r[2]>> : r \in S}
Move(S, r, k, v) == (S \ {r}) \cup {<<k, v>>}
Delete(S, K)    == {r \in S : r[1] \notin K}

\* The possible results of one statement on the rows S, whole or in part.
Effects(S) ==
  {Insert(S, K, v) : K \in SUBSET (Keys \ KeysOf(S)), v \in Vals}
    \cup {Update(S, K, v) : K \in SUBSET Keys, v \in Vals}
    \cup {Move(S, r, k, v) : r \in S, k \in Keys \ KeysOf(S), v \in Vals}
    \cup {Delete(S, K) : K \in SUBSET Keys}

Init == durable = {} /\ latest = {} /\ busy = FALSE /\ open = FALSE /\ work = {}

Begin ==
  /\ ~open /\ ~busy
  /\ open' = TRUE
  /\ work' = latest
  /\ UNCHANGED <<durable, latest, busy>>

\* In a transaction, also a statement that fails.
Statement ==
  /\ open
  /\ work' \in Effects(work)
  /\ UNCHANGED <<durable, latest, busy, open>>

Commit ==
  /\ open
  /\ latest' = work /\ durable' = work
  /\ open' = FALSE /\ work' = {}
  /\ UNCHANGED busy

Rollback ==
  /\ open
  /\ open' = FALSE /\ work' = {}
  /\ UNCHANGED <<durable, latest, busy>>

\* Outside a transaction: a statement that succeeds is saved, one that fails is
\* not.
Autocommit ==
  /\ ~open /\ ~busy
  /\ latest' \in Effects(latest)
  /\ busy' \in BOOLEAN
  /\ UNCHANGED <<durable, open, work>>

Save ==
  /\ busy
  /\ durable' = latest
  /\ busy' = FALSE
  /\ UNCHANGED <<latest, open, work>>

Crash ==
  /\ latest' = durable
  /\ busy' = FALSE /\ open' = FALSE /\ work' = {}
  /\ UNCHANGED durable

Next == Begin \/ Statement \/ Commit \/ Rollback \/ Autocommit \/ Save \/ Crash

Spec == Init /\ [][Next]_storeVars
=============================================================================
