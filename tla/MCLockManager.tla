--------------------------- MODULE MCLockManager ---------------------------
(***************************************************************************)
(* An instance of LockManager for TLC.  With three owners and three keys   *)
(* there are upgrades that wait, deadlocks of two and of three, and        *)
(* bystanders.                                                             *)
(***************************************************************************)
EXTENDS LockManager

\* has_cycle as the code searches it: the set of nodes on the current path
\* (visiting), the set of finished nodes (visited), successors in any order.
RECURSIVE Search(_, _, _, _), SearchAll(_, _, _, _)
Search(edges, node, visiting, visited) ==
  IF node \in visiting THEN [found |-> TRUE, visited |-> visited]
  ELSE IF node \in visited THEN [found |-> FALSE, visited |-> visited]
  ELSE LET below == SearchAll(edges, edges[node], visiting \cup {node}, visited)
       IN  [found |-> below.found, visited |-> below.visited \cup {node}]
SearchAll(edges, todo, visiting, visited) ==
  IF todo = {} THEN [found |-> FALSE, visited |-> visited]
  ELSE LET next == CHOOSE n \in todo : TRUE
           below == Search(edges, next, visiting, visited)
       IN  IF below.found THEN below
           ELSE SearchAll(edges, todo \ {next}, visiting, below.visited)

\* On every graph over Txns the search and has_cycle give the same answer.
ASSUME SearchIsHasCycle ==
  \A edges \in [Txns -> SUBSET Txns], start \in Txns :
    Search(edges, start, {}, {}).found = has_cycle(edges, start)
=============================================================================
