----------------------------- MODULE LockTable -----------------------------
(***************************************************************************)
(* What the lock manager promises, with no queue, no wait-for graph and no *)
(* condition variable: a transaction obtains a lock that no lock of        *)
(* another transaction conflicts with, and gives up all of its locks       *)
(* together.                                                               *)
(***************************************************************************)
CONSTANTS Txns, Keys

VARIABLE held       \* held[k]: the <<transaction, mode>> pairs that hold k

Shared == "Shared"
Exclusive == "Exclusive"
Modes == {Shared, Exclusive}

Conflict(m1, m2) == m1 = Exclusive \/ m2 = Exclusive

Init == held = [k \in Keys |-> {}]

Obtain(t, k, m) ==
  /\ \A h \in held[k] : h[1] # t => ~Conflict(h[2], m)
  /\ held' = [held EXCEPT ![k] = @ \cup {<<t, m>>}]

ReleaseAll(t) ==
  held' = [k \in Keys |-> {h \in held[k] : h[1] # t}]

Next == \E t \in Txns :
          \/ ReleaseAll(t)
          \/ \E k \in Keys, m \in Modes : Obtain(t, k, m)

Spec == Init /\ [][Next]_held
=============================================================================
