------------------------------ MODULE MCEngine ------------------------------
(***************************************************************************)
(* Engine for TLC.  Sessions and primary keys are interchangeable.         *)
(***************************************************************************)
EXTENDS Engine, TLC

Symmetry == Permutations(Sessions) \cup Permutations(PrimaryKeys)

\* The file is read by Restart only: without it, states that differ in the
\* file behave alike.
WithoutDisk == <<tmVars, rows, sessionVars, lockVars, active_session, stmtVars>>
=============================================================================
