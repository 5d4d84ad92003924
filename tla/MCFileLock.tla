----------------------------- MODULE MCFileLock -----------------------------
(***************************************************************************)
(* Instances of FileLock: two calls in one process and a third in another  *)
(* process, which may die, all of one user.  That is the least with which  *)
(* two callers reclaim the lock of a third that is dead.                   *)
(***************************************************************************)
EXTENDS FileLock, TLC

CONSTANTS c1, c2, c3, p1, p2, alice

MCCallers == {c1, c2, c3}
MCPids == {p1, p2}
MCPidOf == (c1 :> p1) @@ (c2 :> p1) @@ (c3 :> p2)
MCUserOf == [p \in MCPids |-> alice]
MCMortalPids == {p2}

\* c1 and c2 are interchangeable, but AcquireReturns is a liveness property,
\* which symmetry reduction would not check soundly: none is declared.
=============================================================================
