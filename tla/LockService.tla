---------------------------- MODULE LockService ----------------------------
(***************************************************************************)
(* What the callers of acquireFileLock (utils/fs.ts) are promised: at most *)
(* one of them is inside the section the lock file guards.                 *)
(*                                                                         *)
(* The promise can be lost: once the lock has been compromised (a lock     *)
(* file that belonged to somebody else was unlinked) callers may enter     *)
(* while others are inside.  FileLock shows exactly which step compromises *)
(* it; ChangeProjection uses the service with compromised = FALSE.         *)
(***************************************************************************)
CONSTANT Callers

VARIABLES holders,      \* the callers inside the guarded section
          compromised   \* the lock no longer protects the section

vars == <<holders, compromised>>

Init == holders = {} /\ compromised = FALSE

\* A caller enters an empty section, or any section of a compromised lock.
Enter(c) == /\ c \notin holders
            /\ holders = {} \/ compromised
            /\ holders' = holders \cup {c}
            /\ compromised' = compromised

\* Callers leave: one that releases, or all those of a process that died.
Leave(C) == /\ C # {}
            /\ C \subseteq holders
            /\ holders' = holders \ C
            /\ compromised' = compromised

Compromise == /\ compromised' = TRUE
              /\ holders' = holders

Next == \/ \E c \in Callers : Enter(c)
        \/ \E C \in SUBSET Callers : Leave(C)
        \/ Compromise

Spec == Init /\ [][Next]_vars
=============================================================================
