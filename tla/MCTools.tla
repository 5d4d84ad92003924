------------------------------ MODULE MCTools ------------------------------
(***************************************************************************)
(* The tools that share no variable, checked in one run: a behaviour is    *)
(* one of the component in focus, the others stay in their initial states. *)
(* Every property of a component is then checked on all of its behaviours. *)
(***************************************************************************)
EXTENDS GitWorktreeFlock, WorktreeRemoval, EpicMembership, TaskCheckpoint, StoreRepair, TLC

VARIABLE focus

toolVars == <<focus, flockVars, removalVars, epicVars, checkpointVars, repairVars>>

Init == /\ focus \in {"flock", "removal", "epics", "checkpoint", "repair"}
        /\ FlockInit /\ RemovalInit /\ EpicInit /\ CheckpointInit
        /\ IF focus = "repair" THEN RepairInit
           ELSE RepairInit /\ changeFile.form = "sound"

Next == /\ UNCHANGED focus
        /\ \/ /\ focus = "flock" /\ FlockNext
              /\ UNCHANGED <<removalVars, epicVars, checkpointVars, repairVars>>
           \/ /\ focus = "removal" /\ RemovalNext
              /\ UNCHANGED <<flockVars, epicVars, checkpointVars, repairVars>>
           \/ /\ focus = "epics" /\ EpicNext
              /\ UNCHANGED <<flockVars, removalVars, checkpointVars, repairVars>>
           \/ /\ focus = "checkpoint" /\ CheckpointNext
              /\ UNCHANGED <<flockVars, removalVars, epicVars, repairVars>>
           \/ /\ focus = "repair" /\ RepairNext
              /\ UNCHANGED <<flockVars, removalVars, epicVars, checkpointVars>>

Spec == Init /\ [][Next]_toolVars

\* The type invariants of all components.
ToolsTypeOK ==
  FlockTypeOK /\ RemovalTypeOK /\ EpicTypeOK /\ CheckpointTypeOK /\ RepairTypeOK

\* Sessions are interchangeable, and so are changes and tasks.  These two occur in
\* different components, so the same model values stand for both.
Symmetry == Permutations(Sessions) \cup Permutations(Changes \cup Tasks)
=============================================================================
