----------------------------- MODULE StoreRepair -----------------------------
(***************************************************************************)
(* The repair of one change file that cannot be read: the quarantine tool  *)
(* (tools/change-projection-quarantine.ts) and the reconcile run           *)
(* (storage/reconcile-apply.ts with its executors for retired enums and    *)
(* for quarantined records), beside the transactions of ordinary writers   *)
(* and the store's own writers, which load a change and save the whole of  *)
(* it later without the lock of the file (persistChangeProjection).        *)
(*                                                                         *)
(* A content is a revision and what a reader makes of it: "sound";         *)
(* "retired", refused but mapped to a sound one by replacing enum values;  *)
(* "mixed", refused for something no mapping repairs; "broken", too large  *)
(* or no JSON.  A quarantined copy has a directory of its own, so none     *)
(* overwrites another; the directory of the change stays, so its id is not *)
(* used again.  A receipt is not modelled, nor a resumed run: it skips     *)
(* what the resumed one has a receipt for.                                 *)
(***************************************************************************)
EXTENDS ToolSessions

CONSTANTS
  MaxRevision,   \* bound on the revisions of the change
  MaxSaves       \* bound on the saves without the lock

ASSUME RevisionBound == MaxRevision \in Nat /\ MaxSaves \in Nat

Forms == {"sound", "retired", "mixed", "broken"}
Contents == [rev : 0 .. MaxRevision, form : Forms]
ASSUME NoneIsNoContent == None \notin [rev : Nat, form : Forms]

Normalized(c) == [c EXCEPT !.form = "sound"]

RepairPlaces == {"idle", "diagnosed", "diagnose", "move", "audit", "apply", "drift", "normalize",
                 "migrate", "fallback", "restore", "lock", "check", "write", "clean"}

VARIABLES
  changeFile,    \* the change file, or None
  copies,        \* its copies in quarantine
  before,        \* contents saved as before-states
  newest,        \* history: the revision written last
  writers,       \* contents the store's own writers have loaded and may still save
  saves,         \* number of their saves so far
  intruded,      \* history: saved without the lock since its holder last looked at the file
  clobbered,     \* history: a rollback or a restore has overwritten a file so saved
  fileLock,      \* holder of the lock of the change file
  reconcileLock,
  repairPc,      \* where a session is
  held,          \* the content a session has read
  reason,        \* the form it has diagnosed
  planned,       \* the records of the plan it is to apply
  auto           \* whether its quarantine is a step of a reconcile run

repairVars == <<changeFile, copies, before, newest, writers, saves, intruded, clobbered,
                fileLock, reconcileLock, repairPc, held, reason, planned, auto>>
readVars == <<held, reason, planned, auto>>
writerVars == <<writers, saves, intruded, clobbered>>

\* Records of the plan that name the change: its file with retired values or with artifact
\* metadata to migrate, and its copies.
Records == {"drift", "metadata", "quarantined"}

RepairTypeOK ==
  /\ changeFile \in Contents \cup {None}
  /\ copies \subseteq Contents /\ before \subseteq Contents
  /\ newest \in 0 .. MaxRevision
  /\ writers \subseteq Contents /\ saves \in 0 .. MaxSaves
  /\ intruded \in BOOLEAN /\ clobbered \in BOOLEAN
  /\ {fileLock, reconcileLock} \subseteq Sessions \cup {None}
  /\ repairPc \in [Sessions -> RepairPlaces]
  /\ held \in [Sessions -> Contents \cup {None}]
  /\ reason \in [Sessions -> {"none", "schema_error", "corrupt"}]
  /\ planned \in [Sessions -> SUBSET Records]
  /\ auto \in [Sessions -> BOOLEAN]

RepairInit ==
  /\ \E form \in Forms : changeFile = [rev |-> 0, form |-> form]
  /\ copies = {} /\ before = {}
  /\ newest = 0
  /\ writers = {} /\ saves = 0 /\ intruded = FALSE /\ clobbered = FALSE
  /\ fileLock = None /\ reconcileLock = None
  /\ repairPc = [s \in Sessions |-> "idle"]
  /\ held = [s \in Sessions |-> None]
  /\ reason = [s \in Sessions |-> "none"]
  /\ planned = [s \in Sessions |-> {}]
  /\ auto = [s \in Sessions |-> FALSE]

In(s, place) == repairPc[s] = place
Move(s, place) == repairPc' = [repairPc EXCEPT ![s] = place]

\* diagnoseProjection, of a file that is there.
Diagnosis(c) == IF c.form = "sound" THEN "none"
                ELSE IF c.form = "broken" THEN "corrupt" ELSE "schema_error"

-----------------------------------------------------------------------------
\* A transaction on a file that reads; a document may grow beyond the limit of readers.
CommitFile ==
  /\ changeFile # None /\ changeFile.form = "sound" /\ fileLock = None
  /\ changeFile.rev < MaxRevision
  /\ \E form \in {"sound", "broken"} : changeFile' = [rev |-> changeFile.rev + 1, form |-> form]
  /\ newest' = changeFile.rev + 1

CommitChange ==
  /\ CommitFile
  /\ UNCHANGED <<copies, before, writerVars, fileLock, reconcileLock, repairPc, readVars>>

\* A writer of the store's own loads the change: close, tasks.update, setEpicMembership ...
LoadWhole ==
  /\ changeFile # None /\ changeFile.form = "sound"
  /\ writers' = writers \cup {changeFile}
  /\ UNCHANGED <<changeFile, copies, before, newest, saves, intruded, clobbered, fileLock,
                 reconcileLock, repairPc, readVars>>

\* ... and saves all of it at its revision, whoever holds the lock and whether or not there
\* is still a file.
SaveWhole ==
  /\ saves < MaxSaves /\ saves' = saves + 1
  /\ \E c \in writers, form \in {"sound", "broken"} :
       changeFile' = [rev |-> c.rev, form |-> form] /\ newest' = c.rev
  /\ intruded' = TRUE
  /\ UNCHANGED <<copies, before, writers, clobbered, fileLock, reconcileLock, repairPc, readVars>>

-----------------------------------------------------------------------------
\* executeQuarantine: the diagnosis without the lock, from the tool ...
BeginQuarantine(s) ==
  /\ In(s, "idle")
  /\ changeFile # None /\ Diagnosis(changeFile) # "none"
  /\ reason' = [reason EXCEPT ![s] = Diagnosis(changeFile)]
  /\ auto' = [auto EXCEPT ![s] = FALSE]
  /\ Move(s, "diagnosed")
  /\ UNCHANGED <<changeFile, copies, before, newest, writerVars, fileLock, reconcileLock, held, planned>>

\* After a quarantine a reconcile run goes on with its next record.
NextPlace(s, place) == IF auto[s] THEN place ELSE "idle"

\* ... the lock, for which it waits ten seconds ...
LockForMove(s) ==
  /\ In(s, "diagnosed")
  /\ IF fileLock = None THEN fileLock' = s /\ Move(s, "diagnose")
     ELSE UNCHANGED fileLock /\ Move(s, NextPlace(s, "restore"))
  /\ UNCHANGED <<changeFile, copies, before, newest, writerVars, reconcileLock, readVars>>

Unlocked(s, place) == fileLock' = None /\ Move(s, NextPlace(s, place))

\* Bug: what the diagnosis found is moved without another look.
DiagnoseAgainNot(s) ==
  /\ In(s, "diagnose")
  /\ Move(s, "move") /\ UNCHANGED fileLock
  /\ intruded' = FALSE
  /\ UNCHANGED <<changeFile, copies, before, newest, writers, saves, clobbered, reconcileLock, readVars>>

\* ... and the same diagnosis again, or nothing is moved.
DiagnoseAgain(s) ==
  /\ In(s, "diagnose")
  /\ IF changeFile # None /\ Diagnosis(changeFile) = reason[s]
     THEN Move(s, "move") /\ intruded' = FALSE /\ UNCHANGED fileLock
     ELSE Unlocked(s, "restore") /\ UNCHANGED intruded
  /\ UNCHANGED <<changeFile, copies, before, newest, writers, saves, clobbered, reconcileLock, readVars>>

MoveAside(s) ==
  /\ In(s, "move")
  /\ IF changeFile = None THEN UNCHANGED <<changeFile, copies, held>> /\ Unlocked(s, "restore")
     ELSE /\ copies' = copies \cup {changeFile}
          /\ held' = [held EXCEPT ![s] = changeFile]
          /\ changeFile' = None
          /\ Move(s, "audit") /\ UNCHANGED fileLock
  /\ UNCHANGED <<before, newest, writerVars, reconcileLock, reason, planned, auto>>

Clobber == clobbered' = (clobbered \/ changeFile # None)

\* The audit entry; without it the file is moved back, if it can be, over whatever is there.
Audit(s) ==
  /\ In(s, "audit")
  /\ Unlocked(s, "restore")
  /\ \/ UNCHANGED <<changeFile, copies, clobbered>>
     \/ changeFile' = held[s] /\ copies' = copies \ {held[s]} /\ Clobber
  /\ UNCHANGED <<before, newest, writers, saves, intruded, reconcileLock, readVars>>

-----------------------------------------------------------------------------
\* runStoreResidueScan: what the file is recorded for.  Artifact metadata are looked at in
\* whatever can be parsed, retired values come first.
Residues ==
  IF changeFile = None THEN {"none"}
  ELSE CASE changeFile.form = "retired" -> {"drift"}
         [] changeFile.form = "mixed" -> {"none", "drift", "metadata"}
         [] changeFile.form = "sound" -> {"none", "metadata"}
         [] changeFile.form = "broken" -> {"none"}

\* buildReconcilePlan: the records of this change.
PlanRecords(residue) ==
  ({residue} \ {"none"}) \cup (IF copies # {} THEN {"quarantined"} ELSE {})

\* runReconcileApply for a plan the user has approved and a fresh scan confirms ...
BeginReconcile(s) ==
  /\ In(s, "idle")
  /\ \E residue \in Residues :
       PlanRecords(residue) # {} /\ planned' = [planned EXCEPT ![s] = PlanRecords(residue)]
  /\ auto' = [auto EXCEPT ![s] = TRUE]
  /\ Move(s, "apply")
  /\ UNCHANGED <<changeFile, copies, before, newest, writerVars, fileLock, reconcileLock, held, reason>>

\* ... takes its lock after the scan.
LockReconcile(s) ==
  /\ In(s, "apply") /\ reconcileLock = None
  /\ reconcileLock' = s
  /\ Move(s, IF "drift" \in planned[s] THEN "drift"
             ELSE IF "metadata" \in planned[s] THEN "migrate" ELSE "restore")
  /\ UNCHANGED <<changeFile, copies, before, newest, writerVars, fileLock, readVars>>

\* Bug: the before-state is saved once the normalisation is committed.
ReadDriftUnsaved(s) ==
  /\ In(s, "drift")
  /\ Move(s, IF changeFile # None /\ changeFile.form = "retired" THEN "normalize" ELSE "fallback")
  /\ UNCHANGED <<changeFile, copies, before, newest, writerVars, fileLock, reconcileLock, readVars>>

\* normalizeEnumMappingExecutor reads the file and saves a content it can map as the
\* before-state.
ReadDrift(s) ==
  /\ In(s, "drift")
  /\ IF changeFile # None /\ changeFile.form = "retired"
     THEN before' = before \cup {changeFile} /\ Move(s, "normalize")
     ELSE UNCHANGED before /\ Move(s, "fallback")
  /\ UNCHANGED <<changeFile, copies, newest, writerVars, fileLock, reconcileLock, readVars>>

\* The transaction normalises what is there now and commits it, whatever it is; a lock
\* that is not to be had, and a content that cannot be mapped, fail it.
NormalizeEnums(s) ==
  /\ In(s, "normalize")
  /\ changeFile # None => changeFile.rev < MaxRevision
  /\ IF fileLock = None /\ changeFile # None /\ changeFile.form \in {"sound", "retired"}
     THEN /\ changeFile' = Normalized([changeFile EXCEPT !.rev = @ + 1])
          /\ newest' = changeFile.rev + 1
          /\ Move(s, "restore")
     ELSE UNCHANGED <<changeFile, newest>> /\ Move(s, "fallback")
  /\ UNCHANGED <<copies, before, writerVars, fileLock, reconcileLock, readVars>>

\* migrateRecordExecutor, a transaction, for which the file has to read; the fallback is not
\* for what it has changed.
MigrateRecord(s) ==
  /\ In(s, "migrate")
  /\ \/ CommitFile /\ Move(s, "restore")
     \/ UNCHANGED <<changeFile, newest>> /\ Move(s, "fallback")
  /\ UNCHANGED <<copies, before, writerVars, fileLock, reconcileLock, readVars>>

\* quarantineRecordExecutor, the last action for either record, leaves what reads, what can
\* be mapped and what is no JSON.
QuarantineRecord(s) ==
  /\ In(s, "fallback")
  /\ IF changeFile # None /\ changeFile.form = "mixed"
     THEN /\ before' = before \cup {changeFile}
          /\ reason' = [reason EXCEPT ![s] = "schema_error"]
          /\ Move(s, "diagnosed")
     ELSE UNCHANGED <<before, reason>> /\ Move(s, "restore")
  /\ UNCHANGED <<changeFile, copies, newest, writerVars, fileLock, reconcileLock, held, planned, auto>>

\* normalizeAndRestoreExecutor: the only copy is read, if there is one and it can be
\* mapped; the run ends here for a plan without the record.
ReadCopy(s) ==
  /\ In(s, "restore")
  /\ IF "quarantined" \in planned[s] /\ \E c \in copies : copies = {c} /\ c.form = "retired"
     THEN /\ held' = [held EXCEPT ![s] = CHOOSE c \in copies : TRUE]
          /\ Move(s, "lock") /\ UNCHANGED reconcileLock
     ELSE UNCHANGED held /\ reconcileLock' = None /\ Move(s, "idle")
  /\ UNCHANGED <<changeFile, copies, before, newest, writerVars, fileLock, reason, planned, auto>>

LockForRestore(s) ==
  /\ In(s, "lock")
  /\ IF fileLock = None
     THEN fileLock' = s /\ Move(s, "check") /\ UNCHANGED reconcileLock
     ELSE reconcileLock' = None /\ Move(s, "idle") /\ UNCHANGED fileLock
  /\ UNCHANGED <<changeFile, copies, before, newest, writerVars, readVars>>

ReleaseBoth(s) == fileLock' = None /\ reconcileLock' = None /\ Move(s, "idle")

\* An active file is never overwritten; the copy is saved as the before-state.
CheckAbsent(s) ==
  /\ In(s, "check")
  /\ IF changeFile # None THEN UNCHANGED <<before, intruded>> /\ ReleaseBoth(s)
     ELSE /\ before' = before \cup {held[s]} /\ intruded' = FALSE
          /\ Move(s, "write")
          /\ UNCHANGED <<fileLock, reconcileLock>>
  /\ UNCHANGED <<changeFile, copies, newest, writers, saves, clobbered, readVars>>

\* Bug: the copy is removed before the file is written.
RestoreCleansFirst(s) ==
  /\ In(s, "write")
  /\ IF held[s] \in copies
     THEN copies' = copies \ {held[s]} /\ UNCHANGED <<changeFile, clobbered, repairPc>>
     ELSE changeFile' = Normalized(held[s]) /\ Clobber /\ Move(s, "clean") /\ UNCHANGED copies
  /\ UNCHANGED <<before, newest, writers, saves, intruded, fileLock, reconcileLock, readVars>>

\* The file is written, read back and summarised ...
Restore(s) ==
  /\ In(s, "write")
  /\ changeFile' = Normalized(held[s]) /\ Clobber
  /\ Move(s, "clean")
  /\ UNCHANGED <<copies, before, newest, writers, saves, intruded, fileLock, reconcileLock, readVars>>

\* ... and its copy removed, unless one of these failed.
RemoveCopy(s) ==
  /\ In(s, "clean")
  /\ copies' \in {copies, copies \ {held[s]}}
  /\ ReleaseBoth(s)
  /\ UNCHANGED <<changeFile, before, newest, writerVars, readVars>>

\* An error or the end of the process; its locks are released or found stale.
StopRepair(s) ==
  /\ ~In(s, "idle")
  /\ Move(s, "idle")
  /\ fileLock' = IF fileLock = s THEN None ELSE fileLock
  /\ reconcileLock' = IF reconcileLock = s THEN None ELSE reconcileLock
  /\ UNCHANGED <<changeFile, copies, before, newest, writerVars, readVars>>

RepairStep(s) ==
  \/ BeginQuarantine(s) \/ LockForMove(s) \/ DiagnoseAgain(s) \/ MoveAside(s) \/ Audit(s)
  \/ BeginReconcile(s) \/ LockReconcile(s) \/ ReadDrift(s) \/ NormalizeEnums(s)
  \/ MigrateRecord(s) \/ QuarantineRecord(s) \/ ReadCopy(s) \/ LockForRestore(s) \/ CheckAbsent(s)
  \/ Restore(s) \/ RemoveCopy(s) \/ StopRepair(s)

RepairNext == CommitChange \/ LoadWhole \/ SaveWhole \/ \E s \in Sessions : RepairStep(s)

RepairSpec == RepairInit /\ [][RepairNext]_repairVars

-----------------------------------------------------------------------------
\* The revision of a change written last is in its file or in a quarantined copy, at every
\* step of a quarantine, its rollback, a normalisation and a restore, and wherever one
\* of them stops; unless a rollback or a restore has overwritten a file that a save
\* without the lock had put back meanwhile.
RecordKept == clobbered \/ \E c \in copies \cup {changeFile} : c # None /\ c.rev = newest

\* A change that reads is taken out of its file by the tool that quarantines it, which has
\* diagnosed it before it took the lock and again under it (executeQuarantine), only if it
\* was saved without the lock after the second diagnosis.
SoundStaysActive ==
  [][changeFile # None /\ changeFile.form = "sound" => changeFile' # None \/ intruded]_repairVars

\* The before-state comes first: a content with retired values that another replaces, and
\* a copy that is removed from the quarantine, is by then among the before-states, in
\* quarantine or back in its file.
RepairSaved ==
  [][ /\ (changeFile # None /\ changeFile.form = "retired" /\ changeFile' # changeFile) =>
           changeFile \in before \cup copies'
      /\ \A c \in copies \ copies' : c \in before \/ changeFile' = c ]_repairVars
=============================================================================
