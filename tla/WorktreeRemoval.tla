--------------------------- MODULE WorktreeRemoval ---------------------------
(***************************************************************************)
(* The worktree of one change: its creation and detachment under the lock  *)
(* file of GitWorktreeFlock, here one holder at a time, and its deletion   *)
(* by a plan token under a kernel lock held by a child process             *)
(* (tools/worktree/index.ts, detach.ts, deletion-planner.ts,               *)
(* deletion-executor.ts, utils/git-worktree-flock.ts).                     *)
(*                                                                         *)
(* The two locks are two files in two directories: creation and deletion   *)
(* do not exclude each other.  People and agents work in the worktree      *)
(* meanwhile.  A plan is good for five minutes; that it is too old may be  *)
(* found at any stage of the executor and is one of its refusals.          *)
(***************************************************************************)
EXTENDS ToolSessions

CONSTANTS MaxHead,  \* bound on the commits of the branch
          MaxEdits, \* bound on the states of its uncommitted work
          MaxStrays \* bound on the aborted git processes that differ and still run

ASSUME RemovalBounds == MaxHead \in Nat /\ MaxEdits \in Nat \ {0} /\ MaxStrays \in Nat

\* WorktreeDeletionPlan: the facts that can change, the head of its integration proof,
\* and force.  The facts hold that there was uncommitted work, not which.
Plan == [dirty : BOOLEAN, head : 0 .. MaxHead, force : BOOLEAN]

\* A git worktree remove whose operation was aborted: with --force or without, and
\* whether the worktree has changed since the judgement it follows.  One stands for
\* all that are alike.
Stray == [force : BOOLEAN, moved : BOOLEAN]

RemovalPlaces == {"idle", "add", "setup", "unlock", "check", "detach",
                  "census", "hooks", "recensus", "remove", "removing", "settle"}

\* Stages of the executor, from the lease to the return.
Guarded == {"census", "hooks", "recensus", "remove", "removing", "settle"}

VARIABLES
  registered,  \* git lists the worktree
  onDisk,      \* its directory exists
  edits,       \* state of its uncommitted work, 0 when clean
  used,        \* a process works inside
  head,        \* commits of the branch
  integrated,  \* ... of them on the default branch
  terminal,    \* the change reads as archived or closed
  createLock,  \* holder of the lock file
  lease,       \* session whose child holds the kernel lock
  removing,    \* sessions whose git worktree remove runs
  strays,      \* aborted ones that run on
  removalPc,   \* where a session is in its call
  plan,        \* the plan token a session has been given
  moved,       \* history: the worktree changed after the last judgement of a call
  crashed      \* sessions whose process has died

worktreeVars == <<registered, onDisk, edits, used, head, integrated, terminal>>
removalVars == <<worktreeVars, createLock, lease, removing, strays, removalPc, plan, moved, crashed>>

RemovalTypeOK ==
  /\ {registered, onDisk, used, terminal} \subseteq BOOLEAN
  /\ edits \in 0 .. MaxEdits
  /\ head \in 0 .. MaxHead /\ integrated \in 0 .. head
  /\ {createLock, lease} \subseteq Sessions \cup {None}
  /\ removing \subseteq Sessions
  /\ strays \subseteq Stray
  /\ removalPc \in [Sessions -> RemovalPlaces]
  /\ plan \in [Sessions -> Plan \cup {None}]
  /\ moved \in [Sessions -> BOOLEAN]
  /\ crashed \subseteq Sessions

RemovalInit ==
  /\ registered = FALSE /\ onDisk = FALSE
  /\ edits = 0 /\ used = FALSE
  /\ head = 0 /\ integrated = 0 /\ terminal = FALSE
  /\ createLock = None /\ lease = None
  /\ removing = {} /\ strays = {}
  /\ removalPc = [s \in Sessions |-> "idle"]
  /\ plan = [s \in Sessions |-> None]
  /\ moved = [s \in Sessions |-> FALSE]
  /\ crashed = {}

Stage(s, place) == s \notin crashed /\ removalPc[s] = place
MoveTo(s, place) == removalPc' = [removalPc EXCEPT ![s] = place]
Leave(s) == MoveTo(s, "idle") /\ moved' = [moved EXCEPT ![s] = FALSE]

\* What s has judged last may no longer hold.
Touched(s) == removalPc[s] \in {"detach", "remove", "removing"}
MovedOn(some) == {[k EXCEPT !.moved = TRUE] : k \in some}
AllMovedBut(some) == /\ moved' = [s \in Sessions |-> Touched(s)]
                     /\ strays' = MovedOn(strays \ some)
AllMoved == AllMovedBut({})

\* Bug: --force always.
RemoveAllowedForced(force) == registered /\ onDisk

\* git removes a registered worktree; one with uncommitted work only with --force.
RemoveAllowed(force) == registered /\ onDisk /\ (edits = 0 \/ force)

\* A git worktree remove ends, with the strays of ended.  It may fail or be killed, and
\* then has done nothing, or has removed the directory and not its record.
GitEnds(force, ended) ==
  \/ /\ RemoveAllowed(force)
     /\ registered' \in BOOLEAN /\ onDisk' = FALSE /\ edits' = 0 /\ used' = FALSE
     /\ AllMovedBut(ended)
     /\ UNCHANGED <<head, integrated, terminal>>
  \/ strays' = strays \ ended /\ UNCHANGED <<worktreeVars, moved>>

-----------------------------------------------------------------------------
\* Work in the worktree and around it.

Work ==
  /\ \/ /\ onDisk /\ edits < MaxEdits
        /\ edits' = edits + 1
        /\ UNCHANGED <<registered, onDisk, used, head, integrated, terminal>>
     \/ /\ onDisk /\ edits > 0 /\ head < MaxHead
        /\ edits' = 0 /\ head' = head + 1
        /\ UNCHANGED <<registered, onDisk, used, integrated, terminal>>
     \/ /\ onDisk
        /\ used' = ~used
        /\ UNCHANGED <<registered, onDisk, edits, head, integrated, terminal>>
     \/ /\ integrated < head /\ integrated' = head
        /\ UNCHANGED <<registered, onDisk, edits, used, head, terminal>>
     \/ /\ terminal' = ~terminal
        /\ UNCHANGED <<registered, onDisk, edits, used, head, integrated>>
  /\ AllMoved
  /\ UNCHANGED <<createLock, lease, removing, removalPc, plan, crashed>>

-----------------------------------------------------------------------------
\* advWorktreeCreate, where there is no worktree to reuse.

\* git worktree prune, before the lock, for a record whose directory is gone.
Prune(s) ==
  /\ Stage(s, "idle")
  /\ registered /\ ~onDisk
  /\ registered' = FALSE
  /\ UNCHANGED <<onDisk, edits, used, head, integrated, terminal, createLock, lease, removing,
                 strays, removalPc, plan, moved, crashed>>

BeginCreate(s) ==
  /\ Stage(s, "idle")
  /\ ~registered
  /\ createLock = None
  /\ createLock' = s
  /\ MoveTo(s, "add")
  /\ UNCHANGED <<worktreeVars, lease, removing, strays, plan, moved, crashed>>

\* Looks again under the lock; git refuses a path that is registered or exists.
AddWorktree(s) ==
  /\ Stage(s, "add")
  /\ IF registered \/ onDisk
     THEN UNCHANGED <<registered, onDisk, moved, strays>> /\ MoveTo(s, "unlock")
     ELSE registered' = TRUE /\ onDisk' = TRUE /\ AllMoved /\ MoveTo(s, "setup")
  /\ UNCHANGED <<edits, used, head, integrated, terminal, createLock, lease, removing, plan,
                 crashed>>

\* Copied files and postCreate hooks, which may fail or leave files behind.
SetUp(s) ==
  /\ Stage(s, "setup")
  /\ edits' \in IF onDisk THEN {edits, 1} ELSE {edits}
  /\ AllMoved
  /\ MoveTo(s, "unlock")
  /\ UNCHANGED <<registered, onDisk, used, head, integrated, terminal, createLock, lease,
                 removing, plan, crashed>>

ReleaseCreateLock(s) ==
  /\ Stage(s, "unlock")
  /\ createLock' = None
  /\ Leave(s)
  /\ UNCHANGED <<worktreeVars, lease, removing, strays, plan, crashed>>

-----------------------------------------------------------------------------
\* advWorktreeDetachBatch, for this branch: it asks neither for integration nor for a
\* terminal change, since the branch stays.

BeginDetach(s) ==
  /\ Stage(s, "idle")
  /\ createLock = None
  /\ createLock' = s
  /\ MoveTo(s, "check")
  /\ UNCHANGED <<worktreeVars, lease, removing, strays, plan, moved, crashed>>

PreflightBranch(s) ==
  /\ Stage(s, "check")
  /\ MoveTo(s, IF registered /\ onDisk /\ ~used /\ edits = 0 THEN "detach" ELSE "unlock")
  /\ moved' = [moved EXCEPT ![s] = FALSE]
  /\ UNCHANGED <<worktreeVars, createLock, lease, removing, strays, plan, crashed>>

\* git worktree remove without --force, killed after five seconds.
DetachRemove(s) ==
  /\ Stage(s, "detach")
  /\ GitEnds(FALSE, {})
  /\ MoveTo(s, "unlock")
  /\ UNCHANGED <<createLock, lease, removing, plan, crashed>>

-----------------------------------------------------------------------------
\* Deletion.

\* safeToRemove, the integration proof and the terminal proof.
Deletable(force) ==
  /\ registered /\ onDisk
  /\ ~used
  /\ edits = 0 \/ force
  /\ head <= integrated
  /\ terminal

\* WorktreeDeletionPlanner.plan (the dry run).
PlanDeletion(s, force) ==
  /\ Stage(s, "idle")
  /\ Deletable(force)
  /\ plan' = [plan EXCEPT ![s] = [dirty |-> edits > 0, head |-> head, force |-> force]]
  /\ UNCHANGED <<worktreeVars, createLock, lease, removing, strays, removalPc, moved, crashed>>

\* Bug: whoever finds the kernel lock taken goes on.
TakeLeaseAnyway(s) ==
  /\ Stage(s, "idle") /\ plan[s] # None
  /\ lease' = s
  /\ MoveTo(s, "census")
  /\ UNCHANGED <<worktreeVars, createLock, removing, strays, plan, moved, crashed>>

\* acquireGitWorktreeProcessLease; a taken lock is "busy", and the plan stays good.
TakeLease(s) ==
  /\ Stage(s, "idle") /\ plan[s] # None
  /\ lease = None
  /\ lease' = s
  /\ MoveTo(s, "census")
  /\ UNCHANGED <<worktreeVars, createLock, removing, strays, plan, moved, crashed>>

\* evaluate: the bound facts are the same and still make the worktree deletable.
AsPlanned(s) ==
  /\ (edits > 0) = plan[s].dirty
  /\ head = plan[s].head
  /\ Deletable(plan[s].force)

Census(s) ==
  /\ Stage(s, "census")
  /\ MoveTo(s, IF AsPlanned(s) THEN "hooks" ELSE "settle")
  /\ UNCHANGED <<worktreeVars, createLock, lease, removing, strays, plan, moved, crashed>>

\* beforeRemove and the preDelete hooks run inside the worktree.
PreDeleteHooks(s) ==
  /\ Stage(s, "hooks")
  /\ edits' \in IF onDisk THEN 0 .. MaxEdits ELSE {edits}
  /\ AllMoved
  /\ removalPc' \in {[removalPc EXCEPT ![s] = place] : place \in {"recensus", "settle"}}
  /\ UNCHANGED <<registered, onDisk, used, head, integrated, terminal, createLock, lease,
                 removing, plan, crashed>>

\* Bug: the second census is not judged.
RecensusOnly(s) ==
  /\ Stage(s, "recensus")
  /\ MoveTo(s, "remove")
  /\ moved' = [moved EXCEPT ![s] = FALSE]
  /\ UNCHANGED <<worktreeVars, createLock, lease, removing, strays, plan, crashed>>

\* The census after the hooks.
Recensus(s) ==
  /\ Stage(s, "recensus")
  /\ MoveTo(s, IF AsPlanned(s) THEN "remove" ELSE "settle")
  /\ moved' = [moved EXCEPT ![s] = FALSE]
  /\ UNCHANGED <<worktreeVars, createLock, lease, removing, strays, plan, crashed>>

StartRemove(s) ==
  /\ Stage(s, "remove")
  /\ removing' = removing \cup {s}
  /\ MoveTo(s, "removing")
  /\ UNCHANGED <<worktreeVars, createLock, lease, strays, plan, moved, crashed>>

\* The child process ends.
GitRemove(s) ==
  /\ s \in removing
  /\ removing' = removing \ {s}
  /\ GitEnds(plan[s].force, {})
  /\ UNCHANGED <<createLock, lease, removalPc, plan, crashed>>

\* The census after the removal only decides what is reported.
Confirm(s) ==
  /\ Stage(s, "removing") /\ s \notin removing
  /\ MoveTo(s, "settle")
  /\ UNCHANGED <<worktreeVars, createLock, lease, removing, strays, plan, moved, crashed>>

\* The deadline: operation.abort signals all children and waits for them, but for the
\* git process, whose terminate has begun with the signal of the operation and returns
\* at once the second time.  The call returns without the kernel lock while git runs on.
Abort(s) ==
  /\ s \notin crashed /\ removalPc[s] \in Guarded \ {"settle"}
  /\ lease' = IF lease = s THEN None ELSE lease
  /\ removing' = removing \ {s}
  /\ strays' = strays \cup {[force |-> plan[s].force, moved |-> moved[s]] : t \in removing \cap {s}}
  /\ Cardinality(strays') <= MaxStrays
  /\ Leave(s)
  /\ UNCHANGED <<worktreeVars, createLock, plan, crashed>>

\* What has been signalled ends, or is killed, a little later.
StrayEnds(k) ==
  /\ k \in strays
  /\ \E ended \in {{}, {k}} : GitEnds(k.force, ended)
  /\ UNCHANGED <<createLock, lease, removing, removalPc, plan, crashed>>

\* settleLease, in the finally clause.
SettleLease(s) ==
  /\ Stage(s, "settle")
  /\ lease' = IF lease = s THEN None ELSE lease
  /\ Leave(s)
  /\ UNCHANGED <<worktreeVars, createLock, removing, strays, plan, crashed>>

\* The process dies in a call.  Its lock file can be reclaimed; its detached children go
\* on, the holder of the kernel lock among them.
Crash(s) ==
  /\ s \notin crashed /\ removalPc[s] # "idle"
  /\ crashed' = crashed \cup {s}
  /\ createLock' = IF createLock = s THEN None ELSE createLock
  /\ UNCHANGED <<worktreeVars, lease, removing, strays, removalPc, plan, moved>>

RemovalStep(s) ==
  \/ Prune(s) \/ BeginCreate(s) \/ AddWorktree(s) \/ SetUp(s) \/ ReleaseCreateLock(s)
  \/ BeginDetach(s) \/ PreflightBranch(s) \/ DetachRemove(s)
  \/ \E force \in BOOLEAN : PlanDeletion(s, force)
  \/ TakeLease(s) \/ Census(s) \/ PreDeleteHooks(s) \/ Recensus(s)
  \/ StartRemove(s) \/ GitRemove(s) \/ Confirm(s)
  \/ Abort(s) \/ SettleLease(s)
  \/ Crash(s)

RemovalNext == Work \/ (\E k \in Stray : StrayEnds(k)) \/ \E s \in Sessions : RemovalStep(s)

RemovalSpec == RemovalInit /\ [][RemovalNext]_removalVars

-----------------------------------------------------------------------------
\* Uncommitted work is destroyed only by a deletion whose plan was approved with force,
\* whatever hooks, other sessions, deadlines and crashes do (the arguments of
\* git worktree remove in execute and detach.ts).
UncommittedWorkKept ==
  [][ (onDisk /\ ~onDisk' /\ edits > 0) =>
        \/ \E s \in removing : plan[s].force
        \/ \E k \in strays : k.force ]_removalVars

\* A worktree disappears only if the last judgement that the git process which removes
\* it follows still holds, but for what others did to it since that judgement: nobody
\* works inside, its commits are integrated and its change terminal; a detachment asks
\* for the first alone (evaluate after the hooks, preflightBranch).
RemovedAsJudged ==
  [][ (onDisk /\ ~onDisk') =>
        \/ \E s \in removing : moved[s] \/ (~used /\ head <= integrated /\ terminal)
        \/ \E k \in strays : k.moved \/ (~used /\ head <= integrated /\ terminal)
        \/ \E s \in Sessions : removalPc[s] = "detach" /\ (moved[s] \/ ~used) ]_removalVars

\* A git worktree remove that its call waits for runs under the kernel lock of that
\* call, also when the process of the call has died; one that does not is a stray of an
\* aborted operation.  The lock is held by a session that will settle it, or by the
\* orphan of a dead one (acquireGitWorktreeProcessLease, operation.abort, settleLease).
RemovalUnderLease ==
  /\ \A s \in removing : lease = s
  /\ lease # None => removalPc[lease] \in Guarded
=============================================================================
