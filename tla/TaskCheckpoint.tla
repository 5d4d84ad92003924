--------------------------- MODULE TaskCheckpoint ---------------------------
(***************************************************************************)
(* The checkpoint of a task (tools/checkpoint.ts): the git side of what    *)
(* ChangeWorkflow has as one step.  Sessions share one worktree, its index *)
(* and its branch; a call reads HEAD, then the status, stages, commits,    *)
(* asks for the sha and records it, and each of these is a process of its  *)
(* own that others' commits may come between.                              *)
(*                                                                         *)
(* A commit is the set of the tasks whose work it contains, a sha its      *)
(* place in the branch.  The states in which git refuses (no repository,   *)
(* detached, merging, another branch, a hook) and a failed TDD check end a *)
(* call as Interrupt does.                                                 *)
(***************************************************************************)
EXTENDS ToolSessions, Sequences

CONSTANTS Tasks,
          MaxCheckpoints   \* bound on the calls of all sessions

ASSUME CheckpointBound == MaxCheckpoints \in Nat

VARIABLES
  worked,      \* tasks whose work has been done in the worktree
  unstaged,    \* ... and is not in the index
  index,       \* work in the index that no commit has
  branch,      \* the commits; the last is HEAD
  status,      \* status of a task in the change file
  checkpointSha,
  checkpoint,  \* the call a session is in, or None
  begun,       \* calls made
  loaded,      \* the change file a session has loaded to save it again, or None
  skewed,      \* history: tasks recorded clean after HEAD had moved in the call
  stale        \* history: <<s, t>> when s holds a status of t changed since s read it

gitVars == <<worked, unstaged, index, branch>>
taskVars == <<status, checkpointSha>>
checkpointVars == <<gitVars, taskVars, checkpoint, begun, loaded, skewed, stale>>

TaskStatuses == {"open", "done", "cancelled"}
CheckpointSteps == {"head", "status", "add", "commit", "sha", "record", "error", "load", "save"}
Shas == Nat \ {0}

CheckpointCalls == [task : Tasks, mode : {"complete", "cancel"}, step : CheckpointSteps,
                    expected : Shas \cup {None}, sha : Shas \cup {None},
                    late : BOOLEAN, read : TaskStatuses]

\* What a change file says of its tasks, and with it which records are skewed.
TaskFiles == [status : [Tasks -> TaskStatuses], sha : [Tasks -> Shas \cup {None}],
              skewed : SUBSET Tasks]

HEAD == Len(branch)
AtStep(s, step) == checkpoint[s] # None /\ checkpoint[s].step = step

CheckpointTypeOK ==
  /\ worked \subseteq Tasks
  /\ unstaged \subseteq worked /\ index \subseteq worked
  /\ branch \in Seq(SUBSET Tasks) /\ Len(branch) \in Shas
  /\ status \in [Tasks -> TaskStatuses]
  /\ checkpointSha \in [Tasks -> Shas \cup {None}]
  /\ checkpoint \in [Sessions -> CheckpointCalls \cup {None}]
  /\ begun \in 0 .. MaxCheckpoints
  /\ loaded \in [Sessions -> TaskFiles \cup {None}]
  /\ skewed \subseteq Tasks
  /\ stale \subseteq Sessions \X Tasks

CheckpointInit ==
  /\ worked = {} /\ unstaged = {} /\ index = {}
  /\ branch = <<{}>>
  /\ status = [t \in Tasks |-> "open"]
  /\ checkpointSha = [t \in Tasks |-> None]
  /\ checkpoint = [s \in Sessions |-> None]
  /\ begun = 0
  /\ loaded = [s \in Sessions |-> None]
  /\ skewed = {} /\ stale = {}

StepTo(s, step) == checkpoint' = [checkpoint EXCEPT ![s].step = step]
EndCheckpoint(s) == checkpoint' = [checkpoint EXCEPT ![s] = None]

\* git commit of the index.
CommitIndex == /\ branch' = Append(branch, branch[HEAD] \cup index)
               /\ index' = {}

-----------------------------------------------------------------------------
DoWork(t) ==
  /\ t \notin worked /\ status[t] = "open"
  /\ worked' = worked \cup {t}
  /\ unstaged' = unstaged \cup {t}
  /\ UNCHANGED <<index, branch, taskVars, checkpoint, begun, loaded, skewed, stale>>

\* Somebody commits everything, outside the tools.
CommitElsewhere ==
  /\ unstaged \cup index # {}
  /\ branch' = Append(branch, branch[HEAD] \cup unstaged \cup index)
  /\ unstaged' = {} /\ index' = {}
  /\ UNCHANGED <<worked, taskVars, checkpoint, begun, loaded, skewed, stale>>

\* The agent completes a task it has worked on, or cancels one; expectedHeadSha is
\* some commit it has seen, or absent.
BeginCheckpoint(s, t, mode, expected) ==
  /\ checkpoint[s] = None /\ begun < MaxCheckpoints
  /\ mode = "complete" => t \in worked
  /\ begun' = begun + 1
  /\ checkpoint' = [checkpoint EXCEPT ![s] =
       [task |-> t, mode |-> mode, step |-> "head", expected |-> expected,
        sha |-> None, late |-> FALSE, read |-> "open"]]
  /\ UNCHANGED <<gitVars, taskVars, loaded, skewed, stale>>

\* rev-parse HEAD and the baseline check.
ReadHead(s) ==
  /\ AtStep(s, "head")
  /\ IF checkpoint[s].expected \in {None, HEAD}
     THEN checkpoint' = [checkpoint EXCEPT ![s].step = "status", ![s].sha = HEAD,
                                           ![s].expected = None]
     ELSE EndCheckpoint(s)
  /\ UNCHANGED <<gitVars, taskVars, begun, loaded, skewed, stale>>

\* status --porcelain: a clean tree is recorded with the HEAD read before.
ReadStatus(s) ==
  /\ AtStep(s, "status")
  /\ IF unstaged \cup index = {}
     THEN checkpoint' = [checkpoint EXCEPT ![s].step = "record",
                                           ![s].late = checkpoint[s].sha # HEAD]
     ELSE StepTo(s, "add")
  /\ UNCHANGED <<gitVars, taskVars, begun, loaded, skewed, stale>>

\* git add -A.
StageAll(s) ==
  /\ AtStep(s, "add")
  /\ index' = index \cup unstaged
  /\ unstaged' = {}
  /\ StepTo(s, "commit")
  /\ UNCHANGED <<worked, branch, taskVars, begun, loaded, skewed, stale>>

\* git commit, which fails when another commit has taken the index.  A retry after
\* index.lock contention is the same step again.
Commit(s) ==
  /\ AtStep(s, "commit")
  /\ IF index = {} THEN UNCHANGED <<index, branch>> /\ StepTo(s, "error")
     ELSE CommitIndex /\ StepTo(s, "sha")
  /\ UNCHANGED <<worked, unstaged, taskVars, begun, loaded, skewed, stale>>

\* git add or rev-parse fails, a hook refuses, or the retry finds the lock again.
GitFails(s) ==
  /\ \E step \in {"add", "commit", "sha"} : AtStep(s, step)
  /\ StepTo(s, "error")
  /\ UNCHANGED <<gitVars, taskVars, begun, loaded, skewed, stale>>

\* Bug: the sha recorded is the one read at the start of the call.
ReadShaEarly(s) ==
  /\ AtStep(s, "sha")
  /\ StepTo(s, "record")
  /\ UNCHANGED <<gitVars, taskVars, begun, loaded, skewed, stale>>

\* rev-parse HEAD after the commit.
ReadSha(s) ==
  /\ AtStep(s, "sha")
  /\ checkpoint' = [checkpoint EXCEPT ![s].step = "record", ![s].sha = HEAD]
  /\ UNCHANGED <<gitVars, taskVars, begun, loaded, skewed, stale>>

\* Sessions that are about to save a status of t they have read.
Bridging(t) ==
  {u \in Sessions : AtStep(u, "save") \/ (AtStep(u, "load") /\ checkpoint[u].task = t)}

\* The copies that a new status makes stale.
Outdated ==
  {p \in Sessions \X Tasks : p[1] \in Bridging(p[2]) /\ status'[p[2]] # status[p[2]]}
Copies(s) == {s} \X Tasks

\* The mutations that complete or cancel the task, in the transaction of the change: they
\* ask nothing of its status.
RecordDone(s) ==
  /\ AtStep(s, "record") /\ checkpoint[s].mode = "complete"
  /\ LET k == checkpoint[s] IN
       /\ status' = [status EXCEPT ![k.task] = "done"]
       /\ checkpointSha' = [checkpointSha EXCEPT ![k.task] = k.sha]
       /\ skewed' = IF k.late THEN skewed \cup {k.task} ELSE skewed \ {k.task}
  /\ stale' = stale \cup Outdated
  /\ EndCheckpoint(s)
  /\ UNCHANGED <<gitVars, begun, loaded>>

RecordCancelled(s) ==
  /\ AtStep(s, "record") /\ checkpoint[s].mode = "cancel"
  /\ status' = [status EXCEPT ![checkpoint[s].task] = "cancelled"]
  /\ stale' = stale \cup Outdated
  /\ EndCheckpoint(s)
  /\ UNCHANGED <<gitVars, checkpointSha, begun, loaded, skewed>>

\* bridgeErrorClass of a failed commit gets the task ...
BridgeRead(s) ==
  /\ AtStep(s, "error")
  /\ checkpoint' = [checkpoint EXCEPT ![s].step = "load",
                                      ![s].read = status[checkpoint[s].task]]
  /\ UNCHANGED <<gitVars, taskVars, begun, loaded, skewed, stale>>

\* ... and tasks.update loads the whole change, sets the status that was read ...
BridgeLoad(s) ==
  /\ AtStep(s, "load")
  /\ StepTo(s, "save")
  /\ loaded' = [loaded EXCEPT ![s] =
       [status |-> [status EXCEPT ![checkpoint[s].task] = checkpoint[s].read],
        sha |-> checkpointSha, skewed |-> skewed]]
  /\ UNCHANGED <<gitVars, taskVars, begun, skewed, stale>>

\* Bug: a failed commit puts the task back to work.
BridgeSaveReopens(s) ==
  /\ AtStep(s, "save")
  /\ status' = [loaded[s].status EXCEPT ![checkpoint[s].task] = "open"]
  /\ checkpointSha' = loaded[s].sha /\ skewed' = loaded[s].skewed
  /\ EndCheckpoint(s)
  /\ loaded' = [loaded EXCEPT ![s] = None]
  /\ stale' = (stale \cup Outdated) \ Copies(s)
  /\ UNCHANGED <<gitVars, begun>>

\* ... and saves the change, all tasks as it has loaded them, outside the transaction.
BridgeSave(s) ==
  /\ AtStep(s, "save")
  /\ status' = loaded[s].status
  /\ checkpointSha' = loaded[s].sha /\ skewed' = loaded[s].skewed
  /\ EndCheckpoint(s)
  /\ loaded' = [loaded EXCEPT ![s] = None]
  /\ stale' = (stale \cup Outdated) \ Copies(s)
  /\ UNCHANGED <<gitVars, begun>>

\* A refusal, an error, or the end of the process; the agent may call again.
InterruptCheckpoint(s) ==
  /\ checkpoint[s] # None
  /\ EndCheckpoint(s)
  /\ loaded' = [loaded EXCEPT ![s] = None]
  /\ stale' = stale \ Copies(s)
  /\ UNCHANGED <<gitVars, taskVars, begun, skewed>>

CheckpointStep(s) ==
  \/ \E t \in Tasks, mode \in {"complete", "cancel"} :
       \E expected \in {None} \cup 1 .. HEAD : BeginCheckpoint(s, t, mode, expected)
  \/ ReadHead(s) \/ ReadStatus(s) \/ StageAll(s) \/ Commit(s) \/ GitFails(s)
  \/ ReadSha(s) \/ RecordDone(s) \/ RecordCancelled(s)
  \/ BridgeRead(s) \/ BridgeLoad(s) \/ BridgeSave(s)
  \/ InterruptCheckpoint(s)

CheckpointNext ==
  \/ \E t \in Tasks : DoWork(t)
  \/ CommitElsewhere
  \/ \E s \in Sessions : CheckpointStep(s)

CheckpointSpec == CheckpointInit /\ [][CheckpointNext]_checkpointVars

-----------------------------------------------------------------------------
\* The commit recorded for a completed task contains its work, whoever committed it and
\* however often the call was interrupted and made again; unless the tree was clean
\* because the work was committed between the call's own reading of HEAD and of the status.
DoneWorkCommitted ==
  \A t \in Tasks \ skewed : checkpointSha[t] # None => t \in branch[checkpointSha[t]]

\* A completed or cancelled task goes back to work only when a failed checkpoint, of this
\* task or of another one of the change, saves its error with a status of the task that
\* has changed since the session has read it: the save is of the whole change, as loaded,
\* and outside the transaction (bridgeErrorClass, tasks.update).
CompletionKept ==
  [][ \A t \in Tasks : status[t] # "open" /\ status'[t] = "open" =>
        \E s \in Sessions : AtStep(s, "save") /\ <<s, t>> \in stale ]_checkpointVars
=============================================================================
