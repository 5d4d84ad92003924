---------------------------- MODULE Tools_proofs ----------------------------
(***************************************************************************)
(* The tools side by side, for every set of sessions, tasks, epics and     *)
(* changes and all bounds.  TaskCheckpoint: the commit recorded for a      *)
(* completed task contains its work, and only the saved error of a failed  *)
(* checkpoint puts a task back to work.  StoreRepair: no revision is lost, *)
(* a change that reads stays active, and what a repair replaces or         *)
(* discards has been saved.  At the end the composition of all five tools, *)
(* their steps in any order: each behaviour is one of every component, so  *)
(* that all the theorems about components hold of it.                      *)
(***************************************************************************)
EXTENDS MCTools, Worktree_proofs, EpicMembership_proofs

\* The checkpoint of a task.

\* Work that has been done is in the worktree, in the index or in HEAD.
WorkIsSomewhere == worked \subseteq unstaged \cup index \cup branch[HEAD]

\* Where the work of the task is that a call completes, step by step.
Carried(k) ==
  k.mode = "complete" =>
    /\ k.task \in worked
    /\ k.step = "commit" => k.task \in index \cup branch[HEAD]
    /\ k.step = "sha" => k.task \in branch[HEAD]
    /\ k.step = "record" => k.late \/ k.task \in branch[k.sha]

CallsCarryWork ==
  \A s \in Sessions : checkpoint[s] # None =>
    /\ Carried(checkpoint[s])
    /\ checkpoint[s].step \in {"status", "record"} => checkpoint[s].sha \in DOMAIN branch

\* The commit on record exists and contains the work, in the change file and in every copy
\* of it that a session is about to save.
Good(sha, skew, commits) ==
  \A t \in Tasks : sha[t] # None =>
    /\ sha[t] \in DOMAIN commits
    /\ t \notin skew => t \in commits[sha[t]]

RecordsHold ==
  /\ Good(checkpointSha, skewed, branch)
  /\ \A s \in Sessions : AtStep(s, "save") => Good(loaded[s].sha, loaded[s].skewed, branch)

\* Who is about to save a change has loaded one.
SaveIsLoaded == \A s \in Sessions : AtStep(s, "save") => loaded[s] \in TaskFiles

\* A session about to save an error has every status as it is, or is known to be stale.
BridgesKnown ==
  /\ \A s \in Sessions : AtStep(s, "load") =>
       <<s, checkpoint[s].task>> \in stale \/ checkpoint[s].read = status[checkpoint[s].task]
  /\ \A s \in Sessions : AtStep(s, "save") =>
       \A t \in Tasks : <<s, t>> \in stale \/ loaded[s].status[t] = status[t]

CheckpointInv == /\ CheckpointTypeOK /\ SaveIsLoaded
                 /\ WorkIsSomewhere /\ CallsCarryWork /\ RecordsHold /\ BridgesKnown

\* A commit is added after those that are there and contains the work of HEAD.
Grown(w) ==
  /\ branch' \in Seq(SUBSET Tasks) /\ HEAD \in DOMAIN branch /\ HEAD' = HEAD + 1
  /\ HEAD' \in DOMAIN branch' /\ HEAD' \in Shas /\ DOMAIN branch \subseteq DOMAIN branch'
  /\ \A i \in DOMAIN branch : branch'[i] = branch[i]
  /\ branch'[HEAD'] = branch[HEAD] \cup w

LEMMA BranchGrows ==
  ASSUME CheckpointTypeOK, NEW w \in SUBSET Tasks, branch' = Append(branch, branch[HEAD] \cup w)
  PROVE  Grown(w)
<1>1. branch \in Seq(SUBSET Tasks) /\ Len(branch) \in Nat \ {0}
  BY DEF CheckpointTypeOK, Shas
<1>2. HEAD \in DOMAIN branch /\ branch[HEAD] \cup w \in SUBSET Tasks
  BY <1>1 DEF HEAD
<1> QED
  BY <1>1, <1>2 DEF HEAD, Shas, Grown

\* The commit of a checkpoint, and of somebody else.
LEMMA CommitGrows ==
  ASSUME CheckpointTypeOK, NEW s \in Sessions, Commit(s)
  PROVE  UNCHANGED <<branch, index>> \/ (Grown(index) /\ index' = {})
<1>1. index \in SUBSET Tasks
  BY DEF CheckpointTypeOK
<1> QED
  BY <1>1, BranchGrows DEF Commit, CommitIndex

LEMMA ElsewhereGrows ==
  ASSUME CheckpointTypeOK, CommitElsewhere
  PROVE  Grown(unstaged \cup index)
<1>1. unstaged \cup index \in SUBSET Tasks
  BY DEF CheckpointTypeOK
<1>2. branch[HEAD] \cup unstaged \cup index = branch[HEAD] \cup (unstaged \cup index)
  OBVIOUS
<1> QED
  BY <1>1, <1>2, BranchGrows DEF CommitElsewhere

\* A call that is changed is a call.
LEMMA CallFacts ==
  ASSUME CheckpointTypeOK, NEW s \in Sessions, checkpoint[s] # None
  PROVE  /\ checkpoint[s] \in CheckpointCalls /\ HEAD \in Shas /\ HEAD \in DOMAIN branch
         /\ [checkpoint[s] EXCEPT !.step = "status", !.sha = HEAD, !.expected = None] \in CheckpointCalls
         /\ [checkpoint[s] EXCEPT !.step = "record", !.sha = HEAD] \in CheckpointCalls
         /\ [checkpoint[s] EXCEPT !.step = "load", !.read = status[checkpoint[s].task]]
               \in CheckpointCalls
<1>1. checkpoint[s] \in CheckpointCalls
  BY DEF CheckpointTypeOK
<1>2. HEAD \in Shas /\ HEAD \in DOMAIN branch
  BY DEF CheckpointTypeOK, HEAD, Shas
<1>3. status[checkpoint[s].task] \in TaskStatuses
  BY <1>1 DEF CheckpointTypeOK, CheckpointCalls
<1> QED
  BY <1>1, <1>2, <1>3 DEF CheckpointCalls, CheckpointSteps

\* A call that goes on to its next step is a call.
LEMMA StepKeepsCalls ==
  ASSUME CheckpointTypeOK, NEW s \in Sessions, checkpoint[s] # None,
         NEW step \in CheckpointSteps, StepTo(s, step)
  PROVE  checkpoint' \in [Sessions -> CheckpointCalls \cup {None}]
<1>1. [checkpoint[s] EXCEPT !.step = step] \in CheckpointCalls
  <2>1. checkpoint[s] \in CheckpointCalls
    BY CallFacts
  <2> QED
    BY <2>1 DEF CheckpointCalls
<1>2. checkpoint \in [Sessions -> CheckpointCalls \cup {None}]
  BY DEF CheckpointTypeOK
<1>3. checkpoint' = [checkpoint EXCEPT ![s] = [checkpoint[s] EXCEPT !.step = step]]
  BY DEF StepTo
<1> QED
  BY <1>1, <1>2, <1>3

\* No work, no call, and one commit that contains nothing.
LEMMA InitIsCheckpointInv == CheckpointInit => CheckpointInv
<1> SUFFICES ASSUME CheckpointInit PROVE CheckpointInv
  OBVIOUS
<1> USE CheckpointBound DEF CheckpointInit
<1>1. branch \in Seq(SUBSET Tasks) /\ Len(branch) = 1
  OBVIOUS
<1>2. CheckpointTypeOK
  BY <1>1 DEF CheckpointTypeOK, TaskStatuses, Shas
<1>3. WorkIsSomewhere /\ CallsCarryWork /\ RecordsHold /\ BridgesKnown
  BY DEF WorkIsSomewhere, CallsCarryWork, RecordsHold, Good, BridgesKnown, AtStep
<1>4. SaveIsLoaded
  BY DEF SaveIsLoaded, AtStep
<1> QED
  BY <1>2, <1>3, <1>4 DEF CheckpointInv

\* Every step keeps calls, commits and statuses well formed.
LEMMA CheckpointTypeStep ==
  ASSUME CheckpointTypeOK, SaveIsLoaded, [CheckpointNext]_checkpointVars
  PROVE  CheckpointTypeOK'
<1> USE CheckpointBound DEF CheckpointTypeOK, CheckpointCalls, CheckpointSteps, TaskStatuses, Shas
<1>1. ASSUME NEW s \in Sessions, NEW t \in Tasks, NEW mode \in {"complete", "cancel"},
          NEW expected \in {None} \cup 1 .. HEAD, BeginCheckpoint(s, t, mode, expected)
    PROVE CheckpointTypeOK'
  BY <1>1 DEF BeginCheckpoint, gitVars, taskVars, HEAD
<1>2. ASSUME NEW s \in Sessions, ReadHead(s) PROVE CheckpointTypeOK'
  <2>1. CASE checkpoint[s].expected \in {None, HEAD}
    <3>1. checkpoint' = [checkpoint EXCEPT ![s] =
            [checkpoint[s] EXCEPT !.step = "status", !.sha = HEAD, !.expected = None]]
      BY <1>2, <2>1 DEF ReadHead, AtStep
    <3>2. checkpoint' \in [Sessions -> CheckpointCalls \cup {None}]
      BY <1>2, <3>1, CallFacts, ZenonT(60) DEF ReadHead, AtStep
    <3> QED
      BY <1>2, <3>2 DEF ReadHead, gitVars, taskVars
  <2>2. CASE checkpoint[s].expected \notin {None, HEAD}
    BY <1>2, <2>2 DEF ReadHead, EndCheckpoint, gitVars, taskVars
  <2> QED
    BY <2>1, <2>2
<1>3. ASSUME NEW s \in Sessions, ReadStatus(s) PROVE CheckpointTypeOK'
  <2>1. checkpoint' \in [Sessions -> CheckpointCalls \cup {None}]
    BY <1>3, StepKeepsCalls, SMTT(30) DEF ReadStatus, AtStep
  <2> HIDE DEF CheckpointCalls
  <2> QED
    BY <1>3, <2>1 DEF ReadStatus, gitVars, taskVars
<1>4. ASSUME NEW s \in Sessions, StageAll(s) PROVE CheckpointTypeOK'
  <2>1. checkpoint' \in [Sessions -> CheckpointCalls \cup {None}]
    BY <1>4, StepKeepsCalls DEF StageAll, AtStep
  <2> HIDE DEF CheckpointCalls
  <2> QED
    BY <1>4, <2>1 DEF StageAll, taskVars
<1>5. ASSUME NEW s \in Sessions, Commit(s) PROVE CheckpointTypeOK'
  <2>1. branch' \in Seq(SUBSET Tasks) /\ Len(branch') \in Shas /\ index' \subseteq worked
    BY <1>5, CommitGrows DEF Grown, HEAD
  <2>2. checkpoint' \in [Sessions -> CheckpointCalls \cup {None}]
    BY <1>5, StepKeepsCalls DEF Commit, AtStep
  <2> HIDE DEF CheckpointCalls
  <2> QED
    BY <1>5, <2>1, <2>2 DEF Commit, taskVars
<1>6. ASSUME NEW s \in Sessions, GitFails(s) PROVE CheckpointTypeOK'
  <2>1. checkpoint' \in [Sessions -> CheckpointCalls \cup {None}]
    BY <1>6, StepKeepsCalls DEF GitFails, AtStep
  <2> HIDE DEF CheckpointCalls
  <2> QED
    BY <1>6, <2>1 DEF GitFails, gitVars, taskVars
<1>7. ASSUME NEW s \in Sessions, ReadSha(s) PROVE CheckpointTypeOK'
  <2>1. checkpoint' = [checkpoint EXCEPT ![s] = [checkpoint[s] EXCEPT !.step = "record", !.sha = HEAD]]
    BY <1>7 DEF ReadSha, AtStep
  <2>2. checkpoint' \in [Sessions -> CheckpointCalls \cup {None}]
    <3> HIDE DEF CheckpointCalls
    <3>1. [checkpoint[s] EXCEPT !.step = "record", !.sha = HEAD] \in CheckpointCalls
      BY <1>7, CallFacts DEF ReadSha, AtStep
    <3> QED
      BY <2>1, <3>1
  <2> QED
    BY <1>7, <2>2 DEF ReadSha, gitVars, taskVars
<1>8. ASSUME NEW s \in Sessions, RecordDone(s) PROVE CheckpointTypeOK'
  BY <1>8 DEF RecordDone, AtStep, EndCheckpoint, gitVars, Outdated
<1>9. ASSUME NEW s \in Sessions, RecordCancelled(s) PROVE CheckpointTypeOK'
  BY <1>9 DEF RecordCancelled, AtStep, EndCheckpoint, gitVars, Outdated
<1>10. ASSUME NEW s \in Sessions, BridgeRead(s) PROVE CheckpointTypeOK'
  <2>1. checkpoint' = [checkpoint EXCEPT ![s] = [checkpoint[s] EXCEPT !.step = "load",
           !.read = status[checkpoint[s].task]]]
    BY <1>10 DEF BridgeRead, AtStep
  <2>2. checkpoint' \in [Sessions -> CheckpointCalls \cup {None}]
    <3> HIDE DEF CheckpointCalls
    <3>1. [checkpoint[s] EXCEPT !.step = "load",
           !.read = status[checkpoint[s].task]] \in CheckpointCalls
      BY <1>10, CallFacts DEF BridgeRead, AtStep
    <3> QED
      BY <2>1, <3>1
  <2> QED
    BY <1>10, <2>2 DEF BridgeRead, gitVars, taskVars
<1>11. ASSUME NEW s \in Sessions, BridgeSave(s) PROVE CheckpointTypeOK'
  <2>1. loaded[s] \in TaskFiles
    BY <1>11 DEF BridgeSave, SaveIsLoaded
  <2>2. status' \in [Tasks -> TaskStatuses] /\ checkpointSha' \in [Tasks -> Shas \cup {None}]
        /\ skewed' \subseteq Tasks
    BY <1>11, <2>1 DEF BridgeSave, TaskFiles
  <2> QED
    BY <1>11, <2>2 DEF BridgeSave, EndCheckpoint, gitVars, Outdated
<1>12. ASSUME NEW s \in Sessions, InterruptCheckpoint(s) PROVE CheckpointTypeOK'
  BY <1>12 DEF InterruptCheckpoint, EndCheckpoint, gitVars, taskVars
<1>16. ASSUME NEW s \in Sessions, BridgeLoad(s) PROVE CheckpointTypeOK'
  <2>1. checkpoint' \in [Sessions -> CheckpointCalls \cup {None}]
    BY StepKeepsCalls, <1>16 DEF BridgeLoad, AtStep
  <2>2. checkpoint[s] \in CheckpointCalls
    BY CallFacts, <1>16 DEF BridgeLoad, AtStep
  <2>3. [status EXCEPT ![checkpoint[s].task] = checkpoint[s].read] \in [Tasks -> TaskStatuses]
    BY <2>2
  <2> HIDE DEF CheckpointCalls
  <2>4. loaded' \in [Sessions -> TaskFiles \cup {None}]
    <3> DEFINE file == [status |-> [status EXCEPT ![checkpoint[s].task] = checkpoint[s].read],
                        sha |-> checkpointSha, skewed |-> skewed]
    <3>1. file \in TaskFiles
      BY <2>3 DEF TaskFiles
    <3>2. loaded' = [loaded EXCEPT ![s] = file]
      BY <1>16 DEF BridgeLoad
    <3> QED
      BY <3>1, <3>2
  <2> QED
    BY <1>16, <2>1, <2>4 DEF BridgeLoad, gitVars, taskVars
<1>13. ASSUME NEW t \in Tasks, DoWork(t) PROVE CheckpointTypeOK'
  BY <1>13 DEF DoWork, taskVars
<1>14. ASSUME CommitElsewhere PROVE CheckpointTypeOK'
  BY ElsewhereGrows, <1>14 DEF CommitElsewhere, taskVars, Grown, HEAD
<1>15. ASSUME UNCHANGED checkpointVars PROVE CheckpointTypeOK'
  BY <1>15 DEF checkpointVars, gitVars, taskVars
<1> QED
  BY <1>1, <1>2, <1>3, <1>4, <1>5, <1>6, <1>7, <1>8, <1>9, <1>10, <1>11, <1>12, <1>13,
     <1>14, <1>15, <1>16
     DEF CheckpointNext, CheckpointStep

\* Staging and committing move work towards HEAD.
LEMMA WorkStep ==
  ASSUME CheckpointTypeOK, WorkIsSomewhere, [CheckpointNext]_checkpointVars
  PROVE  WorkIsSomewhere'
<1> USE DEF CheckpointTypeOK, WorkIsSomewhere
<1>1. ASSUME NEW s \in Sessions, NEW t \in Tasks, NEW mode \in {"complete", "cancel"},
          NEW expected \in {None} \cup 1 .. HEAD, BeginCheckpoint(s, t, mode, expected)
    PROVE WorkIsSomewhere'
  BY <1>1 DEF BeginCheckpoint, gitVars, taskVars, HEAD
<1>2. ASSUME NEW s \in Sessions, ReadHead(s) PROVE WorkIsSomewhere'
  BY <1>2 DEF ReadHead, AtStep, EndCheckpoint, gitVars, taskVars, HEAD
<1>3. ASSUME NEW s \in Sessions, ReadStatus(s) PROVE WorkIsSomewhere'
  BY <1>3 DEF ReadStatus, AtStep, StepTo, gitVars, taskVars, HEAD
<1>4. ASSUME NEW s \in Sessions, StageAll(s) PROVE WorkIsSomewhere'
  BY <1>4 DEF StageAll, AtStep, StepTo, taskVars, HEAD
<1>5. ASSUME NEW s \in Sessions, Commit(s) PROVE WorkIsSomewhere'
  <2>1. CASE UNCHANGED <<branch, index>>
    BY <1>5, <2>1 DEF Commit, HEAD
  <2>2. CASE Grown(index) /\ index' = {}
    BY <1>5, <2>2 DEF Commit, Grown
  <2> QED
    BY <1>5, <2>1, <2>2, CommitGrows
<1>6. ASSUME NEW s \in Sessions, GitFails(s) PROVE WorkIsSomewhere'
  BY <1>6 DEF GitFails, AtStep, StepTo, gitVars, taskVars, HEAD
<1>7. ASSUME NEW s \in Sessions, ReadSha(s) PROVE WorkIsSomewhere'
  BY <1>7 DEF ReadSha, AtStep, gitVars, taskVars, HEAD
<1>8. ASSUME NEW s \in Sessions, RecordDone(s) PROVE WorkIsSomewhere'
  BY <1>8 DEF RecordDone, AtStep, EndCheckpoint, gitVars, HEAD
<1>9. ASSUME NEW s \in Sessions, RecordCancelled(s) PROVE WorkIsSomewhere'
  BY <1>9 DEF RecordCancelled, AtStep, EndCheckpoint, gitVars, HEAD
<1>10. ASSUME NEW s \in Sessions, BridgeRead(s) PROVE WorkIsSomewhere'
  BY <1>10 DEF BridgeRead, AtStep, gitVars, taskVars, HEAD
<1>11. ASSUME NEW s \in Sessions, BridgeSave(s) PROVE WorkIsSomewhere'
  BY <1>11 DEF BridgeSave, AtStep, EndCheckpoint, gitVars, HEAD
<1>12. ASSUME NEW s \in Sessions, InterruptCheckpoint(s) PROVE WorkIsSomewhere'
  BY <1>12 DEF InterruptCheckpoint, EndCheckpoint, gitVars, taskVars, HEAD
<1>16. ASSUME NEW s \in Sessions, BridgeLoad(s) PROVE WorkIsSomewhere'
  BY <1>16 DEF BridgeLoad, AtStep, StepTo, gitVars, taskVars, HEAD
<1>13. ASSUME NEW t \in Tasks, DoWork(t) PROVE WorkIsSomewhere'
  BY <1>13 DEF DoWork, taskVars, HEAD
<1>14. ASSUME CommitElsewhere PROVE WorkIsSomewhere'
  BY ElsewhereGrows, <1>14 DEF CommitElsewhere, taskVars, Grown
<1>15. ASSUME UNCHANGED checkpointVars PROVE WorkIsSomewhere'
  BY <1>15 DEF checkpointVars, gitVars, taskVars, HEAD
<1> QED
  BY <1>1, <1>2, <1>3, <1>4, <1>5, <1>6, <1>7, <1>8, <1>9, <1>10, <1>11, <1>12, <1>13,
     <1>14, <1>15, <1>16
     DEF CheckpointNext, CheckpointStep

\* A call goes on only with the work of its task where its step needs it.
LEMMA CarryStep ==
  ASSUME CheckpointTypeOK, WorkIsSomewhere, CallsCarryWork, [CheckpointNext]_checkpointVars
  PROVE  CallsCarryWork'
<1> USE DEF CheckpointTypeOK, CheckpointCalls, WorkIsSomewhere, CallsCarryWork, Carried
<1>1. ASSUME NEW s \in Sessions, NEW t \in Tasks, NEW mode \in {"complete", "cancel"},
          NEW expected \in {None} \cup 1 .. HEAD, BeginCheckpoint(s, t, mode, expected)
    PROVE CallsCarryWork'
  BY <1>1 DEF BeginCheckpoint, gitVars, taskVars, HEAD
<1>2. ASSUME NEW s \in Sessions, ReadHead(s) PROVE CallsCarryWork'
  <2> SUFFICES ASSUME NEW u \in Sessions, checkpoint'[u] # None
               PROVE  /\ Carried(checkpoint[u])'
                      /\ checkpoint'[u].step \in {"status", "record"}
                           => checkpoint'[u].sha \in DOMAIN branch'
    OBVIOUS
  <2>1. CASE u # s
    BY <1>2, <2>1 DEF ReadHead, AtStep, gitVars, HEAD, EndCheckpoint
  <2>2. CASE u = s /\ checkpoint[s].expected \in {None, HEAD}
    <3>1. checkpoint'[s] = [checkpoint[s] EXCEPT !.step = "status", !.sha = HEAD, !.expected = None]
      BY <1>2, <2>2 DEF ReadHead, AtStep
    <3> QED
      BY <1>2, <2>2, <3>1, CallFacts, ZenonT(60) DEF ReadHead, AtStep, gitVars, HEAD
  <2>3. CASE u = s /\ checkpoint[s].expected \notin {None, HEAD}
    BY <1>2, <2>3 DEF ReadHead, EndCheckpoint
  <2> QED
    BY <2>1, <2>2, <2>3
<1>3. ASSUME NEW s \in Sessions, ReadStatus(s) PROVE CallsCarryWork'
  BY <1>3 DEF ReadStatus, AtStep, StepTo, gitVars, taskVars, HEAD
<1>4. ASSUME NEW s \in Sessions, StageAll(s) PROVE CallsCarryWork'
  BY <1>4 DEF StageAll, AtStep, StepTo, taskVars, HEAD
<1>5. ASSUME NEW s \in Sessions, Commit(s) PROVE CallsCarryWork'
  <2> SUFFICES ASSUME NEW u \in Sessions, checkpoint'[u] # None
               PROVE  /\ Carried(checkpoint[u])'
                      /\ checkpoint'[u].step \in {"status", "record"}
                           => checkpoint'[u].sha \in DOMAIN branch'
    OBVIOUS
  <2>1. CASE UNCHANGED <<branch, index>>
    BY <1>5, <2>1 DEF Commit, AtStep, StepTo, CommitIndex, HEAD
  <2>2. CASE Grown(index) /\ u # s
    BY <1>5, <2>2 DEF Commit, AtStep, StepTo, Grown
  <2>3. CASE Grown(index) /\ u = s
    <3>2. checkpoint[s] \in CheckpointCalls /\ checkpoint[s].step = "commit" /\ checkpoint[s] # None
      BY <1>5, CallFacts DEF Commit, AtStep
    <3>3. checkpoint'[s].task = checkpoint[s].task /\ checkpoint'[s].mode = checkpoint[s].mode
          /\ checkpoint'[s].step \in {"error", "sha"}
      BY <1>5, <3>2 DEF Commit, StepTo
    <3>4. worked' = worked /\ Carried(checkpoint[s]) /\ branch'[HEAD'] = branch[HEAD] \cup index
      BY <1>5, <2>3, <3>2 DEF Commit, Grown
    <3> QED
      BY <2>3, <3>2, <3>3, <3>4
  <2> QED
    BY <1>5, <2>1, <2>2, <2>3, CommitGrows
<1>6. ASSUME NEW s \in Sessions, GitFails(s) PROVE CallsCarryWork'
  BY <1>6 DEF GitFails, AtStep, StepTo, gitVars, taskVars, HEAD
<1>7. ASSUME NEW s \in Sessions, ReadSha(s) PROVE CallsCarryWork'
  <2> SUFFICES ASSUME NEW u \in Sessions, checkpoint'[u] # None
               PROVE  /\ Carried(checkpoint[u])'
                      /\ checkpoint'[u].step \in {"status", "record"}
                           => checkpoint'[u].sha \in DOMAIN branch'
    OBVIOUS
  <2>1. CASE u # s
    BY <1>7, <2>1 DEF ReadSha, AtStep, gitVars, HEAD
  <2>2. CASE u = s
    <3>1. checkpoint'[s] = [checkpoint[s] EXCEPT !.step = "record", !.sha = HEAD]
      BY <1>7, <2>2 DEF ReadSha, AtStep
    <3> QED
      BY <1>7, <2>2, <3>1, CallFacts, ZenonT(60) DEF ReadSha, AtStep, gitVars, HEAD
  <2> QED
    BY <2>1, <2>2
<1>8. ASSUME NEW s \in Sessions, RecordDone(s) PROVE CallsCarryWork'
  BY <1>8 DEF RecordDone, AtStep, EndCheckpoint, gitVars, HEAD
<1>9. ASSUME NEW s \in Sessions, RecordCancelled(s) PROVE CallsCarryWork'
  BY <1>9 DEF RecordCancelled, AtStep, EndCheckpoint, gitVars, HEAD
<1>10. ASSUME NEW s \in Sessions, BridgeRead(s) PROVE CallsCarryWork'
  BY <1>10 DEF BridgeRead, AtStep, gitVars, taskVars, HEAD
<1>11. ASSUME NEW s \in Sessions, BridgeSave(s) PROVE CallsCarryWork'
  BY <1>11 DEF BridgeSave, AtStep, EndCheckpoint, gitVars, HEAD
<1>12. ASSUME NEW s \in Sessions, InterruptCheckpoint(s) PROVE CallsCarryWork'
  BY <1>12 DEF InterruptCheckpoint, EndCheckpoint, gitVars, taskVars, HEAD
<1>16. ASSUME NEW s \in Sessions, BridgeLoad(s) PROVE CallsCarryWork'
  BY <1>16 DEF BridgeLoad, AtStep, StepTo, gitVars, taskVars, HEAD
<1>13. ASSUME NEW t \in Tasks, DoWork(t) PROVE CallsCarryWork'
  BY <1>13 DEF DoWork, taskVars, HEAD
<1>14. ASSUME CommitElsewhere PROVE CallsCarryWork'
  BY ElsewhereGrows, <1>14 DEF CommitElsewhere, taskVars, Grown
<1>15. ASSUME UNCHANGED checkpointVars PROVE CallsCarryWork'
  BY <1>15 DEF checkpointVars, gitVars, taskVars, HEAD
<1> QED
  BY <1>1, <1>2, <1>3, <1>4, <1>5, <1>6, <1>7, <1>8, <1>9, <1>10, <1>11, <1>12, <1>13,
     <1>14, <1>15, <1>16
     DEF CheckpointNext, CheckpointStep

\* Most steps write no status, load nothing and leave the calls alone that will save.
Bridged(s) == RecordDone(s) \/ RecordCancelled(s) \/ BridgeRead(s) \/ BridgeLoad(s)
                \/ BridgeSave(s) \/ InterruptCheckpoint(s)
Quiet == /\ UNCHANGED <<status, checkpointSha, loaded, skewed, stale>>
         /\ \A u \in Sessions : (AtStep(u, "save") \/ AtStep(u, "load"))' =>
                                 checkpoint'[u] = checkpoint[u]

LEMMA QuietSteps ==
  ASSUME CheckpointTypeOK, CheckpointNext, \A s \in Sessions : ~Bridged(s) PROVE Quiet
<1> USE DEF CheckpointTypeOK, CheckpointCalls, Quiet, AtStep
<1>1. ASSUME NEW s \in Sessions, NEW t \in Tasks, NEW mode \in {"complete", "cancel"},
          NEW expected \in {None} \cup 1 .. HEAD, BeginCheckpoint(s, t, mode, expected)
    PROVE Quiet
  BY <1>1 DEF BeginCheckpoint, taskVars
<1>2. ASSUME NEW s \in Sessions, ReadHead(s) PROVE Quiet
  BY <1>2 DEF ReadHead, EndCheckpoint, taskVars
<1>3. ASSUME NEW s \in Sessions, ReadStatus(s) PROVE Quiet
  BY <1>3 DEF ReadStatus, StepTo, taskVars
<1>4. ASSUME NEW s \in Sessions, StageAll(s) PROVE Quiet
  BY <1>4 DEF StageAll, StepTo, taskVars
<1>5. ASSUME NEW s \in Sessions, Commit(s) PROVE Quiet
  BY <1>5 DEF Commit, StepTo, taskVars
<1>6. ASSUME NEW s \in Sessions, GitFails(s) PROVE Quiet
  BY <1>6 DEF GitFails, StepTo, taskVars
<1>7. ASSUME NEW s \in Sessions, ReadSha(s) PROVE Quiet
  BY <1>7 DEF ReadSha, taskVars
<1>8. ASSUME NEW t \in Tasks, DoWork(t) PROVE Quiet
  BY <1>8 DEF DoWork, taskVars
<1>9. CASE CommitElsewhere
  BY <1>9 DEF CommitElsewhere, taskVars
<1> QED
  BY <1>1, <1>2, <1>3, <1>4, <1>5, <1>6, <1>7, <1>8, <1>9
     DEF CheckpointNext, CheckpointStep, Bridged

\* Commits are not taken back, so what they contain they keep.
LEMMA GoodStays ==
  ASSUME CheckpointTypeOK, CheckpointNext
  PROVE  \A sha, skew : Good(sha, skew, branch) => Good(sha, skew, branch')
<1>1. ASSUME NEW s \in Sessions, Commit(s) PROVE UNCHANGED branch \/ Grown(index)
  BY <1>1, CommitGrows
<1>2. CommitElsewhere => Grown(unstaged \cup index)
  BY ElsewhereGrows
<1>3. ASSUME NEW s \in Sessions, CheckpointStep(s), ~Commit(s) PROVE UNCHANGED branch
  BY <1>3 DEF CheckpointStep, BeginCheckpoint, ReadHead, ReadStatus, StageAll, GitFails,
     ReadSha, RecordDone, RecordCancelled, BridgeRead, BridgeLoad, BridgeSave,
     InterruptCheckpoint, gitVars
<1>4. ASSUME NEW t \in Tasks, DoWork(t) PROVE UNCHANGED branch
  BY <1>4 DEF DoWork
<1>5. \/ UNCHANGED branch
      \/ /\ DOMAIN branch \subseteq DOMAIN branch'
         /\ \A i \in DOMAIN branch : branch'[i] = branch[i]
  BY <1>1, <1>2, <1>3, <1>4 DEF CheckpointNext, Grown
<1> QED
  BY <1>5 DEF Good

\* What is recorded stays recorded, and so does a copy of it.
LEMMA RecordStep ==
  ASSUME CheckpointTypeOK, CallsCarryWork, RecordsHold, [CheckpointNext]_checkpointVars
  PROVE  RecordsHold'
<1>1. CASE UNCHANGED checkpointVars
  BY <1>1 DEF checkpointVars, gitVars, taskVars, RecordsHold, AtStep
<1>2. CASE CheckpointNext
  <2>1. /\ Good(checkpointSha, skewed, branch')
        /\ \A u \in Sessions : AtStep(u, "save") => Good(loaded[u].sha, loaded[u].skewed, branch')
    BY <1>2, GoodStays DEF RecordsHold
  <2>2. CASE \A s \in Sessions : ~Bridged(s)
    <3>1. Quiet
      BY <1>2, <2>2, QuietSteps
    <3> QED
      BY <2>1, <3>1 DEF Quiet, RecordsHold, AtStep
  <2> USE DEF CheckpointTypeOK, AtStep
  <2>3. ASSUME NEW s \in Sessions, RecordDone(s) PROVE RecordsHold'
    <3>1. /\ checkpoint[s] # None /\ checkpoint[s] \in CheckpointCalls
          /\ checkpoint[s].mode = "complete" /\ checkpoint[s].step = "record"
      BY <2>3 DEF RecordDone
    <3>2. LET k == checkpoint[s] IN
            k.task \in Tasks /\ k.sha \in DOMAIN branch /\ (k.late \/ k.task \in branch[k.sha])
      BY <3>1 DEF CallsCarryWork, Carried, CheckpointCalls
    <3>3. UNCHANGED branch
      BY <2>3 DEF RecordDone, gitVars
    <3>4. Good(checkpointSha', skewed', branch')
      BY <2>1, <2>3, <3>2, <3>3 DEF RecordDone, Good
    <3>5. \A u \in Sessions : AtStep(u, "save")' => AtStep(u, "save") /\ loaded'[u] = loaded[u]
      BY <2>3 DEF RecordDone, EndCheckpoint
    <3> QED
      BY <2>1, <3>4, <3>5 DEF RecordsHold
  <2>4. ASSUME NEW s \in Sessions, RecordCancelled(s) \/ BridgeRead(s) \/ InterruptCheckpoint(s)
        PROVE  RecordsHold'
    <3>1. ASSUME NEW u \in Sessions, AtStep(u, "save")'
          PROVE  AtStep(u, "save") /\ loaded'[u] = loaded[u]
      <4>1. CASE u # s
        BY <2>4, <3>1, <4>1 DEF RecordCancelled, BridgeRead, InterruptCheckpoint, EndCheckpoint
      <4>2. CASE u = s
        BY <2>4, <3>1, <4>2 DEF RecordCancelled, BridgeRead, InterruptCheckpoint, EndCheckpoint,
           CheckpointCalls
      <4> QED
        BY <4>1, <4>2
    <3>2. UNCHANGED <<checkpointSha, skewed>>
      BY <2>4 DEF RecordCancelled, BridgeRead, InterruptCheckpoint, taskVars
    <3> QED
      BY <2>1, <3>1, <3>2 DEF RecordsHold
  <2>5. ASSUME NEW s \in Sessions, BridgeLoad(s) PROVE RecordsHold'
    <3>1. loaded'[s].sha = checkpointSha /\ loaded'[s].skewed = skewed
      BY <2>5 DEF BridgeLoad
    <3>2. \A u \in Sessions \ {s} : AtStep(u, "save")' => AtStep(u, "save") /\ loaded'[u] = loaded[u]
      BY <2>5 DEF BridgeLoad, StepTo
    <3>3. UNCHANGED <<checkpointSha, skewed>>
      BY <2>5 DEF BridgeLoad, taskVars
    <3> QED
      BY <2>1, <3>1, <3>2, <3>3 DEF RecordsHold
  <2>6. ASSUME NEW s \in Sessions, BridgeSave(s) PROVE RecordsHold'
    <3>1. \A u \in Sessions : AtStep(u, "save")' => AtStep(u, "save") /\ loaded'[u] = loaded[u]
      BY <2>6 DEF BridgeSave, EndCheckpoint
    <3>2. checkpointSha' = loaded[s].sha /\ skewed' = loaded[s].skewed /\ AtStep(s, "save")
      BY <2>6 DEF BridgeSave
    <3> QED
      BY <2>1, <3>1, <3>2 DEF RecordsHold
  <2> QED
    BY <2>2, <2>3, <2>4, <2>5, <2>6 DEF Bridged
<1> QED
  BY <1>1, <1>2

\* Who saves has loaded, and whoever changes a status makes stale the sessions that hold it.
LEMMA BridgeStep ==
  ASSUME CheckpointTypeOK, SaveIsLoaded, BridgesKnown, [CheckpointNext]_checkpointVars
  PROVE  SaveIsLoaded' /\ BridgesKnown'
<1>1. CASE UNCHANGED checkpointVars
  BY <1>1 DEF checkpointVars, taskVars, SaveIsLoaded, BridgesKnown, AtStep
<1>2. ASSUME CheckpointNext, \A s \in Sessions : ~Bridged(s) PROVE SaveIsLoaded' /\ BridgesKnown'
  <2>1. Quiet
    BY <1>2, QuietSteps
  <2> QED
    BY <2>1 DEF Quiet, SaveIsLoaded, BridgesKnown, AtStep
<1>3. ASSUME NEW s \in Sessions, EndCheckpoint(s), stale' = stale \cup Outdated \/ stale' = (stale \cup Outdated) \ Copies(s),
             \A u \in Sessions \ {s} : loaded'[u] = loaded[u]
      PROVE  SaveIsLoaded' /\ BridgesKnown'
  <2>1. /\ ~AtStep(s, "save")' /\ ~AtStep(s, "load")'
        /\ \A u \in Sessions \ {s} : checkpoint'[u] = checkpoint[u]
    BY <1>3 DEF EndCheckpoint, AtStep, CheckpointTypeOK
  <2>2. \A u \in Sessions \ {s}, t \in Tasks :
          /\ <<u, t>> \in stale => <<u, t>> \in stale'
          /\ u \in Bridging(t) /\ status'[t] # status[t] => <<u, t>> \in stale'
    BY <1>3 DEF Outdated, Copies
  <2>3. SaveIsLoaded'
    BY <1>3, <2>1 DEF SaveIsLoaded, AtStep
  <2>4. ASSUME NEW u \in Sessions, AtStep(u, "save")', NEW t \in Tasks
        PROVE  <<u, t>> \in stale' \/ loaded'[u].status[t] = status'[t]
    <3>1. u # s /\ AtStep(u, "save") /\ loaded'[u] = loaded[u]
      BY <1>3, <2>1, <2>4 DEF AtStep
    <3>2. u \in Bridging(t)
      BY <3>1 DEF Bridging
    <3> QED
      BY <2>2, <3>1, <3>2 DEF BridgesKnown
  <2>5. ASSUME NEW u \in Sessions, AtStep(u, "load")'
        PROVE  <<u, checkpoint'[u].task>> \in stale' \/ checkpoint'[u].read = status'[checkpoint'[u].task]
    <3>1. u # s /\ AtStep(u, "load") /\ checkpoint'[u] = checkpoint[u]
      BY <2>1, <2>5 DEF AtStep
    <3>2. checkpoint[u].task \in Tasks
      BY <3>1 DEF AtStep, CheckpointTypeOK, CheckpointCalls
    <3>3. u \in Bridging(checkpoint[u].task)
      BY <3>1 DEF Bridging
    <3> QED
      BY <2>2, <3>1, <3>2, <3>3 DEF BridgesKnown
  <2> QED
    BY <2>3, <2>4, <2>5 DEF BridgesKnown, AtStep
<1>4. ASSUME NEW s \in Sessions, RecordDone(s) \/ RecordCancelled(s) \/ BridgeSave(s)
      PROVE  SaveIsLoaded' /\ BridgesKnown'
  BY <1>3, <1>4 DEF RecordDone, RecordCancelled, BridgeSave, CheckpointTypeOK
<1>5. ASSUME NEW s \in Sessions, InterruptCheckpoint(s) PROVE SaveIsLoaded' /\ BridgesKnown'
  BY <1>5 DEF InterruptCheckpoint, EndCheckpoint, taskVars, Copies, SaveIsLoaded, BridgesKnown, AtStep,
     CheckpointTypeOK
<1>6. ASSUME NEW s \in Sessions, BridgeRead(s) PROVE SaveIsLoaded' /\ BridgesKnown'
  BY <1>6 DEF BridgeRead, taskVars, SaveIsLoaded, BridgesKnown, AtStep, CheckpointTypeOK, CheckpointCalls
<1>7. ASSUME NEW s \in Sessions, BridgeLoad(s) PROVE SaveIsLoaded' /\ BridgesKnown'
  <2> DEFINE k == checkpoint[s]
             file == [status |-> [status EXCEPT ![k.task] = k.read],
                      sha |-> checkpointSha, skewed |-> skewed]
  <2>1. k \in CheckpointCalls /\ k.task \in Tasks /\ k.read \in TaskStatuses
    BY <1>7 DEF BridgeLoad, AtStep, CheckpointTypeOK, CheckpointCalls
  <2>2. file \in TaskFiles
    BY <2>1 DEF TaskFiles, CheckpointTypeOK
  <2>3. loaded' = [loaded EXCEPT ![s] = file] /\ UNCHANGED <<status, stale>>
    BY <1>7 DEF BridgeLoad, taskVars
  <2>4. \A u \in Sessions \ {s} : checkpoint'[u] = checkpoint[u]
    BY <1>7 DEF BridgeLoad, StepTo, CheckpointTypeOK
  <2>5. ~AtStep(s, "load")'
    BY <1>7, <2>1 DEF BridgeLoad, StepTo, AtStep, CheckpointTypeOK, CheckpointCalls
  <2>6. loaded'[s] = file /\ \A u \in Sessions \ {s} : loaded'[u] = loaded[u]
    BY <2>3 DEF CheckpointTypeOK
  <2>7. SaveIsLoaded'
    BY <2>2, <2>4, <2>6 DEF SaveIsLoaded, AtStep
  <2>8. \A t \in Tasks : <<s, t>> \in stale \/ file.status[t] = status[t]
    BY <1>7, <2>1 DEF BridgeLoad, BridgesKnown, CheckpointTypeOK
  <2>9. \A u \in Sessions : AtStep(u, "load")' => u # s /\ AtStep(u, "load")
    BY <2>4, <2>5 DEF AtStep
  <2>10. \A u \in Sessions \ {s} : AtStep(u, "save")' => AtStep(u, "save")
    BY <2>4 DEF AtStep
  <2>11. ASSUME NEW u \in Sessions, AtStep(u, "save")', NEW t \in Tasks
         PROVE  <<u, t>> \in stale' \/ loaded'[u].status[t] = status'[t]
    <3>1. CASE u = s
      BY <2>3, <2>6, <2>8, <3>1
    <3>2. CASE u # s
      BY <2>3, <2>6, <2>10, <2>11, <3>2 DEF BridgesKnown
    <3> QED
      BY <3>1, <3>2
  <2>12. ASSUME NEW u \in Sessions, AtStep(u, "load")'
         PROVE  <<u, checkpoint'[u].task>> \in stale' \/ checkpoint'[u].read = status'[checkpoint'[u].task]
    BY <2>3, <2>4, <2>9, <2>12 DEF BridgesKnown
  <2> QED
    BY <2>7, <2>11, <2>12 DEF BridgesKnown
<1> QED
  BY <1>1, <1>2, <1>4, <1>5, <1>6, <1>7 DEF Bridged

\* The invariant the theorems rest on.
LEMMA CheckpointInvariant == CheckpointSpec => []CheckpointInv
<1>1. CheckpointInv /\ [CheckpointNext]_checkpointVars => CheckpointInv'
  BY CheckpointTypeStep, WorkStep, CarryStep, RecordStep, BridgeStep DEF CheckpointInv
<1> QED
  BY <1>1, InitIsCheckpointInv, PTL DEF CheckpointSpec

\* determinus_task_checkpoint keeps its worktree, branch and records well formed.
THEOREM CheckpointTyping == CheckpointSpec => []CheckpointTypeOK
BY CheckpointInvariant, PTL DEF CheckpointInv

\* The commit on record for a task contains its work, however its calls interleave with
\* others' commits, fail and are made again; unless HEAD moved between the two reads of
\* a call that found the tree clean.
THEOREM RecordedWorkIsCommitted == CheckpointSpec => []DoneWorkCommitted
<1>1. CheckpointInv => DoneWorkCommitted
  BY DEF CheckpointInv, RecordsHold, Good, DoneWorkCommitted
<1> QED
  BY <1>1, CheckpointInvariant, PTL

\* A completed or cancelled task is put back to work only by the save of bridgeErrorClass,
\* of its own task or of another, and only when its status has changed since the session
\* that saves has read it.
THEOREM OnlyStaleErrorsReopen == CheckpointSpec => CompletionKept
<1> DEFINE Kept == \A t \in Tasks : status[t] # "open" /\ status'[t] = "open" =>
                     \E s \in Sessions : AtStep(s, "save") /\ <<s, t>> \in stale
<1>1. CheckpointInv /\ [CheckpointNext]_checkpointVars => [Kept]_checkpointVars
  <2> SUFFICES ASSUME CheckpointInv, CheckpointNext PROVE Kept
    OBVIOUS
  <2> USE DEF CheckpointInv, CheckpointTypeOK
  <2>1. ASSUME NEW s \in Sessions, RecordDone(s) PROVE Kept
    BY <2>1 DEF RecordDone, AtStep
  <2>2. ASSUME NEW s \in Sessions, RecordCancelled(s) PROVE Kept
    BY <2>2 DEF RecordCancelled, AtStep
  <2>3. ASSUME NEW s \in Sessions, BridgeSave(s) PROVE Kept
    BY <2>3 DEF BridgeSave, BridgesKnown
  <2>4. ASSUME NEW s \in Sessions, BridgeRead(s) \/ BridgeLoad(s) \/ InterruptCheckpoint(s) PROVE Kept
    BY <2>4 DEF BridgeRead, BridgeLoad, InterruptCheckpoint, taskVars
  <2>5. Quiet => Kept
    BY DEF Quiet
  <2> QED
    BY <2>1, <2>2, <2>3, <2>4, <2>5, QuietSteps DEF Bridged
<1> QED
  BY <1>1, CheckpointInvariant, PTL DEF CheckpointSpec, CompletionKept

\* The calls of one session follow each other.
OneSession == \A s, t \in Sessions : s = t

\* The stale error takes two sessions: while one works alone, none of its checkpoints,
\* failed, interrupted or made again, puts a completed or cancelled task back to work.
THEOREM CompletionKeptAlone ==
  OneSession => (CheckpointSpec => [][ \A t \in Tasks : status[t] # "open" => status'[t] # "open" ]_checkpointVars)
<1> DEFINE Stays == \A t \in Tasks : status[t] # "open" => status'[t] # "open"
           Kept == \A t \in Tasks : status[t] # "open" /\ status'[t] = "open" =>
                     \E s \in Sessions : AtStep(s, "save") /\ <<s, t>> \in stale
           Known == stale = {}
<1> SUFFICES ASSUME OneSession PROVE CheckpointSpec => [][Stays]_checkpointVars
  BY DEF OneSession
<1>1. CheckpointInit => Known
  BY DEF CheckpointInit
<1>2. CheckpointInv /\ Known /\ [CheckpointNext]_checkpointVars => Known'
  <2> SUFFICES ASSUME CheckpointInv, Known, CheckpointNext PROVE Known'
    BY DEF checkpointVars
  <2>1. ASSUME NEW s \in Sessions, RecordDone(s) \/ RecordCancelled(s) PROVE Known'
    <3>1. \A t \in Tasks : Bridging(t) = {}
      BY <2>1 DEF RecordDone, RecordCancelled, Bridging, AtStep, OneSession
    <3>2. Outdated = {}
      BY <3>1 DEF Outdated
    <3> QED
      BY <2>1, <3>2 DEF RecordDone, RecordCancelled
  <2>2. ASSUME NEW s \in Sessions, BridgeSave(s) PROVE Known'
    <3>1. Outdated \subseteq Copies(s)
      BY <2>2 DEF Outdated, Copies, OneSession
    <3> QED
      BY <2>2, <3>1 DEF BridgeSave
  <2>3. ASSUME NEW s \in Sessions, BridgeRead(s) \/ BridgeLoad(s) \/ InterruptCheckpoint(s) PROVE Known'
    BY <2>3 DEF BridgeRead, BridgeLoad, InterruptCheckpoint
  <2>4. Quiet => Known'
    BY DEF Quiet
  <2> QED
    BY <2>1, <2>2, <2>3, <2>4, QuietSteps DEF Bridged, CheckpointInv
<1>3. Known /\ [Kept]_checkpointVars => [Stays]_checkpointVars
  OBVIOUS
<1>4. CheckpointSpec => [][Kept]_checkpointVars
  BY OnlyStaleErrorsReopen DEF CompletionKept
<1> HIDE DEF Known, Kept, Stays
<1> QED
  BY <1>1, <1>2, <1>3, <1>4, CheckpointInvariant, PTL DEF CheckpointSpec

-----------------------------------------------------------------------------
\* The repair of a change file.

\* Places between the acquisition of the file lock and its release.
Locked == {"diagnose", "move", "audit", "check", "write", "clean"}
Retired == [rev |-> 0, form |-> "retired"]

\* A session in one of these places holds the file lock.
LockHeld == \A s \in Sessions : repairPc[s] \in Locked => fileLock = s

\* What a session that holds the lock knows of the file: what it moves has been
\* refused, what it may put back or restore is a copy, and the file is away meanwhile,
\* unless it was saved without the lock.
LockedView ==
  \A s \in Sessions :
    /\ repairPc[s] \in {"diagnosed", "diagnose"} => reason[s] # "none"
    /\ repairPc[s] = "move" => intruded \/ (changeFile # None /\ changeFile.form # "sound")
    /\ repairPc[s] = "audit" => held[s] \in copies
    /\ repairPc[s] \in {"lock", "check", "write", "clean"} => held[s] # None
    /\ repairPc[s] = "clean" =>
         changeFile \in Contents /\ changeFile.rev \in {held[s].rev, newest}

\* Once a writer of the store's own has loaded the change, no file and no content that may
\* be put back has retired values; before, nobody intrudes on who has moved the file away.
NoneReturns ==
  /\ writers # {} => /\ changeFile # None => changeFile.form # "retired"
                     /\ \A s \in Sessions : repairPc[s] = "audit" => held[s].form # "retired"
  /\ writers = {} => \A s \in Sessions : repairPc[s] \in {"audit", "write"} => changeFile = None

\* Retired values are those the change came with: no step writes them anew.
RetiredIsOld ==
  \A c \in copies \cup {changeFile} : c # None /\ c.form = "retired" => c = Retired

\* Before-states are saved before they are needed.
Saved ==
  \A s \in Sessions : /\ repairPc[s] = "normalize" => Retired \in before
                      /\ repairPc[s] \in {"write", "clean"} => held[s] \in before

RepairInv == /\ RepairTypeOK /\ LockHeld /\ LockedView /\ RetiredIsOld /\ Saved
             /\ NoneReturns /\ RecordKept

\* A content is a record and not None; normalising keeps its revision.
LEMMA ContentFacts ==
  ASSUME NEW c \in Contents
  PROVE  /\ c # None /\ c.rev \in 0 .. MaxRevision /\ c.form \in Forms
         /\ c = [rev |-> c.rev, form |-> c.form]
         /\ Normalized(c) \in Contents /\ Normalized(c) # None
         /\ Normalized(c).rev = c.rev /\ Normalized(c).form = "sound"
BY RevisionBound, NoneIsNoContent DEF Contents, Forms, Normalized

\* What a transaction, a normalisation or a save leaves is the revision written last.
LEMMA CommitFacts ==
  ASSUME RepairTypeOK, CommitFile
  PROVE  /\ changeFile' \in Contents /\ changeFile'.rev = newest' /\ changeFile'.form # "retired"
         /\ newest' \in 0 .. MaxRevision
<1>1. changeFile \in Contents /\ changeFile.rev + 1 \in 0 .. MaxRevision
  BY RevisionBound DEF RepairTypeOK, CommitFile, Contents
<1>2. PICK form \in {"sound", "broken"} : changeFile' = [rev |-> changeFile.rev + 1, form |-> form]
  BY DEF CommitFile
<1> QED
  BY <1>1, <1>2 DEF CommitFile, Contents, Forms

LEMMA SaveFacts ==
  ASSUME RepairTypeOK, SaveWhole
  PROVE  /\ changeFile' \in Contents /\ changeFile'.rev = newest' /\ changeFile'.form # "retired"
         /\ newest' \in 0 .. MaxRevision /\ writers # {} /\ intruded'
<1>1. PICK c \in writers, form \in {"sound", "broken"} :
        changeFile' = [rev |-> c.rev, form |-> form] /\ newest' = c.rev
  BY DEF SaveWhole
<1>2. c \in Contents /\ c.rev \in 0 .. MaxRevision
  BY DEF RepairTypeOK, Contents
<1> QED
  BY <1>1, <1>2 DEF SaveWhole, Contents, Forms

LEMMA NormalizeFacts ==
  ASSUME RepairTypeOK, NEW s \in Sessions, NormalizeEnums(s), changeFile' # changeFile \/ newest' # newest
  PROVE  /\ changeFile' \in Contents /\ changeFile'.rev = newest' /\ changeFile'.form = "sound"
         /\ newest' \in 0 .. MaxRevision
<1> DEFINE next == [changeFile EXCEPT !.rev = @ + 1]
<1>1. /\ changeFile # None /\ changeFile.rev < MaxRevision
      /\ changeFile' = Normalized(next) /\ newest' = changeFile.rev + 1
  BY DEF NormalizeEnums
<1>2. changeFile \in Contents /\ changeFile.rev + 1 \in 0 .. MaxRevision
  BY <1>1, RevisionBound DEF RepairTypeOK, Contents
<1>3. next \in Contents /\ next.rev = changeFile.rev + 1
  BY <1>2 DEF Contents
<1> QED
  BY <1>1, <1>2, <1>3, ContentFacts

\* The change comes with some content; nothing is in quarantine.
LEMMA InitIsRepairInv == RepairInit => RepairInv
<1> SUFFICES ASSUME RepairInit PROVE RepairInv
  OBVIOUS
<1> USE RevisionBound DEF RepairInit
<1>1. PICK form \in Forms : changeFile = [rev |-> 0, form |-> form]
  OBVIOUS
<1>2. changeFile \in Contents /\ changeFile.rev = 0
  BY <1>1 DEF Contents
<1>6. intruded \in BOOLEAN /\ clobbered \in BOOLEAN
  BY Zenon
<1>3. RepairTypeOK
  BY <1>2, <1>6 DEF RepairTypeOK, RepairPlaces
<1>4. LockHeld /\ LockedView /\ Saved /\ NoneReturns
  BY DEF LockHeld, LockedView, Saved, Locked, NoneReturns
<1>5. RetiredIsOld /\ RecordKept
  BY <1>1, <1>2, ContentFacts DEF RetiredIsOld, RecordKept, Retired
<1> QED
  BY <1>3, <1>4, <1>5 DEF RepairInv

\* Every step keeps contents, revisions, locks and places well formed.
LEMMA RepairTypeStep ==
  ASSUME RepairTypeOK, LockedView, [RepairNext]_repairVars PROVE RepairTypeOK'
<1> USE RevisionBound DEF RepairTypeOK, RepairPlaces, In, Move
<1>1. ASSUME NEW s \in Sessions, BeginQuarantine(s) PROVE RepairTypeOK'
  BY <1>1 DEF BeginQuarantine, readVars, writerVars, Diagnosis
<1>2. ASSUME NEW s \in Sessions, LockForMove(s) PROVE RepairTypeOK'
  BY <1>2 DEF LockForMove, NextPlace, readVars, writerVars
<1>3. ASSUME NEW s \in Sessions, DiagnoseAgain(s) PROVE RepairTypeOK'
  BY <1>3 DEF DiagnoseAgain, Unlocked, NextPlace, readVars, writerVars
<1>4. ASSUME NEW s \in Sessions, MoveAside(s) PROVE RepairTypeOK'
  BY <1>4 DEF MoveAside, Unlocked, NextPlace, readVars, writerVars, LockedView
<1>5. ASSUME NEW s \in Sessions, Audit(s) PROVE RepairTypeOK'
  BY <1>5 DEF Audit, Clobber, Unlocked, NextPlace, readVars, writerVars, LockedView
<1>6. ASSUME NEW s \in Sessions, BeginReconcile(s) PROVE RepairTypeOK'
  <2>1. PICK residue \in Residues : planned' = [planned EXCEPT ![s] = PlanRecords(residue)]
    BY <1>6 DEF BeginReconcile
  <2>2. PlanRecords(residue) \in SUBSET Records
    BY DEF PlanRecords, Residues, Records, Contents, Forms
  <2> QED
    BY <1>6, <2>1, <2>2 DEF BeginReconcile, readVars, writerVars
<1>7. ASSUME NEW s \in Sessions, LockReconcile(s) PROVE RepairTypeOK'
  BY <1>7 DEF LockReconcile, readVars, writerVars
<1>8. ASSUME NEW s \in Sessions, ReadDrift(s) PROVE RepairTypeOK'
  BY <1>8 DEF ReadDrift, readVars, writerVars
<1>9. ASSUME NEW s \in Sessions, NormalizeEnums(s) PROVE RepairTypeOK'
  BY NormalizeFacts, <1>9 DEF NormalizeEnums, readVars, writerVars, Contents, Forms, Normalized
<1>10. ASSUME NEW s \in Sessions, QuarantineRecord(s) PROVE RepairTypeOK'
  BY <1>10 DEF QuarantineRecord, readVars, writerVars
<1>11. ASSUME NEW s \in Sessions, ReadCopy(s) PROVE RepairTypeOK'
  BY <1>11 DEF ReadCopy, readVars, writerVars
<1>12. ASSUME NEW s \in Sessions, LockForRestore(s) PROVE RepairTypeOK'
  BY <1>12 DEF LockForRestore, readVars, writerVars
<1>13. ASSUME NEW s \in Sessions, CheckAbsent(s) PROVE RepairTypeOK'
  <2>1. intruded' \in BOOLEAN
    BY <1>13, Zenon DEF CheckAbsent
  <2> QED
    BY <1>13, <2>1 DEF CheckAbsent, ReleaseBoth, readVars, writerVars, LockedView
<1>14. ASSUME NEW s \in Sessions, Restore(s) PROVE RepairTypeOK'
  BY <1>14 DEF Restore, Clobber, readVars, writerVars, Contents, Forms, Normalized, LockedView
<1>15. ASSUME NEW s \in Sessions, RemoveCopy(s) PROVE RepairTypeOK'
  BY <1>15 DEF RemoveCopy, ReleaseBoth, readVars, writerVars
<1>16. ASSUME NEW s \in Sessions, StopRepair(s) PROVE RepairTypeOK'
  BY <1>16 DEF StopRepair, readVars, writerVars
<1>17. ASSUME CommitChange PROVE RepairTypeOK'
  BY CommitFacts, <1>17 DEF CommitChange, CommitFile, readVars, writerVars, Contents, Forms
<1>19. ASSUME LoadWhole PROVE RepairTypeOK'
  BY <1>19 DEF LoadWhole, readVars, writerVars
<1>20. ASSUME SaveWhole PROVE RepairTypeOK'
  BY SaveFacts, <1>20 DEF SaveWhole, readVars, writerVars, Contents, Forms
<1>21. ASSUME NEW s \in Sessions, MigrateRecord(s) PROVE RepairTypeOK'
  BY CommitFacts, <1>21 DEF MigrateRecord, CommitFile, readVars, writerVars, Contents, Forms
<1>18. ASSUME UNCHANGED repairVars PROVE RepairTypeOK'
  BY <1>18 DEF repairVars, readVars, writerVars
<1> QED
  BY <1>1, <1>2, <1>3, <1>4, <1>5, <1>6, <1>7, <1>8, <1>9, <1>10, <1>11, <1>12, <1>13,
     <1>14, <1>15, <1>16, <1>17, <1>18, <1>19, <1>20, <1>21
     DEF RepairNext, RepairStep

\* The file lock is taken only when nobody is in its critical section.
LEMMA LockStep ==
  ASSUME RepairTypeOK, LockHeld, [RepairNext]_repairVars PROVE LockHeld'
<1> USE NoneIsNoSession DEF RepairTypeOK, LockHeld, Locked, In, Move
<1>1. ASSUME NEW s \in Sessions, BeginQuarantine(s) PROVE LockHeld'
  BY <1>1 DEF BeginQuarantine, readVars, writerVars
<1>2. ASSUME NEW s \in Sessions, LockForMove(s) PROVE LockHeld'
  BY <1>2 DEF LockForMove, NextPlace, readVars, writerVars
<1>3. ASSUME NEW s \in Sessions, DiagnoseAgain(s) PROVE LockHeld'
  BY <1>3 DEF DiagnoseAgain, Unlocked, NextPlace, readVars, writerVars
<1>4. ASSUME NEW s \in Sessions, MoveAside(s) PROVE LockHeld'
  BY <1>4 DEF MoveAside, Unlocked, NextPlace, readVars, writerVars
<1>5. ASSUME NEW s \in Sessions, Audit(s) PROVE LockHeld'
  BY <1>5 DEF Audit, Clobber, Unlocked, NextPlace, readVars, writerVars
<1>6. ASSUME NEW s \in Sessions, BeginReconcile(s) PROVE LockHeld'
  BY <1>6 DEF BeginReconcile, readVars, writerVars
<1>7. ASSUME NEW s \in Sessions, LockReconcile(s) PROVE LockHeld'
  BY <1>7 DEF LockReconcile, readVars, writerVars
<1>8. ASSUME NEW s \in Sessions, ReadDrift(s) PROVE LockHeld'
  BY <1>8 DEF ReadDrift, readVars, writerVars
<1>9. ASSUME NEW s \in Sessions, NormalizeEnums(s) PROVE LockHeld'
  BY <1>9 DEF NormalizeEnums, readVars, writerVars
<1>10. ASSUME NEW s \in Sessions, QuarantineRecord(s) PROVE LockHeld'
  BY <1>10 DEF QuarantineRecord, readVars, writerVars
<1>11. ASSUME NEW s \in Sessions, ReadCopy(s) PROVE LockHeld'
  BY <1>11 DEF ReadCopy, readVars, writerVars
<1>12. ASSUME NEW s \in Sessions, LockForRestore(s) PROVE LockHeld'
  BY <1>12 DEF LockForRestore, readVars, writerVars
<1>13. ASSUME NEW s \in Sessions, CheckAbsent(s) PROVE LockHeld'
  BY <1>13 DEF CheckAbsent, ReleaseBoth, readVars, writerVars
<1>14. ASSUME NEW s \in Sessions, Restore(s) PROVE LockHeld'
  BY <1>14 DEF Restore, Clobber, readVars, writerVars
<1>15. ASSUME NEW s \in Sessions, RemoveCopy(s) PROVE LockHeld'
  BY <1>15 DEF RemoveCopy, ReleaseBoth, readVars, writerVars
<1>16. ASSUME NEW s \in Sessions, StopRepair(s) PROVE LockHeld'
  BY <1>16 DEF StopRepair, readVars, writerVars
<1>17. ASSUME CommitChange PROVE LockHeld'
  BY <1>17 DEF CommitChange, CommitFile, readVars, writerVars
<1>19. ASSUME LoadWhole PROVE LockHeld'
  BY <1>19 DEF LoadWhole, readVars, writerVars
<1>20. ASSUME SaveWhole PROVE LockHeld'
  BY <1>20 DEF SaveWhole, readVars, writerVars
<1>21. ASSUME NEW s \in Sessions, MigrateRecord(s) PROVE LockHeld'
  BY <1>21 DEF MigrateRecord, CommitFile, readVars, writerVars
<1>18. ASSUME UNCHANGED repairVars PROVE LockHeld'
  BY <1>18 DEF repairVars, readVars, writerVars
<1> QED
  BY <1>1, <1>2, <1>3, <1>4, <1>5, <1>6, <1>7, <1>8, <1>9, <1>10, <1>11, <1>12, <1>13,
     <1>14, <1>15, <1>16, <1>17, <1>18, <1>19, <1>20, <1>21
     DEF RepairNext, RepairStep

\* While a session holds the lock nobody else moves the file or its copies.
LEMMA ViewStep ==
  ASSUME RepairTypeOK, LockHeld, LockedView, [RepairNext]_repairVars PROVE LockedView'
<1> USE NoneIsNoSession DEF RepairTypeOK, LockHeld, LockedView, Locked, In, Move
<1>1. ASSUME NEW s \in Sessions, BeginQuarantine(s) PROVE LockedView'
  BY <1>1 DEF BeginQuarantine, readVars, writerVars, Diagnosis
<1>2. ASSUME NEW s \in Sessions, LockForMove(s) PROVE LockedView'
  BY <1>2 DEF LockForMove, NextPlace, readVars, writerVars
<1>3. ASSUME NEW s \in Sessions, DiagnoseAgain(s) PROVE LockedView'
  BY <1>3 DEF DiagnoseAgain, Unlocked, NextPlace, readVars, writerVars, Diagnosis
<1>4. ASSUME NEW s \in Sessions, MoveAside(s) PROVE LockedView'
  BY <1>4 DEF MoveAside, Unlocked, NextPlace, readVars, writerVars
<1>5. ASSUME NEW s \in Sessions, Audit(s) PROVE LockedView'
  BY <1>5 DEF Audit, Clobber, Unlocked, NextPlace, readVars, writerVars
<1>6. ASSUME NEW s \in Sessions, BeginReconcile(s) PROVE LockedView'
  BY <1>6 DEF BeginReconcile, readVars, writerVars
<1>7. ASSUME NEW s \in Sessions, LockReconcile(s) PROVE LockedView'
  BY <1>7 DEF LockReconcile, readVars, writerVars
<1>8. ASSUME NEW s \in Sessions, ReadDrift(s) PROVE LockedView'
  BY <1>8 DEF ReadDrift, readVars, writerVars
<1>9. ASSUME NEW s \in Sessions, NormalizeEnums(s) PROVE LockedView'
  BY <1>9 DEF NormalizeEnums, readVars, writerVars
<1>10. ASSUME NEW s \in Sessions, QuarantineRecord(s) PROVE LockedView'
  BY <1>10 DEF QuarantineRecord, readVars, writerVars
<1>11. ASSUME NEW s \in Sessions, ReadCopy(s) PROVE LockedView'
  BY ContentFacts, <1>11 DEF ReadCopy, readVars, writerVars
<1>12. ASSUME NEW s \in Sessions, LockForRestore(s) PROVE LockedView'
  BY <1>12 DEF LockForRestore, readVars, writerVars
<1>13. ASSUME NEW s \in Sessions, CheckAbsent(s) PROVE LockedView'
  BY <1>13 DEF CheckAbsent, ReleaseBoth, readVars, writerVars
<1>14. ASSUME NEW s \in Sessions, Restore(s) PROVE LockedView'
  BY ContentFacts, <1>14 DEF Restore, Clobber, readVars, writerVars
<1>15. ASSUME NEW s \in Sessions, RemoveCopy(s) PROVE LockedView'
  BY <1>15 DEF RemoveCopy, ReleaseBoth, readVars, writerVars
<1>16. ASSUME NEW s \in Sessions, StopRepair(s) PROVE LockedView'
  BY <1>16 DEF StopRepair, readVars, writerVars
<1>17. ASSUME CommitChange PROVE LockedView'
  BY <1>17 DEF CommitChange, CommitFile, readVars, writerVars
<1>19. ASSUME LoadWhole PROVE LockedView'
  BY <1>19 DEF LoadWhole, readVars, writerVars
<1>20. ASSUME SaveWhole PROVE LockedView'
  BY SaveFacts, ContentFacts, <1>20 DEF SaveWhole, readVars, writerVars
<1>21. ASSUME NEW s \in Sessions, MigrateRecord(s) PROVE LockedView'
  BY <1>21 DEF MigrateRecord, CommitFile, readVars, writerVars
<1>18. ASSUME UNCHANGED repairVars PROVE LockedView'
  BY <1>18 DEF repairVars, readVars, writerVars
<1> QED
  BY <1>1, <1>2, <1>3, <1>4, <1>5, <1>6, <1>7, <1>8, <1>9, <1>10, <1>11, <1>12, <1>13,
     <1>14, <1>15, <1>16, <1>17, <1>18, <1>19, <1>20, <1>21
     DEF RepairNext, RepairStep

\* Only the initial content can be retired.
LEMMA RetiredStep ==
  ASSUME RepairTypeOK, LockedView, RetiredIsOld, [RepairNext]_repairVars PROVE RetiredIsOld'
<1> USE DEF RepairTypeOK, LockedView, RetiredIsOld, In, Move
<1>1. ASSUME NEW s \in Sessions, BeginQuarantine(s) PROVE RetiredIsOld'
  BY <1>1 DEF BeginQuarantine, readVars, writerVars
<1>2. ASSUME NEW s \in Sessions, LockForMove(s) PROVE RetiredIsOld'
  BY <1>2 DEF LockForMove, NextPlace, readVars, writerVars
<1>3. ASSUME NEW s \in Sessions, DiagnoseAgain(s) PROVE RetiredIsOld'
  BY <1>3 DEF DiagnoseAgain, Unlocked, NextPlace, readVars, writerVars
<1>4. ASSUME NEW s \in Sessions, MoveAside(s) PROVE RetiredIsOld'
  BY <1>4 DEF MoveAside, Unlocked, NextPlace, readVars, writerVars
<1>5. ASSUME NEW s \in Sessions, Audit(s) PROVE RetiredIsOld'
  BY <1>5 DEF Audit, Clobber, Unlocked, NextPlace, readVars, writerVars
<1>6. ASSUME NEW s \in Sessions, BeginReconcile(s) PROVE RetiredIsOld'
  BY <1>6 DEF BeginReconcile, readVars, writerVars
<1>7. ASSUME NEW s \in Sessions, LockReconcile(s) PROVE RetiredIsOld'
  BY <1>7 DEF LockReconcile, readVars, writerVars
<1>8. ASSUME NEW s \in Sessions, ReadDrift(s) PROVE RetiredIsOld'
  BY <1>8 DEF ReadDrift, readVars, writerVars
<1>9. ASSUME NEW s \in Sessions, NormalizeEnums(s) PROVE RetiredIsOld'
  BY NormalizeFacts, <1>9 DEF NormalizeEnums, readVars, writerVars
<1>10. ASSUME NEW s \in Sessions, QuarantineRecord(s) PROVE RetiredIsOld'
  BY <1>10 DEF QuarantineRecord, readVars, writerVars
<1>11. ASSUME NEW s \in Sessions, ReadCopy(s) PROVE RetiredIsOld'
  BY <1>11 DEF ReadCopy, readVars, writerVars
<1>12. ASSUME NEW s \in Sessions, LockForRestore(s) PROVE RetiredIsOld'
  BY <1>12 DEF LockForRestore, readVars, writerVars
<1>13. ASSUME NEW s \in Sessions, CheckAbsent(s) PROVE RetiredIsOld'
  BY <1>13 DEF CheckAbsent, ReleaseBoth, readVars, writerVars
<1>14. ASSUME NEW s \in Sessions, Restore(s) PROVE RetiredIsOld'
  BY ContentFacts, <1>14 DEF Restore, Clobber, readVars, writerVars
<1>15. ASSUME NEW s \in Sessions, RemoveCopy(s) PROVE RetiredIsOld'
  BY <1>15 DEF RemoveCopy, ReleaseBoth, readVars, writerVars
<1>16. ASSUME NEW s \in Sessions, StopRepair(s) PROVE RetiredIsOld'
  BY <1>16 DEF StopRepair, readVars, writerVars
<1>17. ASSUME CommitChange PROVE RetiredIsOld'
  BY CommitFacts, <1>17 DEF CommitChange, CommitFile, readVars, writerVars
<1>19. ASSUME LoadWhole PROVE RetiredIsOld'
  BY <1>19 DEF LoadWhole, readVars, writerVars
<1>20. ASSUME SaveWhole PROVE RetiredIsOld'
  BY SaveFacts, <1>20 DEF SaveWhole, readVars, writerVars
<1>21. ASSUME NEW s \in Sessions, MigrateRecord(s) PROVE RetiredIsOld'
  BY CommitFacts, <1>21 DEF MigrateRecord, CommitFile, readVars, writerVars
<1>18. ASSUME UNCHANGED repairVars PROVE RetiredIsOld'
  BY <1>18 DEF repairVars, readVars, writerVars
<1> QED
  BY <1>1, <1>2, <1>3, <1>4, <1>5, <1>6, <1>7, <1>8, <1>9, <1>10, <1>11, <1>12, <1>13,
     <1>14, <1>15, <1>16, <1>17, <1>18, <1>19, <1>20, <1>21
     DEF RepairNext, RepairStep

\* The before-state is saved by the step that goes on to replace or discard.
LEMMA SavedStep ==
  ASSUME RepairTypeOK, RetiredIsOld, Saved, [RepairNext]_repairVars PROVE Saved'
<1> USE DEF RepairTypeOK, RetiredIsOld, Saved, In, Move
<1>1. ASSUME NEW s \in Sessions, BeginQuarantine(s) PROVE Saved'
  BY <1>1 DEF BeginQuarantine, readVars, writerVars
<1>2. ASSUME NEW s \in Sessions, LockForMove(s) PROVE Saved'
  BY <1>2 DEF LockForMove, NextPlace, readVars, writerVars
<1>3. ASSUME NEW s \in Sessions, DiagnoseAgain(s) PROVE Saved'
  BY <1>3 DEF DiagnoseAgain, Unlocked, NextPlace, readVars, writerVars
<1>4. ASSUME NEW s \in Sessions, MoveAside(s) PROVE Saved'
  BY <1>4 DEF MoveAside, Unlocked, NextPlace, readVars, writerVars
<1>5. ASSUME NEW s \in Sessions, Audit(s) PROVE Saved'
  BY <1>5 DEF Audit, Clobber, Unlocked, NextPlace, readVars, writerVars
<1>6. ASSUME NEW s \in Sessions, BeginReconcile(s) PROVE Saved'
  BY <1>6 DEF BeginReconcile, readVars, writerVars
<1>7. ASSUME NEW s \in Sessions, LockReconcile(s) PROVE Saved'
  BY <1>7 DEF LockReconcile, readVars, writerVars
<1>8. ASSUME NEW s \in Sessions, ReadDrift(s) PROVE Saved'
  BY <1>8 DEF ReadDrift, readVars, writerVars
<1>9. ASSUME NEW s \in Sessions, NormalizeEnums(s) PROVE Saved'
  BY <1>9 DEF NormalizeEnums, readVars, writerVars
<1>10. ASSUME NEW s \in Sessions, QuarantineRecord(s) PROVE Saved'
  BY <1>10 DEF QuarantineRecord, readVars, writerVars
<1>11. ASSUME NEW s \in Sessions, ReadCopy(s) PROVE Saved'
  BY <1>11 DEF ReadCopy, readVars, writerVars
<1>12. ASSUME NEW s \in Sessions, LockForRestore(s) PROVE Saved'
  BY <1>12 DEF LockForRestore, readVars, writerVars
<1>13. ASSUME NEW s \in Sessions, CheckAbsent(s) PROVE Saved'
  BY <1>13 DEF CheckAbsent, ReleaseBoth, readVars, writerVars
<1>14. ASSUME NEW s \in Sessions, Restore(s) PROVE Saved'
  BY <1>14 DEF Restore, Clobber, readVars, writerVars
<1>15. ASSUME NEW s \in Sessions, RemoveCopy(s) PROVE Saved'
  BY <1>15 DEF RemoveCopy, ReleaseBoth, readVars, writerVars
<1>16. ASSUME NEW s \in Sessions, StopRepair(s) PROVE Saved'
  BY <1>16 DEF StopRepair, readVars, writerVars
<1>17. ASSUME CommitChange PROVE Saved'
  BY <1>17 DEF CommitChange, CommitFile, readVars, writerVars
<1>19. ASSUME LoadWhole PROVE Saved'
  BY <1>19 DEF LoadWhole, readVars, writerVars
<1>20. ASSUME SaveWhole PROVE Saved'
  BY <1>20 DEF SaveWhole, readVars, writerVars
<1>21. ASSUME NEW s \in Sessions, MigrateRecord(s) PROVE Saved'
  BY <1>21 DEF MigrateRecord, CommitFile, readVars, writerVars
<1>18. ASSUME UNCHANGED repairVars PROVE Saved'
  BY <1>18 DEF repairVars, readVars, writerVars
<1> QED
  BY <1>1, <1>2, <1>3, <1>4, <1>5, <1>6, <1>7, <1>8, <1>9, <1>10, <1>11, <1>12, <1>13,
     <1>14, <1>15, <1>16, <1>17, <1>18, <1>19, <1>20, <1>21
     DEF RepairNext, RepairStep

\* The newest revision goes from the file to a copy and back, never out of both.
LEMMA KeptStep ==
  ASSUME RepairTypeOK, LockedView, RecordKept, [RepairNext]_repairVars PROVE RecordKept'
<1> USE DEF RepairTypeOK, LockedView, RecordKept, In, Move
<1>1. ASSUME NEW s \in Sessions, BeginQuarantine(s) PROVE RecordKept'
  BY <1>1 DEF BeginQuarantine, readVars, writerVars
<1>2. ASSUME NEW s \in Sessions, LockForMove(s) PROVE RecordKept'
  BY <1>2 DEF LockForMove, NextPlace, readVars, writerVars
<1>3. ASSUME NEW s \in Sessions, DiagnoseAgain(s) PROVE RecordKept'
  BY <1>3 DEF DiagnoseAgain, Unlocked, NextPlace, readVars, writerVars
<1>4. ASSUME NEW s \in Sessions, MoveAside(s) PROVE RecordKept'
  BY <1>4 DEF MoveAside, Unlocked, NextPlace, readVars, writerVars
<1>5. ASSUME NEW s \in Sessions, Audit(s) PROVE RecordKept'
  BY <1>5 DEF Audit, Clobber, Unlocked, NextPlace, readVars, writerVars
<1>6. ASSUME NEW s \in Sessions, BeginReconcile(s) PROVE RecordKept'
  BY <1>6 DEF BeginReconcile, readVars, writerVars
<1>7. ASSUME NEW s \in Sessions, LockReconcile(s) PROVE RecordKept'
  BY <1>7 DEF LockReconcile, readVars, writerVars
<1>8. ASSUME NEW s \in Sessions, ReadDrift(s) PROVE RecordKept'
  BY <1>8 DEF ReadDrift, readVars, writerVars
<1>9. ASSUME NEW s \in Sessions, NormalizeEnums(s) PROVE RecordKept'
  BY NormalizeFacts, ContentFacts, <1>9 DEF NormalizeEnums, readVars, writerVars
<1>10. ASSUME NEW s \in Sessions, QuarantineRecord(s) PROVE RecordKept'
  BY <1>10 DEF QuarantineRecord, readVars, writerVars
<1>11. ASSUME NEW s \in Sessions, ReadCopy(s) PROVE RecordKept'
  BY <1>11 DEF ReadCopy, readVars, writerVars
<1>12. ASSUME NEW s \in Sessions, LockForRestore(s) PROVE RecordKept'
  BY <1>12 DEF LockForRestore, readVars, writerVars
<1>13. ASSUME NEW s \in Sessions, CheckAbsent(s) PROVE RecordKept'
  BY <1>13 DEF CheckAbsent, ReleaseBoth, readVars, writerVars
<1>14. ASSUME NEW s \in Sessions, Restore(s) PROVE RecordKept'
  BY <1>14 DEF Restore, Clobber, readVars, writerVars
<1>15. ASSUME NEW s \in Sessions, RemoveCopy(s) PROVE RecordKept'
  BY ContentFacts, <1>15 DEF RemoveCopy, ReleaseBoth, readVars, writerVars
<1>16. ASSUME NEW s \in Sessions, StopRepair(s) PROVE RecordKept'
  BY <1>16 DEF StopRepair, readVars, writerVars
<1>17. ASSUME CommitChange PROVE RecordKept'
  BY CommitFacts, ContentFacts, <1>17 DEF CommitChange, CommitFile, readVars, writerVars
<1>19. ASSUME LoadWhole PROVE RecordKept'
  BY <1>19 DEF LoadWhole, readVars, writerVars
<1>20. ASSUME SaveWhole PROVE RecordKept'
  BY SaveFacts, ContentFacts, <1>20 DEF SaveWhole, readVars, writerVars
<1>21. ASSUME NEW s \in Sessions, MigrateRecord(s) PROVE RecordKept'
  BY CommitFacts, ContentFacts, <1>21 DEF MigrateRecord, CommitFile, readVars, writerVars
<1>18. ASSUME UNCHANGED repairVars PROVE RecordKept'
  BY <1>18 DEF repairVars, readVars, writerVars
<1> QED
  BY <1>1, <1>2, <1>3, <1>4, <1>5, <1>6, <1>7, <1>8, <1>9, <1>10, <1>11, <1>12, <1>13,
     <1>14, <1>15, <1>16, <1>17, <1>18, <1>19, <1>20, <1>21
     DEF RepairNext, RepairStep

\* Retired values come back only with a content that was moved away while nobody had
\* loaded the change.
LEMMA NoneReturnsStep ==
  ASSUME RepairTypeOK, LockHeld, LockedView, NoneReturns, [RepairNext]_repairVars
  PROVE  NoneReturns'
<1> USE NoneIsNoSession DEF RepairTypeOK, LockHeld, LockedView, NoneReturns, Locked, In, Move
<1>1. ASSUME NEW s \in Sessions, BeginQuarantine(s) PROVE NoneReturns'
  BY <1>1 DEF BeginQuarantine, readVars, writerVars
<1>2. ASSUME NEW s \in Sessions, LockForMove(s) PROVE NoneReturns'
  BY <1>2 DEF LockForMove, NextPlace, readVars, writerVars
<1>3. ASSUME NEW s \in Sessions, DiagnoseAgain(s) PROVE NoneReturns'
  BY <1>3 DEF DiagnoseAgain, Unlocked, NextPlace, readVars, writerVars
<1>4. ASSUME NEW s \in Sessions, MoveAside(s) PROVE NoneReturns'
  BY <1>4 DEF MoveAside, Unlocked, NextPlace, readVars, writerVars
<1>5. ASSUME NEW s \in Sessions, Audit(s) PROVE NoneReturns'
  BY <1>5 DEF Audit, Clobber, Unlocked, NextPlace, readVars, writerVars
<1>6. ASSUME NEW s \in Sessions, BeginReconcile(s) PROVE NoneReturns'
  BY <1>6 DEF BeginReconcile, readVars, writerVars
<1>7. ASSUME NEW s \in Sessions, LockReconcile(s) PROVE NoneReturns'
  BY <1>7 DEF LockReconcile, readVars, writerVars
<1>8. ASSUME NEW s \in Sessions, ReadDrift(s) PROVE NoneReturns'
  BY <1>8 DEF ReadDrift, readVars, writerVars
<1>9. ASSUME NEW s \in Sessions, NormalizeEnums(s) PROVE NoneReturns'
  BY NormalizeFacts, <1>9 DEF NormalizeEnums, readVars, writerVars
<1>10. ASSUME NEW s \in Sessions, QuarantineRecord(s) PROVE NoneReturns'
  BY <1>10 DEF QuarantineRecord, readVars, writerVars
<1>11. ASSUME NEW s \in Sessions, ReadCopy(s) PROVE NoneReturns'
  BY <1>11 DEF ReadCopy, readVars, writerVars
<1>12. ASSUME NEW s \in Sessions, LockForRestore(s) PROVE NoneReturns'
  BY <1>12 DEF LockForRestore, readVars, writerVars
<1>13. ASSUME NEW s \in Sessions, CheckAbsent(s) PROVE NoneReturns'
  BY <1>13 DEF CheckAbsent, ReleaseBoth, readVars, writerVars
<1>14. ASSUME NEW s \in Sessions, Restore(s) PROVE NoneReturns'
  BY ContentFacts, <1>14 DEF Restore, Clobber, readVars, writerVars
<1>15. ASSUME NEW s \in Sessions, RemoveCopy(s) PROVE NoneReturns'
  BY <1>15 DEF RemoveCopy, ReleaseBoth, readVars, writerVars
<1>16. ASSUME NEW s \in Sessions, StopRepair(s) PROVE NoneReturns'
  BY <1>16 DEF StopRepair, readVars, writerVars
<1>17. ASSUME CommitChange PROVE NoneReturns'
  BY CommitFacts, <1>17 DEF CommitChange, CommitFile, readVars, writerVars
<1>18. ASSUME UNCHANGED repairVars PROVE NoneReturns'
  BY <1>18 DEF repairVars, readVars, writerVars
<1>19. ASSUME LoadWhole PROVE NoneReturns'
  BY <1>19 DEF LoadWhole, readVars, writerVars
<1>20. ASSUME SaveWhole PROVE NoneReturns'
  BY SaveFacts, <1>20 DEF SaveWhole, readVars, writerVars
<1>21. ASSUME NEW s \in Sessions, MigrateRecord(s) PROVE NoneReturns'
  BY CommitFacts, <1>21 DEF MigrateRecord, CommitFile, readVars, writerVars
<1> QED
  BY <1>1, <1>2, <1>3, <1>4, <1>5, <1>6, <1>7, <1>8, <1>9, <1>10, <1>11, <1>12, <1>13,
     <1>14, <1>15, <1>16, <1>17, <1>18, <1>19, <1>20, <1>21
     DEF RepairNext, RepairStep

\* The invariant the theorems rest on.
LEMMA RepairInvariant == RepairSpec => []RepairInv
<1>1. RepairInv /\ [RepairNext]_repairVars => RepairInv'
  BY RepairTypeStep, LockStep, ViewStep, RetiredStep, SavedStep, KeptStep,
     NoneReturnsStep DEF RepairInv
<1> QED
  BY <1>1, InitIsRepairInv, PTL DEF RepairSpec

\* Quarantine and reconcile keep the store's files well formed.
THEOREM RepairTyping == RepairSpec => []RepairTypeOK
BY RepairInvariant, PTL DEF RepairInv

\* The revision of a change written last is in its file or in a quarantined copy, wherever a
\* quarantine, its rollback, a normalisation or a restore stops, unless one of them has
\* overwritten what was saved without the lock.
THEOREM NoRecordLost == RepairSpec => []RecordKept
BY RepairInvariant, PTL DEF RepairInv

\* executeQuarantine takes away a change that reads only if it was saved without the lock
\* after the second diagnosis.
THEOREM SoundIsNeverMoved == RepairSpec => SoundStaysActive
<1>1. RepairInv /\ [RepairNext]_repairVars
        => [changeFile # None /\ changeFile.form = "sound" => changeFile' # None \/ intruded]_repairVars
  <2> SUFFICES ASSUME RepairInv, RepairNext, changeFile # None, changeFile.form = "sound", ~intruded
               PROVE  changeFile' # None
    OBVIOUS
  <2> USE DEF RepairInv, RepairTypeOK, LockedView, In, Move
  <2>1. ASSUME CommitChange PROVE changeFile' # None
    BY <2>1, CommitFacts, ContentFacts DEF CommitChange
  <2>2. ASSUME NEW s \in Sessions, MoveAside(s) PROVE FALSE
    BY <2>2 DEF MoveAside
  <2>3. ASSUME NEW s \in Sessions, Audit(s) PROVE changeFile' # None
    BY <2>3, ContentFacts DEF Audit
  <2>4. ASSUME NEW s \in Sessions, NormalizeEnums(s) PROVE changeFile' # None
    BY <2>4, NormalizeFacts, ContentFacts
  <2>5. ASSUME NEW s \in Sessions, Restore(s) PROVE changeFile' # None
    BY <2>5, ContentFacts DEF Restore
  <2>6. ASSUME NEW s \in Sessions, MigrateRecord(s) PROVE changeFile' # None
    BY <2>6, CommitFacts, ContentFacts DEF MigrateRecord
  <2>7. ASSUME SaveWhole PROVE changeFile' # None
    BY <2>7, SaveFacts, ContentFacts
  <2>8. ASSUME NEW s \in Sessions, RepairStep(s), changeFile' # changeFile
        PROVE  \/ MoveAside(s) \/ Audit(s) \/ NormalizeEnums(s) \/ MigrateRecord(s) \/ Restore(s)
    BY <2>8 DEF RepairStep, BeginQuarantine, LockForMove, DiagnoseAgain, BeginReconcile,
         LockReconcile, ReadDrift, QuarantineRecord, ReadCopy, LockForRestore, CheckAbsent,
         RemoveCopy, StopRepair
  <2> QED
    BY <2>1, <2>2, <2>3, <2>4, <2>5, <2>6, <2>7, <2>8 DEF RepairNext, LoadWhole
<1> QED
  BY <1>1, RepairInvariant, PTL DEF RepairSpec, SoundStaysActive

\* A content with retired values is saved before another replaces it, and a copy before it
\* leaves the quarantine, or it is back in its file (the executors of reconcile-apply).
THEOREM RepairsAreSaved == RepairSpec => RepairSaved
<1> DEFINE Kept == /\ (changeFile # None /\ changeFile.form = "retired" /\ changeFile' # changeFile)
                        => changeFile \in before \cup copies'
                   /\ \A c \in copies \ copies' : c \in before \/ changeFile' = c
<1>1. RepairInv /\ [RepairNext]_repairVars => [Kept]_repairVars
  <2> SUFFICES ASSUME RepairInv, RepairNext PROVE Kept
    OBVIOUS
  <2> USE DEF RepairInv, RepairTypeOK, LockedView, Saved, RetiredIsOld, NoneReturns, In, Move
  <2>1. ASSUME CommitChange PROVE Kept
    BY <2>1 DEF CommitChange, CommitFile
  <2>2. ASSUME NEW s \in Sessions, MoveAside(s) PROVE Kept
    BY <2>2 DEF MoveAside
  <2>3. ASSUME NEW s \in Sessions, Audit(s) PROVE Kept
    BY <2>3 DEF Audit
  <2>4. ASSUME NEW s \in Sessions, NormalizeEnums(s) PROVE Kept
    BY <2>4 DEF NormalizeEnums
  <2>5. ASSUME NEW s \in Sessions, Restore(s) PROVE Kept
    BY <2>5 DEF Restore
  <2>6. ASSUME NEW s \in Sessions, RemoveCopy(s) PROVE Kept
    BY <2>6 DEF RemoveCopy
  <2>7. ASSUME NEW s \in Sessions, MigrateRecord(s) PROVE Kept
    BY <2>7 DEF MigrateRecord, CommitFile
  <2>8. ASSUME SaveWhole PROVE Kept
    BY <2>8, SaveFacts DEF SaveWhole
  <2>9. ASSUME NEW s \in Sessions, RepairStep(s), changeFile' # changeFile \/ copies' # copies
        PROVE  \/ MoveAside(s) \/ Audit(s) \/ NormalizeEnums(s) \/ MigrateRecord(s) \/ Restore(s)
               \/ RemoveCopy(s)
    BY <2>9 DEF RepairStep, BeginQuarantine, LockForMove, DiagnoseAgain, BeginReconcile,
         LockReconcile, ReadDrift, QuarantineRecord, ReadCopy, LockForRestore, CheckAbsent,
         StopRepair
  <2> QED
    BY <2>1, <2>2, <2>3, <2>4, <2>5, <2>6, <2>7, <2>8, <2>9 DEF RepairNext, LoadWhole
<1> QED
  BY <1>1, RepairInvariant, PTL DEF RepairSpec, RepairSaved

-----------------------------------------------------------------------------
\* The composition.  The run lets one component move in each behaviour (focus); here
\* their steps interleave freely.
together == <<flockVars, removalVars, epicVars, checkpointVars, repairVars>>

ToolsNext ==
  \/ FlockNext      /\ UNCHANGED <<removalVars, epicVars, checkpointVars, repairVars>>
  \/ RemovalNext    /\ UNCHANGED <<flockVars, epicVars, checkpointVars, repairVars>>
  \/ EpicNext       /\ UNCHANGED <<flockVars, removalVars, checkpointVars, repairVars>>
  \/ CheckpointNext /\ UNCHANGED <<flockVars, removalVars, epicVars, repairVars>>
  \/ RepairNext     /\ UNCHANGED <<flockVars, removalVars, epicVars, checkpointVars>>

ToolsSpec ==
  /\ FlockInit /\ RemovalInit /\ EpicInit /\ CheckpointInit /\ RepairInit
  /\ [][ToolsNext]_together

\* One step of the composition is a step of every component, or leaves it as it is.
LEMMA ToolsStep ==
  [ToolsNext]_together => /\ [FlockNext]_flockVars /\ [RemovalNext]_removalVars
                          /\ [EpicNext]_epicVars /\ [CheckpointNext]_checkpointVars
                          /\ [RepairNext]_repairVars
<1>1. CASE ToolsNext
  BY <1>1 DEF ToolsNext
<1>2. CASE UNCHANGED together
  BY <1>2 DEF together
<1> QED
  BY <1>1, <1>2

\* A behaviour in which the tools run side by side, their steps interleaved in any order,
\* is one of each of them: a tool leaves the state of the others alone.
THEOREM ToolsCompose ==
  ToolsSpec => FlockSpec /\ RemovalSpec /\ EpicSpec /\ CheckpointSpec /\ RepairSpec
BY ToolsStep, PTL DEF ToolsSpec, FlockSpec, RemovalSpec, EpicSpec, CheckpointSpec, RepairSpec

\* What the run checks, one component moving at a time, is part of the composition.
THEOREM RunIsComposition == Spec => ToolsSpec
<1>1. Init => FlockInit /\ RemovalInit /\ EpicInit /\ CheckpointInit /\ RepairInit
  BY DEF Init
<1>2. [Next]_toolVars => [ToolsNext]_together
  BY DEF Next, ToolsNext, toolVars, together
<1> QED
  BY <1>1, <1>2, PTL DEF Spec, ToolsSpec

\* Every component of the composition stays well formed, whichever of them moves.
THEOREM ToolsTyping == ToolsSpec \/ Spec => []ToolsTypeOK
BY RunIsComposition, ToolsCompose, FlockTyping, RemovalTyping, EpicTyping, CheckpointTyping,
   RepairTyping, PTL DEF ToolsTypeOK

\* What each tool promises holds of all of them side by side: the flock has one owner
\* unless a rename misfired, worktrees are removed under their lease and as judged,
\* memberships are backed, epics and completed work kept, and no change lost by a repair.
THEOREM ToolsKeepTheirPromises ==
  ToolsSpec => /\ [](FlockExclusive /\ FlockReclaimsDead /\ RemovalUnderLease)
               /\ [](MembershipBacked /\ RetiredChangesDone /\ DoneWorkCommitted /\ RecordKept)
               /\ UncommittedWorkKept /\ RemovedAsJudged
               /\ EpicKept /\ CompletionKept
               /\ SoundStaysActive /\ RepairSaved
<1>1. ToolsSpec => [](FlockExclusive /\ FlockReclaimsDead /\ RemovalUnderLease)
  BY ToolsCompose, FlockExcludes, FlockReclaims, RemovalRunsUnderLease, PTL
<1>2. ToolsSpec => [](MembershipBacked /\ RetiredChangesDone /\ DoneWorkCommitted /\ RecordKept)
  BY ToolsCompose, MembershipsAreBacked, RetiredWorkIsOver, RecordedWorkIsCommitted, NoRecordLost, PTL
<1> QED
  BY <1>1, <1>2, ToolsCompose, OnlyForceDestroysWork, OnlyJudgedAreRemoved, EpicsAreKept,
     OnlyStaleErrorsReopen, SoundIsNeverMoved, RepairsAreSaved, PTL
=============================================================================
