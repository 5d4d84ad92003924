--------------------------- MODULE ChangeWorkflow ---------------------------
(***************************************************************************)
(* The seven gates of a change, its tasks and their test evidence, as the  *)
(* tools move them:                                                        *)
(*                                                                         *)
(*   determinus_gate_complete       tools/gate.ts, types/gates.ts          *)
(*   determinus_change_reenter      tools/change/handlers-misc.ts          *)
(*   determinus_task_add, _update,                                         *)
(*   _cancel, _reclassify_tdd       tools/task.ts                          *)
(*   determinus_run_test            tools/test.ts                          *)
(*   determinus_task_checkpoint     tools/checkpoint.ts                    *)
(*   checkExecutionPairing          validator/tdd-ordering.ts              *)
(*                                                                         *)
(* Every tool reads the change, judges what it has read, and then commits  *)
(* a field-local mutation through coordinateChangeMutation, which is one   *)
(* atomic step on the latest change (the theorem of ChangeProjection).     *)
(* None of them passes the revision it has judged, so whatever other       *)
(* sessions commit in between is not noticed: judging and committing are   *)
(* two steps here.  Tools whose judgement no later step depends on (the    *)
(* task exists, and tasks are never removed) are one step.                 *)
(***************************************************************************)
EXTENDS Integers, Sequences

CONSTANTS Sessions,   \* processes that call the tools
          Tasks,      \* task ids
          RunLimit,   \* TEST_RUN_RING_BUFFER_LIMIT
          None        \* no call in progress

ASSUME RunLimitAssumption == RunLimit \in Nat \ {0}

GATE_ORDER == <<"proposal", "discovery", "design", "planning", "execution",
                "acceptance", "release">>
Gates == 1 .. 7       \* positions in GATE_ORDER
Planning == 4
Execution == 5

Intents == {"inline", "separate_verification", "not_applicable"}
Outcomes == {"failed", "passed"}

\* A call that judges first and commits later.
Call == [op : {"gate"}, gate : Gates]
        \cup [op : {"add"}]
        \cup [op : {"patch", "checkpoint"}, task : Tasks]

ExecutionCall == [op |-> "gate", gate |-> Execution]

VARIABLES
  gates,      \* the gates whose status is "done"
  status,     \* task status; pending, in_progress and blocked are "open"
  intent,     \* task metadata.tdd_intent
  runs,       \* test_runs of each task, oldest first
  call,       \* the call each session is in
  pc,         \* "idle", "tasks" (has judged the gates only) or "commit"
  stale,      \* history: a step that bears on its judgement overtook the call
  overtaken,  \* history: a gate was completed by a stale call
  verified    \* history: done tasks whose checkpoint verified the evidence

changeVars == <<gates, status, intent, runs>>
vars == <<gates, status, intent, runs, call, pc, stale, overtaken, verified>>

TypeOK ==
  /\ gates \subseteq Gates
  /\ status \in [Tasks -> {"absent", "open", "done", "cancelled"}]
  /\ intent \in [Tasks -> Intents]
  /\ runs \in [Tasks -> Seq(Outcomes)]
  /\ \A t \in Tasks : Len(runs[t]) <= RunLimit
  /\ call \in [Sessions -> Call \cup {None}]
  /\ pc \in [Sessions -> {"idle", "tasks", "commit"}]
  /\ \A c \in Sessions : pc[c] # "idle" => call[c] \in Call
  /\ stale \in [Sessions -> BOOLEAN]
  /\ overtaken \in BOOLEAN
  /\ verified \subseteq Tasks

\* createDefaultGates: everything pending, no task yet.
Init ==
  /\ gates = {}
  /\ status = [t \in Tasks |-> "absent"]
  /\ intent = [t \in Tasks |-> "inline"]
  /\ runs = [t \in Tasks |-> <<>>]
  /\ call = [c \in Sessions |-> None]
  /\ pc = [c \in Sessions |-> "idle"]
  /\ stale = [c \in Sessions |-> FALSE]
  /\ overtaken = FALSE
  /\ verified = {}

-----------------------------------------------------------------------------
\* Judgements.

\* canCompleteGate: all prior gates are done.
CanCompleteGate(g) == \A prior \in Gates : prior < g => prior \in gates

Exists(t) == status[t] # "absent"
Finished(t) == status[t] # "open"

\* autoDetectPair: a run that did not pass, and later one that did.
Paired(s) == \E red, green \in DOMAIN s :
               red < green /\ s[red] # "passed" /\ s[green] = "passed"

\* checkTddOrdering and checkExecutionPairing under the default enforcement.
Evidenced(t) ==
  \/ intent[t] = "not_applicable"
  \/ intent[t] = "separate_verification" /\ \E i \in DOMAIN runs[t] : runs[t][i] = "passed"
  \/ intent[t] = "inline" /\ Paired(runs[t])

\* The execution gate: no task is open and every done one carries evidence.
WorkFinished == \A t \in Tasks : Finished(t) /\ (status[t] = "done" => Evidenced(t))

\* Bug: the planning gate is not looked at.
AddAllowedAlways == TRUE

\* task_add: the task graph is frozen by the planning gate.
AddAllowed == Planning \notin gates

\* Bug: task_update marks any task done.
PatchAllowedAnytime(t) == Exists(t)

\* task_update with status "done" only amends a task that is done already.
PatchAllowed(t) == status[t] = "done"

\* What each tool demands of the change it has read.
Accepts(q) ==
  \/ q.op = "gate" /\ CanCompleteGate(q.gate)
  \/ q.op = "add" /\ AddAllowed
  \/ q.op = "patch" /\ PatchAllowed(q.task)
  \/ q.op = "checkpoint" /\ Exists(q.task) /\ Evidenced(q.task)

\* The step of c ends its call and overtakes the calls Q of other sessions.
Overtake(c, Q) ==
  /\ pc' = [pc EXCEPT ![c] = "idle"]
  /\ call' = [call EXCEPT ![c] = None]
  /\ stale' = [d \in Sessions |-> d # c /\ pc[d] # "idle" /\ (stale[d] \/ call[d] \in Q)]

GateCallsAfter(g) == {[op |-> "gate", gate |-> h] : h \in {k \in Gates : k > g}}

-----------------------------------------------------------------------------
\* Calls that judge first.

Judge(c, q) ==
  /\ pc[c] = "idle"
  /\ Accepts(q)
  /\ pc' = [pc EXCEPT ![c] = IF q = ExecutionCall THEN "tasks" ELSE "commit"]
  /\ call' = [call EXCEPT ![c] = q]
  /\ UNCHANGED <<changeVars, stale, overtaken, verified>>

\* Bug: the evidence of the done tasks is not asked for.
JudgeTasksByStatus(c) ==
  /\ pc[c] = "tasks"
  /\ \A t \in Tasks : Finished(t)
  /\ pc' = [pc EXCEPT ![c] = "commit"]
  /\ UNCHANGED <<changeVars, call, stale, overtaken, verified>>

\* The execution gate loads the change a second time and judges its tasks.
JudgeTasks(c) ==
  /\ pc[c] = "tasks"
  /\ WorkFinished
  /\ pc' = [pc EXCEPT ![c] = "commit"]
  /\ UNCHANGED <<changeVars, call, stale, overtaken, verified>>

\* checkCheckpointTddEvidence lets the checkpoint pass when the change cannot
\* be loaded: this call has judged nothing.
CheckpointUnread(c, t) ==
  /\ pc[c] = "idle"
  /\ Exists(t)
  /\ pc' = [pc EXCEPT ![c] = "commit"]
  /\ call' = [call EXCEPT ![c] = [op |-> "checkpoint", task |-> t]]
  /\ stale' = [stale EXCEPT ![c] = TRUE]
  /\ UNCHANGED <<changeVars, overtaken, verified>>

\* Refused by another check, a failed git or projection commit, or a crash.
GiveUp(c) ==
  /\ pc[c] # "idle"
  /\ Overtake(c, {})
  /\ UNCHANGED <<changeVars, overtaken, verified>>

CommitGate(c) ==
  /\ pc[c] = "commit" /\ call[c].op = "gate"
  /\ gates' = gates \cup {call[c].gate}
  /\ overtaken' = (overtaken \/ stale[c])
  /\ Overtake(c, IF call[c].gate = Planning THEN {[op |-> "add"]} ELSE {})
  /\ UNCHANGED <<status, intent, runs, verified>>

\* addTaskToProjection; the tdd_intent follows from the task's type.
CommitAdd(c, t, i) ==
  /\ pc[c] = "commit" /\ call[c].op = "add"
  /\ ~Exists(t)
  /\ status' = [status EXCEPT ![t] = "open"]
  /\ intent' = [intent EXCEPT ![t] = i]
  /\ Overtake(c, {ExecutionCall})
  /\ UNCHANGED <<gates, runs, overtaken, verified>>

\* The patch carries status "done", and so does the record of a checkpoint:
\* both overwrite the status the task has by now.
CommitDone(c) ==
  /\ pc[c] = "commit" /\ call[c].op \in {"patch", "checkpoint"}
  /\ status' = [status EXCEPT ![call[c].task] = "done"]
  /\ Overtake(c, IF status[call[c].task] = "done" THEN {} ELSE {ExecutionCall})
  /\ verified' = IF call[c].op = "checkpoint" /\ ~stale[c]
                   THEN verified \cup {call[c].task} ELSE verified
  /\ UNCHANGED <<gates, intent, runs, overtaken>>

-----------------------------------------------------------------------------
\* Calls of one step.

\* Bug: the gates after the one that is reentered keep their status.
ReenterOne(c, g) ==
  /\ pc[c] = "idle"
  /\ gates' = gates \ {g}
  /\ Overtake(c, GateCallsAfter(g))
  /\ UNCHANGED <<status, intent, runs, overtaken, verified>>

\* determinus_change_reenter resets the gate and all that follow it.
Reenter(c, g) ==
  /\ pc[c] = "idle"
  /\ gates' = {h \in gates : h < g}
  /\ Overtake(c, GateCallsAfter(g))
  /\ UNCHANGED <<status, intent, runs, overtaken, verified>>

\* task_update to pending, in_progress or blocked.  It looks neither at the
\* gates nor at the status the task has.
Reopen(c, t) ==
  /\ pc[c] = "idle"
  /\ Exists(t)
  /\ status' = [status EXCEPT ![t] = "open"]
  /\ Overtake(c, {ExecutionCall, [op |-> "patch", task |-> t]})
  /\ verified' = verified \ {t}
  /\ UNCHANGED <<gates, intent, runs, overtaken>>

\* task_cancel, and a checkpoint with mode "cancel".
Cancel(c, t) ==
  /\ pc[c] = "idle"
  /\ Exists(t)
  /\ status' = [status EXCEPT ![t] = "cancelled"]
  /\ Overtake(c, {[op |-> "patch", task |-> t]})
  /\ verified' = verified \ {t}
  /\ UNCHANGED <<gates, intent, runs, overtaken>>

\* task_reclassify_tdd; a task_update that names another tdd_intent is this
\* and the step that writes its status.  Only the former refuses a cancelled
\* task, when it reads it: a cancellation may still come before the commit.
Reclassify(c, t, i) ==
  /\ pc[c] = "idle"
  /\ Exists(t) /\ intent[t] # i
  /\ intent' = [intent EXCEPT ![t] = i]
  /\ Overtake(c, {ExecutionCall, [op |-> "checkpoint", task |-> t]})
  /\ UNCHANGED <<gates, status, runs, overtaken, verified>>

\* Bug: one run too many is kept.
LatestAndOneMore(s) == IF Len(s) > RunLimit + 1 THEN Tail(s) ELSE s

\* The last RunLimit elements of s: slice(-RunLimit).
Latest(s) == IF Len(s) > RunLimit THEN SubSeq(s, Len(s) - RunLimit + 1, Len(s)) ELSE s

\* determinus_run_test, on any task of the change, done ones included.
RunTest(c, t, outcome) ==
  /\ pc[c] = "idle"
  /\ Exists(t)
  /\ runs' = [runs EXCEPT ![t] = Latest(Append(@, outcome))]
  /\ Overtake(c, {ExecutionCall, [op |-> "checkpoint", task |-> t]})
  /\ UNCHANGED <<gates, status, intent, overtaken, verified>>

Next ==
  \E c \in Sessions :
    \/ \E q \in Call : Judge(c, q)
    \/ JudgeTasks(c)
    \/ GiveUp(c)
    \/ CommitGate(c)
    \/ CommitDone(c)
    \/ \E g \in Gates : Reenter(c, g)
    \/ \E t \in Tasks :
         \/ CheckpointUnread(c, t)
         \/ Reopen(c, t)
         \/ Cancel(c, t)
         \/ \E i \in Intents : CommitAdd(c, t, i) \/ Reclassify(c, t, i)
         \/ \E outcome \in Outcomes : RunTest(c, t, outcome)

Spec == Init /\ [][Next]_vars

-----------------------------------------------------------------------------
\* Properties.

\* The description of determinus_gate_complete: "Enforces sequence - prior
\* gates must be complete first".  No gate is done while one before it is not.
GatesInSequence == \A g \in gates : CanCompleteGate(g)

\* The sequence breaks in one way only: a reentry overtakes the completion of
\* a later gate between its judgement and its commit.  Any number of
\* completions, repeated ones included, and of reentries outside that window
\* leave the done gates a prefix of GATE_ORDER.
SequenceUnlessOvertaken == ~overtaken => GatesInSequence

\* "Cannot add tasks after planning gate is complete": a task appears under a
\* done planning gate only from a call that the gate's completion overtook.
PlanFrozenUnlessOvertaken ==
  [][\A t \in Tasks : status[t] = "absent" /\ status'[t] # "absent" /\ Planning \in gates
       => \E c \in Sessions : call[c] = [op |-> "add"] /\ stale[c]]_vars

\* The execution gate becomes done over open or unproved work only when a
\* task changed between the second load and the commit, or the gates before.
ExecutionEarned ==
  [][Execution \notin gates /\ Execution \in gates'
       => WorkFinished \/ \E c \in Sessions : call[c] = ExecutionCall /\ stale[c]]_vars

\* A task becomes done only with the evidence its intent demands: the one
\* tool that marks it done has judged the runs before its git commit.
\* Only a run, a reclassification or a status change that overtook the call,
\* or a change that could not be read, lets it through.
DoneEarned ==
  [][\A t \in Tasks : status[t] # "done" /\ status'[t] = "done"
       => \/ Evidenced(t)
          \/ \E c \in Sessions : /\ call[c] \in [op : {"patch", "checkpoint"}, task : {t}]
                                 /\ stale[c]]_vars

\* "Tasks already carrying refs are trusted (checkpoint verified them)": what
\* a checkpoint has verified, and the execution gate would accept, later runs
\* of the tests do not make it refuse.
EvidenceSurvives ==
  [][\A t \in verified : Evidenced(t) /\ UNCHANGED <<status, intent>> => Evidenced(t)']_vars
=============================================================================
