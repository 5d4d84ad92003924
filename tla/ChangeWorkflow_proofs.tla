----------------------- MODULE ChangeWorkflow_proofs ------------------------
(***************************************************************************)
(* Proofs about ChangeWorkflow for any number of sessions, tasks and runs. *)
(*                                                                         *)
(* The argument: a call that no step has overtaken still holds a correct   *)
(* judgement when it commits (Fresh).  Fresh is preserved because every    *)
(* step that could falsify a judgement marks the calls it concerns stale,  *)
(* and that is the point of the proof: the steps named in the Overtake     *)
(* sets are all there are.                                                 *)
(***************************************************************************)
EXTENDS ChangeWorkflow, TLAPS

\* What the call of session d has judged holds.
Judged(d) ==
  /\ call[d].op = "gate" => CanCompleteGate(call[d].gate)
  /\ call[d] = ExecutionCall /\ pc[d] = "commit" => WorkFinished
  /\ call[d].op = "add" => Planning \notin gates
  /\ call[d].op = "patch" => status[call[d].task] = "done"
  /\ call[d].op = "checkpoint" => Exists(call[d].task) /\ Evidenced(call[d].task)

\* So it does unless the call was overtaken.
Fresh(d) == pc[d] # "idle" /\ ~stale[d] => Judged(d)

\* A call that names a task names one of the change: tasks are never removed.
NamesTask ==
  \A d \in Sessions : pc[d] # "idle" /\ call[d].op \in {"patch", "checkpoint"}
                      => Exists(call[d].task)

IInv ==
  /\ TypeOK
  /\ NamesTask
  /\ SequenceUnlessOvertaken
  /\ \A d \in Sessions : Fresh(d)

-----------------------------------------------------------------------------
\* The kinds of calls and their fields.
LEMMA CallShape ==
  ASSUME NEW q \in Call
  PROVE  /\ q.op \in {"gate", "add", "patch", "checkpoint"}
         /\ q.op = "gate" => q.gate \in Gates /\ q = [op |-> "gate", gate |-> q.gate]
         /\ q.op = "add" => q = [op |-> "add"]
         /\ q.op = "patch" => q.task \in Tasks /\ q = [op |-> "patch", task |-> q.task]
         /\ q.op = "checkpoint" =>
              q.task \in Tasks /\ q = [op |-> "checkpoint", task |-> q.task]
<1>1. CASE q \in [op : {"gate"}, gate : Gates]
  BY <1>1
<1>2. CASE q \in [op : {"add"}]
  BY <1>2
<1>3. CASE q \in [op : {"patch", "checkpoint"}, task : Tasks]
  BY <1>3
<1> QED
  BY <1>1, <1>2, <1>3 DEF Call

\* The latest runs are runs, and no more than the ring holds.
LEMMA LatestKeepsType ==
  ASSUME NEW s \in Seq(Outcomes), NEW o \in Outcomes, Len(s) <= RunLimit
  PROVE  /\ Latest(Append(s, o)) \in Seq(Outcomes)
         /\ Len(Latest(Append(s, o))) <= RunLimit
<1> DEFINE a == Append(s, o)
<1>1. a \in Seq(Outcomes) /\ Len(a) = Len(s) + 1 /\ Len(s) \in Nat
  OBVIOUS
<1>2. RunLimit \in Nat \ {0}
  BY RunLimitAssumption
<1> HIDE DEF a
<1>3. CASE Len(a) > RunLimit
  <2>1. Len(a) - RunLimit + 1 \in 1 .. Len(a) /\ Len(a) \in 1 .. Len(a)
    BY <1>1, <1>2, <1>3
  <2>2. /\ SubSeq(a, Len(a) - RunLimit + 1, Len(a)) \in Seq(Outcomes)
        /\ Len(SubSeq(a, Len(a) - RunLimit + 1, Len(a))) = RunLimit
    BY <1>1, <1>2, <1>3, <2>1
  <2> QED
    BY <1>2, <1>3, <2>2 DEF Latest, a
<1>4. CASE ~(Len(a) > RunLimit)
  BY <1>1, <1>2, <1>4 DEF Latest, a
<1> QED
  BY <1>3, <1>4

\* A change starts well formed.
LEMMA InitTyped == Init => TypeOK
<1> SUFFICES ASSUME Init PROVE TypeOK
  OBVIOUS
<1>1. runs \in [Tasks -> Seq(Outcomes)] /\ \A t \in Tasks : Len(runs[t]) <= RunLimit
  BY RunLimitAssumption DEF Init
<1>2. gates \subseteq Gates /\ verified \subseteq Tasks
  BY DEF Init
<1>3. status \in [Tasks -> {"absent", "open", "done", "cancelled"}]
  BY DEF Init
<1>4. intent \in [Tasks -> Intents]
  BY DEF Init, Intents
<1>5. call \in [Sessions -> Call \cup {None}] /\ pc \in [Sessions -> {"idle", "tasks", "commit"}]
  BY DEF Init
<1>6. \A c \in Sessions : pc[c] # "idle" => call[c] \in Call
  BY DEF Init
<1>7. stale \in [Sessions -> BOOLEAN] /\ overtaken \in BOOLEAN
  BY DEF Init
<1> QED
  BY <1>1, <1>2, <1>3, <1>4, <1>5, <1>6, <1>7 DEF TypeOK

\* A step that ends the call of c leaves the other calls where they were; one
\* that is not stale after it was not stale before, and is none it overtook.
LEMMA OvertakeEffect ==
  ASSUME TypeOK, NEW c \in Sessions, NEW Q, Overtake(c, Q)
  PROVE  /\ pc' \in [Sessions -> {"idle", "tasks", "commit"}]
         /\ call' \in [Sessions -> Call \cup {None}]
         /\ \A d \in Sessions : pc'[d] # "idle" => call'[d] \in Call
         /\ stale' \in [Sessions -> BOOLEAN]
         /\ \A d \in Sessions : pc'[d] # "idle" /\ ~stale'[d] =>
              /\ d # c /\ ~stale[d] /\ call[d] \notin Q
              /\ pc[d] # "idle" /\ pc'[d] = pc[d]
              /\ call[d] \in Call /\ call'[d] = call[d]
<1>1. /\ pc \in [Sessions -> {"idle", "tasks", "commit"}]
      /\ call \in [Sessions -> Call \cup {None}]
      /\ \A d \in Sessions : pc[d] # "idle" => call[d] \in Call
      /\ stale \in [Sessions -> BOOLEAN]
  BY DEF TypeOK
<1>2. /\ pc' = [pc EXCEPT ![c] = "idle"]
      /\ call' = [call EXCEPT ![c] = None]
      /\ stale' = [d \in Sessions |-> d # c /\ pc[d] # "idle" /\ (stale[d] \/ call[d] \in Q)]
  BY DEF Overtake
<1>3. stale' \in [Sessions -> BOOLEAN]
  BY <1>2, Zenon
<1>4. \A d \in Sessions : pc'[d] # "idle" => d # c /\ pc'[d] = pc[d] /\ call'[d] = call[d]
  BY <1>1, <1>2
<1>5. \A d \in Sessions : d # c /\ pc[d] # "idle" /\ ~stale'[d] => ~stale[d] /\ call[d] \notin Q
  BY <1>2, Zenon
<1>6. pc' \in [Sessions -> {"idle", "tasks", "commit"}] /\ call' \in [Sessions -> Call \cup {None}]
  BY <1>1, <1>2
<1> QED
  BY <1>1, <1>3, <1>4, <1>5, <1>6

\* The step that starts a call types the control of its session.
LEMMA JudgeTyped ==
  ASSUME TypeOK, NEW c \in Sessions, NEW q \in Call, NEW p \in {"tasks", "commit"},
         pc' = [pc EXCEPT ![c] = p], call' = [call EXCEPT ![c] = q]
  PROVE  /\ pc' \in [Sessions -> {"idle", "tasks", "commit"}]
         /\ call' \in [Sessions -> Call \cup {None}]
         /\ \A d \in Sessions : pc'[d] # "idle" => call'[d] \in Call
BY DEF TypeOK

\* Every step keeps the state well formed.
LEMMA NextTyped == TypeOK /\ [Next]_vars => TypeOK'
<1> SUFFICES ASSUME TypeOK, [Next]_vars PROVE TypeOK'
  OBVIOUS
<1>1. CASE UNCHANGED vars
  BY <1>1 DEF vars, TypeOK
<1>2. ASSUME NEW c \in Sessions, NEW q \in Call, Judge(c, q) PROVE TypeOK'
  <2>1. PICK p \in {"tasks", "commit"} : pc' = [pc EXCEPT ![c] = p]
    BY <1>2 DEF Judge
  <2>2. call' = [call EXCEPT ![c] = q] /\ UNCHANGED <<changeVars, stale, overtaken, verified>>
    BY <1>2 DEF Judge
  <2>3. /\ pc' \in [Sessions -> {"idle", "tasks", "commit"}]
        /\ call' \in [Sessions -> Call \cup {None}]
        /\ \A d \in Sessions : pc'[d] # "idle" => call'[d] \in Call
    BY <2>1, <2>2, JudgeTyped
  <2> QED
    BY <2>2, <2>3 DEF TypeOK, changeVars
<1>3. ASSUME NEW c \in Sessions, JudgeTasks(c) PROVE TypeOK'
  BY <1>3 DEF JudgeTasks, TypeOK, changeVars
<1>4. ASSUME NEW c \in Sessions, NEW t \in Tasks, CheckpointUnread(c, t) PROVE TypeOK'
  <2>1. [op |-> "checkpoint", task |-> t] \in Call
    BY DEF Call
  <2>2. /\ pc' = [pc EXCEPT ![c] = "commit"]
        /\ call' = [call EXCEPT ![c] = [op |-> "checkpoint", task |-> t]]
        /\ stale' = [stale EXCEPT ![c] = TRUE]
        /\ UNCHANGED <<changeVars, overtaken, verified>>
    BY <1>4 DEF CheckpointUnread
  <2>3. /\ pc' \in [Sessions -> {"idle", "tasks", "commit"}]
        /\ call' \in [Sessions -> Call \cup {None}]
        /\ \A d \in Sessions : pc'[d] # "idle" => call'[d] \in Call
    BY <2>1, <2>2, JudgeTyped
  <2> QED
    BY <2>2, <2>3 DEF TypeOK, changeVars
<1>5. ASSUME NEW c \in Sessions, NEW Q, Overtake(c, Q),
             gates' \subseteq Gates,
             status' \in [Tasks -> {"absent", "open", "done", "cancelled"}],
             intent' \in [Tasks -> Intents],
             runs' \in [Tasks -> Seq(Outcomes)],
             \A t \in Tasks : Len(runs'[t]) <= RunLimit,
             overtaken' \in BOOLEAN, verified' \subseteq Tasks
      PROVE  TypeOK'
  BY <1>5, OvertakeEffect DEF TypeOK
<1>6. ASSUME NEW c \in Sessions, GiveUp(c) PROVE TypeOK'
  <2>1. Overtake(c, {}) /\ UNCHANGED <<changeVars, overtaken, verified>>
    BY <1>6 DEF GiveUp
  <2> QED
    BY <1>5, <2>1 DEF TypeOK, changeVars
<1>7. ASSUME NEW c \in Sessions, CommitGate(c) PROVE TypeOK'
  <2>1. call[c].gate \in Gates
    BY <1>7, CallShape DEF CommitGate, TypeOK
  <2>2. /\ gates' = gates \cup {call[c].gate}
        /\ overtaken' = (overtaken \/ stale[c])
        /\ UNCHANGED <<status, intent, runs, verified>>
    BY <1>7 DEF CommitGate
  <2>3. overtaken' \in BOOLEAN
    BY <2>2, Zenon
  <2>4. PICK Q : Overtake(c, Q)
    BY <1>7 DEF CommitGate
  <2> QED
    BY <1>5, <2>1, <2>2, <2>3, <2>4 DEF TypeOK
<1>8. ASSUME NEW c \in Sessions, NEW t \in Tasks, NEW i \in Intents, CommitAdd(c, t, i)
      PROVE  TypeOK'
  <2>1. /\ status' = [status EXCEPT ![t] = "open"]
        /\ intent' = [intent EXCEPT ![t] = i]
        /\ Overtake(c, {ExecutionCall})
        /\ UNCHANGED <<gates, runs, overtaken, verified>>
    BY <1>8 DEF CommitAdd
  <2> QED
    BY <1>5, <2>1 DEF TypeOK
<1>9. ASSUME NEW c \in Sessions, CommitDone(c) PROVE TypeOK'
  <2>1. call[c].task \in Tasks
    BY <1>9, CallShape DEF CommitDone, TypeOK
  <2>2. /\ status' = [status EXCEPT ![call[c].task] = "done"]
        /\ UNCHANGED <<gates, intent, runs, overtaken>>
    BY <1>9 DEF CommitDone
  <2>3. verified' \subseteq Tasks
    BY <1>9, <2>1 DEF CommitDone, TypeOK
  <2>4. PICK Q : Overtake(c, Q)
    BY <1>9 DEF CommitDone
  <2> QED
    BY <1>5, <2>1, <2>2, <2>3, <2>4 DEF TypeOK
<1>10. ASSUME NEW c \in Sessions, NEW g \in Gates, Reenter(c, g) PROVE TypeOK'
  <2>1. /\ gates' = {h \in gates : h < g}
        /\ Overtake(c, GateCallsAfter(g))
        /\ UNCHANGED <<status, intent, runs, overtaken, verified>>
    BY <1>10 DEF Reenter
  <2> QED
    BY <1>5, <2>1 DEF TypeOK
<1>11. ASSUME NEW c \in Sessions, NEW t \in Tasks, Reopen(c, t) \/ Cancel(c, t) PROVE TypeOK'
  <2>1. PICK v \in {"open", "cancelled"} : status' = [status EXCEPT ![t] = v]
    BY <1>11 DEF Reopen, Cancel
  <2>2. verified' = verified \ {t} /\ UNCHANGED <<gates, intent, runs, overtaken>>
    BY <1>11 DEF Reopen, Cancel
  <2>3. PICK Q : Overtake(c, Q)
    BY <1>11 DEF Reopen, Cancel
  <2> QED
    BY <1>5, <2>1, <2>2, <2>3 DEF TypeOK
<1>12. ASSUME NEW c \in Sessions, NEW t \in Tasks, NEW i \in Intents, Reclassify(c, t, i)
       PROVE  TypeOK'
  <2>1. /\ intent' = [intent EXCEPT ![t] = i]
        /\ Overtake(c, {ExecutionCall, [op |-> "checkpoint", task |-> t]})
        /\ UNCHANGED <<gates, status, runs, overtaken, verified>>
    BY <1>12 DEF Reclassify
  <2> QED
    BY <1>5, <2>1 DEF TypeOK
<1>13. ASSUME NEW c \in Sessions, NEW t \in Tasks, NEW o \in Outcomes, RunTest(c, t, o)
       PROVE  TypeOK'
  <2>1. /\ runs' = [runs EXCEPT ![t] = Latest(Append(runs[t], o))]
        /\ Overtake(c, {ExecutionCall, [op |-> "checkpoint", task |-> t]})
        /\ UNCHANGED <<gates, status, intent, overtaken, verified>>
    BY <1>13 DEF RunTest
  <2>2. runs[t] \in Seq(Outcomes) /\ Len(runs[t]) <= RunLimit
    BY DEF TypeOK
  <2>3. /\ Latest(Append(runs[t], o)) \in Seq(Outcomes)
        /\ Len(Latest(Append(runs[t], o))) <= RunLimit
    BY <2>2, LatestKeepsType
  <2>4. /\ runs' \in [Tasks -> Seq(Outcomes)]
        /\ \A u \in Tasks : Len(runs'[u]) <= RunLimit
    BY <2>1, <2>3 DEF TypeOK
  <2> QED
    BY <1>5, <2>1, <2>4 DEF TypeOK
<1> QED
  BY <1>1, <1>2, <1>3, <1>4, <1>6, <1>7, <1>8, <1>9, <1>10, <1>11, <1>12, <1>13 DEF Next

-----------------------------------------------------------------------------
\* A call's judgement survives a step that spares the calls outside Q.
LEMMA StillFresh ==
  ASSUME TypeOK, NEW c \in Sessions, NEW Q, Overtake(c, Q), NEW d \in Sessions, Fresh(d),
         \A g \in Gates : CanCompleteGate(g) /\ [op |-> "gate", gate |-> g] \notin Q
                           => CanCompleteGate(g)',
         WorkFinished /\ ExecutionCall \notin Q => WorkFinished',
         Planning \notin gates /\ [op |-> "add"] \notin Q => Planning \notin gates',
         \A t \in Tasks : status[t] = "done" /\ [op |-> "patch", task |-> t] \notin Q
                           => status'[t] = "done",
         \A t \in Tasks : /\ Exists(t) /\ Evidenced(t)
                          /\ [op |-> "checkpoint", task |-> t] \notin Q
                          => (Exists(t) /\ Evidenced(t))'
  PROVE  Fresh(d)'
<1> SUFFICES ASSUME pc'[d] # "idle", ~stale'[d] PROVE Judged(d)'
  BY DEF Fresh
<1>1. PICK q \in Call : q = call[d]
  BY OvertakeEffect
<1>2. ~stale[d] /\ q \notin Q /\ pc[d] # "idle" /\ pc'[d] = pc[d] /\ call'[d] = q
  BY <1>1, OvertakeEffect
<1>3. /\ q.op = "gate" => CanCompleteGate(q.gate)
      /\ q = ExecutionCall /\ pc[d] = "commit" => WorkFinished
      /\ q.op = "add" => Planning \notin gates
      /\ q.op = "patch" => status[q.task] = "done"
      /\ q.op = "checkpoint" => Exists(q.task) /\ Evidenced(q.task)
  BY <1>1, <1>2 DEF Fresh, Judged
<1>4. q.op = "gate" => CanCompleteGate(q.gate)'
  BY <1>2, <1>3, CallShape
<1>5. q = ExecutionCall /\ pc'[d] = "commit" => WorkFinished'
  BY <1>2, <1>3
<1>6. q.op = "add" => Planning \notin gates'
  BY <1>2, <1>3, CallShape
<1>7. q.op = "patch" => status'[q.task] = "done"
  BY <1>2, <1>3, CallShape
<1>8. q.op = "checkpoint" => (Exists(q.task) /\ Evidenced(q.task))'
  BY <1>2, <1>3, CallShape
<1> QED
  BY <1>2, <1>4, <1>5, <1>6, <1>7, <1>8
  DEF Judged, CanCompleteGate, Exists, Evidenced, ExecutionCall

\* A call that is untouched by a step that leaves the change alone stays fresh.
LEMMA UntouchedFresh ==
  ASSUME NEW d \in Sessions, Fresh(d), UNCHANGED changeVars,
         pc'[d] = pc[d], call'[d] = call[d], stale'[d] = stale[d]
  PROVE  Fresh(d)'
BY DEF Fresh, Judged, changeVars, CanCompleteGate, WorkFinished, Finished, Exists, Evidenced,
       ExecutionCall

\* The steps that begin or advance a call: Judge, JudgeTasks, CheckpointUnread.
LEMMA JudgementsFresh ==
  ASSUME TypeOK, NEW c \in Sessions, NEW d \in Sessions, Fresh(d),
         \/ \E q \in Call : Judge(c, q)
         \/ JudgeTasks(c)
         \/ \E t \in Tasks : CheckpointUnread(c, t)
  PROVE  Fresh(d)'
<1>1. CASE \E q \in Call : Judge(c, q)
  <2>1. PICK q \in Call : Judge(c, q)
    BY <1>1
  <2>2. /\ Accepts(q)
        /\ pc' = [pc EXCEPT ![c] = IF q = ExecutionCall THEN "tasks" ELSE "commit"]
        /\ call' = [call EXCEPT ![c] = q]
        /\ UNCHANGED <<changeVars, stale>>
    BY <2>1 DEF Judge
  <2>3. CASE d # c
    BY <2>2, <2>3, UntouchedFresh DEF TypeOK
  <2>4. CASE d = c
    <3>1. call'[d] = q /\ pc'[d] = (IF q = ExecutionCall THEN "tasks" ELSE "commit")
      BY <2>2, <2>4 DEF TypeOK
    <3>2. /\ q.op = "gate" => CanCompleteGate(q.gate)
          /\ q.op = "add" => Planning \notin gates
          /\ q.op = "patch" => status[q.task] = "done"
          /\ q.op = "checkpoint" => Exists(q.task) /\ Evidenced(q.task)
      BY <2>2 DEF Accepts, AddAllowed, PatchAllowed
    <3>3. ~(q = ExecutionCall /\ pc'[d] = "commit")
      BY <3>1
    <3> QED
      BY <2>2, <3>1, <3>2, <3>3
      DEF Fresh, Judged, changeVars, CanCompleteGate, Exists, Evidenced, ExecutionCall
  <2> QED
    BY <2>3, <2>4
<1>2. CASE JudgeTasks(c)
  <2>1. /\ pc[c] = "tasks" /\ WorkFinished
        /\ pc' = [pc EXCEPT ![c] = "commit"]
        /\ UNCHANGED <<changeVars, call, stale>>
    BY <1>2 DEF JudgeTasks
  <2>2. CASE d # c
    BY <2>1, <2>2, UntouchedFresh DEF TypeOK
  <2>3. CASE d = c
    BY <2>1, <2>3 DEF Fresh, Judged, changeVars, CanCompleteGate, WorkFinished, Finished,
                      Exists, Evidenced, ExecutionCall
  <2> QED
    BY <2>2, <2>3
<1>3. CASE \E t \in Tasks : CheckpointUnread(c, t)
  <2>1. PICK t \in Tasks : CheckpointUnread(c, t)
    BY <1>3
  <2>2. /\ pc' = [pc EXCEPT ![c] = "commit"]
        /\ call' = [call EXCEPT ![c] = [op |-> "checkpoint", task |-> t]]
        /\ stale' = [stale EXCEPT ![c] = TRUE]
        /\ UNCHANGED changeVars
    BY <2>1 DEF CheckpointUnread
  <2>3. CASE d # c
    BY <2>2, <2>3, UntouchedFresh DEF TypeOK
  <2>4. CASE d = c
    BY <2>2, <2>4 DEF Fresh, TypeOK
  <2> QED
    BY <2>3, <2>4
<1> QED
  BY <1>1, <1>2, <1>3

\* The steps that change the gates overtake the calls their change concerns.
LEMMA GateStepsFresh ==
  ASSUME TypeOK, NEW c \in Sessions, NEW d \in Sessions, Fresh(d),
         CommitGate(c) \/ \E g \in Gates : Reenter(c, g)
  PROVE  Fresh(d)'
<1>1. UNCHANGED <<status, intent, runs>>
  BY DEF CommitGate, Reenter
<1>2. /\ WorkFinished => WorkFinished'
      /\ \A t \in Tasks : status[t] = "done" => status'[t] = "done"
      /\ \A t \in Tasks : Exists(t) /\ Evidenced(t) => (Exists(t) /\ Evidenced(t))'
  BY <1>1 DEF WorkFinished, Finished, Exists, Evidenced
<1>3. CASE CommitGate(c)
  <2> DEFINE Q == IF call[c].gate = Planning THEN {[op |-> "add"]} ELSE {}
  <2>1. gates' = gates \cup {call[c].gate} /\ Overtake(c, Q)
    BY <1>3 DEF CommitGate
  <2>2. \A g \in Gates : CanCompleteGate(g) => CanCompleteGate(g)'
    BY <2>1 DEF CanCompleteGate
  <2>3. Planning \notin gates /\ [op |-> "add"] \notin Q => Planning \notin gates'
    BY <2>1
  <2> HIDE DEF Q
  <2> QED
    BY <1>2, <2>1, <2>2, <2>3, StillFresh
<1>4. CASE \E g \in Gates : Reenter(c, g)
  <2>1. PICK g \in Gates : Reenter(c, g)
    BY <1>4
  <2>2. gates' = {h \in gates : h < g} /\ Overtake(c, GateCallsAfter(g))
    BY <2>1 DEF Reenter
  <2>3. ASSUME NEW h \in Gates, CanCompleteGate(h),
               [op |-> "gate", gate |-> h] \notin GateCallsAfter(g)
        PROVE  CanCompleteGate(h)'
    <3>1. h <= g
      BY <2>3 DEF GateCallsAfter, Gates
    <3> QED
      BY <2>2, <2>3, <3>1 DEF CanCompleteGate, Gates
  <2>4. Planning \notin gates => Planning \notin gates'
    BY <2>2
  <2> QED
    BY <1>2, <2>2, <2>3, <2>4, StillFresh
<1> QED
  BY <1>3, <1>4

\* The steps that change a task, its intent or its runs do so too.
LEMMA TaskStepsFresh ==
  ASSUME TypeOK, NEW c \in Sessions, NEW d \in Sessions, Fresh(d),
         \/ CommitDone(c)
         \/ \E t \in Tasks : \/ Reopen(c, t) \/ Cancel(c, t)
                             \/ \E i \in Intents : CommitAdd(c, t, i) \/ Reclassify(c, t, i)
                             \/ \E o \in Outcomes : RunTest(c, t, o)
  PROVE  Fresh(d)'
<1>1. gates' = gates
  BY DEF CommitDone, Reopen, Cancel, CommitAdd, Reclassify, RunTest
<1>2. /\ \A g \in Gates : CanCompleteGate(g) => CanCompleteGate(g)'
      /\ Planning \notin gates => Planning \notin gates'
  BY <1>1 DEF CanCompleteGate
<1>3. CASE CommitDone(c)
  <2> DEFINE t == call[c].task
             Q == IF status[t] = "done" THEN {} ELSE {ExecutionCall}
  <2>1. t \in Tasks
    BY <1>3, CallShape DEF CommitDone, TypeOK
  <2>2. /\ status' = [status EXCEPT ![t] = "done"] /\ Overtake(c, Q)
        /\ UNCHANGED <<intent, runs>>
    BY <1>3 DEF CommitDone
  <2>3. WorkFinished /\ ExecutionCall \notin Q => WorkFinished'
    BY <2>1, <2>2 DEF WorkFinished, Finished, Evidenced, TypeOK
  <2> HIDE DEF t, Q
  <2>4. \A u \in Tasks : status[u] = "done" => status'[u] = "done"
    BY <2>2 DEF TypeOK
  <2>5. \A u \in Tasks : Exists(u) /\ Evidenced(u) => (Exists(u) /\ Evidenced(u))'
    BY <2>2 DEF Exists, Evidenced, TypeOK
  <2> QED
    BY <1>2, <2>2, <2>3, <2>4, <2>5, StillFresh
<1>4. ASSUME NEW t \in Tasks, Reopen(c, t) PROVE Fresh(d)'
  <2> DEFINE Q == {ExecutionCall, [op |-> "patch", task |-> t]}
  <2>1. /\ status' = [status EXCEPT ![t] = "open"] /\ Overtake(c, Q)
        /\ UNCHANGED <<intent, runs>>
    BY <1>4 DEF Reopen
  <2>2. \A u \in Tasks : status[u] = "done" /\ [op |-> "patch", task |-> u] \notin Q
                          => status'[u] = "done"
    BY <2>1 DEF TypeOK
  <2>3. \A u \in Tasks : Exists(u) /\ Evidenced(u) => (Exists(u) /\ Evidenced(u))'
    BY <2>1 DEF Exists, Evidenced, TypeOK
  <2>4. ExecutionCall \in Q
    OBVIOUS
  <2> HIDE DEF Q
  <2> QED
    BY <1>2, <2>1, <2>2, <2>3, <2>4, StillFresh
<1>5. ASSUME NEW t \in Tasks, Cancel(c, t) PROVE Fresh(d)'
  <2> DEFINE Q == {[op |-> "patch", task |-> t]}
  <2>1. /\ status' = [status EXCEPT ![t] = "cancelled"] /\ Overtake(c, Q)
        /\ UNCHANGED <<intent, runs>>
    BY <1>5 DEF Cancel
  <2>2. \A u \in Tasks : status[u] = "done" /\ [op |-> "patch", task |-> u] \notin Q
                          => status'[u] = "done"
    BY <2>1 DEF TypeOK
  <2>3. \A u \in Tasks : Exists(u) /\ Evidenced(u) => (Exists(u) /\ Evidenced(u))'
    BY <2>1 DEF Exists, Evidenced, TypeOK
  <2>4. WorkFinished => WorkFinished'
    BY <2>1 DEF WorkFinished, Finished, Evidenced, TypeOK
  <2> HIDE DEF Q
  <2> QED
    BY <1>2, <2>1, <2>2, <2>3, <2>4, StillFresh
<1>6. ASSUME NEW t \in Tasks, NEW i \in Intents, CommitAdd(c, t, i) PROVE Fresh(d)'
  <2>1. /\ ~Exists(t)
        /\ status' = [status EXCEPT ![t] = "open"] /\ Overtake(c, {ExecutionCall})
        /\ intent' = [intent EXCEPT ![t] = i] /\ UNCHANGED runs
    BY <1>6 DEF CommitAdd
  <2>2. \A u \in Tasks : status[u] = "done" => status'[u] = "done"
    BY <2>1 DEF Exists, TypeOK
  <2>3. \A u \in Tasks : Exists(u) /\ Evidenced(u) => (Exists(u) /\ Evidenced(u))'
    BY <2>1 DEF Exists, Evidenced, TypeOK
  <2> QED
    BY <1>2, <2>1, <2>2, <2>3, StillFresh
<1>7. ASSUME NEW t \in Tasks, UNCHANGED status,
             Overtake(c, {ExecutionCall, [op |-> "checkpoint", task |-> t]}),
             \A u \in Tasks \ {t} : intent'[u] = intent[u] /\ runs'[u] = runs[u]
      PROVE  Fresh(d)'
  <2> DEFINE Q == {ExecutionCall, [op |-> "checkpoint", task |-> t]}
  <2>1. \A u \in Tasks : status[u] = "done" => status'[u] = "done"
    BY <1>7
  <2>2. \A u \in Tasks : /\ Exists(u) /\ Evidenced(u)
                         /\ [op |-> "checkpoint", task |-> u] \notin Q
                         => (Exists(u) /\ Evidenced(u))'
    BY <1>7 DEF Exists, Evidenced
  <2>3. ExecutionCall \in Q /\ Overtake(c, Q)
    BY <1>7
  <2> HIDE DEF Q
  <2> QED
    BY <1>2, <2>1, <2>2, <2>3, StillFresh
<1>8. ASSUME NEW t \in Tasks, NEW i \in Intents, Reclassify(c, t, i) PROVE Fresh(d)'
  <2>1. \A u \in Tasks \ {t} : intent'[u] = intent[u] /\ runs'[u] = runs[u]
    BY <1>8 DEF Reclassify, TypeOK
  <2> QED
    BY <1>7, <1>8, <2>1 DEF Reclassify
<1>9. ASSUME NEW t \in Tasks, NEW o \in Outcomes, RunTest(c, t, o) PROVE Fresh(d)'
  <2>1. \A u \in Tasks \ {t} : intent'[u] = intent[u] /\ runs'[u] = runs[u]
    BY <1>9 DEF RunTest, TypeOK
  <2> QED
    BY <1>7, <1>9, <2>1 DEF RunTest
<1> QED
  BY <1>3, <1>4, <1>5, <1>6, <1>8, <1>9

\* A completion that was not overtaken keeps the sequence, a reentry cuts a
\* suffix off, and no other step touches the gates.
LEMMA SequenceKept == IInv /\ [Next]_vars => SequenceUnlessOvertaken'
<1> SUFFICES ASSUME IInv, [Next]_vars, ~overtaken' PROVE GatesInSequence'
  BY DEF SequenceUnlessOvertaken
<1>1. ASSUME NEW c \in Sessions, CommitGate(c) PROVE GatesInSequence'
  <2>1. /\ pc[c] = "commit" /\ call[c].op = "gate" /\ call[c] \in Call
        /\ gates' = gates \cup {call[c].gate}
        /\ ~overtaken /\ ~stale[c]
    BY <1>1 DEF CommitGate, IInv, TypeOK
  <2>2. CanCompleteGate(call[c].gate) /\ GatesInSequence
    BY <2>1 DEF IInv, Fresh, Judged, SequenceUnlessOvertaken
  <2> QED
    BY <2>1, <2>2 DEF GatesInSequence, CanCompleteGate
<1>2. ASSUME NEW c \in Sessions, NEW g \in Gates, Reenter(c, g) PROVE GatesInSequence'
  <2>1. gates' = {h \in gates : h < g} /\ ~overtaken
    BY <1>2 DEF Reenter
  <2>2. GatesInSequence /\ gates \subseteq Gates
    BY <2>1 DEF IInv, SequenceUnlessOvertaken, TypeOK
  <2> QED
    BY <2>1, <2>2 DEF GatesInSequence, CanCompleteGate, Gates
<1>3. ASSUME UNCHANGED <<gates, overtaken>> PROVE GatesInSequence'
  BY <1>3 DEF IInv, SequenceUnlessOvertaken, GatesInSequence, CanCompleteGate
<1> QED
  BY <1>1, <1>2, <1>3, ZenonT(60) DEF Next, vars, Judge, JudgeTasks, CheckpointUnread, GiveUp, CommitAdd,
     CommitDone, Reopen, Cancel, Reclassify, RunTest, changeVars

\* No step falsifies a judgement without marking the call stale.
LEMMA FreshKept == IInv /\ [Next]_vars => \A d \in Sessions : Fresh(d)'
<1> SUFFICES ASSUME IInv, [Next]_vars, NEW d \in Sessions PROVE Fresh(d)'
  OBVIOUS
<1>1. TypeOK /\ Fresh(d)
  BY DEF IInv
<1>2. CASE UNCHANGED vars
  BY <1>1, <1>2, UntouchedFresh DEF vars, changeVars
<1>3. ASSUME NEW c \in Sessions, GiveUp(c) PROVE Fresh(d)'
  <2>1. Overtake(c, {}) /\ UNCHANGED changeVars
    BY <1>3 DEF GiveUp
  <2>2. pc'[d] # "idle" /\ ~stale'[d] =>
          pc'[d] = pc[d] /\ call'[d] = call[d] /\ stale'[d] = stale[d]
    <3>1. stale' \in [Sessions -> BOOLEAN] /\ stale \in [Sessions -> BOOLEAN]
      BY <1>1, <2>1, OvertakeEffect DEF TypeOK
    <3>2. pc'[d] # "idle" /\ ~stale'[d] =>
            pc'[d] = pc[d] /\ call'[d] = call[d] /\ ~stale[d]
      BY <1>1, <2>1, OvertakeEffect
    <3> QED
      BY <3>1, <3>2
  <2> QED
    BY <1>1, <2>1, <2>2, UntouchedFresh DEF Fresh
<1>4. ASSUME Next PROVE Fresh(d)'
  <2>1. PICK c \in Sessions :
          \/ \E q \in Call : Judge(c, q)
          \/ JudgeTasks(c)
          \/ GiveUp(c)
          \/ CommitGate(c)
          \/ CommitDone(c)
          \/ \E g \in Gates : Reenter(c, g)
          \/ \E t \in Tasks :
               \/ CheckpointUnread(c, t) \/ Reopen(c, t) \/ Cancel(c, t)
               \/ \E i \in Intents : CommitAdd(c, t, i) \/ Reclassify(c, t, i)
               \/ \E outcome \in Outcomes : RunTest(c, t, outcome)
    BY <1>4 DEF Next
  <2>2. CASE \/ \E q \in Call : Judge(c, q)
             \/ JudgeTasks(c)
             \/ \E t \in Tasks : CheckpointUnread(c, t)
    BY <1>1, <2>2, JudgementsFresh
  <2>3. CASE CommitGate(c) \/ \E g \in Gates : Reenter(c, g)
    BY <1>1, <2>3, GateStepsFresh
  <2>4. CASE \/ CommitDone(c)
             \/ \E t \in Tasks : \/ Reopen(c, t) \/ Cancel(c, t)
                                 \/ \E i \in Intents : CommitAdd(c, t, i) \/ Reclassify(c, t, i)
                                 \/ \E o \in Outcomes : RunTest(c, t, o)
    BY <1>1, <2>4, TaskStepsFresh
  <2>5. ASSUME NEW t \in Tasks,
               \/ CheckpointUnread(c, t) \/ Reopen(c, t) \/ Cancel(c, t)
               \/ \E i \in Intents : CommitAdd(c, t, i) \/ Reclassify(c, t, i)
               \/ \E outcome \in Outcomes : RunTest(c, t, outcome)
        PROVE  Fresh(d)'
    BY <2>2, <2>4, <2>5
  <2> QED
    BY <1>3, <2>1, <2>2, <2>3, <2>4, <2>5
<1> QED
  BY <1>2, <1>4

\* No step removes a task.
LEMMA TasksStay ==
  ASSUME TypeOK, [Next]_vars, NEW t \in Tasks, Exists(t)
  PROVE  Exists(t)'
<1>1. ASSUME NEW c \in Sessions, CommitDone(c) PROVE Exists(t)'
  BY <1>1 DEF CommitDone, Exists, TypeOK
<1>2. ASSUME NEW c \in Sessions, NEW u \in Tasks,
             \/ Reopen(c, u) \/ Cancel(c, u) \/ \E i \in Intents : CommitAdd(c, u, i)
      PROVE  Exists(t)'
  BY <1>2 DEF Reopen, Cancel, CommitAdd, Exists, TypeOK
<1>3. ASSUME UNCHANGED status PROVE Exists(t)'
  BY <1>3 DEF Exists
<1> QED
  BY <1>1, <1>2, <1>3 DEF Next, vars, changeVars, Judge, JudgeTasks, CheckpointUnread, GiveUp,
     CommitGate, Reenter, Reclassify, RunTest

\* A call in progress goes on naming a task of the change.
LEMMA NamesTaskKept == TypeOK /\ NamesTask /\ [Next]_vars => NamesTask'
<1> SUFFICES ASSUME TypeOK, NamesTask, [Next]_vars, NEW d \in Sessions,
                    pc'[d] # "idle", call'[d].op \in {"patch", "checkpoint"}
             PROVE  status'[call'[d].task] # "absent"
  BY DEF NamesTask, Exists
<1>1. PICK q \in Call : q = call'[d]
  BY NextTyped DEF TypeOK
<1>2. q.task \in Tasks
  BY <1>1, CallShape
<1>3. Exists(q.task) => Exists(q.task)'
  BY <1>2, TasksStay
<1>4. CASE pc[d] # "idle" /\ call[d] = q
  BY <1>1, <1>3, <1>4 DEF NamesTask, Exists
<1>5. ASSUME NEW c \in Sessions, NEW r \in Call, Judge(c, r) PROVE Exists(q.task)'
  <2>1. /\ Accepts(r) /\ call' = [call EXCEPT ![c] = r] /\ UNCHANGED status
        /\ \A e \in Sessions \ {c} : pc'[e] = pc[e]
    BY <1>5 DEF Judge, changeVars, TypeOK
  <2>2. CASE d = c
    <3>1. q = r
      BY <1>1, <2>1, <2>2 DEF TypeOK
    <3> QED
      BY <1>1, <2>1, <3>1 DEF Accepts, PatchAllowed, Exists
  <2>3. CASE d # c
    BY <1>1, <1>4, <2>1, <2>3 DEF TypeOK, Exists
  <2> QED
    BY <2>2, <2>3
<1>6. ASSUME NEW c \in Sessions, NEW t \in Tasks, CheckpointUnread(c, t)
      PROVE  Exists(q.task)'
  <2>1. /\ Exists(t) /\ UNCHANGED status
        /\ call' = [call EXCEPT ![c] = [op |-> "checkpoint", task |-> t]]
        /\ \A e \in Sessions \ {c} : pc'[e] = pc[e]
    BY <1>6 DEF CheckpointUnread, changeVars, TypeOK
  <2>2. CASE d = c
    BY <1>1, <2>1, <2>2 DEF Exists, TypeOK
  <2>3. CASE d # c
    BY <1>1, <1>4, <2>1, <2>3 DEF TypeOK, Exists
  <2> QED
    BY <2>2, <2>3
<1>7. ASSUME NEW c \in Sessions, NEW Q, Overtake(c, Q) PROVE Exists(q.task)'
  <2>1. pc[d] # "idle" /\ call[d] = q
    BY <1>1, <1>7 DEF Overtake, TypeOK
  <2> QED
    BY <1>1, <1>3, <2>1 DEF NamesTask
<1>8. ASSUME NEW c \in Sessions, JudgeTasks(c) PROVE Exists(q.task)'
  <2>1. pc[d] # "idle" /\ call[d] = q
    BY <1>1, <1>8 DEF JudgeTasks, TypeOK
  <2> QED
    BY <1>1, <1>3, <2>1 DEF NamesTask
<1>9. CASE UNCHANGED vars
  BY <1>1, <1>4, <1>9 DEF vars
<1>10. Next => Exists(q.task)'
  BY <1>5, <1>6, <1>7, <1>8, ZenonT(60) DEF Next, GiveUp, CommitGate, CommitAdd, CommitDone, Reenter,
     Reopen, Cancel, Reclassify, RunTest
<1> QED
  BY <1>1, <1>9, <1>10 DEF Exists

-----------------------------------------------------------------------------
\* IInv is inductive, so it holds in every reachable state: every call that
\* was not overtaken commits on a change its judgement still fits.
THEOREM Invariant == Spec => []IInv
<1>1. Init => IInv
  BY InitTyped DEF Init, IInv, NamesTask, SequenceUnlessOvertaken, GatesInSequence, Fresh
<1>2. IInv /\ [Next]_vars => IInv'
  BY NextTyped, NamesTaskKept, SequenceKept, FreshKept DEF IInv
<1> QED
  BY <1>1, <1>2, PTL DEF Spec

\* The gates, tasks and calls stay well formed and the ring within its limit.
THEOREM Typing == Spec => []TypeOK
BY Invariant, PTL DEF IInv

\* Gates are done in GATE_ORDER as long as no reentry overtakes a completion.
THEOREM Sequence == Spec => []SequenceUnlessOvertaken
BY Invariant, PTL DEF IInv

\* What is new of a task comes from the one call that was at its commit.
LEMMA AddedByAdd ==
  ASSUME IInv, Next, NEW t \in Tasks, status[t] = "absent", status'[t] # "absent"
  PROVE  \E c \in Sessions : /\ call[c] = [op |-> "add"]
                            /\ (stale[c] \/ Planning \notin gates)
<1>1. ASSUME NEW c \in Sessions, NEW u \in Tasks, NEW i \in Intents, CommitAdd(c, u, i)
      PROVE  call[c] = [op |-> "add"] /\ (stale[c] \/ Planning \notin gates)
  <2>1. pc[c] = "commit" /\ call[c].op = "add" /\ call[c] \in Call /\ Fresh(c)
    BY <1>1 DEF CommitAdd, IInv, TypeOK
  <2> QED
    BY <2>1, CallShape DEF Fresh, Judged
<1>2. ASSUME NEW c \in Sessions, CommitDone(c) PROVE FALSE
  <2>1. /\ Exists(call[c].task)
        /\ status' = [status EXCEPT ![call[c].task] = "done"]
    BY <1>2 DEF CommitDone, IInv, NamesTask
  <2> QED
    BY <2>1 DEF IInv, TypeOK, Exists
<1>3. ASSUME NEW c \in Sessions, NEW u \in Tasks, Reopen(c, u) \/ Cancel(c, u) PROVE FALSE
  BY <1>3 DEF Reopen, Cancel, Exists, IInv, TypeOK
<1> QED
  BY <1>1, <1>2, <1>3 DEF Next, Judge, JudgeTasks, CheckpointUnread, GiveUp, CommitGate, Reenter,
     Reclassify, RunTest, changeVars

\* Only a task_add that the planning gate overtook adds to a frozen plan.
THEOREM PlanFrozen == Spec => PlanFrozenUnlessOvertaken
<1> DEFINE Frozen ==
      \A t \in Tasks : status[t] = "absent" /\ status'[t] # "absent" /\ Planning \in gates
         => \E c \in Sessions : call[c] = [op |-> "add"] /\ stale[c]
<1>1. IInv /\ [Next]_vars => [Frozen]_vars
  BY AddedByAdd
<1>2. PlanFrozenUnlessOvertaken <=> [][Frozen]_vars
  BY DEF PlanFrozenUnlessOvertaken
<1> HIDE DEF Frozen
<1> QED
  BY <1>1, <1>2, Invariant, PTL DEF Spec

\* The execution gate is done over finished, proved work unless a step that
\* bears on it overtook the completion.
THEOREM ExecutionIsEarned == Spec => ExecutionEarned
<1> DEFINE Earned ==
      Execution \notin gates /\ Execution \in gates'
        => WorkFinished \/ \E c \in Sessions : call[c] = ExecutionCall /\ stale[c]
<1>1. IInv /\ [Next]_vars => [Earned]_vars
  <2> SUFFICES ASSUME IInv, Next, Execution \notin gates, Execution \in gates'
               PROVE  WorkFinished \/ \E c \in Sessions : call[c] = ExecutionCall /\ stale[c]
    BY DEF vars
  <2>1. ASSUME NEW c \in Sessions, CommitGate(c)
        PROVE  WorkFinished \/ (call[c] = ExecutionCall /\ stale[c])
    <3>1. /\ pc[c] = "commit" /\ call[c].op = "gate" /\ call[c] \in Call /\ Fresh(c)
          /\ gates' = gates \cup {call[c].gate}
      BY <2>1 DEF CommitGate, IInv, TypeOK
    <3>2. call[c] = ExecutionCall
      BY <3>1, CallShape DEF ExecutionCall
    <3>3. CASE stale[c]
      BY <3>2, <3>3
    <3>4. CASE ~stale[c]
      BY <3>1, <3>2, <3>4 DEF Fresh, Judged
    <3> QED
      BY <3>3, <3>4
  <2>2. ASSUME NEW c \in Sessions, NEW g \in Gates, Reenter(c, g) PROVE FALSE
    BY <2>2 DEF Reenter
  <2> QED
    BY <2>1, <2>2, ZenonT(60) DEF Next, Judge, JudgeTasks, CheckpointUnread, GiveUp, CommitAdd, CommitDone,
       Reopen, Cancel, Reclassify, RunTest, changeVars
<1>2. ExecutionEarned <=> [][Earned]_vars
  BY DEF ExecutionEarned
<1> HIDE DEF Earned
<1> QED
  BY <1>1, <1>2, Invariant, PTL DEF Spec

\* A task becomes done with its evidence unless the call was overtaken.
THEOREM DoneIsEarned == Spec => DoneEarned
<1> DEFINE Earned ==
      \A t \in Tasks : status[t] # "done" /\ status'[t] = "done"
         => \/ Evidenced(t)
            \/ \E c \in Sessions : /\ call[c] \in [op : {"patch", "checkpoint"}, task : {t}]
                                   /\ stale[c]
<1>1. IInv /\ [Next]_vars => [Earned]_vars
  <2> SUFFICES ASSUME IInv, Next, NEW t \in Tasks, status[t] # "done", status'[t] = "done"
               PROVE  \/ Evidenced(t)
                      \/ \E c \in Sessions :
                           /\ call[c] \in [op : {"patch", "checkpoint"}, task : {t}]
                           /\ stale[c]
    BY DEF vars
  <2>1. ASSUME NEW c \in Sessions, CommitDone(c)
        PROVE  \/ Evidenced(t)
               \/ call[c] \in [op : {"patch", "checkpoint"}, task : {t}] /\ stale[c]
    <3>1. /\ pc[c] = "commit" /\ call[c].op \in {"patch", "checkpoint"}
          /\ call[c] \in Call /\ Fresh(c)
          /\ status' = [status EXCEPT ![call[c].task] = "done"]
      BY <2>1 DEF CommitDone, IInv, TypeOK
    <3>2. call[c].task = t
      BY <3>1 DEF IInv, TypeOK
    <3>3. call[c] \in [op : {"patch", "checkpoint"}, task : {t}]
      BY <3>1, <3>2, CallShape
    <3>4. CASE stale[c]
      BY <3>3, <3>4
    <3>5. CASE ~stale[c]
      BY <3>1, <3>2, <3>5 DEF Fresh, Judged
    <3> QED
      BY <3>4, <3>5
  <2>2. ASSUME NEW c \in Sessions, NEW u \in Tasks,
               \/ Reopen(c, u) \/ Cancel(c, u) \/ \E i \in Intents : CommitAdd(c, u, i)
        PROVE  FALSE
    BY <2>2 DEF Reopen, Cancel, CommitAdd, IInv, TypeOK
  <2> QED
    BY <2>1, <2>2 DEF Next, Judge, JudgeTasks, CheckpointUnread, GiveUp, CommitGate, Reenter,
       Reclassify, RunTest, changeVars
<1>2. DoneEarned <=> [][Earned]_vars
  BY DEF DoneEarned
<1> HIDE DEF Earned
<1> QED
  BY <1>1, <1>2, Invariant, PTL DEF Spec

-----------------------------------------------------------------------------
(***************************************************************************)
(* The exceptions of these properties are all a matter of concurrency: as  *)
(* long as one session uses the tools, one call after the other, none of   *)
(* them occurs, but for the checkpoint that could not read its change.     *)
(***************************************************************************)
OneSession == \A c, d \in Sessions : c = d

\* No call was overtaken; the one that is marked has read nothing.
Undisturbed ==
  /\ ~overtaken
  /\ \A c \in Sessions : stale[c] => pc[c] # "idle" /\ call[c].op = "checkpoint"

\* No step of the only session overtakes a call.
LEMMA UndisturbedKept ==
  ASSUME OneSession, IInv, Undisturbed, [Next]_vars
  PROVE  Undisturbed'
<1> USE DEF Undisturbed, OneSession
<1>1. ASSUME NEW c \in Sessions, NEW Q, Overtake(c, Q), overtaken' = overtaken
      PROVE  Undisturbed'
  BY <1>1 DEF Overtake, IInv, TypeOK
<1>2. ASSUME NEW c \in Sessions, CommitGate(c) PROVE Undisturbed'
  <2>1. ~stale[c]
    BY <1>2 DEF CommitGate, IInv, TypeOK
  <2>2. overtaken' = overtaken
    BY <1>2, <2>1 DEF CommitGate, IInv, TypeOK
  <2> QED
    BY <1>1, <1>2, <2>2 DEF CommitGate
<1>3. ASSUME NEW c \in Sessions, NEW q \in Call, Judge(c, q) PROVE Undisturbed'
  BY <1>3 DEF Judge, IInv, TypeOK
<1>4. ASSUME NEW c \in Sessions, JudgeTasks(c) PROVE Undisturbed'
  BY <1>4 DEF JudgeTasks, IInv, TypeOK
<1>5. ASSUME NEW c \in Sessions, NEW t \in Tasks, CheckpointUnread(c, t) PROVE Undisturbed'
  <2>1. call'[c].op = "checkpoint" /\ pc'[c] = "commit" /\ ~overtaken'
    BY <1>5 DEF CheckpointUnread, IInv, TypeOK
  <2> QED
    BY <2>1
<1>6. CASE UNCHANGED vars
  BY <1>6 DEF vars
<1> QED
  BY <1>1, <1>2, <1>3, <1>4, <1>5, <1>6 DEF Next, GiveUp, CommitAdd, CommitDone, Reenter,
     Reopen, Cancel, Reclassify, RunTest

\* Nothing is ever overtaken when one session works alone.
LEMMA UndisturbedAlways == ASSUME OneSession PROVE Spec => [](IInv /\ Undisturbed)
<1> SUFFICES ASSUME OneSession PROVE Spec => [](IInv /\ Undisturbed)
  OBVIOUS
<1>1. Init => Undisturbed
  BY DEF Init, Undisturbed
<1>2. IInv /\ Undisturbed /\ [Next]_vars => Undisturbed'
  BY UndisturbedKept
<1> QED
  BY <1>1, <1>2, Invariant, PTL DEF Spec

\* The done gates are a prefix of GATE_ORDER, as determinus_gate_complete describes it,
\* when one session works alone: the violation of GatesInSequence needs two.
THEOREM SequenceAlone == ASSUME OneSession PROVE Spec => []GatesInSequence
BY UndisturbedAlways, PTL DEF IInv, Undisturbed, SequenceUnlessOvertaken

\* task_add, the execution gate and the checkpoint without their exceptions: no task
\* joins a frozen plan, the gate is done over finished and proved work, and a task is
\* done with its evidence unless its checkpoint could not read the change.
EarnedAlone ==
  /\ \A t \in Tasks : status[t] = "absent" /\ status'[t] # "absent" => Planning \notin gates
  /\ Execution \notin gates /\ Execution \in gates' => WorkFinished
  /\ \A t \in Tasks : status[t] # "done" /\ status'[t] = "done"
       => \/ Evidenced(t)
          \/ \E c \in Sessions : stale[c] /\ call[c] = [op |-> "checkpoint", task |-> t]

\* The three action properties hold without an overtaken call when one session works
\* alone.
THEOREM WorkAlone == ASSUME OneSession PROVE Spec => [][EarnedAlone]_vars
<1> SUFFICES ASSUME OneSession PROVE Spec => [][EarnedAlone]_vars
  OBVIOUS
<1> DEFINE Frozen ==
             \A t \in Tasks : status[t] = "absent" /\ status'[t] # "absent" /\ Planning \in gates
               => \E c \in Sessions : call[c] = [op |-> "add"] /\ stale[c]
           Finish ==
             Execution \notin gates /\ Execution \in gates'
               => WorkFinished \/ \E c \in Sessions : call[c] = ExecutionCall /\ stale[c]
           Done ==
             \A t \in Tasks : status[t] # "done" /\ status'[t] = "done"
               => \/ Evidenced(t)
                  \/ \E c \in Sessions : /\ call[c] \in [op : {"patch", "checkpoint"}, task : {t}]
                                         /\ stale[c]
<1>1. IInv /\ Undisturbed /\ [Frozen]_vars /\ [Finish]_vars /\ [Done]_vars => [EarnedAlone]_vars
  <2> SUFFICES ASSUME IInv, Undisturbed, Frozen, Finish, Done PROVE EarnedAlone
    BY DEF vars, EarnedAlone, WorkFinished, Finished, Evidenced
  <2>1. ASSUME NEW c \in Sessions, stale[c]
        PROVE  call[c] # [op |-> "add"] /\ call[c] # ExecutionCall /\ call[c].op = "checkpoint"
    BY <2>1 DEF Undisturbed, ExecutionCall
  <2>2. ASSUME NEW t \in Tasks, NEW c \in Sessions, stale[c],
               call[c] \in [op : {"patch", "checkpoint"}, task : {t}]
        PROVE  call[c] = [op |-> "checkpoint", task |-> t]
    BY <2>1, <2>2
  <2> QED
    BY <2>1, <2>2 DEF EarnedAlone
<1>2. PlanFrozenUnlessOvertaken <=> [][Frozen]_vars
  BY DEF PlanFrozenUnlessOvertaken
<1>3. ExecutionEarned <=> [][Finish]_vars
  BY DEF ExecutionEarned
<1>4. DoneEarned <=> [][Done]_vars
  BY DEF DoneEarned
<1> HIDE DEF Frozen, Finish, Done
<1> QED
  BY <1>1, <1>2, <1>3, <1>4, UndisturbedAlways, PlanFrozen, ExecutionIsEarned, DoneIsEarned, PTL

-----------------------------------------------------------------------------
\* A run appended to a list that is not full keeps all the runs there were.
LEMMA AppendKeepsEvidence ==
  ASSUME NEW s \in Seq(Outcomes), NEW o \in Outcomes, Len(s) < RunLimit
  PROVE  LET r == Latest(Append(s, o))
         IN  /\ Paired(s) => Paired(r)
             /\ (\E i \in DOMAIN s : s[i] = "passed") => \E i \in DOMAIN r : r[i] = "passed"
<1> DEFINE r == Append(s, o)
<1>1. /\ Latest(Append(s, o)) = r
      /\ DOMAIN s \subseteq DOMAIN r
      /\ \A i \in DOMAIN s : r[i] = s[i]
  BY RunLimitAssumption DEF Latest
<1> HIDE DEF r
<1> QED
  BY <1>1 DEF Paired

\* Evidence that was complete is lost under an unchanged status and intent only by a
\* run that finds the ring full (TEST_RUN_RING_BUFFER_LIMIT): this is the whole reach
\* of the violation of EvidenceSurvives.
EvidenceEvictedOnly ==
  \A t \in Tasks : Evidenced(t) /\ UNCHANGED <<status, intent>> /\ ~Evidenced(t)'
    => Len(runs[t]) = RunLimit /\ intent[t] # "not_applicable"

\* Only the eviction of a run from a full ring takes evidence from a task.
THEOREM EvidenceEviction == Spec => [][EvidenceEvictedOnly]_vars
<1>1. IInv /\ [Next]_vars => [EvidenceEvictedOnly]_vars
  <2> SUFFICES ASSUME IInv, Next, NEW t \in Tasks, Evidenced(t), UNCHANGED <<status, intent>>,
                      ~Evidenced(t)'
               PROVE  Len(runs[t]) = RunLimit /\ intent[t] # "not_applicable"
    BY DEF vars, EvidenceEvictedOnly
  <2>1. intent[t] # "not_applicable"
    BY DEF Evidenced
  <2>2. ASSUME NEW c \in Sessions, NEW u \in Tasks, NEW o \in Outcomes, RunTest(c, u, o)
        PROVE  Len(runs[t]) = RunLimit
    <3>1. u = t
      BY <2>2 DEF RunTest, IInv, TypeOK, Evidenced
    <3>2. /\ runs'[t] = Latest(Append(runs[t], o)) /\ runs[t] \in Seq(Outcomes)
          /\ Len(runs[t]) <= RunLimit
      BY <2>2, <3>1 DEF RunTest, IInv, TypeOK
    <3>3. ~(Len(runs[t]) < RunLimit)
      BY <3>2, AppendKeepsEvidence DEF Evidenced
    <3> QED
      BY <3>2, <3>3, RunLimitAssumption
  <2>3. (\E c \in Sessions, u \in Tasks, o \in Outcomes : RunTest(c, u, o)) \/ UNCHANGED runs
    BY ZenonT(60) DEF Next, Judge, JudgeTasks, CheckpointUnread, GiveUp, CommitGate, CommitAdd, CommitDone,
       Reenter, Reopen, Cancel, Reclassify, changeVars
  <2> QED
    BY <2>1, <2>2, <2>3 DEF Evidenced
<1> QED
  BY <1>1, Invariant, PTL DEF Spec
=============================================================================
