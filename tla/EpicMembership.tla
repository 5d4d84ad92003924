--------------------------- MODULE EpicMembership ---------------------------
(***************************************************************************)
(* Epics and the membership their changes carry (tools/epic.ts,            *)
(* tools/epic-convergence.ts, storage/epics-disk.ts, and                   *)
(* setEpicMembership / clearEpicMembership of storage/store-disk.ts).      *)
(*                                                                         *)
(* An epic is one file whose mutations are atomic under its lock           *)
(* (mutateEpic); a retired epic has a second file, which readers prefer.   *)
(* The membership is in the active file of the change, which is loaded,    *)
(* judged and saved whole, without a lock; an archived or closed change    *)
(* loses that file and keeps a copy that no tool writes.  A tool call      *)
(* reads both, then writes them one after the other, and the process may   *)
(* stop between any two of its steps.                                      *)
(* Versions are not kept: a call with a stale one is refused and changes   *)
(* nothing; nor times: a write over a membership that is there may always  *)
(* find it the newer one.  Every change is of the epic's own project.      *)
(***************************************************************************)
EXTENDS ToolSessions

CONSTANTS Epics, EntryIds, Changes,
          Shell,          \* what an entry that has no change yet names
          MaxEpicCalls    \* bound on the tool calls of all sessions

ASSUME EpicBound == MaxEpicCalls \in Nat
ASSUME NamesDiffer == Shell \notin Changes /\ None \notin Changes \cup {Shell} \cup Epics

VARIABLES
  active,     \* the active projection of an epic, or None
  retired,    \* the snapshot in its retired projection, or None
  member,     \* the epic_membership of a change as it is read, or None
  lifecycle,  \* the status of a change as it is read
  discarded,  \* changes whose active record has been removed
  bundle,     \* the membership in the copy of an archived or closed change
  call,       \* the call a session is in, with what it has read
  calls,      \* calls made
  loose,      \* history: changes that two calls were about at once, and changes whose entry
              \* was written by a call about a loose or a discarded change
  forked      \* history: epics changed beside the snapshot of a retirement that stopped

epicVars == <<active, retired, member, lifecycle, discarded, bundle, call, calls, loose, forked>>
childVars == <<member, lifecycle, discarded, bundle>>

Statuses == {"none", "pending", "linked", "terminal"}

\* An entry, with membership_status and terminal_summary; a free id is None.
Entries == [of : Changes \cup {Shell}, status : Statuses, done : BOOLEAN]
Membership == [epic : Epics, entry : EntryIds]
NoEntries == [i \in EntryIds |-> None]
Projections == [EntryIds -> Entries \cup {None}]

\* A call: the tool, the step it is at, the change, epic and entry it is about, the
\* change the entry named, the membership the call moves from or expects the child to
\* have (None: any), the membership it has read or is about to write, the status of the
\* change or of the entry it has read.
Steps == {"read", "add", "retarget", "promote", "reread", "finish", "judge", "save", "clear",
          "unlink", "observe", "mark", "summary", "discard", "remove"}
Calls == [tool : {"link", "move", "unlink", "promote", "show", "edit", "end", "retire"},
          step : Steps, change : Changes \cup {None}, epic : Epics \cup {None},
          entry : EntryIds \cup {None}, named : Changes \cup {None},
          from : Membership \cup {None}, saw : Membership \cup {None}, status : Statuses]

ASSUME NoneIsNoData == None \notin Projections \cup Entries \cup Membership \cup Calls

EpicTypeOK ==
  /\ active \in [Epics -> Projections \cup {None}]
  /\ retired \in [Epics -> Projections \cup {None}]
  /\ member \in [Changes -> Membership \cup {None}]
  /\ lifecycle \in [Changes -> {"open", "closed", "archived"}]
  /\ discarded \subseteq Changes
  /\ bundle \in [Changes -> Membership \cup {None}]
  /\ call \in [Sessions -> Calls \cup {None}]
  /\ calls \in 0 .. MaxEpicCalls
  /\ loose \subseteq Changes /\ forked \subseteq Epics

EpicInit ==
  /\ active = [e \in Epics |-> None]
  /\ retired = [e \in Epics |-> None]
  /\ member = [c \in Changes |-> None]
  /\ lifecycle = [c \in Changes |-> "open"]
  /\ discarded = {}
  /\ bundle = [c \in Changes |-> None]
  /\ call = [s \in Sessions |-> None]
  /\ calls = 0
  /\ loose = {} /\ forked = {}

-----------------------------------------------------------------------------
\* epics.get: the retired snapshot, else the active projection.
Read(e) == IF retired[e] # None THEN retired[e] ELSE active[e]

Names(p, i, c) == p # None /\ p[i] # None /\ p[i].of = c
IsChange(p, i) == p # None /\ p[i] # None /\ p[i].of # Shell

Ended == {c \in Changes : lifecycle[c] # "open"}

\* The lock of an epic is held across the two writes of its retirement only; every
\* other mutation of an epic is one step.
Free(e) == \A s \in Sessions : call[s] # None => ~(call[s].step = "remove" /\ call[s].epic = e)

InCall(s, step) == call[s] # None /\ call[s].step = step
Goto(s, step) == call' = [call EXCEPT ![s].step = step]
Return(s) == call' = [call EXCEPT ![s] = None]

Begin(s, rec) ==
  /\ call[s] = None /\ calls < MaxEpicCalls
  /\ calls' = calls + 1
  /\ call' = [call EXCEPT ![s] = rec]

\* A call about a change, with the status of the change as it is loaded.
NewCall(tool, step, c, e, i) ==
  [tool |-> tool, step |-> step, change |-> c, epic |-> e, entry |-> i, named |-> None,
   from |-> None, saw |-> None, status |-> IF c \in Ended THEN "terminal" ELSE "none"]

\* mutateEpic of one entry: the epic must be active and the mutation allowed.
Put(e, i, entry) == active' = [active EXCEPT ![e][i] = entry]

-----------------------------------------------------------------------------
Create(e) ==
  /\ active[e] = None /\ retired[e] = None
  /\ active' = [active EXCEPT ![e] = NoEntries]
  /\ UNCHANGED <<retired, childVars, call, calls>>

AddShell(e, i) ==
  /\ active[e] # None /\ Free(e) /\ active[e][i] = None
  /\ Put(e, i, [of |-> Shell, status |-> "none", done |-> FALSE])
  /\ UNCHANGED <<retired, childVars, call, calls>>

\* link_change: a change that has a membership may only be linked where it says.
BeginLink(s, c, e, i) ==
  /\ member[c] \in {None, [epic |-> e, entry |-> i]}
  /\ Begin(s, [NewCall("link", "read", c, e, i) EXCEPT !.saw = member[c]])
  /\ UNCHANGED <<active, retired, childVars>>

\* The epic is read: an entry to add, to retarget or to refresh.
LinkRead(s) ==
  /\ InCall(s, "read")
  /\ LET k == call[s]
         p == Read(k.epic)
         naming == {j \in EntryIds : Names(p, j, k.change)}
     IN \/ p = None /\ Return(s)
        \/ /\ p # None /\ k.saw # None
           /\ IF ~IsChange(p, k.entry) THEN Goto(s, "add")
              ELSE IF Names(p, k.entry, k.change) THEN Goto(s, "finish")
              ELSE call' = [call EXCEPT ![s] =
                     [k EXCEPT !.step = "retarget", !.named = p[k.entry].of]]
        \/ /\ p # None /\ k.saw = None
           /\ IF naming = {} THEN Goto(s, "add")
              ELSE \E j \in naming :
                     call' = [call EXCEPT ![s] =
                       [k EXCEPT !.step = "finish", !.entry = j,
                                 !.from = [epic |-> k.epic, entry |-> j]]]
  /\ UNCHANGED <<active, retired, childVars, calls>>

\* epics.linkChange refuses an id in use and a change that has an entry.
AddEntry(s) ==
  /\ InCall(s, "add") /\ Free(call[s].epic)
  /\ LET k == call[s] p == active[k.epic]
         allowed == p # None /\ p[k.entry] = None /\ \A j \in EntryIds : ~Names(p, j, k.change)
     IN IF allowed
        THEN /\ Put(k.epic, k.entry,
                    [of |-> k.change, status |-> "pending", done |-> FALSE])
             /\ Goto(s, IF k.tool = "move" THEN "judge" ELSE "finish")
        ELSE UNCHANGED active /\ Return(s)
  /\ UNCHANGED <<retired, childVars, calls>>

\* epics.retargetChange: the entry keeps everything but the change it names, which must
\* be the one it named when it was read.
Retarget(s) ==
  /\ InCall(s, "retarget") /\ Free(call[s].epic)
  /\ LET k == call[s] p == active[k.epic]
         allowed == /\ IsChange(p, k.entry) /\ p[k.entry].of \in {k.named, k.change}
                    /\ \A j \in EntryIds \ {k.entry} : ~Names(p, j, k.change)
     IN IF allowed
        THEN Put(k.epic, k.entry, [p[k.entry] EXCEPT !.of = k.change]) /\ Goto(s, "finish")
        ELSE UNCHANGED active /\ Return(s)
  /\ UNCHANGED <<retired, childVars, calls>>

\* projectTerminalStateForLinkedEntry, with the status read at the start of the call.
Finish(s) ==
  /\ InCall(s, "finish") /\ Free(call[s].epic)
  /\ LET k == call[s] p == active[k.epic] IN
       IF k.status # "terminal" THEN UNCHANGED active /\ Goto(s, "judge")
       ELSE IF IsChange(p, k.entry)
       THEN /\ Put(k.epic, k.entry, [p[k.entry] EXCEPT !.status = "terminal", !.done = TRUE])
            /\ Goto(s, "judge")
       ELSE UNCHANGED active /\ Return(s)
  /\ UNCHANGED <<retired, childVars, calls>>

\* The active record is loaded whole, to be saved with the membership m.
LoadToSave(s, m) ==
  call' = [call EXCEPT ![s].step = "save", ![s].saw = m,
             ![s].status = IF call[s].change \in Ended THEN "terminal" ELSE "none"]

\* After the child: a move and an unlink go on to the entry they leave.
AfterChild(s) ==
  IF call[s].tool \in {"move", "unlink"} THEN Goto(s, "unlink") ELSE Return(s)

\* setEpicMembership: the child is loaded and the write judged; a change without an
\* active record is left alone, which counts as success ...
Judge(s) ==
  /\ InCall(s, "judge")
  /\ LET k == call[s] m == member[k.change] IN
       \/ k.change \in discarded /\ AfterChild(s)
       \/ /\ k.change \notin discarded /\ (k.from # None => m \in {None, k.from})
          /\ LoadToSave(s, [epic |-> k.epic, entry |-> k.entry])
       \/ k.change \notin discarded /\ m # None /\ Return(s)
  /\ UNCHANGED <<active, retired, childVars, calls>>

\* ... and saved, with all else that was loaded: the record is written again where it
\* was removed, and a closure in between is lost.  An archive is not, its bundle
\* dominates the record.
Save(s) ==
  /\ InCall(s, "save")
  /\ LET k == call[s] c == k.change IN
       /\ member' = [member EXCEPT ![c] = k.saw]
       /\ lifecycle' = [lifecycle EXCEPT ![c] =
            IF k.status # "terminal" /\ lifecycle[c] = "closed" THEN "open" ELSE @]
       /\ discarded' = discarded \ {c}
  /\ AfterChild(s)
  /\ UNCHANGED <<active, retired, bundle, calls>>

\* Any other tool that saves the whole record it has loaded (tasks.update, ...).
BeginEdit(s, c) ==
  /\ c \notin discarded
  /\ Begin(s, [NewCall("edit", "save", c, None, None) EXCEPT !.saw = member[c]])
  /\ UNCHANGED <<active, retired, childVars>>

\* move_change: source, destination and child must agree; the destination gets its
\* entry, then the child its membership, then the source loses its entry.
BeginMove(s, c, d, i, e, j) ==
  /\ d # e /\ Names(Read(d), i, c) /\ Read(e) # None
  /\ member[c] = [epic |-> d, entry |-> i]
  /\ Begin(s, [NewCall("move", "add", c, e, j) EXCEPT !.from = member[c]])
  /\ UNCHANGED <<active, retired, childVars>>

\* Bug: the entry is unlinked and the child left with its membership.
BeginUnlinkEntryFirst(s, c, e, i) ==
  /\ Names(Read(e), i, c)
  /\ Begin(s, [NewCall("unlink", "unlink", c, e, i) EXCEPT !.from = [epic |-> e, entry |-> i]])
  /\ UNCHANGED <<active, retired, childVars>>

\* unlink_change: the child is cleared (loaded and judged, then saved), then the entry.
BeginUnlink(s, c, e, i) ==
  /\ Names(Read(e), i, c)
  /\ Begin(s, [NewCall("unlink", "clear", c, e, i) EXCEPT !.from = [epic |-> e, entry |-> i]])
  /\ UNCHANGED <<active, retired, childVars>>

\* clearEpicMembership, which leaves a change without an active record alone as well.
Clear(s) ==
  /\ InCall(s, "clear")
  /\ LET k == call[s] IN
       IF k.change \in discarded THEN Goto(s, "unlink")
       ELSE IF member[k.change] = k.from THEN LoadToSave(s, None) ELSE Return(s)
  /\ UNCHANGED <<active, retired, childVars, calls>>

\* epics.unlinkChange of the epic unlinked from or moved from.
UnlinkEntry(s) ==
  /\ InCall(s, "unlink") /\ Free(call[s].from.epic)
  /\ LET f == call[s].from IN
       IF active[f.epic] # None THEN Put(f.epic, f.entry, None) ELSE UNCHANGED active
  /\ Return(s)
  /\ UNCHANGED <<retired, childVars, calls>>

\* promote_shell: any change may take the place of the shell; the write of its
\* membership expects nothing.
BeginPromote(s, c, e, i) ==
  /\ Names(Read(e), i, Shell)
  /\ Begin(s, NewCall("promote", "promote", c, e, i))
  /\ UNCHANGED <<active, retired, childVars>>

Promote(s) ==
  /\ InCall(s, "promote") /\ Free(call[s].epic)
  /\ LET k == call[s] p == active[k.epic] IN
       \/ /\ Names(p, k.entry, Shell)
          /\ Put(k.epic, k.entry,
                 [of |-> k.change, status |-> "none", done |-> FALSE])
          /\ Goto(s, "reread")
       \/ Names(p, k.entry, k.change) /\ UNCHANGED active /\ Goto(s, "reread")
       \/ ~Names(p, k.entry, Shell) /\ ~Names(p, k.entry, k.change)
          /\ UNCHANGED active /\ Return(s)
  /\ UNCHANGED <<retired, childVars, calls>>

\* The promoted entry is read back.
Reread(s) ==
  /\ InCall(s, "reread")
  /\ IF IsChange(Read(call[s].epic), call[s].entry) THEN Goto(s, "judge") ELSE Return(s)
  /\ UNCHANGED <<active, retired, childVars, calls>>

-----------------------------------------------------------------------------
\* epic_show of an epic that is not retired: for one entry of the epic read now ...
BeginShow(s, c, e, i) ==
  /\ retired[e] = None /\ Names(active[e], i, c)
  /\ Begin(s, [NewCall("show", "observe", c, e, i) EXCEPT !.status = active[e][i].status])
  /\ UNCHANGED <<active, retired, childVars>>

\* ... the child is observed and convergeEpicMembership chooses the repair.  The entry
\* is backfilled for a terminal child that names its id in any epic; an entry with no
\* status (promoted) whose child has no membership is left.
Observe(s) ==
  /\ InCall(s, "observe")
  /\ LET k == call[s]
         m == member[k.change]
         over == k.change \in Ended
     IN IF m = None
        THEN IF k.status = "none" THEN Return(s)
             ELSE Goto(s, "judge")
        ELSE IF m.entry = k.entry /\ over /\ k.status # "terminal" THEN Goto(s, "summary")
        ELSE IF m.entry # k.entry \/ m.epic # k.epic \/ k.status = "linked"
                \/ (k.status = "terminal" /\ over) THEN Return(s)
        ELSE Goto(s, "mark")
  /\ UNCHANGED <<active, retired, childVars, calls>>

\* mark_entry_linked.
MarkLinked(s) ==
  /\ InCall(s, "mark") /\ Free(call[s].epic)
  /\ LET k == call[s] p == active[k.epic] IN
       IF IsChange(p, k.entry)
       THEN Put(k.epic, k.entry, [p[k.entry] EXCEPT !.status = "linked"])
       ELSE UNCHANGED active
  /\ Return(s)
  /\ UNCHANGED <<retired, childVars, calls>>

\* An archive or a closure of a change, or its repetition after a stop: the record gets
\* its status and is copied (a replay of an archive keeps the copy it finds).  An
\* archive then projects the summary to the entry of the membership it loaded ...
End(s, c, how) ==
  /\ c \notin discarded /\ lifecycle[c] \in {"open", how}
  /\ lifecycle' = [lifecycle EXCEPT ![c] = how]
  /\ \/ bundle' = [bundle EXCEPT ![c] = member[c]]
     \/ lifecycle[c] = "archived" /\ UNCHANGED bundle
  /\ Begin(s, IF how = "archived" /\ member[c] # None
              THEN NewCall("end", "summary", c, member[c].epic, member[c].entry)
              ELSE NewCall("end", "discard", c, None, None))
  /\ UNCHANGED <<active, retired, member, discarded>>

\* setEntryTerminalSummary, for an archive and for mark_entry_terminal.
Summarise(s) ==
  /\ InCall(s, "summary") /\ Free(call[s].epic)
  /\ LET k == call[s] p == active[k.epic] IN
       IF IsChange(p, k.entry)
       THEN Put(k.epic, k.entry, [p[k.entry] EXCEPT !.status = "terminal", !.done = TRUE])
       ELSE UNCHANGED active
  /\ IF call[s].tool = "end" THEN Goto(s, "discard") ELSE Return(s)
  /\ UNCHANGED <<retired, childVars, calls>>

\* ... and the active record is removed: from now on the copy is what is read.
Discard(s) ==
  /\ InCall(s, "discard")
  /\ LET c == call[s].change IN
       /\ discarded' = discarded \cup {c}
       /\ member' = [member EXCEPT ![c] = bundle[c]]
       /\ lifecycle' = [lifecycle EXCEPT ![c] = IF @ = "open" THEN "closed" ELSE @]
  /\ Return(s)
  /\ UNCHANGED <<active, retired, bundle, calls>>

-----------------------------------------------------------------------------
\* Bug: an entry whose status is terminal or linked counts as complete.
CompletedByStatus(p) == /\ p # NoEntries
                        /\ \A i \in EntryIds : p[i] # None =>
                             p[i].of # Shell /\ p[i].status \in {"linked", "terminal"}

\* progress.status = "completed", and nothing blocks: every entry a change with a summary.
Completed(p) == /\ p # NoEntries
                /\ \A i \in EntryIds : p[i] # None => p[i].of # Shell /\ p[i].done

\* Bug: the active projection is removed before the snapshot is written.
RetireRemovesFirst(s, e) ==
  /\ active[e] # None /\ Free(e) /\ Completed(active[e])
  /\ Begin(s, NewCall("retire", "remove", None, e, None))
  /\ active' = [active EXCEPT ![e] = None]
  /\ UNCHANGED <<retired, childVars>>

\* retire: the snapshot is written ...
Retire(s, e) ==
  /\ active[e] # None /\ Free(e) /\ Completed(active[e])
  /\ Begin(s, NewCall("retire", "remove", None, e, None))
  /\ retired' = [retired EXCEPT ![e] = active[e]]
  /\ UNCHANGED <<active, childVars>>

\* ... then the active projection removed.
Remove(s) ==
  /\ InCall(s, "remove")
  /\ active' = [active EXCEPT ![call[s].epic] = None]
  /\ Return(s)
  /\ UNCHANGED <<retired, childVars, calls>>

\* The process stops in the middle of a call and is started again.
Interrupt(s) ==
  /\ call[s] # None
  /\ Return(s)
  /\ UNCHANGED <<active, retired, childVars, calls>>

EpicStep(s) ==
  \/ LinkRead(s) \/ AddEntry(s) \/ Retarget(s) \/ Finish(s) \/ Judge(s) \/ Save(s)
  \/ Clear(s) \/ UnlinkEntry(s) \/ Promote(s) \/ Reread(s)
  \/ Observe(s) \/ MarkLinked(s) \/ Summarise(s) \/ Discard(s) \/ Remove(s) \/ Interrupt(s)

EpicCall(s) ==
  \/ \E e \in Epics : Retire(s, e)
  \/ \E c \in Changes :
       \/ BeginEdit(s, c) \/ End(s, c, "closed") \/ End(s, c, "archived")
       \/ \E e \in Epics, i \in EntryIds :
            \/ BeginLink(s, c, e, i) \/ BeginUnlink(s, c, e, i)
            \/ BeginPromote(s, c, e, i) \/ BeginShow(s, c, e, i)
            \/ \E d \in Epics, j \in EntryIds : BeginMove(s, c, d, i, e, j)

\* The active projection of e is written and not removed, and readers do not see it.
WritesBeside(e) == retired[e] # None /\ active'[e] \notin {None, active[e]}

\* Two calls are about c.
Contended(c) ==
  \E s, t \in Sessions : /\ s # t /\ call[s] # None /\ call[t] # None
                         /\ call[s].change = c /\ call[t].change = c

\* A call about another change, itself loose or gone, writes an entry that names c.
Displaced(c) ==
  \E s \in Sessions :
    /\ call[s] # None /\ call'[s] # call[s] /\ call[s].change \in (loose \cup discarded) \ {c}
    /\ \E e \in Epics, i \in EntryIds :
         Names(active[e], i, c) /\ active'[e] # None /\ active'[e][i] # active[e][i]

EpicNext ==
  /\ \/ \E s \in Sessions : EpicStep(s) \/ EpicCall(s)
     \/ \E e \in Epics : Create(e) \/ \E i \in EntryIds : AddShell(e, i)
  /\ loose' = loose \cup {c \in Changes : Contended(c)' \/ Displaced(c)}
  /\ forked' = forked \cup {e \in Epics : WritesBeside(e)}

EpicSpec == EpicInit /\ [][EpicNext]_epicVars

-----------------------------------------------------------------------------
\* The membership of a change that has its active record names an entry, of an active or
\* a retired epic, that names the change: the order of the writes in link, move, unlink
\* and promote keeps it at every step, and wherever a process stops.  Excepted is a
\* change that two calls were about at once, or whose entry a call about such a change,
\* or about a change without a record, has taken over (the latter calls write the epic
\* and take the child they could not write for written); and an epic changed beside the
\* snapshot that a stopped retirement has left (mutateEpic does not look for one).
MembershipBacked ==
  \A c \in Changes \ (loose \cup discarded) :
    member[c] # None /\ member[c].epic \notin forked =>
      Names(Read(member[c].epic), member[c].entry, c)

\* An epic is retired only when the work is over: every entry of its snapshot names a
\* change that is archived or closed, whichever of archive, link and show wrote the
\* terminal summaries (retire, projectTerminalStateForLinkedEntry, convergeEpicOnShow),
\* with the exceptions of MembershipBacked.
RetiredChangesDone ==
  \A e \in Epics \ forked : retired[e] # None =>
    \A i \in EntryIds : retired[e][i] # None => retired[e][i].of \in Ended \cup loose

\* An epic is in one of its two files from its creation on, and once its snapshot is
\* written it is never created again under the same id: not even by a crash between
\* the two writes of a retirement.
EpicKept ==
  [][\A e \in Epics : /\ Read(e) # None => Read(e)' # None
                      /\ (retired[e] # None /\ active[e] = None) => active'[e] = None]_epicVars
=============================================================================
