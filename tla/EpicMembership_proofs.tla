----------------------- MODULE EpicMembership_proofs ------------------------
(***************************************************************************)
(* EpicMembership for every set of sessions, epics, entries and changes    *)
(* and every number of calls: an epic is never lost, a membership names an *)
(* entry that names its change, and an epic is retired only over changes   *)
(* that are archived or closed.                                            *)
(***************************************************************************)
EXTENDS EpicMembership, TLAPS

\* Which tools have which steps, and what a call is about.
Shape(k) ==
  /\ k.step \in {"read", "finish", "retarget"} => k.tool = "link"
  /\ k.step = "add" => k.tool \in {"link", "move"}
  /\ k.step = "clear" => k.tool = "unlink"
  /\ k.step = "unlink" => k.tool \in {"move", "unlink"}
  /\ k.step = "discard" => k.tool = "end"
  /\ k.tool = "edit" => k.step = "save"
  /\ k.tool = "unlink" => k.step \in {"clear", "save", "unlink"}
  /\ k.step = "remove" => k.tool = "retire" /\ k.epic \in Epics
  /\ k.step # "remove" => k.change \in Changes
  /\ (k.step \notin {"discard", "remove"} /\ k.tool # "edit") =>
       k.epic \in Epics /\ k.entry \in EntryIds
  /\ k.tool \in {"move", "unlink"} => k.from # None
  /\ k.tool = "move" => k.from.epic # k.epic
  /\ k.step = "read" => k.saw \in {None, [epic |-> k.epic, entry |-> k.entry]}

Shaped == \A s \in Sessions : call[s] # None => Shape(call[s])

\* The active projection is removed only after the snapshot has been written.
SnapshotFirst == \A s \in Sessions : InCall(s, "remove") => retired[call[s].epic] # None

Formed == EpicTypeOK /\ Shaped /\ SnapshotFirst

\* The two files of an epic that has not forked agree as long as both are there.
Snapshots == \A e \in Epics \ forked : retired[e] # None => /\ active[e] \in {None, retired[e]}
                                                            /\ Completed(retired[e])

DoneIsEnded ==
  \A e \in Epics \ forked, i \in EntryIds :
    (Read(e) # None /\ Read(e)[i] # None /\ Read(e)[i].done) => Read(e)[i].of \in Ended \cup loose

\* Entry i of e names c, as far as e has not forked.
NamedAt(e, i, c) == e \in forked \/ Names(Read(e), i, c)

Backed == \A c \in Changes \ (loose \cup discarded) :
            member[c] # None => NamedAt(member[c].epic, member[c].entry, c)

\* What a call about a change that is not loose knows of the change: a status it has
\* read is still true, and the record it saves is there.
KnowsChild(k) ==
  /\ k.step = "save" => k.change \notin discarded /\ (k.status = "terminal" <=> k.change \in Ended)
  /\ k.step \in {"summary", "discard"} => k.change \in Ended
  /\ (k.step \in {"read", "add", "retarget", "finish"} /\ k.tool = "link" /\ k.status = "terminal")
       => k.change \in Ended

\* What it knows of the epic, while the change has its record: the entry it is to write
\* or to save names its change, so does the one it moves from; and it unlinks an entry
\* only when the child no longer names it.
KnowsEpic(k) ==
  /\ k.step \in {"finish", "reread", "judge", "observe", "mark", "summary"} =>
       NamedAt(k.epic, k.entry, k.change)
  /\ (k.step = "save" /\ k.saw # None) => NamedAt(k.saw.epic, k.saw.entry, k.change)
  /\ k.tool \in {"move", "unlink"} => NamedAt(k.from.epic, k.from.entry, k.change)
  /\ (k.step = "save" /\ k.tool \in {"move", "unlink"}) => k.saw # k.from
  /\ k.step = "unlink" => member[k.change] # k.from
  /\ k.step = "read" => k.saw = member[k.change]
  /\ k.step = "retarget" => k.epic \in forked

KnownCall(k) == k.change \in Changes \ loose =>
              KnowsChild(k) /\ (k.change \notin discarded => KnowsEpic(k))

Coherent == /\ \A c \in Changes : Contended(c) => c \in loose
            /\ discarded \subseteq Ended
            /\ Snapshots /\ DoneIsEnded /\ Backed
            /\ \A s \in Sessions : call[s] # None => KnownCall(call[s])

EpicInv == Formed /\ Coherent

-----------------------------------------------------------------------------
\* The call of s becomes k; the others stay.
Moved(s, k) == k \in Calls /\ k # None /\ call' = [call EXCEPT ![s] = k]

LEMMA MovedFacts ==
  ASSUME Formed, NEW s \in Sessions, NEW k, Moved(s, k)
  PROVE  /\ call' \in [Sessions -> Calls \cup {None}] /\ call'[s] = k /\ k \in Calls /\ k # None
         /\ \A t \in Sessions \ {s} : call'[t] = call[t]
BY DEF Formed, EpicTypeOK, Moved

LEMMA ReturnFacts ==
  ASSUME Formed, NEW s \in Sessions, Return(s)
  PROVE  /\ call' \in [Sessions -> Calls \cup {None}] /\ call'[s] = None
         /\ \A t \in Sessions \ {s} : call'[t] = call[t]
BY DEF Formed, EpicTypeOK, Return

LEMMA BeginFacts ==
  ASSUME Formed, NEW s \in Sessions, NEW rec \in Calls, Begin(s, rec)
  PROVE  call[s] = None /\ Moved(s, rec) /\ calls' \in 0 .. MaxEpicCalls
BY NoneIsNoData, EpicBound DEF Formed, EpicTypeOK, Begin, Moved

\* The same call at another step.
LEMMA GotoFacts ==
  ASSUME Formed, NEW s \in Sessions, call[s] # None, NEW step \in Steps, Goto(s, step)
  PROVE  /\ Moved(s, [call[s] EXCEPT !.step = step])
         /\ [call[s] EXCEPT !.step = step].step = step
         /\ [call[s] EXCEPT !.step = step].tool = call[s].tool
         /\ [call[s] EXCEPT !.step = step].change = call[s].change
         /\ [call[s] EXCEPT !.step = step].epic = call[s].epic
         /\ [call[s] EXCEPT !.step = step].entry = call[s].entry
         /\ [call[s] EXCEPT !.step = step].from = call[s].from
         /\ [call[s] EXCEPT !.step = step].saw = call[s].saw
         /\ [call[s] EXCEPT !.step = step].status = call[s].status
<1>1. call[s] \in Calls
  BY DEF Formed, EpicTypeOK
<1>2. [call[s] EXCEPT !.step = step] \in Calls
  BY <1>1 DEF Calls
<1>3. call' = [call EXCEPT ![s] = [call[s] EXCEPT !.step = step]]
  BY DEF Goto
<1>4. Moved(s, [call[s] EXCEPT !.step = step])
  BY <1>2, <1>3, NoneIsNoData DEF Moved
<1> QED
  BY <1>1, <1>4 DEF Calls

\* The record is loaded: the call is at "save", with m to write.
LEMMA LoadFacts ==
  ASSUME Formed, NEW s \in Sessions, call[s] # None, NEW m \in Membership \cup {None},
         LoadToSave(s, m)
  PROVE  \E k : /\ Moved(s, k)
                /\ k.step = "save" /\ k.saw = m
                /\ (k.status = "terminal" <=> call[s].change \in Ended)
                /\ k.tool = call[s].tool /\ k.change = call[s].change /\ k.epic = call[s].epic
                /\ k.entry = call[s].entry /\ k.from = call[s].from
<1> DEFINE st == IF call[s].change \in Ended THEN "terminal" ELSE "none"
           k == [call[s] EXCEPT !.step = "save", !.saw = m, !.status = st]
<1>1. call[s] \in Calls
  BY DEF Formed, EpicTypeOK
<1>2. st \in Statuses /\ (st = "terminal" <=> call[s].change \in Ended)
  BY DEF Statuses
<1>3. call' = [call EXCEPT ![s] = [call[s] EXCEPT !.step = "save", !.saw = m, !.status = st]]
  BY DEF LoadToSave
<1> HIDE DEF st
<1>4. k \in Calls
  BY <1>1, <1>2, ZenonT(60) DEF Calls, Steps
<1>5. Moved(s, k)
  BY <1>3, <1>4, NoneIsNoData DEF Moved
<1>6. /\ k.step = "save" /\ k.saw = m /\ k.status = st
      /\ k.tool = call[s].tool /\ k.change = call[s].change /\ k.epic = call[s].epic
      /\ k.entry = call[s].entry /\ k.from = call[s].from
  BY <1>1 DEF Calls
<1> QED
  BY <1>2, <1>5, <1>6

LEMMA FieldFacts ==
  ASSUME Formed, NEW s \in Sessions, call[s] # None
  PROVE  /\ call[s] \in Calls /\ Shape(call[s])
         /\ call[s].step # "remove" => call[s].change \in Changes /\ call[s].change # None
         /\ call[s].step = "remove" => call[s].epic \in Epics
         /\ (call[s].step \notin {"discard", "remove"} /\ call[s].tool # "edit") =>
              call[s].epic \in Epics /\ call[s].entry \in EntryIds
         /\ call[s].step \notin {"save", "discard", "remove"} =>
              call[s].epic \in Epics /\ call[s].entry \in EntryIds
         /\ call[s].saw \in Membership \cup {None}
         /\ call[s].tool \in {"move", "unlink"} => /\ call[s].from \in Membership
                                                   /\ call[s].from.epic \in Epics
                                                   /\ call[s].from.entry \in EntryIds
<1>1. call[s] \in Calls /\ Shape(call[s])
  BY DEF Formed, EpicTypeOK, Shaped
<1>2. call[s].from \in Membership \cup {None} /\ call[s].saw \in Membership \cup {None}
  BY <1>1 DEF Calls
<1>3. call[s].tool \in {"move", "unlink"} => call[s].from # None
  BY <1>1 DEF Shape
<1>4. call[s].tool \in {"move", "unlink"} =>
        call[s].from \in Membership /\ call[s].from.epic \in Epics /\ call[s].from.entry \in EntryIds
  BY <1>2, <1>3 DEF Membership
<1> QED
  BY <1>1, <1>2, <1>4, NamesDiffer DEF Shape

\* One entry of an active projection is written.
LEMMA PutFacts ==
  ASSUME Formed, NEW e \in Epics, NEW i \in EntryIds, NEW x \in Entries \cup {None},
         active[e] # None, Put(e, i, x)
  PROVE  /\ active' \in [Epics -> Projections \cup {None}]
         /\ active'[e] = [active[e] EXCEPT ![i] = x] /\ active'[e] # None
         /\ \A d \in Epics : d # e => active'[d] = active[d]
<1>1. active[e] \in Projections
  BY DEF Formed, EpicTypeOK
<1>2. [active[e] EXCEPT ![i] = x] \in Projections
  BY <1>1 DEF Projections
<1>3. active' = [active EXCEPT ![e] = [active[e] EXCEPT ![i] = x]]
  BY DEF Put
<1> QED
  BY <1>2, <1>3, NoneIsNoData DEF Formed, EpicTypeOK

Writes(e, i, x) ==
  /\ e \in Epics /\ i \in EntryIds /\ x \in Entries \cup {None}
  /\ active[e] # None /\ Put(e, i, x) /\ retired' = retired

\* What an entry is overwritten with: a free id or a shell with any entry; the entry of a
\* change with the same change, done only if it has ended; and None when it is unlinked.
WritesFree(e, i, x) ==
  /\ Writes(e, i, x) /\ x # None /\ ~x.done
  /\ active[e][i] = None \/ active[e][i].of = Shell
WritesSame(e, i, x) ==
  /\ Writes(e, i, x) /\ active[e][i] # None /\ x # None /\ x.of = active[e][i].of

LEMMA EntryFacts ==
  ASSUME Formed, NEW e \in Epics, NEW i \in EntryIds, active[e] # None, active[e][i] # None,
         NEW st \in Statuses, NEW done \in BOOLEAN
  PROVE  /\ active[e][i] \in Entries
         /\ [active[e][i] EXCEPT !.status = st] \in Entries
         /\ [active[e][i] EXCEPT !.status = st].of = active[e][i].of
         /\ [active[e][i] EXCEPT !.status = st].done = active[e][i].done
         /\ [active[e][i] EXCEPT !.status = st, !.done = done] \in Entries
         /\ [active[e][i] EXCEPT !.status = st, !.done = done].of = active[e][i].of
         /\ [active[e][i] EXCEPT !.status = st, !.done = done].done = done
<1>1. active[e] \in Projections
  BY DEF Formed, EpicTypeOK
<1>2. active[e][i] \in Entries
  BY <1>1 DEF Projections
<1> QED
  BY <1>2 DEF Entries

LEMMA AddShellWrites ==
  ASSUME Formed, NEW e \in Epics, NEW i \in EntryIds, AddShell(e, i)
  PROVE  \E x : WritesFree(e, i, x)
<1> DEFINE x == [of |-> Shell, status |-> "none", done |-> FALSE]
<1>0. x \in Entries /\ ~x.done
  BY DEF Entries, Statuses
<1> HIDE DEF x
<1>1. x # None
  BY <1>0, NoneIsNoData
<1>2. WritesFree(e, i, x)
  BY <1>0, <1>1 DEF AddShell, WritesFree, Writes, x
<1> QED
  BY <1>2

LEMMA AddEntryWrites ==
  ASSUME Formed, NEW s \in Sessions, AddEntry(s), ~(active' = active /\ Return(s))
  PROVE  /\ \E x : WritesFree(call[s].epic, call[s].entry, x)
         /\ active'[call[s].epic] # None /\ Names(active'[call[s].epic], call[s].entry, call[s].change)
<1> DEFINE x == [of |-> call[s].change, status |-> "pending", done |-> FALSE]
<1>1. call[s] # None /\ call[s].step = "add"
  BY DEF AddEntry, InCall
<1>2. call[s].change \in Changes /\ call[s].entry \in EntryIds /\ call[s].epic \in Epics
  BY <1>1, FieldFacts
<1>0. x \in Entries /\ ~x.done /\ x.of = call[s].change
  BY <1>2 DEF Entries, Statuses
<1>3. x \in Entries /\ x # None /\ ~x.done /\ x.of = call[s].change
  BY <1>0, NoneIsNoData
<1>4. /\ Put(call[s].epic, call[s].entry, x) /\ active[call[s].epic] # None
      /\ active[call[s].epic][call[s].entry] = None /\ retired' = retired
  BY DEF AddEntry
<1>5. WritesFree(call[s].epic, call[s].entry, x)
  BY <1>2, <1>3, <1>4 DEF WritesFree, Writes
<1>6. /\ active'[call[s].epic] # None
      /\ active'[call[s].epic] = [active[call[s].epic] EXCEPT ![call[s].entry] = x]
  BY <1>2, <1>3, <1>4, PutFacts DEF Formed
<1>7. active[call[s].epic] \in [EntryIds -> Entries \cup {None}]
  BY <1>2, <1>4 DEF Formed, EpicTypeOK, Projections
<1> QED
  BY <1>2, <1>3, <1>5, <1>6, <1>7 DEF Names

LEMMA PromoteWrites ==
  ASSUME Formed, NEW s \in Sessions, Promote(s), ~UNCHANGED active
  PROVE  /\ \E x : WritesFree(call[s].epic, call[s].entry, x)
         /\ active'[call[s].epic] # None /\ Names(active'[call[s].epic], call[s].entry, call[s].change)
<1> DEFINE x == [of |-> call[s].change, status |-> "none", done |-> FALSE]
<1>1. call[s] # None /\ call[s].step = "promote"
  BY DEF Promote, InCall
<1>2. call[s].change \in Changes /\ call[s].entry \in EntryIds /\ call[s].epic \in Epics
  BY <1>1, FieldFacts
<1>0. x \in Entries /\ ~x.done /\ x.of = call[s].change
  BY <1>2 DEF Entries, Statuses
<1>3. x \in Entries /\ x # None /\ ~x.done /\ x.of = call[s].change
  BY <1>0, NoneIsNoData
<1>4. /\ Put(call[s].epic, call[s].entry, x) /\ active[call[s].epic] # None
      /\ active[call[s].epic][call[s].entry].of = Shell /\ retired' = retired
  BY DEF Promote, Names
<1>5. WritesFree(call[s].epic, call[s].entry, x)
  BY <1>2, <1>3, <1>4 DEF WritesFree, Writes
<1>6. /\ active'[call[s].epic] # None
      /\ active'[call[s].epic] = [active[call[s].epic] EXCEPT ![call[s].entry] = x]
  BY <1>2, <1>3, <1>4, PutFacts DEF Formed
<1>7. active[call[s].epic] \in [EntryIds -> Entries \cup {None}]
  BY <1>2, <1>4 DEF Formed, EpicTypeOK, Projections
<1> QED
  BY <1>2, <1>3, <1>5, <1>6, <1>7 DEF Names

\* A terminal summary, of a link or an archive, is written for a change that has ended.
LEMMA SummaryWrites ==
  ASSUME Formed, NEW s \in Sessions, Finish(s) \/ Summarise(s), ~UNCHANGED active
  PROVE  \E x : /\ WritesSame(call[s].epic, call[s].entry, x) /\ x.done
                /\ Finish(s) => call[s].status = "terminal"
<1> DEFINE p == active[call[s].epic]
           x == [p[call[s].entry] EXCEPT !.status = "terminal", !.done = TRUE]
<1>1. call[s] # None /\ call[s].step \in {"finish", "summary"}
  BY DEF Finish, Summarise, InCall
<1>2. call[s].entry \in EntryIds /\ call[s].epic \in Epics
  BY <1>1, FieldFacts
<1>3. /\ IsChange(p, call[s].entry) /\ Put(call[s].epic, call[s].entry, x) /\ retired' = retired
      /\ Finish(s) => call[s].status = "terminal"
  BY DEF Finish, Summarise
<1>4. x \in Entries /\ x.done /\ x.of = p[call[s].entry].of
  BY <1>2, <1>3, EntryFacts DEF IsChange, Statuses
<1>5. x # None
  BY <1>4, NoneIsNoData
<1> HIDE DEF x
<1>6. WritesSame(call[s].epic, call[s].entry, x)
  BY <1>2, <1>3, <1>4, <1>5 DEF WritesSame, Writes, IsChange
<1> QED
  BY <1>3, <1>4, <1>6

LEMMA MarkWrites ==
  ASSUME Formed, NEW s \in Sessions, MarkLinked(s), ~UNCHANGED active
  PROVE  \E x : /\ WritesSame(call[s].epic, call[s].entry, x)
                /\ x.done = active[call[s].epic][call[s].entry].done
<1> DEFINE p == active[call[s].epic]
           x == [p[call[s].entry] EXCEPT !.status = "linked"]
<1>1. call[s] # None /\ call[s].step = "mark"
  BY DEF MarkLinked, InCall
<1>2. call[s].entry \in EntryIds /\ call[s].epic \in Epics
  BY <1>1, FieldFacts
<1>3. IsChange(p, call[s].entry) /\ Put(call[s].epic, call[s].entry, x) /\ retired' = retired
  BY DEF MarkLinked
<1>4. x \in Entries /\ x.done = p[call[s].entry].done /\ x.of = p[call[s].entry].of
  BY <1>2, <1>3, EntryFacts DEF IsChange, Statuses
<1>5. x # None
  BY <1>4, NoneIsNoData
<1> HIDE DEF x
<1>6. WritesSame(call[s].epic, call[s].entry, x)
  BY <1>2, <1>3, <1>4, <1>5 DEF WritesSame, Writes, IsChange
<1> QED
  BY <1>4, <1>6

LEMMA RetargetWrites ==
  ASSUME Formed, NEW s \in Sessions, Retarget(s), ~UNCHANGED active
  PROVE  \E x : /\ Writes(call[s].epic, call[s].entry, x)
                /\ active[call[s].epic][call[s].entry] # None /\ x # None
                /\ x.of = call[s].change /\ x.done = active[call[s].epic][call[s].entry].done
<1> DEFINE p == active[call[s].epic]
           x == [p[call[s].entry] EXCEPT !.of = call[s].change]
<1>1. call[s] # None /\ call[s].step = "retarget"
  BY DEF Retarget, InCall
<1>2. call[s].change \in Changes /\ call[s].entry \in EntryIds /\ call[s].epic \in Epics
  BY <1>1, FieldFacts
<1>3. IsChange(p, call[s].entry) /\ Put(call[s].epic, call[s].entry, x) /\ retired' = retired
  BY DEF Retarget
<1>4. p[call[s].entry] \in Entries
  BY <1>2, <1>3, EntryFacts DEF IsChange, Statuses
<1>5. x \in Entries /\ x.of = call[s].change /\ x.done = p[call[s].entry].done
  BY <1>2, <1>4 DEF Entries
<1> HIDE DEF x
<1>6. Writes(call[s].epic, call[s].entry, x) /\ x # None /\ p[call[s].entry] # None
  BY <1>2, <1>3, <1>5, NoneIsNoData DEF Writes, IsChange
<1> QED
  BY <1>5, <1>6

LEMMA UnlinkWrites ==
  ASSUME Formed, NEW s \in Sessions, UnlinkEntry(s), ~UNCHANGED active
  PROVE  Writes(call[s].from.epic, call[s].from.entry, None)
<1>1. call[s] # None /\ call[s].step = "unlink" /\ call[s].tool \in {"move", "unlink"}
  BY FieldFacts DEF UnlinkEntry, InCall, Shape
<1>2. call[s].from.entry \in EntryIds /\ call[s].from.epic \in Epics
  BY <1>1, FieldFacts
<1> QED
  BY <1>2 DEF UnlinkEntry, Writes

\* To begin a call changes no projection and no membership; a file only if an epic is
\* retired, a status only if a change ends.
LEMMA CallKeeps ==
  ASSUME NEW s \in Sessions, EpicCall(s)
  PROVE  /\ active' = active /\ member' = member /\ discarded' = discarded
         /\ retired' = retired \/ \E e \in Epics : Retire(s, e)
         /\ lifecycle' = lifecycle \/ \E c \in Changes, how \in {"closed", "archived"} : End(s, c, how)
         /\ bundle' = bundle \/ \E c \in Changes, how \in {"closed", "archived"} : End(s, c, how)
<1> USE DEF childVars
<1>1. ASSUME NEW e \in Epics, Retire(s, e) PROVE active' = active /\ UNCHANGED childVars
  BY <1>1 DEF Retire
<1>2. ASSUME NEW c \in Changes, NEW how, End(s, c, how)
      PROVE UNCHANGED <<active, retired, member, discarded>>
  BY <1>2 DEF End
<1>3. ASSUME NEW c \in Changes, NEW e \in Epics, NEW i \in EntryIds, BeginLink(s, c, e, i)
      PROVE UNCHANGED <<active, retired, childVars>>
  BY <1>3 DEF BeginLink
<1>4. ASSUME NEW c \in Changes, NEW e \in Epics, NEW i \in EntryIds, BeginUnlink(s, c, e, i)
      PROVE UNCHANGED <<active, retired, childVars>>
  BY <1>4 DEF BeginUnlink
<1>5. ASSUME NEW c \in Changes, NEW e \in Epics, NEW i \in EntryIds, BeginPromote(s, c, e, i)
      PROVE UNCHANGED <<active, retired, childVars>>
  BY <1>5 DEF BeginPromote
<1>6. ASSUME NEW c \in Changes, NEW e \in Epics, NEW i \in EntryIds, BeginShow(s, c, e, i)
      PROVE UNCHANGED <<active, retired, childVars>>
  BY <1>6 DEF BeginShow
<1>7. ASSUME NEW c \in Changes, NEW e \in Epics, NEW i \in EntryIds, NEW d \in Epics, NEW j \in EntryIds,
             BeginMove(s, c, d, i, e, j)
      PROVE UNCHANGED <<active, retired, childVars>>
  BY <1>7 DEF BeginMove
<1>8. ASSUME NEW c \in Changes, BeginEdit(s, c)
      PROVE UNCHANGED <<active, retired, childVars>>
  BY <1>8 DEF BeginEdit
<1> QED
  BY <1>1, <1>2, <1>3, <1>4, <1>5, <1>6, <1>7, <1>8 DEF EpicCall

\* Only a save and a removal of the record write what is read of a change.
LEMMA StepKeeps ==
  ASSUME NEW s \in Sessions, EpicStep(s), ~Save(s), ~Discard(s)
  PROVE  UNCHANGED childVars
BY DEF EpicStep, LinkRead, AddEntry, Retarget, Finish, Judge, Clear, childVars,
     UnlinkEntry, Promote, Reread, Observe, MarkLinked, Summarise, Remove, Interrupt

\* Every step of a call moves it.
LEMMA StepMoves ==
  ASSUME Formed, NEW s \in Sessions, EpicStep(s)
  PROVE  /\ call[s] # None /\ call'[s] # call[s] /\ calls' = calls
         /\ \A t \in Sessions \ {s} : call'[t] = call[t]
<1>1. call[s] # None /\ call[s] \in Calls /\ Shape(call[s])
  <2>1. call[s] # None
    BY DEF EpicStep, LinkRead, AddEntry, Retarget, Finish, Judge, Save, Clear, Discard,
         UnlinkEntry, Promote, Reread, Observe, MarkLinked, Summarise, Remove, Interrupt, InCall
  <2> QED
    BY <2>1, FieldFacts
<1> DEFINE Goal == call'[s] # call[s] /\ \A t \in Sessions \ {s} : call'[t] = call[t]
<1>2. ASSUME Return(s) PROVE Goal
  <2>1. call'[s] = None /\ \A t \in Sessions \ {s} : call'[t] = call[t]
    BY <1>2, ReturnFacts
  <2> QED
    BY <1>1, <2>1
<1>3. ASSUME NEW step \in Steps, Goto(s, step), step # call[s].step PROVE Goal
  <2>1. /\ Moved(s, [call[s] EXCEPT !.step = step])
        /\ [call[s] EXCEPT !.step = step].step # call[s].step
    BY <1>1, <1>3, GotoFacts
  <2> QED
    BY <2>1, MovedFacts
<1>4. ASSUME NEW m \in Membership \cup {None}, LoadToSave(s, m), call[s].step # "save" PROVE Goal
  <2>1. PICK k : Moved(s, k) /\ k.step = "save"
    BY <1>1, <1>4, LoadFacts
  <2> QED
    BY <1>4, <2>1, MovedFacts
<1> HIDE DEF Goal
<1>5. calls' = calls
  BY DEF EpicStep, LinkRead, AddEntry, Retarget, Finish, Judge, Save, Clear, Discard,
       UnlinkEntry, Promote, Reread, Observe, MarkLinked, Summarise, Remove, Interrupt
<1> USE DEF InCall, Steps
<1>6. CASE LinkRead(s)
  <2>1. call[s].step = "read"
    BY <1>6 DEF LinkRead
  <2>2. ASSUME NEW k \in {[call[s] EXCEPT !.step = "retarget", !.named = Read(call[s].epic)[call[s].entry].of]}
                 \cup {[call[s] EXCEPT !.step = "finish", !.entry = j,
                         !.from = [epic |-> call[s].epic, entry |-> j]] : j \in EntryIds},
               call' = [call EXCEPT ![s] = k]
        PROVE  Goal
    <3>1. call'[s] = k /\ \A t \in Sessions \ {s} : call'[t] = call[t]
      BY <2>2 DEF Formed, EpicTypeOK
    <3>2. k.step # "read"
      BY <1>1, <2>2 DEF Calls
    <3> QED
      BY <2>1, <3>1, <3>2 DEF Goal
  <2>3. CASE call[s].saw = None
    BY <1>2, <1>3, <1>6, <2>1, <2>2, <2>3 DEF LinkRead, Goal
  <2>4. CASE call[s].saw # None
    BY <1>2, <1>3, <1>6, <2>1, <2>2, <2>4 DEF LinkRead, Goal
  <2> QED
    BY <2>3, <2>4, <1>1, <1>5 DEF Goal
<1>7. CASE AddEntry(s) \/ Retarget(s) \/ Finish(s) \/ UnlinkEntry(s) \/ Promote(s) \/ Reread(s)
           \/ Observe(s) \/ MarkLinked(s) \/ Summarise(s) \/ Discard(s) \/ Remove(s) \/ Interrupt(s)
  <2>1. Return(s) \/ \E step \in Steps : Goto(s, step) /\ step # call[s].step
    BY <1>7 DEF AddEntry, Retarget, Finish, UnlinkEntry, Promote, Reread, Observe, MarkLinked,
         Summarise, Discard, Remove, Interrupt
  <2> QED
    BY <1>1, <1>2, <1>3, <1>5, <2>1 DEF Goal
<1>8. CASE Judge(s) \/ Clear(s)
  <2>1. call[s].step \in {"judge", "clear"} /\ call[s].step = "judge" => call[s].tool # "edit"
    BY <1>1, <1>8 DEF Judge, Clear, Shape
  <2>2. call[s].step = "judge" => [epic |-> call[s].epic, entry |-> call[s].entry] \in Membership
    BY <1>1, FieldFacts DEF Membership
  <2>3. \/ Return(s) \/ Goto(s, "unlink")
        \/ \E m \in Membership \cup {None} : LoadToSave(s, m)
    BY <1>8, <2>2 DEF Judge, Clear, AfterChild
  <2> QED
    BY <1>1, <1>2, <1>3, <1>4, <1>5, <1>8, <2>3 DEF Goal, Judge, Clear
<1>9. CASE Save(s)
  <2>1. call[s].step = "save" /\ (Return(s) \/ Goto(s, "unlink"))
    BY <1>9 DEF Save, AfterChild
  <2> QED
    BY <1>1, <1>2, <1>3, <1>5, <2>1 DEF Goal
<1> QED
  BY <1>6, <1>7, <1>8, <1>9 DEF EpicStep

\* Every way in which a step moves the files of the epics.
Unlinks(s) == /\ UnlinkEntry(s) /\ call[s].tool \in {"move", "unlink"} /\ call[s].step = "unlink"
              /\ Writes(call[s].from.epic, call[s].from.entry, None)
Marks(s) == /\ call[s].step \in {"finish", "summary"}
            /\ call[s].step = "finish" => call[s].status = "terminal" /\ call[s].tool = "link"
            /\ IsChange(active[call[s].epic], call[s].entry)
            /\ \E x : WritesSame(call[s].epic, call[s].entry, x)
Links(s) == /\ call[s].step = "mark"
            /\ \E x : /\ WritesSame(call[s].epic, call[s].entry, x)
                      /\ x.done = active[call[s].epic][call[s].entry].done
Retargets(s) == /\ call[s].step = "retarget"
                /\ \E x : /\ Writes(call[s].epic, call[s].entry, x)
                          /\ active[call[s].epic][call[s].entry] # None /\ x # None
                          /\ x.of = call[s].change
                          /\ x.done = active[call[s].epic][call[s].entry].done

FileStep(s) == EpicStep(s) /\ (Unlinks(s) \/ Marks(s) \/ Links(s) \/ Retargets(s))

LEMMA FileSteps ==
  ASSUME Formed, EpicNext
  PROVE  \/ UNCHANGED <<active, retired>>
         \/ \E e \in Epics : Create(e)
         \/ \E s \in Sessions, e \in Epics : Retire(s, e)
         \/ \E s \in Sessions : Remove(s)
         \/ \E e \in Epics, i \in EntryIds : \E x : WritesFree(e, i, x)
         \/ \E s \in Sessions : FileStep(s)
<1> DEFINE Goal == \/ UNCHANGED <<active, retired>>
                   \/ \E e \in Epics : Create(e)
                   \/ \E s \in Sessions, e \in Epics : Retire(s, e)
                   \/ \E s \in Sessions : Remove(s)
                   \/ \E e \in Epics, i \in EntryIds : \E x : WritesFree(e, i, x)
                   \/ \E s \in Sessions : FileStep(s)
<1>1. ASSUME NEW s \in Sessions, EpicCall(s) PROVE Goal
  <2>1. UNCHANGED <<active, retired>> \/ \E e \in Epics : Retire(s, e)
    BY <1>1, CallKeeps
  <2> QED
    BY <2>1
<1>2. ASSUME NEW e \in Epics, Create(e) \/ \E i \in EntryIds : AddShell(e, i) PROVE Goal
  BY <1>2, AddShellWrites
<1>3. ASSUME NEW s \in Sessions, EpicStep(s), ~(active' = active /\ retired' = retired) PROVE Goal
  <2>1. CASE Remove(s)
    BY <2>1
  <2>2. ASSUME ~Remove(s) PROVE retired' = retired /\ ~UNCHANGED active
    BY <1>3, <2>2 DEF EpicStep, LinkRead, AddEntry, Retarget, Finish, Judge, Save, Clear, Discard,
         UnlinkEntry, Promote, Reread, Observe, MarkLinked, Summarise, Interrupt
  <2>3. CASE AddEntry(s) /\ ~UNCHANGED active
    <3>1. call[s].entry \in EntryIds /\ call[s].epic \in Epics
      BY <2>3, FieldFacts DEF AddEntry, InCall
    <3> QED
      BY <2>3, <3>1, AddEntryWrites
  <2>4. CASE Promote(s) /\ ~UNCHANGED active
    <3>1. call[s].entry \in EntryIds /\ call[s].epic \in Epics
      BY <2>4, FieldFacts DEF Promote, InCall
    <3> QED
      BY <2>4, <3>1, PromoteWrites
  <2>5. CASE MarkLinked(s) /\ ~UNCHANGED active
    BY <1>3, <2>5, MarkWrites DEF MarkLinked, InCall, Links, FileStep
  <2>6. CASE (Finish(s) \/ Summarise(s)) /\ ~UNCHANGED active
    <3>1. \E x : WritesSame(call[s].epic, call[s].entry, x)
      BY <2>6, SummaryWrites
    <3>2. /\ call[s] # None /\ call[s].step \in {"finish", "summary"}
          /\ call[s].step = "finish" => Finish(s) /\ call[s].tool = "link"
      BY <2>6, FieldFacts DEF Finish, Summarise, InCall, Shape
    <3>3. Finish(s) => call[s].status = "terminal"
      BY <2>6, SummaryWrites
    <3>4. IsChange(active[call[s].epic], call[s].entry)
      BY <2>6 DEF Finish, Summarise
    <3> QED
      BY <1>3, <3>1, <3>2, <3>3, <3>4 DEF Marks, FileStep
  <2>7. CASE Retarget(s) /\ ~UNCHANGED active
    BY <1>3, <2>7, RetargetWrites DEF Retargets, Retarget, InCall, FileStep
  <2>8. CASE UnlinkEntry(s) /\ ~UNCHANGED active
    <3>1. call[s].tool \in {"move", "unlink"} /\ call[s].step = "unlink"
      BY <2>8, FieldFacts DEF UnlinkEntry, InCall, Shape
    <3> QED
      BY <1>3, <2>8, <3>1, UnlinkWrites DEF Unlinks, FileStep
  <2> HIDE DEF Goal
  <2>9. CASE UNCHANGED active
    BY <1>3, <2>1, <2>2, <2>9
  <2>10. CASE LinkRead(s) \/ Judge(s) \/ Save(s) \/ Clear(s) \/ Discard(s) \/ Reread(s) \/ Observe(s)
                \/ Interrupt(s)
    BY <2>9, <2>10 DEF LinkRead, Judge, Save, Clear, Discard, Reread, Observe, Interrupt
  <2> QED
    BY <1>3, <2>1, <2>3, <2>4, <2>5, <2>6, <2>7, <2>8, <2>9, <2>10 DEF EpicStep
<1> QED
  BY <1>1, <1>2, <1>3 DEF EpicNext

RetiredStay == \A e \in Epics : retired[e] # None => retired'[e] # None

LEMMA FilesFormed ==
  ASSUME Formed, EpicNext
  PROVE  /\ active' \in [Epics -> Projections \cup {None}]
         /\ retired' \in [Epics -> Projections \cup {None}] /\ RetiredStay
<1>1. EpicTypeOK /\ NoEntries \in Projections
  BY DEF Formed, NoEntries, Projections
<1>2. ASSUME NEW e, NEW i, NEW x, Writes(e, i, x)
      PROVE  active' \in [Epics -> Projections \cup {None}] /\ retired' = retired
  BY <1>1, <1>2, PutFacts DEF Writes
<1>3. ASSUME NEW e \in Epics, Create(e)
      PROVE  active' \in [Epics -> Projections \cup {None}] /\ retired' = retired
  BY <1>1, <1>3 DEF Create, EpicTypeOK
<1>4. ASSUME NEW s \in Sessions, NEW e \in Epics, Retire(s, e)
      PROVE  active' = active /\ retired' \in [Epics -> Projections \cup {None}] /\ RetiredStay
  BY <1>1, <1>4 DEF Retire, EpicTypeOK, RetiredStay
<1>5. ASSUME NEW s \in Sessions, Remove(s)
      PROVE  active' \in [Epics -> Projections \cup {None}] /\ retired' = retired
  BY <1>1, <1>5 DEF Remove, EpicTypeOK
<1>6. (retired' = retired) => RetiredStay
  BY DEF RetiredStay
<1> QED
  BY <1>1, <1>2, <1>3, <1>4, <1>5, <1>6, FileSteps
     DEF WritesFree, WritesSame, FileStep, Marks, Links, Retargets, Unlinks, EpicTypeOK

-----------------------------------------------------------------------------
\* What readers see of a mutation of an epic that has not forked.
LEMMA WriteReads ==
  ASSUME Formed, Snapshots, EpicNext, NEW e, NEW i, NEW x, Writes(e, i, x)
  PROVE  /\ e \notin forked' =>
              /\ Read(e) = active[e] /\ Read(e) # None /\ Read(e) \in [EntryIds -> Entries \cup {None}]
              /\ Read(e)' = active'[e] /\ Read(e)' # None /\ Read(e)' = [Read(e) EXCEPT ![i] = x]
         /\ \A d \in Epics : d # e => Read(d)' = Read(d)
         /\ Snapshots'
<1>1. e \in Epics /\ i \in EntryIds /\ active[e] # None /\ retired' = retired
  BY DEF Writes
<1>2. active[e] \in [EntryIds -> Entries \cup {None}]
  BY <1>1 DEF Formed, EpicTypeOK, Projections
<1>3. /\ active'[e] = [active[e] EXCEPT ![i] = x] /\ active'[e] # None
      /\ \A d \in Epics : d # e => active'[d] = active[d]
  BY PutFacts DEF Writes
<1>4. forked' = forked \cup {d \in Epics : WritesBeside(d)}
  BY DEF EpicNext
<1>5. e \notin forked' /\ retired[e] # None => active[e] = retired[e] /\ active'[e] = active[e]
  BY <1>1, <1>3, <1>4 DEF Snapshots, WritesBeside
<1>6. e \notin forked' => Read(e) = active[e] /\ Read(e)' = active'[e]
  BY <1>1, <1>5 DEF Read
<1>7. \A d \in Epics : d # e => Read(d)' = Read(d)
  BY <1>1, <1>3 DEF Read
<1>8. Snapshots'
  BY <1>1, <1>3, <1>4, <1>5 DEF Snapshots
<1> QED
  BY <1>1, <1>2, <1>3, <1>6, <1>7, <1>8

\* ... and of the other steps.
LEMMA OtherReads ==
  ASSUME Formed, Snapshots, EpicNext,
         \/ UNCHANGED <<active, retired>>
         \/ \E s \in Sessions, e \in Epics : Retire(s, e)
         \/ \E s \in Sessions : Remove(s)
  PROVE  (\A e \in Epics \ forked' : Read(e)' = Read(e)) /\ Snapshots'
<1>0. forked \subseteq forked'
  BY DEF EpicNext
<1>1. CASE UNCHANGED <<active, retired>>
  BY <1>0, <1>1 DEF Read, Snapshots
<1>2. ASSUME NEW s \in Sessions, NEW e \in Epics, Retire(s, e)
      PROVE  (\A d \in Epics \ forked' : Read(d)' = Read(d)) /\ Snapshots'
  <2>1. /\ active[e] # None /\ Completed(active[e]) /\ active' = active
        /\ retired' = [retired EXCEPT ![e] = active[e]]
    BY <1>2 DEF Retire
  <2>2. retired'[e] = active[e] /\ \A d \in Epics : d # e => retired'[d] = retired[d]
    BY <2>1 DEF Formed, EpicTypeOK
  <2>3. e \notin forked => Read(e)' = Read(e)
    BY <2>1, <2>2 DEF Read, Snapshots
  <2> QED
    BY <1>0, <2>1, <2>2, <2>3 DEF Read, Snapshots
<1>3. ASSUME NEW s \in Sessions, Remove(s)
      PROVE  (\A d \in Epics \ forked' : Read(d)' = Read(d)) /\ Snapshots'
  <2>1. /\ call[s] # None /\ retired[call[s].epic] # None /\ retired' = retired
        /\ active' = [active EXCEPT ![call[s].epic] = None]
    BY <1>3 DEF Remove, InCall, Formed, SnapshotFirst
  <2>2. \A d \in Epics : active'[d] = active[d] \/ (active'[d] = None /\ retired[d] # None)
    BY <2>1 DEF Formed, EpicTypeOK
  <2> QED
    BY <1>0, <2>1, <2>2 DEF Read, Snapshots
<1> QED
  BY <1>1, <1>2, <1>3

LEMMA CreateReads ==
  ASSUME Formed, Snapshots, EpicNext, NEW e \in Epics, Create(e)
  PROVE  /\ Read(e) = None /\ Read(e)' = NoEntries
         /\ \A d \in Epics : d # e => Read(d)' = Read(d)
         /\ Snapshots'
<1>1. /\ active[e] = None /\ retired[e] = None /\ retired' = retired
      /\ active' = [active EXCEPT ![e] = NoEntries]
  BY DEF Create
<1>2. active'[e] = NoEntries /\ \A d \in Epics : d # e => active'[d] = active[d]
  BY <1>1 DEF Formed, EpicTypeOK
<1>3. forked \subseteq forked'
  BY DEF EpicNext
<1> QED
  BY <1>1, <1>2, <1>3 DEF Read, Snapshots

\* The entry of another change than the one the call is about is written only by a call
\* about a loose or a gone change, and that change is then loose itself.
LEMMA Displacing ==
  ASSUME Formed, EpicNext, NEW s \in Sessions, EpicStep(s),
         call[s].change \in loose \cup discarded, NEW c \in Changes, c # call[s].change,
         NEW e, NEW i, NEW x, Writes(e, i, x), x # active[e][i], Names(active[e], i, c)
  PROVE  c \in loose'
<1>1. call[s] # None /\ call'[s] # call[s]
  BY StepMoves
<1>2. /\ e \in Epics /\ i \in EntryIds
      /\ active'[e] = [active[e] EXCEPT ![i] = x] /\ active'[e] # None
  BY PutFacts DEF Writes
<1>3. active[e] \in [EntryIds -> Entries \cup {None}]
  BY <1>2 DEF Formed, EpicTypeOK, Projections, Writes
<1>4. active'[e][i] # active[e][i]
  BY <1>2, <1>3
<1>5. Displaced(c)
  BY <1>1, <1>2, <1>4 DEF Displaced
<1>6. loose' = loose \cup {d \in Changes : Contended(d)' \/ Displaced(d)}
  BY DEF EpicNext
<1> QED
  BY <1>5, <1>6

\* An entry that names a change goes on doing so, unless it is unlinked.
Unlinked(e, i, c) ==
  \E s \in Sessions : EpicStep(s) /\ Unlinks(s) /\ call[s].change = c /\ call[s].from = [epic |-> e, entry |-> i]

\* What a call knows of the entry it writes, when it writes one.
LEMMA WriterKnows ==
  ASSUME Formed, Coherent, NEW s \in Sessions, FileStep(s), call[s] # None,
         call[s].change \notin loose \cup discarded
  PROVE  /\ call[s].change \in Changes
         /\ Marks(s) => call[s].change \in Ended /\ NamedAt(call[s].epic, call[s].entry, call[s].change)
         /\ Links(s) => NamedAt(call[s].epic, call[s].entry, call[s].change)
         /\ Retargets(s) => call[s].epic \in forked
         /\ Unlinks(s) => /\ NamedAt(call[s].from.epic, call[s].from.entry, call[s].change)
                          /\ member[call[s].change] # call[s].from
<1>1. call[s].step # "remove"
  BY DEF FileStep, Marks, Links, Retargets, Unlinks
<1>2. call[s].change \in Changes
  BY <1>1, FieldFacts
<1>3. KnowsChild(call[s]) /\ KnowsEpic(call[s])
  BY <1>2 DEF Coherent, KnownCall
<1> QED
  BY <1>2, <1>3 DEF KnowsChild, KnowsEpic, Marks, Links, Retargets, Unlinks

LEMMA NamesStep ==
  ASSUME Formed, Coherent, EpicNext,
         NEW d \in Epics \ forked', NEW j \in EntryIds, NEW c \in Changes \ loose', Names(Read(d), j, c)
  PROVE  Names(Read(d)', j, c) \/ Unlinked(d, j, c)
<1>0. Snapshots /\ forked \subseteq forked' /\ loose \subseteq loose'
  BY DEF Coherent, EpicNext
<1>2. CASE \/ UNCHANGED <<active, retired>>
           \/ \E s \in Sessions, e \in Epics : Retire(s, e)
           \/ \E s \in Sessions : Remove(s)
  BY <1>0, <1>2, OtherReads
<1>3. ASSUME NEW e \in Epics, Create(e) PROVE Names(Read(d)', j, c)
  BY <1>0, <1>3, CreateReads DEF Names
<1>4. ASSUME NEW e \in Epics, NEW i \in EntryIds, NEW x, WritesFree(e, i, x) PROVE Names(Read(d)', j, c)
  <2>1. Writes(e, i, x) /\ (active[e][i] = None \/ active[e][i].of = Shell)
    BY <1>4 DEF WritesFree
  <2>2. CASE d = e
    <3>1. /\ Read(e) = active[e] /\ Read(e)' = [Read(e) EXCEPT ![i] = x] /\ Read(e)' # None
          /\ Read(e) \in [EntryIds -> Entries \cup {None}]
      BY <1>0, <2>1, <2>2, WriteReads
    <3>2. j # i
      BY <2>1, <2>2, <3>1, NamesDiffer DEF Names
    <3> QED
      BY <2>2, <3>1, <3>2 DEF Names
  <2>3. CASE d # e
    BY <1>0, <2>1, <2>3, WriteReads DEF Names
  <2> QED
    BY <2>2, <2>3
<1>5. ASSUME NEW e, NEW i, NEW x, Writes(e, i, x), ~(d = e /\ j = i) PROVE Names(Read(d)', j, c)
  BY <1>0, <1>5, WriteReads DEF Names, Writes
<1>6. ASSUME NEW x, Writes(d, j, x), x # None, x.of = c PROVE Names(Read(d)', j, c)
  BY <1>0, <1>6, WriteReads DEF Names, Writes
<1>7. ASSUME NEW x, Writes(d, j, x), x = active[d][j] PROVE Names(Read(d)', j, c)
  <2>1. /\ Read(d) = active[d] /\ Read(d)' = [Read(d) EXCEPT ![j] = x] /\ Read(d)' # None
        /\ Read(d) \in [EntryIds -> Entries \cup {None}]
    BY <1>0, <1>7, WriteReads
  <2> QED
    BY <1>7, <2>1 DEF Names
<1>8. ASSUME NEW x, Writes(d, j, x) PROVE Read(d) = active[d] /\ active[d][j].of = c /\ Names(active[d], j, c)
  BY <1>0, <1>8, WriteReads DEF Names
<1>9. ASSUME NEW s \in Sessions, FileStep(s), call[s].change # c,
             NEW x, Writes(d, j, x), x # active[d][j]
      PROVE  call[s] # None /\ call[s].change \notin loose \cup discarded
  BY <1>8, <1>9, Displacing, StepMoves DEF FileStep
<1>10. ASSUME NEW s \in Sessions, FileStep(s), Marks(s) \/ Links(s) PROVE Names(Read(d)', j, c)
  <2>1. PICK e, i, x : WritesSame(e, i, x)
    BY <1>10 DEF Marks, Links
  <2>2. Writes(e, i, x) /\ x # None /\ x.of = active[e][i].of
    BY <2>1 DEF WritesSame
  <2> QED
    BY <1>5, <1>6, <1>8, <2>2
<1>11. ASSUME NEW s \in Sessions, FileStep(s), Retargets(s) PROVE Names(Read(d)', j, c)
  <2>1. PICK e, i, x : /\ e = call[s].epic /\ i = call[s].entry /\ Writes(e, i, x) /\ x # None
                       /\ x.of = call[s].change
    BY <1>11 DEF Retargets
  <2>2. CASE call[s].change = c \/ ~(d = e /\ j = i)
    BY <1>5, <1>6, <2>1, <2>2
  <2>3. CASE call[s].change # c /\ d = e /\ j = i
    <3>1. x # active[d][j]
      BY <1>8, <2>1, <2>3
    <3>2. d \in forked
      BY <1>9, <1>11, <2>1, <2>3, <3>1, WriterKnows
    <3> QED
      BY <1>0, <3>2
  <2> QED
    BY <2>2, <2>3
<1>12. ASSUME NEW s \in Sessions, FileStep(s), Unlinks(s) PROVE Names(Read(d)', j, c) \/ Unlinked(d, j, c)
  <2>1. call[s] # None /\ call[s].from \in Membership
    BY <1>12, FieldFacts, StepMoves DEF FileStep, Unlinks
  <2>2. PICK e \in Epics, i \in EntryIds : call[s].from = [epic |-> e, entry |-> i]
    BY <2>1 DEF Membership
  <2>3. Writes(e, i, None)
    BY <1>12, <2>2 DEF Unlinks
  <2>4. CASE call[s].change = c /\ e = d /\ i = j
    BY <1>12, <2>2, <2>4 DEF Unlinked, FileStep
  <2>5. CASE ~(e = d /\ i = j)
    BY <1>5, <2>3, <2>5
  <2>6. CASE call[s].change # c /\ e = d /\ i = j
    <3>1. Writes(d, j, None) /\ None # active[d][j]
      BY <1>8, <2>3, <2>6 DEF Names
    <3>2. NamedAt(d, j, call[s].change)
      BY <1>9, <1>12, <2>2, <2>6, <3>1, WriterKnows
    <3> QED
      BY <1>0, <2>6, <3>2 DEF NamedAt, Names
  <2> QED
    BY <2>4, <2>5, <2>6
<1> QED
  BY <1>2, <1>3, <1>4, <1>10, <1>11, <1>12, FileSteps DEF FileStep

LEMMA NamedStep ==
  ASSUME Formed, Coherent, EpicNext,
         NEW e \in Epics, NEW i \in EntryIds, NEW c \in Changes \ loose', NamedAt(e, i, c)
  PROVE  NamedAt(e, i, c)' \/ Unlinked(e, i, c)
<1>1. forked \subseteq forked'
  BY DEF EpicNext
<1> QED
  BY <1>1, NamesStep DEF NamedAt

\* Who writes what is read of a change.
LEMMA ChildStep ==
  ASSUME Formed, EpicNext, NEW c \in Changes,
         \/ member'[c] # member[c]
         \/ ~(c \in discarded <=> c \in discarded')
         \/ lifecycle'[c] # lifecycle[c]
  PROVE  \E s \in Sessions :
           \/ (Save(s) \/ Discard(s)) /\ EpicStep(s) /\ call[s].change = c
           \/ EpicCall(s) /\ \E how \in {"closed", "archived"} : End(s, c, how)
<1>1. ASSUME NEW e \in Epics, Create(e) \/ \E i \in EntryIds : AddShell(e, i) PROVE FALSE
  BY <1>1 DEF Create, AddShell, childVars
<1>2. ASSUME NEW s \in Sessions, EpicCall(s)
      PROVE  \E how \in {"closed", "archived"} : End(s, c, how)
  <2>1. member' = member /\ discarded' = discarded /\ lifecycle' # lifecycle
    BY <1>2, CallKeeps
  <2>2. PICK d \in Changes, how \in {"closed", "archived"} : End(s, d, how)
    BY <1>2, <2>1, CallKeeps
  <2>3. c = d
    BY <2>1, <2>2 DEF End, Formed, EpicTypeOK
  <2> QED
    BY <2>2, <2>3
<1>3. ASSUME NEW s \in Sessions, EpicStep(s)
      PROVE  (Save(s) \/ Discard(s)) /\ call[s].change = c
  <2>1. Save(s) \/ Discard(s)
    BY <1>3, StepKeeps DEF childVars
  <2>2. call[s].change = c
    BY <2>1 DEF Save, Discard, Formed, EpicTypeOK
  <2> QED
    BY <2>1, <2>2
<1> QED
  BY <1>1, <1>2, <1>3 DEF EpicNext

\* What is read of a change is as it was for a call about it, while another steps.
LEMMA Undisturbed ==
  ASSUME Formed, Coherent, EpicNext, NEW t \in Sessions, call[t] # None, call'[t] = call[t],
         NEW c \in Changes \ loose', call[t].change = c
  PROVE  /\ member'[c] = member[c] /\ (c \in discarded <=> c \in discarded') /\ lifecycle'[c] = lifecycle[c]
         /\ \A e, i : ~Unlinked(e, i, c)
<1>1. loose' = loose \cup {d \in Changes : Contended(d)' \/ Displaced(d)}
  BY DEF EpicNext
<1>2. ASSUME NEW s \in Sessions, EpicStep(s), call[s].change = c PROVE FALSE
  <2>1. call[s] # None /\ s # t
    BY <1>2, StepMoves
  <2>2. Contended(c)
    BY <1>2, <2>1 DEF Contended
  <2> QED
    BY <1>1, <2>2 DEF Coherent
<1>3. ASSUME NEW s \in Sessions, NEW how, End(s, c, how) PROVE FALSE
  <2>1. PICK k : /\ call[s] = None /\ call' = [call EXCEPT ![s] = k] /\ k.change = c
                 /\ k = IF how = "archived" /\ member[c] # None
                        THEN NewCall("end", "summary", c, member[c].epic, member[c].entry)
                        ELSE NewCall("end", "discard", c, None, None)
    BY <1>3 DEF End, Begin, NewCall
  <2>2. k \in Calls
    <3>1. member[c] # None => member[c].epic \in Epics /\ member[c].entry \in EntryIds
      BY DEF Formed, EpicTypeOK, Membership
    <3> QED
      BY <2>1, <3>1 DEF NewCall, Calls, Steps, Statuses
  <2>3. call'[s] = k /\ k # None /\ s # t
    BY <2>1, <2>2, NoneIsNoData DEF Formed, EpicTypeOK
  <2>4. Contended(c)'
    BY <2>1, <2>3 DEF Contended
  <2> QED
    BY <1>1, <2>4
<1>4. \A e, i : ~Unlinked(e, i, c)
  BY <1>2 DEF Unlinked
<1> QED
  BY <1>2, <1>3, <1>4, ChildStep

\* What a call knows stays true as long as its change and the entries that name it do.
LEMMA KnownKept ==
  ASSUME EpicNext, NEW k \in Calls, Shape(k), KnownCall(k),
         ASSUME k.change \in Changes \ loose'
         PROVE  /\ member'[k.change] = member[k.change]
                /\ (k.change \in discarded <=> k.change \in discarded')
                /\ (k.change \in Ended <=> k.change \in Ended')
                /\ \A e \in Epics, i \in EntryIds : NamedAt(e, i, k.change) => NamedAt(e, i, k.change)'
  PROVE  KnownCall(k)'
<1> SUFFICES ASSUME k.change \in Changes \ loose'
             PROVE  KnowsChild(k)' /\ (k.change \notin discarded' => KnowsEpic(k)')
  BY DEF KnownCall
<1>1. loose \subseteq loose' /\ forked \subseteq forked'
  BY DEF EpicNext
<1>2. KnowsChild(k) /\ (k.change \notin discarded => KnowsEpic(k))
  BY <1>1 DEF KnownCall
<1>3. KnowsChild(k)'
  BY <1>2 DEF KnowsChild
<1>4. ASSUME k.change \notin discarded' PROVE KnowsEpic(k)'
  <2>1. KnowsEpic(k)
    BY <1>2, <1>4
  <2>2. k.step \in {"finish", "reread", "judge", "observe", "mark", "summary"} =>
          NamedAt(k.epic, k.entry, k.change)'
    <3>1. k.step \in {"finish", "reread", "judge", "observe", "mark", "summary"} =>
            k.epic \in Epics /\ k.entry \in EntryIds
      BY DEF Shape
    <3> QED
      BY <2>1, <3>1 DEF KnowsEpic
  <2>3. (k.step = "save" /\ k.saw # None) => NamedAt(k.saw.epic, k.saw.entry, k.change)'
    <3>1. k.saw # None => k.saw.epic \in Epics /\ k.saw.entry \in EntryIds
      BY DEF Calls, Membership
    <3> QED
      BY <2>1, <3>1 DEF KnowsEpic
  <2>4. k.tool \in {"move", "unlink"} => NamedAt(k.from.epic, k.from.entry, k.change)'
    <3>1. k.tool \in {"move", "unlink"} => k.from # None
      BY DEF Shape
    <3>2. k.from # None => k.from.epic \in Epics /\ k.from.entry \in EntryIds
      BY DEF Calls, Membership
    <3> QED
      BY <2>1, <3>1, <3>2 DEF KnowsEpic
  <2> QED
    BY <1>1, <2>1, <2>2, <2>3, <2>4 DEF KnowsEpic
<1> QED
  BY <1>3, <1>4

LEMMA KnowsOthers ==
  ASSUME Formed, Coherent, EpicNext, NEW t \in Sessions, call[t] # None, call'[t] = call[t]
  PROVE  KnownCall(call[t])'
<1>1. PICK k \in Calls : k = call[t] /\ Shape(k) /\ KnownCall(k)
  BY FieldFacts DEF Coherent
<1>2. ASSUME k.change \in Changes \ loose'
      PROVE  /\ member'[k.change] = member[k.change]
             /\ (k.change \in discarded <=> k.change \in discarded')
             /\ (k.change \in Ended <=> k.change \in Ended')
             /\ \A e \in Epics, i \in EntryIds : NamedAt(e, i, k.change) => NamedAt(e, i, k.change)'
  <2>1. /\ member'[k.change] = member[k.change] /\ (k.change \in discarded <=> k.change \in discarded')
        /\ lifecycle'[k.change] = lifecycle[k.change]
        /\ \A e, i : ~Unlinked(e, i, k.change)
    BY <1>1, <1>2, Undisturbed
  <2> QED
    BY <1>2, <2>1, NamedStep DEF Ended
<1>3. KnownCall(k)'
  BY <1>1, <1>2, KnownKept
<1> QED
  BY <1>1, <1>3

\* A change that has ended stays so, and one without a record, unless it is loose.
LEMMA EndedStay ==
  ASSUME Formed, Coherent, EpicNext, NEW c \in Changes \ loose'
  PROVE  /\ c \in Ended => c \in Ended'
         /\ c \in discarded => c \in discarded'
<1>1. loose \subseteq loose'
  BY DEF EpicNext
<1>2. ASSUME NEW s \in Sessions, Save(s), EpicStep(s), call[s].change = c
      PROVE  /\ c \in Ended => c \in Ended'
             /\ c \in discarded => c \in discarded'
  <2>1. call[s] # None /\ call[s].step = "save"
    BY <1>2 DEF Save, InCall
  <2>2. c \notin discarded /\ (call[s].status = "terminal" <=> c \in Ended)
    BY <1>1, <1>2, <2>1 DEF Coherent, KnownCall, KnowsChild
  <2>3. lifecycle'[c] = IF call[s].status # "terminal" /\ lifecycle[c] = "closed" THEN "open" ELSE lifecycle[c]
    BY <1>2 DEF Save, Formed, EpicTypeOK
  <2> QED
    BY <2>2, <2>3 DEF Ended
<1>3. ASSUME NEW s \in Sessions, Discard(s), call[s].change = c
      PROVE  c \in Ended' /\ c \in discarded'
  <2>1. /\ c \in discarded' /\ lifecycle'[c] = IF lifecycle[c] = "open" THEN "closed" ELSE lifecycle[c]
    BY <1>3 DEF Discard, Formed, EpicTypeOK
  <2> QED
    BY <2>1 DEF Ended
<1>4. ASSUME NEW s \in Sessions, NEW how \in {"closed", "archived"}, End(s, c, how)
      PROVE  c \in Ended' /\ discarded' = discarded
  BY <1>4 DEF End, Ended, Formed, EpicTypeOK
<1> QED
  BY <1>2, <1>3, <1>4, ChildStep DEF Ended

LEMMA GoneStep ==
  ASSUME Formed, Coherent, EpicNext PROVE discarded' \subseteq Ended'
<1> SUFFICES ASSUME NEW c \in Changes, c \in discarded' PROVE c \in Ended'
  <2>1. discarded' \subseteq Changes
    <3>1. ASSUME NEW s \in Sessions, EpicStep(s) PROVE discarded' \subseteq Changes
      <4>1. CASE Save(s)
        BY <4>1 DEF Save, Formed, EpicTypeOK
      <4>2. CASE Discard(s)
        BY <4>2, FieldFacts DEF Discard, InCall, Formed, EpicTypeOK
      <4>3. CASE ~Save(s) /\ ~Discard(s)
        BY <3>1, <4>3, StepKeeps DEF childVars, Formed, EpicTypeOK
      <4> QED
        BY <4>1, <4>2, <4>3
    <3> QED
      BY <3>1, CallKeeps DEF EpicNext, Create, AddShell, childVars, Formed, EpicTypeOK
  <2> QED
    BY <2>1
<1>1. CASE c \notin discarded \/ lifecycle'[c] # lifecycle[c]
  <2>1. PICK s \in Sessions :
           \/ (Save(s) \/ Discard(s)) /\ call[s].change = c
           \/ \E how \in {"closed", "archived"} : End(s, c, how)
    BY <1>1, ChildStep
  <2>2. CASE Save(s) /\ call[s].change = c
    BY <2>2 DEF Save
  <2>3. CASE Discard(s) /\ call[s].change = c
    BY <2>3 DEF Discard, Ended, Formed, EpicTypeOK
  <2>4. ASSUME NEW how \in {"closed", "archived"}, End(s, c, how) PROVE c \in Ended'
    BY <2>4 DEF End, Ended, Formed, EpicTypeOK
  <2> QED
    BY <2>1, <2>2, <2>3, <2>4
<1>2. CASE c \in discarded /\ lifecycle'[c] = lifecycle[c]
  BY <1>2 DEF Coherent, Ended
<1> QED
  BY <1>1, <1>2

\* A terminal summary stands for a change that has ended.
LEMMA DoneStep ==
  ASSUME Formed, Coherent, EpicNext PROVE DoneIsEnded' /\ Snapshots'
<1>1. Snapshots /\ DoneIsEnded /\ forked \subseteq forked' /\ loose \subseteq loose'
  BY DEF Coherent, EpicNext
<1>2. \A c \in Ended \cup loose : c \in Ended' \cup loose'
  BY <1>1, EndedStay DEF Ended
<1>3. CASE \/ UNCHANGED <<active, retired>>
           \/ \E s \in Sessions, e \in Epics : Retire(s, e)
           \/ \E s \in Sessions : Remove(s)
  BY <1>1, <1>2, <1>3, OtherReads DEF DoneIsEnded
<1>4. ASSUME NEW e \in Epics, Create(e) PROVE DoneIsEnded' /\ Snapshots'
  <2>1. Read(e)' = NoEntries /\ Snapshots' /\ \A d \in Epics : d # e => Read(d)' = Read(d)
    BY <1>1, <1>4, CreateReads
  <2>2. \A i \in EntryIds : NoEntries[i] = None
    BY DEF NoEntries
  <2> QED
    BY <1>1, <1>2, <2>1, <2>2 DEF DoneIsEnded
<1>5. ASSUME NEW e, NEW i, NEW x, Writes(e, i, x),
             e \notin forked' /\ x # None /\ x.done => x.of \in Ended' \cup loose'
      PROVE  DoneIsEnded' /\ Snapshots'
  <2>1. /\ e \notin forked' => Read(e)' = [Read(e) EXCEPT ![i] = x] /\ Read(e) # None
                              /\ Read(e) \in [EntryIds -> Entries \cup {None}]
        /\ Snapshots'
        /\ \A d \in Epics : d # e => Read(d)' = Read(d)
    BY <1>1, <1>5, WriteReads
  <2> QED
    BY <1>1, <1>2, <1>5, <2>1 DEF DoneIsEnded
<1>6. ASSUME NEW e \in Epics, NEW i \in EntryIds, NEW x, Writes(e, i, x), e \notin forked'
      PROVE  /\ Read(e) = active[e] /\ Read(e) # None
             /\ (active[e][i] # None /\ active[e][i].done) => active[e][i].of \in Ended' \cup loose'
  BY <1>1, <1>2, <1>6, WriteReads DEF DoneIsEnded
<1>7. ASSUME NEW s \in Sessions, FileStep(s), Marks(s) PROVE DoneIsEnded' /\ Snapshots'
  <2>1. PICK e, i, x : e = call[s].epic /\ i = call[s].entry /\ WritesSame(e, i, x)
    BY <1>7 DEF Marks
  <2>2. /\ Writes(e, i, x) /\ x # None /\ active[e][i] # None /\ x.of = active[e][i].of
        /\ e \in Epics /\ i \in EntryIds /\ active[e] # None
    BY <2>1 DEF WritesSame, Writes
  <2>3. call[s] # None /\ call[s].change \in Changes
    BY <1>7, FieldFacts, StepMoves DEF FileStep, Marks
  <2> DEFINE c == call[s].change
             o == active[e][i].of
  <2>4. ASSUME e \notin forked' PROVE x.done => o \in Ended' \cup loose'
    <3>1. Read(e) = active[e]
      BY <1>6, <2>2, <2>4
    <3>2. CASE o = c /\ c \in loose \cup discarded
      BY <1>2, <2>3, <3>2 DEF Coherent
    <3>3. CASE c \notin loose \cup discarded
      <4>1. c \in Ended /\ NamedAt(e, i, c)
        BY <1>7, <2>1, <2>3, <3>3, WriterKnows
      <4>2. o = c
        BY <1>1, <2>4, <3>1, <4>1 DEF NamedAt, Names
      <4> QED
        BY <1>2, <4>1, <4>2
    <3>4. CASE c \in loose \cup discarded /\ o # c /\ x # active[e][i]
      <4>1. o \in Changes
        <5>1. active[e][i] \in Entries /\ o # Shell
          <6>1. IsChange(active[e], i)
            BY <1>7, <2>1 DEF Marks
          <6> QED
            BY <2>2, EntryFacts, <6>1 DEF IsChange, Statuses
        <5> QED
          BY <5>1 DEF Entries
      <4>2. Names(active[e], i, o)
        BY <2>2 DEF Names
      <4> QED
        BY <1>7, <2>2, <3>4, <4>1, <4>2, Displacing DEF FileStep
    <3>5. CASE x = active[e][i]
      BY <1>6, <2>2, <2>4, <3>5
    <3> QED
      BY <3>2, <3>3, <3>4, <3>5
  <2> QED
    BY <1>5, <2>2, <2>4
<1>8. ASSUME NEW s \in Sessions, FileStep(s), Links(s) PROVE DoneIsEnded' /\ Snapshots'
  <2>1. PICK e, i, x : e = call[s].epic /\ i = call[s].entry /\ WritesSame(e, i, x)
                       /\ x.done = active[e][i].done
    BY <1>8 DEF Links
  <2>2. /\ Writes(e, i, x) /\ x # None /\ active[e][i] # None /\ x.of = active[e][i].of
        /\ e \in Epics /\ i \in EntryIds
    BY <2>1 DEF WritesSame, Writes
  <2> QED
    BY <1>5, <1>6, <2>1, <2>2
<1>9. ASSUME NEW s \in Sessions, FileStep(s), Retargets(s) PROVE DoneIsEnded' /\ Snapshots'
  <2>1. PICK e, i, x : /\ e = call[s].epic /\ i = call[s].entry /\ Writes(e, i, x) /\ x # None
                       /\ active[e][i] # None /\ x.of = call[s].change /\ x.done = active[e][i].done
    BY <1>9 DEF Retargets
  <2>2. call[s] # None /\ call[s].change \in Changes
    BY <1>9, FieldFacts, StepMoves DEF FileStep, Retargets
  <2>3. CASE call[s].change \in loose \cup discarded
    BY <1>2, <1>5, <2>1, <2>2, <2>3 DEF Coherent
  <2>4. CASE call[s].change \notin loose \cup discarded
    <3>1. e \in forked
      BY <1>9, <2>1, <2>2, <2>4, WriterKnows
    <3> QED
      BY <1>1, <1>5, <2>1, <3>1
  <2> QED
    BY <2>3, <2>4
<1>10. ASSUME NEW s \in Sessions, Unlinks(s) PROVE DoneIsEnded' /\ Snapshots'
  BY <1>5, <1>10 DEF Unlinks
<1>11. ASSUME NEW e \in Epics, NEW i \in EntryIds, NEW x, WritesFree(e, i, x)
       PROVE  DoneIsEnded' /\ Snapshots'
  BY <1>5, <1>11 DEF WritesFree
<1> QED
  BY <1>3, <1>4, <1>7, <1>8, <1>9, <1>10, <1>11, FileSteps DEF FileStep

-----------------------------------------------------------------------------
\* The call of s goes on, and what it knows is true.
Goes(s) == \E k : Moved(s, k) /\ Shape(k) /\ k.step # "remove" /\ KnownCall(k)'

\* What a call that has got to a step must know and did not know before.
Fresh(k) ==
  /\ k.step = "save" => k.change \notin discarded /\ (k.status = "terminal" <=> k.change \in Ended)
  /\ k.step \in {"summary", "discard"} => k.change \in Ended
  /\ k.change \notin discarded =>
       /\ k.step \in {"finish", "reread", "judge", "observe", "mark", "summary"} =>
            NamedAt(k.epic, k.entry, k.change)
       /\ (k.step = "save" /\ k.saw # None) => NamedAt(k.saw.epic, k.saw.entry, k.change)
       /\ (k.step = "save" /\ k.tool \in {"move", "unlink"}) => k.saw # k.from
       /\ k.step = "unlink" => member[k.change] # k.from
       /\ k.step = "retarget" => k.epic \in forked

\* A step of a call about c, other than the removal of an entry, leaves the entries of c.
LEMMA OwnAt ==
  ASSUME Formed, Coherent, EpicNext, NEW s \in Sessions, EpicStep(s), ~UnlinkEntry(s),
         NEW e \in Epics, NEW i \in EntryIds, NEW c \in Changes \ loose', NamedAt(e, i, c)
  PROVE  NamedAt(e, i, c)'
<1>1. ASSUME NEW t \in Sessions, EpicStep(t), Unlinks(t) PROVE FALSE
  <2>1. t = s
    BY <1>1, StepMoves
  <2> QED
    BY <1>1, <2>1 DEF Unlinks
<1>2. ~Unlinked(e, i, c)
  BY <1>1 DEF Unlinked
<1> QED
  BY <1>2, NamedStep

LEMMA OwnKnows ==
  ASSUME Formed, Coherent, EpicNext, NEW s \in Sessions, EpicStep(s), ~UnlinkEntry(s),
         NEW k, Moved(s, k), Shape(k), k.step \notin {"remove", "read"},
         call[s].step # "remove", k.tool = call[s].tool, k.change = call[s].change,
         k.from = call[s].from \/ k.tool = "link",
         k.step \in {"add", "retarget", "finish"} =>
           call[s].step \in {"read", "add", "retarget"} /\ k.status = call[s].status,
         k.change \in Changes \ loose' => Fresh(k)'
  PROVE  Goes(s)
<1>1. call[s] # None /\ call[s].change \in Changes /\ loose \subseteq loose'
  BY StepMoves, FieldFacts DEF EpicNext
<1> SUFFICES ASSUME k.change \in Changes \ loose'
             PROVE  KnowsChild(k)' /\ (k.change \notin discarded' => KnowsEpic(k)')
  BY DEF Goes, KnownCall
<1>2. /\ KnowsChild(call[s]) /\ (k.change \notin discarded => KnowsEpic(call[s]))
      /\ k.change \in Ended => k.change \in Ended'
      /\ k.change \in discarded => k.change \in discarded'
  BY <1>1, EndedStay DEF Coherent, KnownCall
<1>3. KnowsChild(k)'
  BY <1>2 DEF KnowsChild, Fresh
<1>4. ASSUME k.change \notin discarded' PROVE KnowsEpic(k)'
  <2>1. k.tool \in {"move", "unlink"} => NamedAt(k.from.epic, k.from.entry, k.change)'
    <3> SUFFICES ASSUME k.tool \in {"move", "unlink"}
                 PROVE  NamedAt(k.from.epic, k.from.entry, k.change)'
      OBVIOUS
    <3>1. k.from = call[s].from /\ k.from.epic \in Epics /\ k.from.entry \in EntryIds
      BY <1>1, FieldFacts
    <3>2. NamedAt(k.from.epic, k.from.entry, k.change)
      BY <1>2, <1>4, <3>1 DEF KnowsEpic
    <3> QED
      BY <3>1, <3>2, OwnAt
  <2> QED
    BY <1>4, <2>1 DEF KnowsEpic, Fresh
<1> QED
  BY <1>3, <1>4

\* A step of a call ends it or lets it go on.
LEMMA StepKnows ==
  ASSUME Formed, Coherent, EpicNext, NEW s \in Sessions, EpicStep(s)
  PROVE  Return(s) \/ Goes(s)
<1> SUFFICES ASSUME ~Return(s) PROVE Goes(s)
  OBVIOUS
<1> USE DEF InCall
<1>1. PICK o \in Calls : o = call[s] /\ o # None
  BY StepMoves, FieldFacts
<1>2. /\ Shape(o)
      /\ o.step # "remove" => o.change \in Changes
      /\ o.step \notin {"save", "discard", "remove"} => o.epic \in Epics /\ o.entry \in EntryIds
  BY <1>1, FieldFacts
<1>3. /\ Snapshots /\ Backed /\ loose \subseteq loose' /\ forked \subseteq forked'
      /\ o.change \in Changes \ loose' =>
           /\ KnowsChild(o) /\ (o.change \notin discarded' => o.change \notin discarded /\ KnowsEpic(o))
           /\ o.change \in Ended => o.change \in Ended'
  <2>1. KnownCall(o) /\ loose \subseteq loose'
    BY <1>1 DEF Coherent, EpicNext
  <2> QED
    BY <2>1, EndedStay DEF Coherent, EpicNext, KnownCall
<1>4. ASSUME NEW step \in Steps, Goto(s, step)
      PROVE  \E k : /\ Moved(s, k) /\ k.step = step /\ k.tool = o.tool /\ k.change = o.change
                    /\ k.epic = o.epic /\ k.entry = o.entry /\ k.from = o.from /\ k.saw = o.saw
                    /\ k.status = o.status
  <2> DEFINE n == [call[s] EXCEPT !.step = step]
  <2>1. /\ Moved(s, n) /\ n.step = step /\ n.tool = o.tool /\ n.change = o.change
        /\ n.epic = o.epic /\ n.entry = o.entry /\ n.from = o.from /\ n.saw = o.saw
        /\ n.status = o.status
    BY <1>1, <1>4, GotoFacts
  <2> HIDE DEF n
  <2> QED
    BY <2>1
<1>5. ASSUME NEW e \in Epics, NEW i \in EntryIds, o.change \in Changes \ loose', ~UnlinkEntry(s),
             NamedAt(e, i, o.change)
      PROVE  NamedAt(e, i, o.change)'
  BY <1>5, OwnAt
<1>6. CASE LinkRead(s)
  <2>1. /\ o.step = "read" /\ o.tool = "link" /\ ~UnlinkEntry(s)
        /\ o.epic \in Epics /\ o.entry \in EntryIds /\ o.change \in Changes
    BY <1>1, <1>2, <1>6 DEF LinkRead, UnlinkEntry, Shape
  <2>2. CASE Goto(s, "add")
    <3>1. PICK k : /\ Moved(s, k) /\ k.step = "add" /\ k.tool = o.tool /\ k.change = o.change
                   /\ k.epic = o.epic /\ k.entry = o.entry /\ k.status = o.status
      BY <1>4, <2>2 DEF Steps
    <3>2. Shape(k) /\ Fresh(k)'
      BY <1>2, <2>1, <3>1 DEF Shape, Fresh
    <3> QED
      BY <1>1, <2>1, <3>1, <3>2, OwnKnows
  <2>3. CASE Goto(s, "finish") /\ Names(Read(o.epic), o.entry, o.change)
    <3>1. PICK k : /\ Moved(s, k) /\ k.step = "finish" /\ k.tool = o.tool /\ k.change = o.change
                   /\ k.epic = o.epic /\ k.entry = o.entry /\ k.status = o.status
      BY <1>4, <2>3 DEF Steps
    <3>2. k.change \in Changes \ loose' => NamedAt(k.epic, k.entry, k.change)'
      BY <1>5, <2>1, <2>3, <3>1 DEF NamedAt
    <3>3. Shape(k) /\ (k.change \in Changes \ loose' => Fresh(k)')
      BY <1>2, <2>1, <3>1, <3>2 DEF Shape, Fresh
    <3> QED
      BY <1>1, <2>1, <3>1, <3>3, OwnKnows
  <2>4. ASSUME NEW j \in EntryIds, Names(Read(o.epic), j, o.change),
               call' = [call EXCEPT ![s] =
                 [o EXCEPT !.step = "finish", !.entry = j, !.from = [epic |-> o.epic, entry |-> j]]]
        PROVE  Goes(s)
    <3> DEFINE n == [o EXCEPT !.step = "finish", !.entry = j, !.from = [epic |-> o.epic, entry |-> j]]
    <3>1. [epic |-> o.epic, entry |-> j] \in Membership
      BY <2>1 DEF Membership
    <3>2. /\ n \in Calls /\ n.step = "finish" /\ n.tool = o.tool /\ n.change = o.change
          /\ n.epic = o.epic /\ n.entry = j /\ n.status = o.status
      BY <3>1, ZenonT(60) DEF Calls, Steps
    <3>3. Moved(s, n)
      BY <2>4, <3>2, NoneIsNoData DEF Moved
    <3> HIDE DEF n
    <3>4. PICK k : k = n
      OBVIOUS
    <3>5. k.change \in Changes \ loose' => NamedAt(k.epic, k.entry, k.change)'
      BY <1>5, <2>1, <2>4, <3>2, <3>4 DEF NamedAt
    <3>6. Shape(k) /\ (k.change \in Changes \ loose' => Fresh(k)')
      BY <1>2, <2>1, <3>2, <3>4, <3>5 DEF Shape, Fresh
    <3> QED
      BY <1>1, <2>1, <3>2, <3>3, <3>4, <3>6, OwnKnows
  <2>5. ASSUME o.saw # None, ~Names(Read(o.epic), o.entry, o.change), IsChange(Read(o.epic), o.entry),
               call' = [call EXCEPT ![s] =
                 [o EXCEPT !.step = "retarget", !.named = Read(o.epic)[o.entry].of]]
        PROVE  Goes(s)
    <3> DEFINE n == [o EXCEPT !.step = "retarget", !.named = Read(o.epic)[o.entry].of]
    <3>1. Read(o.epic)[o.entry].of \in Changes
      <4>1. Read(o.epic) \in Projections /\ Read(o.epic)[o.entry] # None
        BY <2>1, <2>5 DEF Read, IsChange, Formed, EpicTypeOK
      <4>2. Read(o.epic)[o.entry] \in Entries
        BY <2>1, <4>1 DEF Projections
      <4> QED
        BY <2>5, <4>2 DEF Entries, IsChange
    <3>2. /\ n \in Calls /\ n.step = "retarget" /\ n.tool = o.tool /\ n.change = o.change
          /\ n.epic = o.epic /\ n.entry = o.entry /\ n.status = o.status /\ n.from = o.from
      BY <3>1, ZenonT(60) DEF Calls, Steps
    <3>3. Moved(s, n)
      BY <2>5, <3>2, NoneIsNoData DEF Moved
    <3> HIDE DEF n
    <3>4. PICK k : k = n
      OBVIOUS
    <3>5. ASSUME o.change \in Changes \ loose', o.change \notin discarded' PROVE o.epic \in forked'
      <4>1. /\ o.saw = member[o.change] /\ o.change \notin loose \cup discarded
            /\ o.saw = [epic |-> o.epic, entry |-> o.entry]
        BY <1>2, <1>3, <2>1, <2>5, <3>5 DEF KnowsEpic, Shape
      <4>3. /\ member[o.change].epic = o.epic /\ member[o.change].entry = o.entry
            /\ member[o.change] # None
        BY <2>5, <4>1
      <4>2. NamedAt(o.epic, o.entry, o.change)
        BY <1>3, <2>1, <4>1, <4>3 DEF Backed
      <4> QED
        BY <1>3, <2>5, <4>2 DEF NamedAt
    <3>6. Shape(k) /\ (k.change \in Changes \ loose' => Fresh(k)')
      BY <1>2, <2>1, <3>2, <3>4, <3>5 DEF Shape, Fresh
    <3> QED
      BY <1>1, <2>1, <3>2, <3>3, <3>4, <3>6, OwnKnows
  <2>6. CASE o.saw = None
    BY <1>1, <1>6, <2>2, <2>4, <2>6 DEF LinkRead
  <2>7. CASE o.saw # None
    BY <1>1, <1>6, <2>2, <2>3, <2>5, <2>7 DEF LinkRead
  <2> QED
    BY <2>6, <2>7
<1>7. CASE AddEntry(s)
  <2>1. /\ o.step = "add" /\ o.tool \in {"link", "move"} /\ ~UnlinkEntry(s)
        /\ o.epic \in Epics /\ o.entry \in EntryIds /\ o.change \in Changes
    BY <1>1, <1>2, <1>7 DEF AddEntry, UnlinkEntry, Shape
  <2>2. /\ \E x : WritesFree(o.epic, o.entry, x)
        /\ active'[o.epic] # None /\ Names(active'[o.epic], o.entry, o.change)
    BY <1>1, <1>7, AddEntryWrites
  <2>3. NamedAt(o.epic, o.entry, o.change)'
    BY <1>3, <2>2, WriteReads DEF WritesFree, NamedAt
  <2>4. PICK step \in {"judge", "finish"} : Goto(s, step) /\ (step = "finish" => o.tool = "link")
    BY <1>1, <1>7, <2>1 DEF AddEntry
  <2>5. PICK k : /\ Moved(s, k) /\ k.step = step /\ k.tool = o.tool /\ k.change = o.change
                 /\ k.epic = o.epic /\ k.entry = o.entry /\ k.from = o.from /\ k.status = o.status
    BY <1>4, <2>4 DEF Steps
  <2>6. Shape(k) /\ Fresh(k)'
    BY <1>2, <2>1, <2>3, <2>4, <2>5 DEF Shape, Fresh
  <2> QED
    BY <1>1, <2>1, <2>4, <2>5, <2>6, OwnKnows
<1>8. CASE Retarget(s)
  <2>1. /\ o.step = "retarget" /\ o.tool = "link" /\ ~UnlinkEntry(s) /\ Goto(s, "finish")
        /\ o.epic \in Epics /\ o.entry \in EntryIds /\ o.change \in Changes
    BY <1>1, <1>2, <1>8 DEF Retarget, UnlinkEntry, Shape
  <2>2. PICK k : /\ Moved(s, k) /\ k.step = "finish" /\ k.tool = o.tool /\ k.change = o.change
                 /\ k.epic = o.epic /\ k.entry = o.entry /\ k.status = o.status
    BY <1>4, <2>1 DEF Steps
  <2>3. (o.change \in Changes \ loose' /\ o.change \notin discarded') => NamedAt(k.epic, k.entry, k.change)'
    BY <1>3, <2>1, <2>2 DEF KnowsEpic, NamedAt
  <2>4. Shape(k) /\ (k.change \in Changes \ loose' => Fresh(k)')
    BY <1>2, <2>1, <2>2, <2>3 DEF Shape, Fresh
  <2> QED
    BY <1>1, <2>1, <2>2, <2>4, OwnKnows
<1>9. CASE Finish(s) \/ Reread(s) \/ Observe(s)
  <2>1. /\ o.step \in {"finish", "reread", "observe"} /\ ~UnlinkEntry(s)
        /\ o.epic \in Epics /\ o.entry \in EntryIds /\ o.change \in Changes
        /\ o.tool # "edit"
    BY <1>1, <1>2, <1>9 DEF Finish, Reread, Observe, UnlinkEntry, Shape
  <2>2. PICK step \in {"judge", "summary", "mark"} :
          Goto(s, step) /\ (step = "summary" => o.change \in Ended)
    BY <1>1, <1>9 DEF Finish, Reread, Observe
  <2>3. PICK k : /\ Moved(s, k) /\ k.step = step /\ k.tool = o.tool /\ k.change = o.change
                 /\ k.epic = o.epic /\ k.entry = o.entry /\ k.from = o.from /\ k.status = o.status
    BY <1>4, <2>2 DEF Steps
  <2>4. (o.change \in Changes \ loose' /\ o.change \notin discarded') => NamedAt(k.epic, k.entry, k.change)'
    BY <1>3, <1>5, <2>1, <2>3 DEF KnowsEpic
  <2>5. Shape(k) /\ (k.change \in Changes \ loose' => Fresh(k)')
    BY <1>2, <1>3, <2>1, <2>2, <2>3, <2>4 DEF Shape, Fresh
  <2> QED
    BY <1>1, <2>1, <2>2, <2>3, <2>5, OwnKnows
<1>10. CASE Judge(s) \/ Clear(s)
  <2>1. /\ o.step \in {"judge", "clear"} /\ ~UnlinkEntry(s) /\ discarded' = discarded /\ Ended' = Ended
        /\ o.epic \in Epics /\ o.entry \in EntryIds /\ o.change \in Changes
        /\ o.tool # "edit" /\ (o.tool = "unlink" => Clear(s)) /\ (Clear(s) => o.step = "clear")
    BY <1>1, <1>2, <1>10 DEF Judge, Clear, UnlinkEntry, Shape, childVars, Ended
  <2>2. CASE o.change \in discarded
    <3>1. Goto(s, "unlink") /\ o.tool \in {"move", "unlink"}
      BY <1>1, <1>2, <1>10, <2>2 DEF Judge, Clear, AfterChild, Shape
    <3>2. PICK k : /\ Moved(s, k) /\ k.step = "unlink" /\ k.tool = o.tool /\ k.change = o.change
                   /\ k.epic = o.epic /\ k.entry = o.entry /\ k.from = o.from
      BY <1>4, <3>1 DEF Steps
    <3>3. Shape(k) /\ Fresh(k)'
      BY <1>2, <2>1, <2>2, <3>1, <3>2 DEF Shape, Fresh
    <3> QED
      BY <1>1, <2>1, <3>2, <3>3, OwnKnows
  <2>3. CASE o.change \notin discarded
    <3>0. [epic |-> o.epic, entry |-> o.entry] \in Membership
      BY <2>1 DEF Membership
    <3>1. PICK m \in Membership \cup {None} :
            /\ LoadToSave(s, m)
            /\ \/ Judge(s) /\ m = [epic |-> o.epic, entry |-> o.entry]
               \/ Clear(s) /\ m = None
      <4>1. CASE Judge(s)
        <5>0. PICK r : r = [epic |-> o.epic, entry |-> o.entry]
          OBVIOUS
        <5>1. LoadToSave(s, r)
          BY <1>1, <2>3, <4>1, <5>0 DEF Judge
        <5>2. r \in Membership \cup {None}
          BY <3>0, <5>0
        <5> QED
          BY <4>1, <5>0, <5>1, <5>2
      <4>2. CASE Clear(s)
        <5>1. LoadToSave(s, None)
          BY <1>1, <2>3, <4>2 DEF Clear
        <5> QED
          BY <4>2, <5>1
      <4> QED
        BY <1>10, <4>1, <4>2
    <3>2. PICK k : /\ Moved(s, k) /\ k.step = "save" /\ k.saw = m
                   /\ (k.status = "terminal" <=> o.change \in Ended)
                   /\ k.tool = o.tool /\ k.change = o.change /\ k.epic = o.epic
                   /\ k.entry = o.entry /\ k.from = o.from
      BY <1>1, <3>1, LoadFacts
    <3>3. k.tool \in {"move", "unlink"} => k.saw # k.from
      <4>1. CASE Judge(s) /\ m = [epic |-> o.epic, entry |-> o.entry]
        <5>1. o.step = "judge" /\ o.tool # "unlink" /\ m.epic = o.epic
          BY <1>1, <1>2, <4>1 DEF Judge, Shape
        <5> QED
          BY <1>2, <3>2, <5>1 DEF Shape
      <4>2. CASE m = None
        BY <1>2, <3>2, <4>2 DEF Shape
      <4> QED
        BY <3>1, <4>1, <4>2
    <3>4. (o.change \in Changes \ loose' /\ m # None) => NamedAt(m.epic, m.entry, o.change)'
      <4> SUFFICES ASSUME o.change \in Changes \ loose', m # None
                   PROVE  NamedAt(m.epic, m.entry, o.change)'
        OBVIOUS
      <4>1. o.step = "judge" /\ m.epic = o.epic /\ m.entry = o.entry
        BY <1>1, <3>1 DEF Judge
      <4>2. NamedAt(o.epic, o.entry, o.change)
        BY <1>3, <2>1, <2>3, <4>1 DEF KnowsEpic
      <4> QED
        BY <1>5, <2>1, <4>1, <4>2
    <3>5. Shape(k) /\ (k.change \in Changes \ loose' => Fresh(k)')
      BY <1>2, <2>1, <2>3, <3>2, <3>3, <3>4 DEF Shape, Fresh
    <3> QED
      BY <1>1, <2>1, <3>2, <3>5, OwnKnows
  <2> QED
    BY <2>2, <2>3
<1>11. CASE Save(s)
  <2>1. /\ o.step = "save" /\ ~UnlinkEntry(s) /\ Goto(s, "unlink") /\ o.tool \in {"move", "unlink"}
        /\ o.change \in Changes /\ member'[o.change] = o.saw
    BY <1>1, <1>2, <1>11 DEF Save, AfterChild, UnlinkEntry, Formed, EpicTypeOK
  <2>2. PICK k : /\ Moved(s, k) /\ k.step = "unlink" /\ k.tool = o.tool /\ k.change = o.change
                 /\ k.epic = o.epic /\ k.entry = o.entry /\ k.from = o.from
    BY <1>4, <2>1 DEF Steps
  <2>3. o.change \in Changes \ loose' /\ o.change \notin discarded' => member'[k.change] # k.from
    BY <1>3, <2>1, <2>2 DEF KnowsEpic
  <2>4. Shape(k) /\ (k.change \in Changes \ loose' => Fresh(k)')
    BY <1>2, <2>1, <2>2, <2>3 DEF Shape, Fresh
  <2> QED
    BY <1>1, <2>1, <2>2, <2>4, OwnKnows
<1>12. CASE Promote(s)
  <2>1. /\ o.step = "promote" /\ ~UnlinkEntry(s) /\ Goto(s, "reread") /\ retired' = retired
        /\ o.epic \in Epics /\ o.entry \in EntryIds /\ o.change \in Changes
        /\ o.tool \notin {"edit", "unlink"}
    BY <1>1, <1>2, <1>12 DEF Promote, UnlinkEntry, Shape
  <2>2. NamedAt(o.epic, o.entry, o.change)'
    <3>1. CASE ~UNCHANGED active
      <4>1. /\ \E x : WritesFree(o.epic, o.entry, x)
            /\ Names(active'[o.epic], o.entry, o.change)
        BY <1>1, <1>12, <3>1, PromoteWrites
      <4> QED
        BY <1>3, <4>1, WriteReads DEF WritesFree, NamedAt
    <3>2. CASE UNCHANGED active
      <4>1. Names(active[o.epic], o.entry, o.change)
        <5>1. ASSUME Names(active[o.epic], o.entry, Shell),
                     Put(o.epic, o.entry, [of |-> o.change, status |-> "none", done |-> FALSE])
              PROVE  FALSE
          <6> DEFINE x == [of |-> o.change, status |-> "none", done |-> FALSE]
          <6>1. x \in Entries /\ x.of # Shell
            BY <2>1, NamesDiffer DEF Entries, Statuses
          <6> HIDE DEF x
          <6>2. active'[o.epic] = [active[o.epic] EXCEPT ![o.entry] = x]
            BY <2>1, <5>1, <6>1, PutFacts DEF Names, x
          <6>3. active[o.epic] \in [EntryIds -> Entries \cup {None}]
            BY <2>1, <5>1 DEF Formed, EpicTypeOK, Projections, Names
          <6>4. active'[o.epic][o.entry].of # Shell
            BY <2>1, <6>1, <6>2, <6>3
          <6> QED
            BY <3>2, <5>1, <6>4 DEF Names
        <5> QED
          BY <1>1, <1>12, <5>1 DEF Promote
      <4>2. o.epic \in forked \/ Read(o.epic)' = active[o.epic]
        BY <1>3, <2>1, <3>2, <4>1 DEF Read, Snapshots, Names
      <4> QED
        BY <1>3, <4>1, <4>2 DEF NamedAt
    <3> QED
      BY <3>1, <3>2
  <2>3. PICK k : /\ Moved(s, k) /\ k.step = "reread" /\ k.tool = o.tool /\ k.change = o.change
                 /\ k.epic = o.epic /\ k.entry = o.entry /\ k.from = o.from
    BY <1>4, <2>1 DEF Steps
  <2>4. Shape(k) /\ Fresh(k)'
    BY <1>2, <2>1, <2>2, <2>3 DEF Shape, Fresh
  <2> QED
    BY <1>1, <2>1, <2>3, <2>4, OwnKnows
<1>13. CASE Summarise(s)
  <2>1. /\ o.step = "summary" /\ ~UnlinkEntry(s) /\ Goto(s, "discard") /\ o.tool = "end"
        /\ o.change \in Changes
    BY <1>1, <1>2, <1>13 DEF Summarise, UnlinkEntry
  <2>2. PICK k : /\ Moved(s, k) /\ k.step = "discard" /\ k.tool = o.tool /\ k.change = o.change
                 /\ k.from = o.from
    BY <1>4, <2>1 DEF Steps
  <2>3. Shape(k) /\ (k.change \in Changes \ loose' => Fresh(k)')
    BY <1>3, <2>1, <2>2 DEF Shape, Fresh, KnowsChild
  <2> QED
    BY <1>1, <2>1, <2>2, <2>3, OwnKnows
<1>14. CASE UnlinkEntry(s) \/ MarkLinked(s) \/ Discard(s) \/ Remove(s) \/ Interrupt(s)
  BY <1>14 DEF UnlinkEntry, MarkLinked, Discard, Remove, Interrupt
<1> QED
  BY <1>6, <1>7, <1>8, <1>9, <1>10, <1>11, <1>12, <1>13, <1>14 DEF EpicStep

\* A call begins; a retirement has written the snapshot.
Begins(s) == /\ call[s] = None /\ calls' \in 0 .. MaxEpicCalls
             /\ \E k : /\ Moved(s, k) /\ Shape(k) /\ KnownCall(k)'
                       /\ k.step = "remove" => retired'[k.epic] # None

LEMMA NewCallFacts ==
  ASSUME NEW tool \in {"link", "move", "unlink", "promote", "show", "edit", "end", "retire"},
         NEW step \in Steps, NEW c \in Changes \cup {None}, NEW e \in Epics \cup {None},
         NEW i \in EntryIds \cup {None}
  PROVE  \E n \in Calls :
           /\ n = NewCall(tool, step, c, e, i)
           /\ n.tool = tool /\ n.step = step /\ n.change = c /\ n.epic = e /\ n.entry = i
           /\ n.saw = None /\ n.from = None /\ (n.status = "terminal" <=> c \in Ended)
<1>1. PICK st \in Statuses : st = (IF c \in Ended THEN "terminal" ELSE "none")
  BY DEF Statuses
<1>2. PICK n : n = [tool |-> tool, step |-> step, change |-> c, epic |-> e, entry |-> i, named |-> None,
                    from |-> None, saw |-> None, status |-> st]
  OBVIOUS
<1>3. n \in Calls
  BY <1>2, ZenonT(60) DEF Calls
<1>4. n = NewCall(tool, step, c, e, i)
  BY <1>1, <1>2 DEF NewCall
<1>5. /\ n.tool = tool /\ n.step = step /\ n.change = c /\ n.epic = e /\ n.entry = i
      /\ n.saw = None /\ n.from = None /\ (n.status = "terminal" <=> c \in Ended)
  BY <1>1, <1>2
<1> QED
  BY <1>3, <1>4, <1>5

\* Where no file of an epic changes.
LEMMA SameAt ==
  ASSUME EpicNext, UNCHANGED <<active, retired>>, NEW e, NEW i, NEW c, NamedAt(e, i, c)
  PROVE  NamedAt(e, i, c)'
BY DEF EpicNext, NamedAt, Read

LEMMA CallKnows ==
  ASSUME Formed, Coherent, EpicNext, NEW s \in Sessions, EpicCall(s)
  PROVE  Begins(s)
<1> USE DEF Steps
<1>1. Snapshots /\ Backed /\ loose \subseteq loose'
  BY DEF Coherent, EpicNext
<1>2. ASSUME NEW k \in Calls, Begin(s, k), Shape(k), k.step # "remove",
             k.change \in Changes \ loose' => KnowsChild(k)' /\ (k.change \notin discarded' => KnowsEpic(k)')
      PROVE  Begins(s)
  BY <1>2, BeginFacts DEF Begins, KnownCall
<1>3. ASSUME NEW e \in Epics, Retire(s, e) PROVE Begins(s)
  <2>1. PICK k \in Calls : /\ k = NewCall("retire", "remove", None, e, None)
                           /\ k.tool = "retire" /\ k.step = "remove" /\ k.change = None /\ k.epic = e
    BY NewCallFacts
  <2>2. Begin(s, k) /\ retired'[e] # None
    BY <1>3, <2>1 DEF Retire, Formed, EpicTypeOK
  <2>3. Shape(k) /\ KnownCall(k)'
    BY <2>1, NamesDiffer DEF Shape, KnownCall
  <2> QED
    BY <2>1, <2>2, <2>3, BeginFacts DEF Begins
<1>4. ASSUME NEW c \in Changes, BeginEdit(s, c) PROVE Begins(s)
  <2>1. PICK n \in Calls : /\ n = NewCall("edit", "save", c, None, None)
                           /\ n.tool = "edit" /\ n.step = "save" /\ n.change = c
                           /\ (n.status = "terminal" <=> c \in Ended)
    BY NewCallFacts
  <2>2. PICK k : k = [n EXCEPT !.saw = member[c]]
    OBVIOUS
  <2>3. member[c] \in Membership \cup {None}
    BY DEF Formed, EpicTypeOK
  <2>4. k \in Calls /\ k.tool = "edit" /\ k.step = "save" /\ k.change = c /\ k.saw = member[c]
        /\ k.status = n.status
    BY <2>1, <2>2, <2>3, ZenonT(60) DEF Calls
  <2>5. Begin(s, k) /\ UNCHANGED <<active, retired, childVars>> /\ c \notin discarded
    BY <1>4, <2>1, <2>2 DEF BeginEdit
  <2>6. Shape(k) /\ KnowsChild(k)'
    BY <2>1, <2>4, <2>5 DEF Shape, KnowsChild, childVars, Ended
  <2>7. ASSUME c \notin loose', member[c] # None PROVE NamedAt(k.saw.epic, k.saw.entry, c)'
    <3>1. NamedAt(k.saw.epic, k.saw.entry, c)
      BY <1>1, <2>4, <2>5, <2>7 DEF Backed
    <3> QED
      BY <2>5, <3>1, SameAt
  <2>8. c \notin loose' => KnowsEpic(k)'
    BY <2>4, <2>7 DEF KnowsEpic
  <2> QED
    BY <1>2, <2>4, <2>5, <2>6, <2>8
<1>5. ASSUME NEW c \in Changes, NEW how \in {"closed", "archived"}, End(s, c, how) PROVE Begins(s)
  <2>1. c \in Ended' /\ c \notin discarded /\ UNCHANGED <<active, retired>>
    BY <1>5 DEF End, Ended, Formed, EpicTypeOK
  <2>2. CASE how = "archived" /\ member[c] # None
    <3>1. member[c] \in Membership /\ member[c].epic \in Epics /\ member[c].entry \in EntryIds
      BY <2>2 DEF Formed, EpicTypeOK, Membership
    <3>2. PICK k \in Calls : /\ k = NewCall("end", "summary", c, member[c].epic, member[c].entry)
                             /\ k.tool = "end" /\ k.step = "summary" /\ k.change = c
                             /\ k.epic = member[c].epic /\ k.entry = member[c].entry
      BY <3>1, NewCallFacts
    <3>3. Begin(s, k)
      BY <1>5, <2>2, <3>2 DEF End
    <3>4. Shape(k) /\ KnowsChild(k)'
      BY <2>1, <3>1, <3>2 DEF Shape, KnowsChild
    <3>5. ASSUME c \notin loose' PROVE NamedAt(k.epic, k.entry, c)'
      <4>1. NamedAt(k.epic, k.entry, c)
        BY <1>1, <2>1, <2>2, <3>2, <3>5 DEF Backed
      <4> QED
        BY <2>1, <4>1, SameAt
    <3>6. c \notin loose' => KnowsEpic(k)'
      BY <3>2, <3>5 DEF KnowsEpic
    <3> QED
      BY <1>2, <3>2, <3>3, <3>4, <3>6
  <2>3. CASE ~(how = "archived" /\ member[c] # None)
    <3>1. PICK k \in Calls : /\ k = NewCall("end", "discard", c, None, None)
                             /\ k.tool = "end" /\ k.step = "discard" /\ k.change = c
      BY NewCallFacts
    <3>2. Begin(s, k)
      BY <1>5, <2>3, <3>1 DEF End
    <3>3. Shape(k) /\ KnowsChild(k)' /\ KnowsEpic(k)'
      BY <2>1, <3>1 DEF Shape, KnowsChild, KnowsEpic
    <3> QED
      BY <1>2, <3>1, <3>2, <3>3
  <2> QED
    BY <2>2, <2>3
<1>6. ASSUME NEW c \in Changes, NEW e \in Epics, NEW i \in EntryIds, BeginLink(s, c, e, i)
      PROVE  Begins(s)
  <2>1. PICK n \in Calls : /\ n = NewCall("link", "read", c, e, i)
                           /\ n.tool = "link" /\ n.step = "read" /\ n.change = c
                           /\ n.epic = e /\ n.entry = i
                           /\ (n.status = "terminal" <=> c \in Ended)
    BY NewCallFacts
  <2>2. PICK k : k = [n EXCEPT !.saw = member[c]]
    OBVIOUS
  <2>3. member[c] \in Membership \cup {None} /\ member[c] \in {None, [epic |-> e, entry |-> i]}
    BY <1>6 DEF Formed, EpicTypeOK, BeginLink
  <2>4. k \in Calls /\ k.tool = "link" /\ k.step = "read" /\ k.change = c /\ k.saw = member[c]
        /\ k.status = n.status /\ k.epic = e /\ k.entry = i
    BY <2>1, <2>2, <2>3, ZenonT(60) DEF Calls
  <2>5. Begin(s, k) /\ UNCHANGED <<active, retired, childVars>>
    BY <1>6, <2>1, <2>2 DEF BeginLink
  <2>6. Shape(k)
    BY <2>3, <2>4 DEF Shape
  <2>7. KnowsChild(k)' /\ KnowsEpic(k)'
    BY <2>1, <2>4, <2>5 DEF KnowsChild, KnowsEpic, childVars, Ended
  <2> QED
    BY <1>2, <2>4, <2>5, <2>6, <2>7
<1>7. ASSUME NEW c \in Changes, NEW e \in Epics, NEW i \in EntryIds, BeginUnlink(s, c, e, i)
      PROVE  Begins(s)
  <2>1. PICK n \in Calls : /\ n = NewCall("unlink", "clear", c, e, i)
                           /\ n.tool = "unlink" /\ n.step = "clear" /\ n.change = c
                           /\ n.epic = e /\ n.entry = i
    BY NewCallFacts
  <2>2. PICK m \in Membership : m = [epic |-> e, entry |-> i]
    BY DEF Membership
  <2>3. PICK k : k = [n EXCEPT !.from = m]
    OBVIOUS
  <2>4. k \in Calls /\ k.tool = "unlink" /\ k.step = "clear" /\ k.change = c /\ k.from = m
        /\ k.epic = e /\ k.entry = i
    BY <2>1, <2>3, ZenonT(60) DEF Calls
  <2>5. Begin(s, k) /\ UNCHANGED <<active, retired, childVars>> /\ Names(Read(e), i, c)
    BY <1>7, <2>1, <2>2, <2>3 DEF BeginUnlink
  <2>6. Shape(k)
    BY <2>4, NoneIsNoData DEF Shape
  <2>7. m.epic = e /\ m.entry = i
    BY <2>2
  <2>8. NamedAt(e, i, c)'
    BY <2>5, SameAt DEF NamedAt
  <2>9. KnowsChild(k)' /\ KnowsEpic(k)'
    BY <2>4, <2>7, <2>8 DEF KnowsChild, KnowsEpic
  <2> QED
    BY <1>2, <2>4, <2>5, <2>6, <2>9
<1>8. ASSUME NEW c \in Changes, NEW e \in Epics, NEW i \in EntryIds, BeginPromote(s, c, e, i)
      PROVE  Begins(s)
  <2>1. PICK k \in Calls : /\ k = NewCall("promote", "promote", c, e, i)
                           /\ k.tool = "promote" /\ k.step = "promote" /\ k.change = c
                           /\ k.epic = e /\ k.entry = i
    BY NewCallFacts
  <2>2. Begin(s, k)
    BY <1>8, <2>1 DEF BeginPromote
  <2>3. Shape(k) /\ KnowsChild(k)' /\ KnowsEpic(k)'
    BY <2>1 DEF Shape, KnowsChild, KnowsEpic
  <2> QED
    BY <1>2, <2>1, <2>2, <2>3
<1>9. ASSUME NEW c \in Changes, NEW e \in Epics, NEW i \in EntryIds, BeginShow(s, c, e, i)
      PROVE  Begins(s)
  <2>1. PICK n \in Calls : /\ n = NewCall("show", "observe", c, e, i)
                           /\ n.tool = "show" /\ n.step = "observe" /\ n.change = c
                           /\ n.epic = e /\ n.entry = i
    BY NewCallFacts
  <2>2. active[e][i].status \in Statuses
    BY <1>9 DEF BeginShow, Names, Formed, EpicTypeOK, Projections, Entries
  <2>3. PICK k : k = [n EXCEPT !.status = active[e][i].status]
    OBVIOUS
  <2>4. k \in Calls /\ k.tool = "show" /\ k.step = "observe" /\ k.change = c
        /\ k.epic = e /\ k.entry = i
    BY <2>1, <2>2, <2>3, ZenonT(60) DEF Calls
  <2>5. Begin(s, k) /\ UNCHANGED <<active, retired, childVars>> /\ Names(Read(e), i, c)
    BY <1>9, <2>1, <2>3 DEF BeginShow, Read
  <2>6. Shape(k)
    BY <2>4 DEF Shape
  <2>7. NamedAt(e, i, c)'
    BY <2>5, SameAt DEF NamedAt
  <2>8. KnowsChild(k)' /\ KnowsEpic(k)'
    BY <2>4, <2>7 DEF KnowsChild, KnowsEpic
  <2> QED
    BY <1>2, <2>4, <2>5, <2>6, <2>8
<1>10. ASSUME NEW c \in Changes, NEW e \in Epics, NEW i \in EntryIds, NEW d \in Epics, NEW j \in EntryIds,
              BeginMove(s, c, d, i, e, j)
       PROVE  Begins(s)
  <2>1. PICK n \in Calls : /\ n = NewCall("move", "add", c, e, j)
                           /\ n.tool = "move" /\ n.step = "add" /\ n.change = c
                           /\ n.epic = e /\ n.entry = j
    BY NewCallFacts
  <2>2. PICK m \in Membership : m = member[c] /\ m.epic = d /\ m.entry = i
    BY <1>10 DEF BeginMove, Membership
  <2>3. PICK k : k = [n EXCEPT !.from = m]
    OBVIOUS
  <2>4. k \in Calls /\ k.tool = "move" /\ k.step = "add" /\ k.change = c /\ k.from = m
        /\ k.epic = e /\ k.entry = j
    BY <2>1, <2>3, ZenonT(60) DEF Calls
  <2>5. Begin(s, k) /\ UNCHANGED <<active, retired, childVars>> /\ Names(Read(d), i, c) /\ d # e
    BY <1>10, <2>1, <2>2, <2>3 DEF BeginMove
  <2>6. Shape(k)
    BY <2>2, <2>4, <2>5, NoneIsNoData DEF Shape
  <2>7. NamedAt(d, i, c)'
    BY <2>5, SameAt DEF NamedAt
  <2>8. KnowsChild(k)' /\ KnowsEpic(k)'
    BY <2>2, <2>4, <2>7 DEF KnowsChild, KnowsEpic
  <2> QED
    BY <1>2, <2>4, <2>5, <2>6, <2>8
<1> QED
  BY <1>3, <1>4, <1>5, <1>6, <1>7, <1>8, <1>9, <1>10 DEF EpicCall

-----------------------------------------------------------------------------
LEMMA CallsStep ==
  ASSUME Formed, Coherent, EpicNext
  PROVE  /\ call' \in [Sessions -> Calls \cup {None}] /\ calls' \in 0 .. MaxEpicCalls
         /\ Shaped' /\ SnapshotFirst'
         /\ \A t \in Sessions : call'[t] # None => KnownCall(call[t])'
<1> DEFINE Fine(t) == call'[t] # None => /\ Shape(call[t])' /\ KnownCall(call[t])'
                                         /\ call'[t].step = "remove" => retired'[call'[t].epic] # None
<1> DEFINE Goal == /\ call' \in [Sessions -> Calls \cup {None}] /\ calls' \in 0 .. MaxEpicCalls
                   /\ \A t \in Sessions : Fine(t)
<1>1. ASSUME NEW t \in Sessions, call'[t] = call[t] PROVE Fine(t)
  <2> SUFFICES ASSUME call[t] # None PROVE Fine(t)
    BY <1>1
  <2>1. Shape(call[t]) /\ Shape(call[t])'
    <3>1. Shape(call[t])
      BY FieldFacts
    <3>2. PICK k : k = call[t] /\ Shape(k)
      BY <3>1
    <3>3. k = call'[t]
      BY <1>1, <3>2
    <3> QED
      BY <3>1, <3>2, <3>3
  <2>2. KnownCall(call[t])'
    BY <1>1, KnowsOthers
  <2>3. call[t].step = "remove" => retired'[call[t].epic] # None
    BY FieldFacts, FilesFormed DEF Formed, SnapshotFirst, InCall, RetiredStay
  <2> QED
    BY <1>1, <2>1, <2>2, <2>3
<1>2. ASSUME NEW s \in Sessions, NEW k, Moved(s, k), Shape(k), KnownCall(k)',
             k.step = "remove" => retired'[k.epic] # None
      PROVE  call' \in [Sessions -> Calls \cup {None}] /\ \A t \in Sessions : Fine(t)
  <2>1. /\ call' \in [Sessions -> Calls \cup {None}] /\ call'[s] = k
        /\ \A t \in Sessions \ {s} : call'[t] = call[t]
    BY <1>2, MovedFacts
  <2>2. Fine(s)
    <3>1. Shape(call[s])'
      BY <1>2, <2>1
    <3>2. KnownCall(call[s])'
      BY <1>2, <2>1
    <3> QED
      BY <1>2, <2>1, <3>1, <3>2
  <2> HIDE DEF Fine
  <2> QED
    BY <1>1, <2>1, <2>2
<1>3. ASSUME NEW s \in Sessions, EpicStep(s) PROVE Goal
  <2>1. calls' \in 0 .. MaxEpicCalls
    BY <1>3, StepMoves DEF Formed, EpicTypeOK
  <2>2. CASE Return(s)
    <3>1. /\ call' \in [Sessions -> Calls \cup {None}] /\ call'[s] = None
          /\ \A t \in Sessions \ {s} : call'[t] = call[t]
      BY <2>2, ReturnFacts
    <3>2. Fine(s)
      BY <3>1
    <3> HIDE DEF Fine
    <3> QED
      BY <1>1, <2>1, <3>1, <3>2
  <2>3. CASE Goes(s)
    <3>1. PICK k : Moved(s, k) /\ Shape(k) /\ k.step # "remove" /\ KnownCall(k)'
      BY <2>3 DEF Goes
    <3> HIDE DEF Fine
    <3> QED
      BY <1>2, <2>1, <3>1
  <2> QED
    BY <1>3, <2>2, <2>3, StepKnows
<1>4. ASSUME NEW s \in Sessions, EpicCall(s) PROVE Goal
  <2>1. calls' \in 0 .. MaxEpicCalls
    BY <1>4, CallKnows DEF Begins
  <2>2. PICK k : /\ Moved(s, k) /\ Shape(k) /\ KnownCall(k)'
                 /\ k.step = "remove" => retired'[k.epic] # None
    BY <1>4, CallKnows DEF Begins
  <2> HIDE DEF Fine
  <2> QED
    BY <1>2, <2>1, <2>2
<1>5. ASSUME NEW e \in Epics, Create(e) \/ \E i \in EntryIds : AddShell(e, i) PROVE Goal
  <2>1. call' = call /\ calls' = calls
    BY <1>5 DEF Create, AddShell
  <2> HIDE DEF Fine
  <2> QED
    BY <1>1, <2>1 DEF Formed, EpicTypeOK
<1>6. Goal
  <2> HIDE DEF Goal
  <2> QED
    BY <1>3, <1>4, <1>5 DEF EpicNext
<1>7. /\ \A t \in Sessions : call'[t] # None => Shape(call[t])'
      /\ \A t \in Sessions : call'[t] # None => KnownCall(call[t])'
      /\ \A t \in Sessions : call'[t] # None /\ call'[t].step = "remove" => retired'[call'[t].epic] # None
  BY <1>6
<1> QED
  BY <1>6, <1>7 DEF Shaped, SnapshotFirst, InCall

LEMMA ChildFormed ==
  ASSUME Formed, EpicNext
  PROVE  /\ member' \in [Changes -> Membership \cup {None}]
         /\ lifecycle' \in [Changes -> {"open", "closed", "archived"}]
         /\ discarded' \subseteq Changes /\ bundle' \in [Changes -> Membership \cup {None}]
<1> USE DEF Formed, EpicTypeOK
<1>1. ASSUME UNCHANGED childVars
      PROVE  /\ member' \in [Changes -> Membership \cup {None}]
             /\ lifecycle' \in [Changes -> {"open", "closed", "archived"}]
             /\ discarded' \subseteq Changes /\ bundle' \in [Changes -> Membership \cup {None}]
  BY <1>1 DEF childVars
<1>2. ASSUME NEW s \in Sessions, Save(s)
      PROVE  /\ member' \in [Changes -> Membership \cup {None}]
             /\ lifecycle' \in [Changes -> {"open", "closed", "archived"}]
             /\ discarded' \subseteq Changes /\ bundle' \in [Changes -> Membership \cup {None}]
  <2>1. call[s].change \in Changes /\ call[s].saw \in Membership \cup {None}
    BY <1>2, FieldFacts DEF Save, InCall
  <2> QED
    BY <1>2, <2>1 DEF Save
<1>3. ASSUME NEW s \in Sessions, Discard(s)
      PROVE  /\ member' \in [Changes -> Membership \cup {None}]
             /\ lifecycle' \in [Changes -> {"open", "closed", "archived"}]
             /\ discarded' \subseteq Changes /\ bundle' \in [Changes -> Membership \cup {None}]
  <2>1. call[s].change \in Changes
    BY <1>3, FieldFacts DEF Discard, InCall
  <2> QED
    BY <1>3, <2>1 DEF Discard
<1>4. ASSUME NEW c \in Changes, NEW how \in {"closed", "archived"}, NEW s \in Sessions, End(s, c, how)
      PROVE  /\ member' \in [Changes -> Membership \cup {None}]
             /\ lifecycle' \in [Changes -> {"open", "closed", "archived"}]
             /\ discarded' \subseteq Changes /\ bundle' \in [Changes -> Membership \cup {None}]
  BY <1>4 DEF End
<1>5. CASE \/ UNCHANGED childVars
           \/ \E s \in Sessions : Save(s) \/ Discard(s)
           \/ \E s \in Sessions, c \in Changes, how \in {"closed", "archived"} : End(s, c, how)
  BY <1>1, <1>2, <1>3, <1>4, <1>5
<1>6. ASSUME NEW s \in Sessions, EpicCall(s)
      PROVE  UNCHANGED childVars \/ \E c \in Changes, how \in {"closed", "archived"} : End(s, c, how)
  BY <1>6, CallKeeps DEF childVars
<1>7. ASSUME NEW e \in Epics, Create(e) \/ \E i \in EntryIds : AddShell(e, i) PROVE UNCHANGED childVars
  BY <1>7 DEF Create, AddShell
<1> QED
  BY <1>5, <1>6, <1>7, StepKeeps DEF EpicNext

\* A membership is written after the entry it names, and erased before.
LEMMA BackedStep ==
  ASSUME Formed, Coherent, EpicNext PROVE Backed'
<1> SUFFICES ASSUME NEW c \in Changes, c \notin loose' \cup discarded', member'[c] # None
             PROVE  NamedAt(member[c].epic, member[c].entry, c)'
  BY DEF Backed
<1>1. c \notin loose \cup discarded
  BY EndedStay DEF EpicNext
<1>2. CASE member'[c] = member[c]
  <2>1. PICK e \in Epics, i \in EntryIds : member[c] = [epic |-> e, entry |-> i]
    BY <1>2 DEF Formed, EpicTypeOK, Membership
  <2>2. NamedAt(e, i, c)
    <3>1. member[c].epic = e /\ member[c].entry = i /\ member[c] # None
      BY <1>2, <2>1
    <3> QED
      BY <1>1, <3>1 DEF Coherent, Backed
  <2>3. ~Unlinked(e, i, c)
    <3> SUFFICES ASSUME NEW s \in Sessions, EpicStep(s), Unlinks(s), call[s].change = c,
                        call[s].from = member[c]
                 PROVE  FALSE
      BY <2>1 DEF Unlinked
    <3> QED
      BY <1>1, WriterKnows, StepMoves DEF FileStep
  <2>4. NamedAt(e, i, c)'
    BY <2>2, <2>3, NamedStep
  <2> QED
    BY <1>2, <2>1, <2>4
<1>3. CASE member'[c] # member[c]
  <2>1. PICK s \in Sessions : \/ (Save(s) \/ Discard(s)) /\ call[s].change = c
                              \/ \E how \in {"closed", "archived"} : End(s, c, how)
    BY <1>3, ChildStep
  <2>2. CASE \E how \in {"closed", "archived"} : End(s, c, how)
    BY <1>3, <2>2 DEF End
  <2>3. CASE Discard(s) /\ call[s].change = c
    BY <2>3 DEF Discard
  <2>4. CASE Save(s) /\ call[s].change = c
    <3>1. /\ call[s] # None /\ call[s].step = "save" /\ UNCHANGED <<active, retired>>
          /\ member'[c] = call[s].saw
      BY <2>4 DEF Save, InCall, Formed, EpicTypeOK
    <3>2. PICK m : m = call[s].saw /\ m # None
      BY <3>1
    <3>3. NamedAt(m.epic, m.entry, c)
      BY <1>1, <2>4, <3>1, <3>2 DEF Coherent, KnownCall, KnowsEpic
    <3>4. NamedAt(m.epic, m.entry, c)'
      BY <3>1, <3>3, SameAt
    <3> QED
      BY <3>1, <3>2, <3>4
  <2> QED
    BY <2>1, <2>2, <2>3, <2>4
<1> QED
  BY <1>2, <1>3

LEMMA EpicInvariant == EpicSpec => []EpicInv
<1>1. EpicInit => EpicInv
  <2> SUFFICES ASSUME EpicInit PROVE EpicInv
    OBVIOUS
  <2>1. EpicTypeOK
    <3>1. calls \in 0 .. MaxEpicCalls /\ discarded \subseteq Changes /\ loose \subseteq Changes
          /\ forked \subseteq Epics
      BY EpicBound DEF EpicInit
    <3>2. /\ active \in [Epics -> Projections \cup {None}]
          /\ retired \in [Epics -> Projections \cup {None}]
          /\ member \in [Changes -> Membership \cup {None}]
          /\ bundle \in [Changes -> Membership \cup {None}]
          /\ call \in [Sessions -> Calls \cup {None}]
      BY DEF EpicInit
    <3>3. lifecycle \in [Changes -> {"open", "closed", "archived"}]
      BY DEF EpicInit
    <3> QED
      BY <3>1, <3>2, <3>3 DEF EpicTypeOK
  <2>2. \A s \in Sessions : call[s] = None
    BY DEF EpicInit
  <2>3. Shaped /\ SnapshotFirst
    BY <2>2 DEF Shaped, SnapshotFirst, InCall
  <2>4. Coherent
    <3>1. (\A c \in Changes : ~Contended(c)) /\ \A s \in Sessions : call[s] = None
      BY <2>2 DEF Contended
    <3>2. /\ \A e \in Epics : Read(e) = None /\ retired[e] = None
          /\ \A c \in Changes : member[c] = None
          /\ discarded = {}
      BY DEF EpicInit, Read
    <3> QED
      BY <3>1, <3>2 DEF Coherent, Snapshots, DoneIsEnded, Backed
  <2> QED
    BY <2>1, <2>3, <2>4 DEF EpicInv, Formed
<1>2. EpicInv /\ [EpicNext]_epicVars => EpicInv'
  <2> SUFFICES ASSUME Formed, Coherent, [EpicNext]_epicVars PROVE EpicInv'
    BY DEF EpicInv
  <2>1. CASE UNCHANGED epicVars
    <3>1. Formed'
      BY <2>1, ZenonT(60) DEF Formed, EpicTypeOK, Shaped, Shape, SnapshotFirst, InCall, epicVars
    <3>2. Coherent'
      BY <2>1, ZenonT(60) DEF Coherent, Contended, Ended, Snapshots, DoneIsEnded, Backed, KnownCall,
         KnowsChild, KnowsEpic, NamedAt, Read, Names, epicVars
    <3> QED
      BY <3>1, <3>2 DEF EpicInv
  <2>2. CASE EpicNext
    <3>1. loose' \subseteq Changes /\ forked' \subseteq Epics
      BY <2>2 DEF EpicNext, Formed, EpicTypeOK
    <3>2. Formed'
      BY <2>2, <3>1, FilesFormed, ChildFormed, CallsStep DEF Formed, EpicTypeOK
    <3>3. \A c \in Changes : Contended(c)' => c \in loose'
      BY <2>2 DEF EpicNext
    <3>4. Coherent'
      BY <2>2, <3>3, GoneStep, DoneStep, BackedStep, CallsStep DEF Coherent
    <3> QED
      BY <3>2, <3>4 DEF EpicInv
  <2> QED
    BY <2>1, <2>2
<1> QED
  BY <1>1, <1>2, PTL DEF EpicSpec

\* The epic tools keep their files, memberships and calls well formed.
THEOREM EpicTyping == EpicSpec => []EpicTypeOK
BY EpicInvariant, PTL DEF EpicInv, Formed

\* The membership of a change that has its active record names an entry that names the
\* change, wherever link, move, promote and unlink stop (setEpicMembership and
\* clearEpicMembership, which leave a change without its record alone, and the writes of
\* the epics around them); the changes and epics that MembershipBacked excepts, one by one.
THEOREM MembershipsAreBacked == EpicSpec => []MembershipBacked
<1>1. EpicInv => MembershipBacked
  BY DEF EpicInv, Coherent, Backed, NamedAt, MembershipBacked
<1> QED
  BY <1>1, EpicInvariant, PTL

\* A retired epic has only entries of changes that are archived or closed (retire, and
\* the terminal summaries of link, show and archive), or of excepted changes.
THEOREM RetiredWorkIsOver == EpicSpec => []RetiredChangesDone
<1>1. EpicInv => RetiredChangesDone
  <2> SUFFICES ASSUME EpicInv, NEW e \in Epics \ forked, retired[e] # None,
                      NEW i \in EntryIds, retired[e][i] # None
               PROVE  retired[e][i].of \in Ended \cup loose
    BY DEF RetiredChangesDone
  <2>1. Read(e) = retired[e]
    BY DEF Read
  <2>2. Completed(retired[e])
    BY DEF EpicInv, Coherent, Snapshots
  <2> QED
    BY <2>1, <2>2 DEF EpicInv, Coherent, DoneIsEnded, Completed
<1> QED
  BY <1>1, EpicInvariant, PTL

\* An epic is in one of its two files, and not made again once it has retired.
THEOREM EpicsAreKept == EpicSpec => EpicKept
<1> DEFINE Kept == \A e \in Epics : /\ Read(e) # None => Read(e)' # None
                                    /\ (retired[e] # None /\ active[e] = None) => active'[e] = None
<1>1. EpicInv /\ [EpicNext]_epicVars => [Kept]_epicVars
  <2> SUFFICES ASSUME Formed, EpicNext PROVE Kept
    BY DEF EpicInv
  <2>1. RetiredStay
    BY FilesFormed
  <2>2. ASSUME NEW d, NEW i, NEW x, Writes(d, i, x)
        PROVE  \A e \in Epics : IF e = d THEN active[e] # None /\ active'[e] # None ELSE active'[e] = active[e]
    BY <2>2, PutFacts DEF Writes
  <2>3. CASE \E d, i, x : Writes(d, i, x)
    BY <2>1, <2>2, <2>3 DEF Read, RetiredStay
  <2>4. ASSUME NEW d \in Epics, Create(d) PROVE Kept
    BY <2>1, <2>4, NoneIsNoData DEF Create, Read, RetiredStay, Formed, EpicTypeOK, NoEntries, Projections
  <2>5. ASSUME NEW s \in Sessions, NEW d \in Epics, Retire(s, d) PROVE Kept
    BY <2>1, <2>5 DEF Retire, Read, RetiredStay
  <2>6. ASSUME NEW s \in Sessions, Remove(s) PROVE Kept
    <3>1. /\ call[s] # None /\ retired[call[s].epic] # None /\ retired' = retired
          /\ active' = [active EXCEPT ![call[s].epic] = None]
      BY <2>6 DEF Remove, InCall, Formed, SnapshotFirst
    <3>2. \A d \in Epics : active'[d] = active[d] \/ (active'[d] = None /\ retired[d] # None)
      BY <3>1 DEF Formed, EpicTypeOK
    <3> QED
      BY <3>1, <3>2 DEF Read
  <2>7. CASE UNCHANGED <<active, retired>>
    BY <2>7 DEF Read
  <2>8. CASE \E s \in Sessions : FileStep(s)
    BY <2>3, <2>8 DEF FileStep, WritesSame, Marks, Links, Retargets, Unlinks
  <2> QED
    BY <2>3, <2>4, <2>5, <2>6, <2>7, <2>8, FileSteps DEF WritesFree
<1> QED
  BY <1>1, EpicInvariant, PTL DEF EpicSpec, EpicKept

-----------------------------------------------------------------------------
\* What the two exceptions take.

\* No two calls are about one change, and none about a change without its record.
CallsApart == /\ \A c \in Changes : ~Contended(c)
              /\ \A s \in Sessions : call[s] # None => call[s].change \notin discarded

\* Both files of an epic are there only while the session that retires it has its lock.
RetirementsFinish == \A e \in Epics : retired[e] # None /\ active[e] # None => ~Free(e)

Untouched == loose = {} /\ forked = {}

\* A projection is written for a new epic, or with the epic's lock.
LEMMA WritesAreLocked ==
  ASSUME Formed, EpicNext, NEW e \in Epics, active'[e] \notin {None, active[e]}
  PROVE  (active[e] # None /\ Free(e)) \/ (active[e] = None /\ retired[e] = None)
<1>1. ASSUME NEW d, NEW i, NEW x, Put(d, i, x), active[d] # None, Free(d)
      PROVE  active[e] # None /\ Free(e)
  <2>1. d = e
    BY <1>1 DEF Put, Formed, EpicTypeOK
  <2> QED
    BY <1>1, <2>1
<1>2. ASSUME NEW d \in Epics, Create(d) PROVE active[e] = None /\ retired[e] = None
  BY <1>2 DEF Create, Formed, EpicTypeOK
<1>3. ASSUME NEW d \in Epics, NEW i \in EntryIds, AddShell(d, i) PROVE active[e] # None /\ Free(e)
  BY <1>1, <1>3 DEF AddShell
<1>4. ASSUME NEW s \in Sessions, EpicCall(s) PROVE FALSE
  BY <1>4, CallKeeps
<1>5. ASSUME NEW s \in Sessions, Remove(s) PROVE FALSE
  BY <1>5 DEF Remove, Formed, EpicTypeOK
<1>6. ASSUME NEW s \in Sessions, EpicStep(s), ~Remove(s)
      PROVE  \/ AddEntry(s) \/ Retarget(s) \/ Finish(s) \/ UnlinkEntry(s) \/ Promote(s)
             \/ MarkLinked(s) \/ Summarise(s)
  BY <1>6 DEF EpicStep, LinkRead, Judge, Save, Clear, Discard, Reread, Observe, Interrupt
<1>7. ASSUME NEW s \in Sessions, AddEntry(s) \/ Promote(s) \/ UnlinkEntry(s)
      PROVE  active[e] # None /\ Free(e)
  BY <1>1, <1>7 DEF AddEntry, Promote, UnlinkEntry, Names
<1>8. ASSUME NEW s \in Sessions, Retarget(s) \/ Finish(s) \/ MarkLinked(s) \/ Summarise(s)
      PROVE  active[e] # None /\ Free(e)
  BY <1>1, <1>8 DEF Retarget, Finish, MarkLinked, Summarise, IsChange
<1> QED
  BY <1>2, <1>3, <1>4, <1>5, <1>6, <1>7, <1>8 DEF EpicNext

EveryMembershipBacked ==
  \A c \in Changes \ discarded : member[c] # None => Names(Read(member[c].epic), member[c].entry, c)
EveryRetiredOver == \A e \in Epics : retired[e] # None =>
                      \A i \in EntryIds : retired[e][i] # None => retired[e][i].of \in Ended

\* While no two calls about one change overlap, none is about a change whose record is
\* gone (which link, unlink and move do not refuse), and no retirement stops between its
\* two writes, there is no exception: every membership that is still written is backed,
\* and every retired epic is over.
THEOREM EpicsAgreeUndisturbed ==
  EpicSpec /\ []CallsApart /\ []RetirementsFinish => [](EveryMembershipBacked /\ EveryRetiredOver)
<1>1. EpicInit => Untouched
  BY DEF EpicInit, Untouched
<1>2. EpicInv /\ Untouched /\ RetirementsFinish /\ CallsApart /\ CallsApart' /\ [EpicNext]_epicVars
      => Untouched'
  <2> SUFFICES ASSUME Formed, Untouched, RetirementsFinish, CallsApart, CallsApart', EpicNext
               PROVE  Untouched'
    BY DEF EpicInv, Untouched, epicVars
  <2>1. \A c \in Changes : ~Contended(c)' /\ ~Displaced(c)
    BY DEF CallsApart, Untouched, Displaced
  <2>2. \A e \in Epics : ~WritesBeside(e)
    BY WritesAreLocked DEF WritesBeside, RetirementsFinish
  <2> QED
    BY <2>1, <2>2 DEF EpicNext, Untouched
<1>3. EpicInv /\ Untouched => EveryMembershipBacked /\ EveryRetiredOver
  <2> SUFFICES ASSUME EpicInv, Untouched PROVE EveryMembershipBacked /\ EveryRetiredOver
    OBVIOUS
  <2>1. EveryMembershipBacked
    BY DEF EpicInv, Untouched, Coherent, Backed, NamedAt, EveryMembershipBacked
  <2>2. ASSUME NEW e \in Epics, retired[e] # None, NEW i \in EntryIds, retired[e][i] # None
        PROVE  retired[e][i].of \in Ended
    <3>1. Read(e) = retired[e]
      BY <2>2 DEF Read
    <3>2. Completed(retired[e])
      BY <2>2 DEF EpicInv, Coherent, Snapshots, Untouched
    <3> QED
      BY <2>2, <3>1, <3>2 DEF EpicInv, Coherent, DoneIsEnded, Completed, Untouched
  <2> QED
    BY <2>1, <2>2 DEF EveryRetiredOver
<1> QED
  BY <1>1, <1>2, <1>3, EpicInvariant, PTL DEF EpicSpec

=============================================================================
