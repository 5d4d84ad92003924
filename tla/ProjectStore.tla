---------------------------- MODULE ProjectStore ----------------------------
(***************************************************************************)
(* One change of the project store with all of its writers: the calls of   *)
(* the projection transaction (ChangeProjection) and the writers of the    *)
(* disk store that go around it:                                           *)
(*                                                                         *)
(*   persistChangeProjection  storage/store-disk.ts: loadChange, an edit,  *)
(*                            saveChange, publishSummaryForChange; behind  *)
(*                            changes.save, changes.close, tasks.update,   *)
(*                            tasks.add, tasks.cancel, set/clearEpic-      *)
(*                            Membership                                   *)
(*   rebuildSummaryIndex      storage/change-summary-shard.ts: loadChange, *)
(*                            publishSummaryForChange                      *)
(*                                                                         *)
(* These take no lock and compare no revision.                             *)
(***************************************************************************)
EXTENDS ChangeProjection

CONSTANTS RawWriters,   \* calls of the store that bypass the transaction
          RebuildOp     \* the summary's operation identity when there is none

VARIABLE raw   \* each bypassing call: where it is, the snapshot it has loaded

storeVars == <<vars, raw>>

RawIdle == [pc |-> "idle", snap |-> None]

StoreInit == Init /\ raw = [w \in RawWriters |-> RawIdle]

-----------------------------------------------------------------------------
RawGoto(w, label, snap) == raw' = [raw EXCEPT ![w] = [pc |-> label, snap |-> snap]]

\* loadChange; a rebuild goes on to publish what it has loaded.
RawLoad(w) == /\ raw[w].pc = "idle"
              /\ disk # None
              /\ \E label \in {"save", "shard"} : RawGoto(w, label, disk)
              /\ UNCHANGED vars

\* What the stores' operations make of a change: a task more, or an edit of a
\* field that is no protected collection.  The revision is not touched.
RawEdits(snap) == {[snap EXCEPT !.items = @ \cup {i}] : i \in Items} \cup {snap}

\* saveChange: the whole file is replaced by the edited snapshot.
RawSave(w) ==
  /\ raw[w].pc = "save"
  /\ \E snap \in RawEdits(raw[w].snap) :
       /\ disk' = snap
       /\ RawGoto(w, "shard", snap)
  /\ UNCHANGED <<shards, pointer, holders, writerVars, reader>>

\* operationId ?? projection_commits.at(-1)?.operation_id ?? "rebuild"
SummaryOp(snap) ==
  IF snap.commits = <<>> \/ LastOp(snap) = NoOp THEN RebuildOp ELSE LastOp(snap)

RawPublishShard(w) ==
  LET snap == raw[w].snap
  IN /\ raw[w].pc = "shard"
     /\ shards' = Filed(shards, snap.rev, Summary(snap, SummaryOp(snap)))
     /\ RawGoto(w, "pointer", snap)
     /\ UNCHANGED <<disk, pointer, holders, writerVars, reader>>

RawPublishPointer(w) ==
  LET snap == raw[w].snap
  IN /\ raw[w].pc = "pointer"
     /\ pointer' = PointerTo(Summary(snap, SummaryOp(snap)))
     /\ raw' = [raw EXCEPT ![w] = RawIdle]
     /\ UNCHANGED <<disk, shards, holders, writerVars, reader>>

\* The process dies, or a file operation throws: the call ends where it is.
RawEnds(w) == /\ raw[w].pc # "idle"
              /\ raw' = [raw EXCEPT ![w] = RawIdle]
              /\ UNCHANGED vars

StoreNext == \/ Next /\ UNCHANGED raw
             \/ \E w \in RawWriters :
                  \/ RawLoad(w) \/ RawSave(w)
                  \/ RawPublishShard(w) \/ RawPublishPointer(w) \/ RawEnds(w)

StoreSpec == StoreInit /\ [][StoreNext]_storeVars

-----------------------------------------------------------------------------
\* "All recovery and mutation writers route through here so concurrent
\* disjoint writes survive": an entry that some writer has put into the change
\* file disappears only by a call that asks for it.
MutationsSurvive ==
  [][disk # None =>
       \A i \in disk.items \ disk'.items :
         \E c \in Writers : pc[c] = "write" /\ req[c].kind = "clear"]_storeVars
=============================================================================
