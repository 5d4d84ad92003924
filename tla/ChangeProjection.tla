-------------------------- MODULE ChangeProjection --------------------------
(***************************************************************************)
(* The write path of one change file (.../changes/<id>/change.json) and of *)
(* the summary published beside it:                                        *)
(*                                                                         *)
(*   commitChangeProjection             storage/change-projection-         *)
(*                                      transaction.ts                     *)
(*   commitChangeProjectionWithSummary, storage/change-summary-shard.ts    *)
(*   publishSummaryForChange,                                              *)
(*   readCurrentSummaryShard                                               *)
(*                                                                         *)
(* Sessions (processes) call it concurrently, crash anywhere, and call     *)
(* again with the same operation identity.  One step of the model is one   *)
(* file-system operation together with the synchronous code up to the next *)
(* one, because that is where other sessions get in between.               *)
(***************************************************************************)
EXTENDS Integers, Sequences

CONSTANTS Writers,   \* sessions that commit
          Items,     \* entries of the protected collections (tasks, deltas, ..)
          Ops,       \* operation identities
          Hashes,    \* payload hashes
          Requests,  \* the calls the sessions make
          MaxCalls,  \* bound on the number of calls
          MaxAudit,  \* PROJECTION_COMMIT_MAX_AUDIT_ENTRIES
          NoOp,      \* operationId omitted
          NoRev,     \* expectedRevision or stateRevision omitted
          CreateOp,  \* the operation identity of the creation's summary
          None       \* no file, no value

\* The options of one call.  kind and item say what mutateLatest does; pinned:
\* the caller passes the revision it has observed as expectedRevision;
\* summary: the call goes through commitChangeProjectionWithSummary.
Request == [op : Ops \cup {NoOp}, hash : Hashes, pinned : BOOLEAN,
            srev : Nat \cup {NoRev}, kind : {"add", "clear", "throw"},
            item : Items, allowEmptied : BOOLEAN, summary : BOOLEAN]

ASSUME BoundsAssumption == MaxCalls \in Nat /\ MaxAudit \in Nat \ {0}
ASSUME RequestsAssumption ==
  /\ Requests \subseteq Request
  /\ \A q \in Requests : q.summary => q.op # NoOp
ASSUME ValuesAssumption == /\ NoOp \notin Ops
                           /\ NoRev \notin Nat
                           /\ CreateOp \notin Ops \cup {NoOp}
                           /\ None \notin Writers

\* An entry of projection_commits, a change file, a summary and a pointer.
AuditEntry == [op : Ops \cup {NoOp}, hash : Hashes, srev : Nat \cup {NoRev}, rev : Nat]
Snapshot == [rev : Nat, srev : Nat, items : SUBSET Items, commits : Seq(AuditEntry)]
Shard == [rev : Nat, srev : Nat, op : Ops \cup {CreateOp}, items : SUBSET Items]
Pointer == [rev : Nat, srev : Nat, op : Ops \cup {CreateOp}]

ASSUME NoneAssumption == None \notin Snapshot \cup Shard \cup Pointer

Results == {"none", "committed", "idempotent", "committed_unverified",
            "stale_revision", "state_regression", "state_revision_conflict",
            "operation_conflict", "lock_timeout", "schema_error", "write_error",
            "operator_required", "threw", "error", "crashed"}

VARIABLES
  disk,      \* the change file
  shards,    \* revisions/: the shard in each <rev>.json that exists
  pointer,   \* current.json
  holders,   \* who is inside the per-change file lock
  pc,        \* where each session's call is
  req,       \* the options of its call
  expect,    \* the expectedRevision of its call
  mine,      \* the snapshot it is about to write, then the one it has read back
  result,    \* what its last call returned
  calls,     \* calls made so far
  reader     \* a reader of the summary: pc, snapshot, pointer and shard read

writerVars == <<pc, req, expect, mine, result, calls>>
fileVars == <<disk, shards, pointer>>
vars == <<disk, shards, pointer, holders, pc, req, expect, mine, result, calls,
          reader>>

Lock == INSTANCE LockService WITH Callers <- Writers, compromised <- FALSE

Locked == {"load", "write", "readback", "shard", "pointer", "proof", "release"}

TypeOK ==
  /\ disk \in Snapshot \cup {None}
  /\ DOMAIN shards \subseteq Nat /\ shards \in [DOMAIN shards -> Shard]
  /\ pointer \in Pointer \cup {None}
  /\ holders \subseteq Writers
  /\ pc \in [Writers -> Locked \cup {"idle", "lock", "final"}]
  /\ req \in [Writers -> Requests \cup {None}]
  /\ expect \in [Writers -> Nat \cup {NoRev}]
  /\ mine \in [Writers -> Snapshot \cup {None}]
  /\ result \in [Writers -> Results]
  /\ calls \in 0 .. MaxCalls
  /\ reader \in [pc : {"idle", "pointer", "shard", "ok", "degraded", "not_found"},
                 snap : Snapshot \cup {None}, ptr : Pointer \cup {None},
                 shard : Shard \cup {None}]

-----------------------------------------------------------------------------
\* deriveSummaryShard: what of a snapshot is in its summary.
Summary(snap, o) == [rev |-> snap.rev, srev |-> snap.srev, op |-> o,
                     items |-> snap.items]
PointerTo(shard) == [rev |-> shard.rev, srev |-> shard.srev, op |-> shard.op]

\* <rev>.json is written, over the one that was there if there was one.
Filed(files, rev, shard) ==
  [r \in DOMAIN files \cup {rev} |-> IF r = rev THEN shard ELSE files[r]]

\* What the reader answers without a summary.
Answer(kind) == [pc |-> kind, snap |-> None, ptr |-> None, shard |-> None]

Created == [rev |-> 0, srev |-> 0, items |-> {}, commits |-> <<>>]

\* There is no such change; or it has been created; or its creation crashed
\* before it had written the first shard, or the pointer to it.
Init ==
  /\ \/ disk = None /\ shards = [r \in {} |-> None] /\ pointer = None
     \/ disk = Created /\ shards = [r \in {} |-> None] /\ pointer = None
     \/ /\ disk = Created
        /\ shards = [r \in {0} |-> Summary(Created, CreateOp)]
        /\ pointer \in {None, PointerTo(Summary(Created, CreateOp))}
  /\ holders = {}
  /\ pc = [c \in Writers |-> "idle"]
  /\ req = [c \in Writers |-> None]
  /\ expect = [c \in Writers |-> NoRev]
  /\ mine = [c \in Writers |-> None]
  /\ result = [c \in Writers |-> "none"]
  /\ calls = 0
  /\ reader = Answer("idle")

-----------------------------------------------------------------------------
\* The decision taken on the snapshot loaded inside the lock.

EntriesOf(snap) == {snap.commits[i] : i \in DOMAIN snap.commits}

\* Bug: the identity of an operation includes its payload.
RecordedByPayload(snap, q) ==
  {e \in EntriesOf(snap) : q.op # NoOp /\ e.op = q.op /\ e.hash = q.hash}

\* The entries of an earlier call with the same operation identity.
Recorded(snap, q) == {e \in EntriesOf(snap) : q.op # NoOp /\ e.op = q.op}

\* The recorded call was this very call: same payload, same state revision.
SameCall(e, q) == e.hash = q.hash /\ e.srev = q.srev

\* Bug: only a revision from the future is stale.
StaleAhead(snap, e) == e # NoRev /\ snap.rev < e

\* The caller's expectedRevision is not the current one.
Stale(snap, e) == e # NoRev /\ snap.rev # e

\* Some recorded operation has already projected this state revision.
StateTaken(snap, q) == /\ q.op # NoOp
                       /\ q.srev = snap.srev
                       /\ \E e \in EntriesOf(snap) : e.srev = q.srev

\* mutateLatest
Mutated(snap, q) == IF q.kind = "add" THEN snap.items \cup {q.item} ELSE {}

\* commitChangeProjectionWithSummary does not hand
\* allowEmptiedCollections on, so only a direct call can declare it.
Declared(q) == q.allowEmptied /\ ~q.summary

\* Bug: it is left to the caller's verify to notice.
WipesUnnoticed(snap, q) == FALSE

\* findCollectionWipe
Wipes(snap, q) == /\ snap.items # {}
                  /\ Mutated(snap, q) = {}
                  /\ ~Declared(q)

\* The fences in the order of the code: an outcome, or "write".
Verdict(snap, q, e) ==
  IF Recorded(snap, q) # {}
    THEN IF \E a \in Recorded(snap, q) : SameCall(a, q)
           THEN "idempotent" ELSE "operation_conflict"
  ELSE IF Stale(snap, e) THEN "stale_revision"
  ELSE IF q.srev # NoRev /\ q.srev < snap.srev THEN "state_regression"
  ELSE IF q.srev # NoRev /\ StateTaken(snap, q) THEN "state_revision_conflict"
  ELSE IF q.kind = "throw" \/ Wipes(snap, q) THEN "operator_required"
  ELSE "write"

LastAudit(s) == IF Len(s) <= MaxAudit THEN s
                ELSE SubSeq(s, Len(s) - MaxAudit + 1, Len(s))

\* Bug: an omitted state revision is written as such.
CandidateWithoutDefault(snap, q) ==
  [rev     |-> snap.rev + 1,
   srev    |-> q.srev,
   items   |-> Mutated(snap, q),
   commits |-> LastAudit(Append(snap.commits,
                 [op |-> q.op, hash |-> q.hash, srev |-> q.srev,
                  rev |-> snap.rev + 1]))]

\* The snapshot to write: one mutation, one revision, one audit entry more.
Candidate(snap, q) ==
  [rev     |-> snap.rev + 1,
   srev    |-> IF q.srev = NoRev THEN snap.srev ELSE q.srev,
   items   |-> Mutated(snap, q),
   commits |-> LastAudit(Append(snap.commits,
                 [op |-> q.op, hash |-> q.hash, srev |-> q.srev,
                  rev |-> snap.rev + 1]))]

\* The generic readback proof and the caller's own verify.
Proven(snap, c) ==
  /\ snap.rev = mine[c].rev
  /\ req[c].op # NoOp =>
       LET e == snap.commits[Len(snap.commits)]
       IN e.op = req[c].op /\ SameCall(e, req[c])
  /\ req[c].srev # NoRev => snap.srev = req[c].srev
  /\ IF req[c].kind = "add" THEN req[c].item \in snap.items ELSE snap.items = {}

-----------------------------------------------------------------------------
Goto(c, label) == pc' = [pc EXCEPT ![c] = label]
Return(c, outcome) == result' = [result EXCEPT ![c] = outcome]

\* The call is over and its locals are gone.
Forget(c) == /\ req' = [req EXCEPT ![c] = None]
             /\ expect' = [expect EXCEPT ![c] = NoRev]
             /\ mine' = [mine EXCEPT ![c] = None]
             /\ Goto(c, "idle")

\* A session calls.
Begin(c) ==
  /\ pc[c] = "idle"
  /\ calls < MaxCalls
  /\ calls' = calls + 1
  /\ disk # None
  /\ \E q \in Requests :
       /\ req' = [req EXCEPT ![c] = q]
       /\ expect' = [expect EXCEPT ![c] = IF q.pinned THEN disk.rev ELSE NoRev]
  /\ Return(c, "none")
  /\ Goto(c, "lock")
  /\ UNCHANGED <<fileVars, holders, mine, reader>>

\* Without a change file the call ends at once.
BeginMissing(c) ==
  /\ pc[c] = "idle"
  /\ calls < MaxCalls
  /\ calls' = calls + 1
  /\ disk = None
  /\ Return(c, "operator_required")
  /\ UNCHANGED <<fileVars, holders, pc, req, expect, mine, reader>>

\* Bug: the lock is not taken.
EnterWithoutLock(c) == /\ pc[c] = "lock"
                       /\ holders' = holders \cup {c}
                       /\ Goto(c, "load")
                       /\ UNCHANGED <<fileVars, req, expect, mine, result, calls,
                                      reader>>

AcquireLock(c) == /\ pc[c] = "lock"
                  /\ Lock!Enter(c)
                  /\ Goto(c, "load")
                  /\ UNCHANGED <<fileVars, req, expect, mine, result, calls, reader>>

LockTimeout(c) == /\ pc[c] = "lock"
                  /\ Return(c, "lock_timeout")
                  /\ Forget(c)
                  /\ UNCHANGED <<fileVars, holders, calls, reader>>

\* The latest snapshot is read inside the lock, judged and mutated, with no
\* await in between.
Load(c) ==
  LET verdict == Verdict(disk, req[c], expect[c])
  IN /\ pc[c] = "load"
     /\ IF verdict = "write"
          THEN /\ Goto(c, "write")
               /\ mine' = [mine EXCEPT ![c] = Candidate(disk, req[c])]
               /\ UNCHANGED result
          ELSE /\ Goto(c, "release")
               /\ Return(c, verdict)
               /\ mine' = [mine EXCEPT ![c] = disk]
     /\ UNCHANGED <<fileVars, holders, req, expect, calls, reader>>

\* Bug: an early return that the finally block does not cover.
ReadFailsLocked(c) == /\ pc[c] \in {"load", "readback"}
                      /\ Return(c, "schema_error")
                      /\ Forget(c)
                      /\ UNCHANGED <<fileVars, holders, calls, reader>>

\* The snapshot cannot be read, at the load or at the readback.
ReadFails(c) == /\ pc[c] \in {"load", "readback"}
                /\ Goto(c, "release")
                /\ Return(c, "schema_error")
                /\ UNCHANGED <<fileVars, holders, req, expect, mine, calls, reader>>

Write(c) == /\ pc[c] = "write"
            /\ disk' = mine[c]
            /\ Goto(c, "readback")
            /\ UNCHANGED <<shards, pointer, holders, req, expect, mine, result,
                           calls, reader>>

\* atomicWriteFile throws, before the rename or (directory fsync) after it.
WriteFails(c) == /\ pc[c] = "write"
                 /\ disk' \in {disk, mine[c]}
                 /\ Goto(c, "release")
                 /\ Return(c, "write_error")
                 /\ UNCHANGED <<shards, pointer, holders, req, expect, mine, calls,
                                reader>>

Readback(c) ==
  /\ pc[c] = "readback"
  /\ mine' = [mine EXCEPT ![c] = disk]
  /\ IF ~Proven(disk, c)
       THEN Goto(c, "release") /\ Return(c, "committed_unverified")
     ELSE IF req[c].summary
       THEN Goto(c, "shard") /\ UNCHANGED result
     ELSE Goto(c, "release") /\ Return(c, "committed")
  /\ UNCHANGED <<fileVars, holders, req, expect, calls, reader>>

\* Bug: the pointer is written before the shard it names.
PublishPointerFirst(c) ==
  /\ pc[c] = "shard"
  /\ pointer' = PointerTo(Summary(mine[c], req[c].op))
  /\ Goto(c, "pointer")
  /\ UNCHANGED <<disk, shards, holders, req, expect, mine, result, calls, reader>>

\* afterCommit, inside the lock: publishSummaryForChange writes the shard of
\* this revision, then the pointer to it.
PublishShard(c) ==
  /\ pc[c] = "shard"
  /\ shards' = Filed(shards, mine[c].rev, Summary(mine[c], req[c].op))
  /\ Goto(c, "pointer")
  /\ UNCHANGED <<disk, pointer, holders, req, expect, mine, result, calls, reader>>

PublishPointer(c) ==
  /\ pc[c] = "pointer"
  /\ pointer' = PointerTo(Summary(mine[c], req[c].op))
  /\ Goto(c, "proof")
  /\ UNCHANGED <<disk, shards, holders, req, expect, mine, result, calls, reader>>

\* Bug: publication is best effort.
PublishFailsQuietly(c) == /\ pc[c] \in {"shard", "pointer"}
                          /\ Goto(c, "release")
                          /\ Return(c, "committed")
                          /\ UNCHANGED <<fileVars, holders, req, expect, mine,
                                         calls, reader>>

\* The write of a shard or a pointer throws; nothing catches it but finally.
PublishFails(c) == /\ pc[c] \in {"shard", "pointer"}
                   /\ Goto(c, "release")
                   /\ Return(c, "threw")
                   /\ UNCHANGED <<fileVars, holders, req, expect, mine, calls,
                                  reader>>

\* Pointer and shard are read back and compared; a read may fail.
Published(c) == /\ pointer = PointerTo(Summary(mine[c], req[c].op))
                /\ mine[c].rev \in DOMAIN shards
                /\ shards[mine[c].rev] = Summary(mine[c], req[c].op)

Prove(c) ==
  /\ pc[c] = "proof"
  /\ \E outcome \in {"committed", "committed_unverified"} :
       /\ outcome = "committed" => Published(c)
       /\ Return(c, outcome)
  /\ Goto(c, "release")
  /\ UNCHANGED <<fileVars, holders, req, expect, mine, calls, reader>>

\* finally: the lock goes, whatever happened.
Release(c) ==
  /\ pc[c] = "release"
  /\ Lock!Leave({c})
  /\ IF req[c].summary /\ result[c] \in {"committed", "idempotent"}
       THEN Goto(c, "final") /\ UNCHANGED <<req, expect, mine>>
       ELSE Forget(c)
  /\ UNCHANGED <<fileVars, result, calls, reader>>

\* After the lock: success is reported if there is a pointer and its shard.
HasSummary == pointer # None /\ pointer.rev \in DOMAIN shards

Final(c) ==
  /\ pc[c] = "final"
  /\ \E outcome \in {result[c], "error"} :
       /\ outcome # "error" => HasSummary
       /\ Return(c, outcome)
  /\ Forget(c)
  /\ UNCHANGED <<fileVars, holders, calls, reader>>

\* The session dies; its lock is reclaimed.  It can start again and retry.
Crash(c) == /\ pc[c] # "idle"
            /\ Return(c, "crashed")
            /\ Forget(c)
            /\ IF c \in holders THEN Lock!Leave({c}) ELSE UNCHANGED holders
            /\ UNCHANGED <<fileVars, calls, reader>>

-----------------------------------------------------------------------------
\* readCurrentSummaryShard, without any lock: the snapshot, then the pointer,
\* then the shard, each of which may have moved meanwhile.
ReadSnapshot ==
  /\ reader.pc \notin {"pointer", "shard"}
  /\ \E snap \in {disk, None} :
       reader' = [pc |-> "pointer", snap |-> snap, ptr |-> None, shard |-> None]
  /\ UNCHANGED <<fileVars, holders, writerVars>>

\* Bug: only a pointer ahead of the snapshot is suspect.
FreshUnlessAhead(snap, ptr) == snap # None => snap.rev >= ptr.rev

\* The snapshot that was read and the pointer are of the same revision.
Fresh(snap, ptr) == snap # None => snap.rev = ptr.rev /\ snap.srev = ptr.srev

ReadPointer ==
  /\ reader.pc = "pointer"
  /\ IF pointer # None /\ Fresh(reader.snap, pointer)
       THEN reader' = [reader EXCEPT !.pc = "shard", !.ptr = pointer]
       ELSE reader' = Answer(IF pointer = None /\ reader.snap = None
                             THEN "not_found" ELSE "degraded")
  /\ UNCHANGED <<fileVars, holders, writerVars>>

\* The shard is there and the pointer names it.
Named(ptr) == ptr.rev \in DOMAIN shards /\ PointerTo(shards[ptr.rev]) = ptr

ReadShard ==
  /\ reader.pc = "shard"
  /\ IF Named(reader.ptr) /\ reader.snap # None
       THEN reader' = [reader EXCEPT !.pc = "ok", !.shard = shards[reader.ptr.rev]]
       ELSE reader' = Answer("degraded")
  /\ UNCHANGED <<fileVars, holders, writerVars>>

-----------------------------------------------------------------------------
\* The steps of a call that is in progress.
CallStep(c) == \/ AcquireLock(c) \/ LockTimeout(c)
               \/ Load(c) \/ ReadFails(c)
               \/ Write(c) \/ WriteFails(c) \/ Readback(c)
               \/ PublishShard(c) \/ PublishPointer(c) \/ PublishFails(c)
               \/ Prove(c) \/ Release(c) \/ Final(c)

Next == \/ \E c \in Writers : Begin(c) \/ BeginMissing(c) \/ CallStep(c) \/ Crash(c)
        \/ ReadSnapshot \/ ReadPointer \/ ReadShard

Spec == Init /\ [][Next]_vars

-----------------------------------------------------------------------------
\* Every change of the file is one whole accepted call applied to the content
\* of the moment: no concurrent write is lost or half applied, no revision is
\* skipped or used twice, and the state revision never goes back.
OpsOf(commits) == [i \in DOMAIN commits |-> commits[i].op]
Atomic == INSTANCE AtomicChange WITH
            rev    <- IF disk = None THEN 0 ELSE disk.rev,
            srev   <- IF disk = None THEN 0 ELSE disk.srev,
            items  <- IF disk = None THEN {} ELSE disk.items,
            recent <- IF disk = None THEN <<>> ELSE OpsOf(disk.commits)
ImplementsAtomicChange == Atomic!Spec

\* An operation identity that is still remembered was applied once, however
\* many sessions retry it concurrently.
AppliedOnce ==
  disk # None =>
    \A i, j \in DOMAIN disk.commits :
      disk.commits[i].op = disk.commits[j].op /\ disk.commits[i].op # NoOp => i = j

\* A call that names the revision it has observed writes only over that
\* revision, although it observed it before it had the lock.
CompareAndSet ==
  [][\A c \in Writers :
       /\ pc[c] = "write" /\ disk' # disk /\ disk' = mine[c]
       /\ expect[c] # NoRev
       => disk.rev = expect[c]]_vars

\* A populated collection is emptied only by a call that declares it.
NoSilentWipe ==
  [][disk # None /\ disk.items # {} /\ disk'.items = {}
     => \E c \in Writers : pc[c] = "write" /\ Declared(req[c])]_vars

\* Whatever crashed where, the pointer names a revision the change file has
\* reached, and the shard of that revision is there and is the one it names.
PointerSound ==
  pointer # None => /\ disk # None /\ pointer.rev <= disk.rev
                    /\ Named(pointer)

\* The identity of the call that wrote a snapshot.
LastOp(snap) == IF snap.commits = <<>> THEN CreateOp
                ELSE snap.commits[Len(snap.commits)].op

\* An "ok" of the unlocked reader is the summary of the very snapshot it read.
ReaderCoherent ==
  reader.pc = "ok" => reader.shard = Summary(reader.snap, LastOp(reader.snap))

\* "Command success is proven only after the readback confirms snapshot, shard
\* and pointer": when the wrapper reports an outcome, the published summary has
\* reached the revision the call committed.
Reports(c, outcome) == pc[c] = "final" /\ pc'[c] = "idle" /\ result'[c] = outcome
PublishedUpTo(rev) == pointer # None /\ pointer.rev >= rev

CommittedIsPublished ==
  [][\A c \in Writers :
       Reports(c, "committed") => PublishedUpTo(mine[c].rev)]_vars

\* The same of a call that finds itself recorded, for the revision its
\* operation was recorded at.
ReplayIsPublished ==
  [][\A c \in Writers :
       Reports(c, "idempotent")
       => \E e \in Recorded(mine[c], req[c]) : PublishedUpTo(e.rev)]_vars

\* Early returns, exceptions, failed reads and crashes all give the lock back:
\* it is held by the calls that are between its acquisition and their finally.
HeldWhileGuarded == holders = {c \in Writers : pc[c] \in Locked}
=============================================================================
