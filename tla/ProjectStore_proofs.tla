------------------------ MODULE ProjectStore_proofs -------------------------
(***************************************************************************)
(* ProjectStore for every set of transactions and of writers around them.  *)
(* "Concurrent disjoint writes survive" is violated when the two meet      *)
(* (MutationsSurvive); here is how far it goes: it holds wherever they do  *)
(* not overlap, an entry is lost only by the write of something stale, a   *)
(* decision taken under the lock goes stale only by a writer that ignores  *)
(* the lock, and the lock and the audit are sound whatever those do.       *)
(***************************************************************************)
EXTENDS ProjectStore, ChangeProjection_proofs

\* A bypassing call works on a snapshot that was once the change file.
RawKnown ==
  /\ raw \in [RawWriters -> [pc : {"idle", "save", "shard", "pointer"}, snap : Snapshot \cup {None}]]
  /\ \A w \in RawWriters : raw[w].pc # "idle" => raw[w].snap # None

\* What is about to be written is no refused mutation.
NoThrow == \A c \in Writers : pc[c] = "write" => req[c].kind # "throw"

StoreInv == Formed /\ RawKnown /\ NoThrow

\* An edit adds to what has been loaded.
LEMMA RawEditFacts ==
  ASSUME NEW old \in Snapshot, NEW snap \in RawEdits(old)
  PROVE  snap \in Snapshot /\ snap # None /\ old.items \subseteq snap.items /\ snap.commits = old.commits
<1>1. CASE snap = old
  BY <1>1, NoneAssumption
<1>2. ASSUME NEW i \in Items, snap = [old EXCEPT !.items = @ \cup {i}]
      PROVE  /\ snap \in Snapshot /\ old.items \subseteq snap.items
             /\ snap.commits = old.commits
  BY <1>2 DEF Snapshot
<1> QED
  BY <1>1, <1>2, NoneAssumption DEF RawEdits

\* What a bypassing call does to the change file, the calls and the lock.
LEMMA RawSteps ==
  ASSUME StoreInv, NEW w \in RawWriters,
         RawLoad(w) \/ RawSave(w) \/ RawPublishShard(w) \/ RawPublishPointer(w) \/ RawEnds(w)
  PROVE  /\ UNCHANGED <<holders, writerVars>> /\ RawKnown'
         /\ \/ disk' = disk
            \/ /\ raw[w].pc = "save" /\ raw[w].snap \in Snapshot
               /\ disk' \in RawEdits(raw[w].snap)
<1> USE DEF StoreInv, Formed, CallTypes, RawKnown, RawGoto, RawIdle
<1>1. CASE RawLoad(w)
  BY <1>1 DEF RawLoad, vars, writerVars
<1>2. CASE RawSave(w)
  <2>1. PICK snap \in RawEdits(raw[w].snap) : disk' = snap /\ RawGoto(w, "shard", snap)
    BY <1>2 DEF RawSave
  <2>2. raw[w].pc = "save" /\ raw[w].snap \in Snapshot
    BY <1>2, NoneAssumption DEF RawSave
  <2>3. snap \in Snapshot /\ snap # None
    BY <2>1, <2>2, RawEditFacts
  <2>4. RawKnown'
    BY <2>1, <2>3
  <2> QED
    BY <1>2, <2>1, <2>2, <2>4 DEF RawSave
<1>3. CASE RawPublishShard(w)
  BY <1>3 DEF RawPublishShard
<1>4. CASE RawPublishPointer(w)
  BY <1>4 DEF RawPublishPointer
<1>5. CASE RawEnds(w)
  BY <1>5 DEF RawEnds, vars, writerVars
<1> QED
  BY <1>1, <1>2, <1>3, <1>4, <1>5

\* A call that is about to write has just decided, or has been about to write.
LEMMA DecisionStep ==
  ASSUME Formed, [Next]_vars, NEW c \in Writers, pc'[c] = "write"
  PROVE  \/ /\ pc[c] = "write" /\ disk' = disk
            /\ req'[c] = req[c] /\ mine'[c] = mine[c]
         \/ /\ pc[c] = "load" /\ disk' = disk /\ req'[c] = req[c]
            /\ disk \in Snapshot /\ disk # None /\ req[c] \in Requests
            /\ Verdict(disk, req[c], expect[c]) = "write"
            /\ mine'[c] = Candidate(disk, req[c])
<1> USE DEF Formed, CallTypes, Goto, Forget, fileVars, writerVars
<1>1. ASSUME NEW d \in Writers, Load(d) PROVE d # c \/ pc[c] = "load"
  BY <1>1 DEF Load
<1>2. CASE Load(c)
  <2>1. disk \in Snapshot /\ disk # None /\ req[c] \in Requests
    BY <1>2 DEF Load, LockInv, CallsKnown
  <2>2. Verdict(disk, req[c], expect[c]) = "write"
    BY <1>2 DEF Load
  <2> QED
    BY <1>2, <2>1, <2>2 DEF Load
<1>3. ASSUME NEW d \in Writers, Load(d), d # c PROVE pc[c] = "write" /\ disk' = disk /\ req'[c] = req[c] /\ mine'[c] = mine[c]
  BY <1>3 DEF Load
<1>4. ASSUME NEW d \in Writers,
             Begin(d) \/ BeginMissing(d) \/ AcquireLock(d) \/ LockTimeout(d) \/ ReadFails(d) \/ Crash(d)
      PROVE  pc[c] = "write" /\ disk' = disk /\ req'[c] = req[c] /\ mine'[c] = mine[c]
  BY <1>4 DEF Begin, BeginMissing, AcquireLock, LockTimeout, ReadFails, Crash
<1>5. ASSUME NEW d \in Writers, Write(d) \/ WriteFails(d) PROVE FALSE
  <2>1. pc[d] = "write" /\ pc'[d] # "write" /\ (d # c => pc'[c] = pc[c])
    BY <1>5 DEF Write, WriteFails
  <2> QED
    BY <2>1 DEF LockInv, OneHolder, Locked
<1>6. ASSUME NEW d \in Writers,
             Readback(d) \/ PublishShard(d) \/ PublishPointer(d) \/ PublishFails(d) \/ Prove(d)
      PROVE  pc[c] = "write" /\ disk' = disk /\ req'[c] = req[c] /\ mine'[c] = mine[c]
  <2>1. pc[d] # "write" /\ pc[d] # "load" /\ pc'[d] # "write" /\ disk' = disk /\ req' = req
    BY <1>6 DEF Readback, PublishShard, PublishPointer, PublishFails, Prove
  <2>2. c # d
    BY <2>1
  <2> QED
    BY <1>6, <2>1, <2>2 DEF Readback, PublishShard, PublishPointer, PublishFails, Prove
<1>7. ASSUME NEW d \in Writers, Release(d) \/ Final(d)
      PROVE  pc[c] = "write" /\ disk' = disk /\ req'[c] = req[c] /\ mine'[c] = mine[c]
  BY <1>7 DEF Release, Final
<1>8. CASE UNCHANGED vars \/ ReadSnapshot \/ ReadPointer \/ ReadShard
  BY <1>8 DEF vars, ReadSnapshot, ReadPointer, ReadShard
<1> QED
  BY <1>1, <1>2, <1>3, <1>4, <1>5, <1>6, <1>7, <1>8 DEF Next, CallStep

LEMMA VerdictNoThrow ==
  ASSUME NEW snap, NEW q, NEW e, Verdict(snap, q, e) = "write"
  PROVE  q.kind # "throw" /\ Recorded(snap, q) = {}
BY DEF Verdict

\* The steps of the store, seen from the transactions.
LEMMA StoreStep ==
  ASSUME [StoreNext]_storeVars
  PROVE  \/ [Next]_vars /\ UNCHANGED raw
         \/ \E w \in RawWriters : RawLoad(w) \/ RawSave(w) \/ RawPublishShard(w)
                                  \/ RawPublishPointer(w) \/ RawEnds(w)
BY DEF StoreNext, storeVars

LEMMA StoreInvariant == StoreSpec => []StoreInv
<1>1. StoreInit => StoreInv
  <2> SUFFICES ASSUME StoreInit PROVE StoreInv
    OBVIOUS
  <2>1. Formed
    BY InitInvariant, FormedFromInv DEF StoreInit
  <2>2. RawKnown /\ NoThrow
    BY DEF StoreInit, RawKnown, RawIdle, NoThrow, Init
  <2> QED
    BY <2>1, <2>2 DEF StoreInv
<1>2. StoreInv /\ [StoreNext]_storeVars => StoreInv'
  <2> SUFFICES ASSUME StoreInv, [StoreNext]_storeVars PROVE StoreInv'
    OBVIOUS
  <2>1. CASE [Next]_vars /\ UNCHANGED raw
    <3>1. Formed'
      BY <2>1, CallTypesStep, LockStep, MineStep DEF StoreInv, Formed
    <3>2. NoThrow'
      BY <2>1, DecisionStep, VerdictNoThrow DEF StoreInv, NoThrow
    <3> QED
      BY <2>1, <3>1, <3>2 DEF StoreInv, RawKnown
  <2>2. ASSUME NEW w \in RawWriters,
               RawLoad(w) \/ RawSave(w) \/ RawPublishShard(w) \/ RawPublishPointer(w) \/ RawEnds(w)
        PROVE  StoreInv'
    <3>1. /\ UNCHANGED <<holders, writerVars>> /\ RawKnown'
          /\ disk' \in Snapshot \cup {None} /\ (disk # None => disk' # None)
      <4>1. CASE disk' = disk
        BY <2>2, <4>1, RawSteps DEF StoreInv, Formed, CallTypes
      <4>2. CASE disk' # disk
        <5>1. /\ UNCHANGED <<holders, writerVars>> /\ RawKnown'
              /\ raw[w].snap \in Snapshot /\ disk' \in RawEdits(raw[w].snap)
          BY <2>2, <4>2, RawSteps
        <5> QED
          BY <5>1, RawEditFacts
      <4> QED
        BY <4>1, <4>2
    <3>2. CallTypes' /\ LockInv' /\ MineKnown' /\ NoThrow'
      BY <3>1 DEF StoreInv, Formed, CallTypes, LockInv, HeldWhileGuarded, OneHolder, CallsKnown,
         OnlySummaryCalls, MineKnown, NoThrow, writerVars
    <3> QED
      BY <3>1, <3>2 DEF StoreInv, Formed
  <2> QED
    BY <2>1, <2>2, StoreStep
<1> QED
  BY <1>1, <1>2, PTL DEF StoreSpec

\* The change file changes by the write of a call inside the lock, or by a raw save.
LEMMA StoreWrites ==
  ASSUME StoreInv, [StoreNext]_storeVars, disk' # disk
  PROVE  \/ \E c \in Writers : pc[c] = "write" /\ req[c].kind \in {"add", "clear"} /\ disk' = mine[c]
         \/ \E w \in RawWriters : /\ raw[w].pc = "save" /\ raw[w].snap \in Snapshot
                                  /\ disk' \in RawEdits(raw[w].snap)
<1>1. CASE [Next]_vars
  <2>1. PICK c \in Writers : pc[c] = "write" /\ disk' = mine[c]
    BY <1>1 DEF Next, CallStep, vars, fileVars, Begin, BeginMissing, AcquireLock, LockTimeout,
         Load, ReadFails, Write, WriteFails, Readback, PublishShard, PublishPointer,
         PublishFails, Prove, Release, Final, Crash, ReadSnapshot, ReadPointer, ReadShard
  <2>2. req[c] \in Request /\ req[c].kind # "throw"
    BY <2>1, RequestsAssumption DEF StoreInv, Formed, LockInv, CallsKnown, NoThrow
  <2> QED
    BY <2>1, <2>2 DEF Request
<1>2. ASSUME NEW w \in RawWriters,
             RawLoad(w) \/ RawSave(w) \/ RawPublishShard(w) \/ RawPublishPointer(w) \/ RawEnds(w)
      PROVE  raw[w].pc = "save" /\ raw[w].snap \in Snapshot /\ disk' \in RawEdits(raw[w].snap)
  BY <1>2, RawSteps
<1> QED
  BY <1>1, <1>2, StoreStep

\* The write of a view of the change file that is no longer the file: a raw save of an
\* older snapshot, or a call that has decided on another content.
StaleWrite ==
  \/ \E w \in RawWriters :
       raw[w].pc = "save" /\ raw[w].snap # disk /\ disk' \in RawEdits(raw[w].snap)
  \/ \E c \in Writers :
       pc[c] = "write" /\ mine[c] # Candidate(disk, req[c]) /\ disk' = mine[c]
Cleared == \E c \in Writers : pc[c] = "write" /\ req[c].kind = "clear" /\ disk' = mine[c]

LEMMA LossStep ==
  ASSUME StoreInv, [StoreNext]_storeVars, disk # None, NEW i \in disk.items, i \notin disk'.items
  PROVE  Cleared \/ StaleWrite
<1>1. disk' # disk
  OBVIOUS
<1>2. ASSUME NEW c \in Writers, pc[c] = "write", req[c].kind = "add", disk' = mine[c],
             mine[c] = Candidate(disk, req[c])
      PROVE  FALSE
  BY <1>2 DEF Candidate, Mutated
<1>3. ASSUME NEW w \in RawWriters, raw[w].snap \in Snapshot, disk' \in RawEdits(raw[w].snap),
             raw[w].snap = disk
      PROVE  FALSE
  BY <1>3, RawEditFacts
<1> QED
  BY <1>1, <1>2, <1>3, StoreWrites DEF Cleared, StaleWrite

\* An entry that some writer has put into the change file and no call asked to clear is
\* lost only by the write of something stale: neither a crash, nor a refused or failed
\* call, nor a raw save of the current file loses one.
THEOREM LossesAreStaleWrites ==
  StoreSpec => [][ disk # None => \A i \in disk.items \ disk'.items : Cleared \/ StaleWrite ]_storeVars
<1>1. StoreInv /\ [StoreNext]_storeVars
      => [disk # None => \A i \in disk.items \ disk'.items : Cleared \/ StaleWrite]_storeVars
  BY LossStep
<1> QED
  BY <1>1, StoreInvariant, PTL DEF StoreSpec

\* What a call has decided under the lock of the change is still right when it writes,
\* unless a raw save came between: no other transaction, crash or reader makes it stale.
THEOREM DecisionsGoStaleByRawSaves ==
  StoreSpec => [][ \A c \in Writers :
                     (pc'[c] = "write" /\ mine'[c] # Candidate(disk', req'[c]))
                     => \/ pc[c] = "write" /\ mine[c] # Candidate(disk, req[c])
                        \/ \E w \in RawWriters : raw[w].pc = "save" /\ disk' # disk ]_storeVars
<1> DEFINE Right == \A c \in Writers :
                      (pc'[c] = "write" /\ mine'[c] # Candidate(disk', req'[c]))
                      => \/ pc[c] = "write" /\ mine[c] # Candidate(disk, req[c])
                         \/ \E w \in RawWriters : raw[w].pc = "save" /\ disk' # disk
<1>1. StoreInv /\ [StoreNext]_storeVars => [Right]_storeVars
  <2> SUFFICES ASSUME StoreInv, [StoreNext]_storeVars, NEW c \in Writers,
                      pc'[c] = "write", mine'[c] # Candidate(disk', req'[c])
               PROVE  \/ pc[c] = "write" /\ mine[c] # Candidate(disk, req[c])
                      \/ \E w \in RawWriters : raw[w].pc = "save" /\ disk' # disk
    OBVIOUS
  <2>1. CASE [Next]_vars
    BY <2>1, DecisionStep DEF StoreInv
  <2>2. ASSUME NEW w \in RawWriters,
               RawLoad(w) \/ RawSave(w) \/ RawPublishShard(w) \/ RawPublishPointer(w) \/ RawEnds(w)
        PROVE  \/ pc[c] = "write" /\ mine[c] # Candidate(disk, req[c])
               \/ raw[w].pc = "save" /\ disk' # disk
    BY <2>2, RawSteps DEF writerVars
  <2> QED
    BY <2>1, <2>2, StoreStep
<1> QED
  BY <1>1, StoreInvariant, PTL DEF StoreSpec

\* No raw save is under way on another content than the file's, or while a call is about
\* to write: the two kinds of writers do not meet.
Apart == \A w \in RawWriters :
           raw[w].pc = "save" => raw[w].snap = disk /\ \A c \in Writers : pc[c] # "write"
DecisionsRight == \A c \in Writers : pc[c] = "write" => mine[c] = Candidate(disk, req[c])

LEMMA ApartStep ==
  ASSUME StoreInv, DecisionsRight, Apart, [StoreNext]_storeVars PROVE DecisionsRight'
<1> SUFFICES ASSUME NEW c \in Writers, pc'[c] = "write" PROVE mine'[c] = Candidate(disk', req'[c])
  BY DEF DecisionsRight
<1>1. CASE [Next]_vars
  BY <1>1, DecisionStep DEF StoreInv, DecisionsRight
<1>2. ASSUME NEW w \in RawWriters,
             RawLoad(w) \/ RawSave(w) \/ RawPublishShard(w) \/ RawPublishPointer(w) \/ RawEnds(w)
      PROVE  mine'[c] = Candidate(disk', req'[c])
  <2>1. UNCHANGED <<pc, req, mine>> /\ (disk' = disk \/ raw[w].pc = "save")
    BY <1>2, RawSteps DEF writerVars
  <2> QED
    BY <2>1 DEF Apart, DecisionsRight
<1> QED
  BY <1>1, <1>2, StoreStep

\* "All recovery and mutation writers route through here so concurrent disjoint writes
\* survive" is so exactly as far as they do: it holds of every behaviour in which no raw
\* save meets another writer between its load and its write.
THEOREM UpdatesSurviveApart == StoreSpec /\ []Apart => MutationsSurvive
<1> DEFINE Survive == disk # None =>
                        \A i \in disk.items \ disk'.items :
                          \E c \in Writers : pc[c] = "write" /\ req[c].kind = "clear"
<1>1. StoreInit => DecisionsRight
  BY DEF StoreInit, Init, DecisionsRight
<1>2. StoreInv /\ DecisionsRight /\ Apart /\ [StoreNext]_storeVars => DecisionsRight'
  BY ApartStep
<1>3. StoreInv /\ DecisionsRight /\ Apart /\ [StoreNext]_storeVars => [Survive]_storeVars
  BY LossStep DEF Cleared, StaleWrite, Apart, DecisionsRight
<1> QED
  BY <1>1, <1>2, <1>3, StoreInvariant, PTL DEF StoreSpec, MutationsSurvive

\* With no writer that goes around it the store is the transaction alone, with all that
\* ChangeProjection_proofs proves of it, and every update survives.
THEOREM WithoutRawWriters == RawWriters = {} => (StoreSpec => Spec /\ MutationsSurvive)
<1> SUFFICES ASSUME RawWriters = {} PROVE StoreSpec => Spec /\ MutationsSurvive
  OBVIOUS
<1>1. StoreInit => Init
  BY DEF StoreInit
<1>2. [StoreNext]_storeVars => [Next]_vars
  BY DEF StoreNext, storeVars
<1>3. Apart
  BY DEF Apart
<1> QED
  BY <1>1, <1>2, <1>3, UpdatesSurviveApart, PTL DEF StoreSpec, Spec

-----------------------------------------------------------------------------
\* What no raw writer breaks.

\* Whatever raw writers do, the calls of the transaction exclude each other and give
\* their lock back.
THEOREM StoreLockGivenBack == StoreSpec => [](HeldWhileGuarded /\ OneHolder)
<1>1. StoreInv => HeldWhileGuarded /\ OneHolder
  BY DEF StoreInv, Formed, LockInv
<1> QED
  BY <1>1, StoreInvariant, PTL

\* Every content in use, the file's, a call's or a raw writer's, names no operation twice.
OnceEverywhere ==
  /\ disk # None => Once(disk)
  /\ \A c \in Writers : pc[c] = "write" => Once(mine[c])
  /\ \A w \in RawWriters : raw[w].pc = "save" => Once(raw[w].snap)

LEMMA OnceStep ==
  ASSUME StoreInv, OnceEverywhere, [StoreNext]_storeVars PROVE OnceEverywhere'
<1>1. disk' # None => Once(disk')
  <2>1. ASSUME NEW old \in Snapshot, NEW snap \in RawEdits(old), Once(old) PROVE Once(snap)
    BY <2>1, RawEditFacts DEF Once
  <2> QED
    BY <2>1, StoreWrites DEF OnceEverywhere
<1>2. ASSUME NEW c \in Writers, pc'[c] = "write" PROVE Once(mine'[c])
  <2>1. CASE [Next]_vars
    <3>1. CASE pc[c] = "write" /\ mine'[c] = mine[c]
      BY <3>1 DEF OnceEverywhere
    <3>2. CASE /\ disk \in Snapshot /\ disk # None /\ req[c] \in Requests
               /\ Verdict(disk, req[c], expect[c]) = "write"
               /\ mine'[c] = Candidate(disk, req[c])
      <4>1. Once(disk) /\ Recorded(disk, req[c]) = {}
        BY <3>2, VerdictNoThrow DEF OnceEverywhere
      <4> QED
        BY <3>2, <4>1, CandidateOnce
    <3> QED
      BY <1>2, <2>1, <3>1, <3>2, DecisionStep DEF StoreInv
  <2>2. ASSUME NEW w \in RawWriters,
               RawLoad(w) \/ RawSave(w) \/ RawPublishShard(w) \/ RawPublishPointer(w) \/ RawEnds(w)
        PROVE  UNCHANGED <<pc, mine>>
    BY <2>2, RawSteps DEF writerVars
  <2> QED
    BY <1>2, <2>1, <2>2, StoreStep DEF OnceEverywhere
<1>3. ASSUME NEW w \in RawWriters, raw'[w].pc = "save" PROVE Once(raw'[w].snap)
  <2>1. CASE raw'[w] = raw[w]
    BY <1>3, <2>1 DEF OnceEverywhere
  <2>2. ASSUME NEW v \in RawWriters, RawLoad(v) PROVE raw'[w] = raw[w] \/ (raw'[w].snap = disk /\ disk # None)
    BY <2>2 DEF RawLoad, RawGoto, StoreInv, RawKnown
  <2>3. ASSUME NEW v \in RawWriters,
               RawSave(v) \/ RawPublishShard(v) \/ RawPublishPointer(v) \/ RawEnds(v)
        PROVE  raw'[w] = raw[w]
    BY <1>3, <2>3 DEF RawSave, RawPublishShard, RawPublishPointer, RawEnds, RawGoto, RawIdle,
         StoreInv, RawKnown
  <2> QED
    BY <2>1, <2>2, <2>3, StoreStep DEF OnceEverywhere
<1> QED
  BY <1>1, <1>2, <1>3 DEF OnceEverywhere

\* A remembered identity stands for one application of its operation, raw writers or not:
\* they may take an update and its audit entry back together, never leave it twice.
THEOREM AuditSoundBesideRawWriters == StoreSpec => []AppliedOnce
<1>1. StoreInit => OnceEverywhere
  BY DEF StoreInit, Init, OnceEverywhere, Once, Created, RawIdle
<1>2. StoreInv /\ OnceEverywhere /\ [StoreNext]_storeVars => OnceEverywhere'
  BY OnceStep
<1>3. OnceEverywhere => AppliedOnce
  BY DEF OnceEverywhere, AppliedOnce, Once
<1> QED
  BY <1>1, <1>2, <1>3, StoreInvariant, PTL DEF StoreSpec
=============================================================================
